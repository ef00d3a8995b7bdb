SPECIFICATION FairSpec
CONSTANTS
    r1 = r1
    r2 = r2
    r3 = r3
    Wrapped = {r1, r2}
    TwoPhase = {r2, r3}
    Env = {"redis_error", "disconnect", "expiry", "crash"}
INVARIANT TypeOK
INVARIANT RepeatNotRerun
INVARIANT AnswerIsTrue
PROPERTY RequestsEnd
CHECK_DEADLOCK FALSE
