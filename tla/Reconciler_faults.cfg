SPECIFICATION FairSpec
CONSTANTS
    s1 = s1
    a1 = a1
    r1 = r1
    r2 = r2
    State = {s1}
    Agent = {a1}
    NodeOf <- OneNode
    Run = {r1, r2}
    MaxSpec = 2
    Versions = {0, 1}
    Env = {"cancel", "timeout", "lossy", "drift", "shadow", "store_error"}
INVARIANT TypeOK
INVARIANT LockExclusive
INVARIANT CompliantVerified
INVARIANT SettledOnReturn
PROPERTY RunsEnd
CHECK_DEADLOCK FALSE
