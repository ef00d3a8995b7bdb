SPECIFICATION FairSpec
CONSTANTS
    s1 = s1
    a1 = a1
    r1 = r1
    State = {s1}
    Agent = {a1}
    NodeOf <- OneNode
    Shard = {s1}
    Request = {r1}
    Budget = 1
    MaxConcurrency = 10
    QueueCap = 2
    Env = {"throttle", "crash"}
    MaxTerm = 2
    MaxChanges = 0
    QueueThreshold = 2
    TestLimit = 1
PROPERTY DeposedTermEnds
PROPERTY AcceptedTaskRuns
PROPERTY LeftoverStateRuns
CHECK_DEADLOCK FALSE
