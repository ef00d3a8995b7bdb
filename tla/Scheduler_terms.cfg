SPECIFICATION Spec
CONSTANTS
    s1 = s1
    a1 = a1
    r1 = r1
    State = {s1}
    Agent = {a1}
    NodeOf <- OneNode
    Shard = {s1}
    Request = {r1}
    Budget = 1
    MaxConcurrency = 1
    QueueCap = 2
    Env = {"stall", "list_error", "throttle", "register", "control", "store", "crash"}
    MaxTerm = 2
    MaxChanges = 1
    QueueThreshold = 2
    TestLimit = 1
INVARIANT TypeOK
INVARIANT BudgetRespected
INVARIANT NoDuplicates
CHECK_DEADLOCK FALSE
