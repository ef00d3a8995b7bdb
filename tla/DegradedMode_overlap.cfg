SPECIFICATION Spec
CONSTANTS
    n1 = n1
    k1 = k1
    k2 = k2
    Other = Other
    Nodes = {n1}
    Keys = {k1,k2}
    Paths = {"recovery", "locked"}
    MaxCacheSize = 1
    MaxPendingWrites = 2
    MaxVersion = 3
    MaxEpoch = 0
    Env = {"db", "cache"}
CHECK_DEADLOCK FALSE
INVARIANT TypeOK
INVARIANT DegradedWhileImpaired
INVARIANT MemoryBounded
PROPERTY NoSilentLoss
