SPECIFICATION FairSpec
CONSTANTS
    n1 = n1
    k2 = k2
    k1 = k1
    Other = Other
    Nodes = {n1}
    Keys = {k1}
    Paths = {"periodic"}
    MaxCacheSize = 1
    MaxPendingWrites = 3
    MaxVersion = 3
    MaxEpoch = 1
    Env = {"outage", "others", "ttl", "aging"}
CHECK_DEADLOCK FALSE
INVARIANT SuccessIsSynced
PROPERTY StoreNeverRegresses
PROPERTY Drains
