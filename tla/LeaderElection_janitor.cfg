SPECIFICATION Spec
CONSTANTS
    n1 = n1
    n2 = n2
    Node = {n1, n2}
    Interval = 1
    TTL = 3
    MaxInterval = 4
    Grace = 0
    Env = {"janitor"}
    MaxEpoch = 4
INVARIANT SingleLeader
