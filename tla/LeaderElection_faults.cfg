SPECIFICATION Spec
CONSTANTS
    n1 = n1
    n2 = n2
    Node = {n1, n2}
    Interval = 1
    TTL = 2
    MaxInterval = 2
    Grace = 0
    Env = {"stall", "redis_error", "crash", "janitor", "stop", "cancel", "flush"}
    MaxEpoch = 2
SYMMETRY Symmetry
INVARIANT TypeOK
INVARIANT SingleLeaderUndisturbed
PROPERTY FencingMonotonic
PROPERTY LeaseRemovalJustified
