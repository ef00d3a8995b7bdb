SPECIFICATION FairSpec
CONSTANTS
    n1 = n1
    n2 = n2
    Node = {n1, n2}
    Interval = 1
    TTL = 2
    MaxInterval = 2
    Grace = 0
    Env = {"stall", "redis_error", "crash", "janitor"}
    MaxEpoch = 2
INVARIANT UniqueTerms
PROPERTY ImplementsLeadership
PROPERTY DeposedStepsDown
PROPERTY AbandonedLeaseExpires
