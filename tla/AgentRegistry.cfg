SPECIFICATION FairSpec
CONSTANTS
    c1 = c1
    c2 = c2
    m1 = m1
    a1 = a1
    a2 = a2
    Call = {c1, c2}
    Monitor = {m1}
    Addr = {a1, a2}
    Threshold = 1
    MaxAge = 3
    MaxErrors = 1
    Env = {"stall", "silence"}
INVARIANT TypeOK
INVARIANT OfflineNeedsSilence
INVARIANT OfflineIsStale
INVARIANT RegistrationKept
PROPERTY SilentGoesOffline
PROPERTY AliveIsShown
CHECK_DEADLOCK FALSE
