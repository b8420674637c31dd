SPECIFICATION Spec
CONSTANTS
    Key = {k1, k2, k3}
    Promise = {p1, p2, p3}
    None = None
    TTLs = {0, 3, 20}
    ErrorMs = 1
    SlopMs = 1
    MaxCached = 2
    Infinity = 20
    MaxTime = 2
SYMMETRY Symmetry
INVARIANTS
    Bounded
    PendingIsLive
    LifetimeHonest
    TimerCovers
PROPERTIES
    IsLossyCache
CHECK_DEADLOCK FALSE
