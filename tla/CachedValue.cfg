CONSTANTS
    Promise = {p1, p2, p3}
    NoPromise = NoPromise
    TTLs = {0, 2}
    ErrorMs = 1
    MaxTime = 3
SPECIFICATION FairSpec
INVARIANTS
    ObserverExact
    LifetimeHonest
PROPERTIES
    PendingEnds
CHECK_DEADLOCK FALSE
