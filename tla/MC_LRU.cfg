CONSTANTS
    Key = {k1, k2, k3}
    NoKey = NoKey
    Write = {w1, w2, w3, w4, w5}
    NoWrite = NoWrite
    Maxes = {0, 1, 2}
SYMMETRY LRUSymmetry
SPECIFICATION Spec
INVARIANTS
    Bounded
    NoStaleValue
    PendingIsLive
    OrderIsRecency
PROPERTY IsLossyCache
