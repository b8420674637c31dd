CONSTANTS
    Caller = {c1, c2}
    First = 8
    Last = 10
    Settings <- MCDeep
    MaxTrouble = 1
SPECIFICATION Spec
CHECK_DEADLOCK FALSE
SYMMETRY Symmetry
PROPERTIES
    PurgesOldest
