SPECIFICATION Spec
CONSTANTS
    WordCells = 2
    AddrCells = 1
    Contracts <- MCContracts
    Storage <- MCStorage
    Programs <- MCFailedInLoop
    CostOnly = {}
    Altered = {}
    MaxStackSize = 6
    MaxUniqueProofs = 8
    MaxAllocBytes = 64
    MaxSuppliedBytes = 64
    MaxEvalDepth = 3
    NumMax = 200
    IntBits = 20
    MaxBits = 200
    OrderIds = 256
    RequireTargetBeforeSlot = TRUE
    Unproven <- MCUnproven
    MAX_STACK = 16
    RequestsV1 = {}
    MaxConsts = 8
    CommandSize = 5
INVARIANTS
    SameAnswer
CHECK_DEADLOCK FALSE
