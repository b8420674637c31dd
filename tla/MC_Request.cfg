SPECIFICATION Spec
CONSTANTS
    WordCells = 2
    AddrCells = 1
    Contracts <- MCContracts
    Storage <- MCStorage
    Programs <- MCAll
    CostOnly <- MCCosts
    Altered <- MCOthersLive
    MaxStackSize = 6
    MaxUniqueProofs = 7
    MaxAllocBytes = 64
    MaxSuppliedBytes = 64
    MaxEvalDepth = 3
    NumMax = 200
    IntBits = 8
    MaxBits = 200
    OrderIds = 256
    RequireTargetBeforeSlot = TRUE
    Unproven <- MCUnproven
    MAX_STACK = 16
    RequestsV1 <- MCV1
    MaxConsts = 8
    CommandSize = 5
INVARIANTS
    Accepted
    SameAnswer
    OrderExhausted
    RawBits
    BudgetExact
    RefusedForCost
    NeverStuck
    MeansTheSame
