CONSTANTS
    Caller = {c1, c2}
    First = 6
    Last = 7
    Settings <- MCSettings
    MaxTrouble = 2
SPECIFICATION Spec
CHECK_DEADLOCK FALSE
SYMMETRY Symmetry
INVARIANTS
    AnsweredAsAsked
    TooOldIsTooOld
    NoOutdatedCommit
    OneEvaluation
