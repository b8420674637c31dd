CONSTANTS
    Call = {c1, c2}
    None = None
    full = full
    empty = empty
    eoa = eoa
    s1 = s1
    s2 = s2
    Asks <- MCAsks
    Full = {full}
    Empty = {empty}
    Eoa = {eoa}
    CodeHash = codehash
    Slot = {s1, s2}
    Settings <- MCSettings
    MaxTrouble = 1
SPECIFICATION Spec
CHECK_DEADLOCK FALSE
INVARIANTS
    AnswersTheQuestion
    KeepsItsProof
    FetchedOnce
    FailureForgotten
    FailsForCause
PROPERTIES
    EveryCallEnds
