CONSTANTS
    Settings <- MCSettings
SPECIFICATION Spec
CHECK_DEADLOCK FALSE
INVARIANTS
    AcceptedAsPromised
    AcceptedIsRecent
    HonestAccepted
    UsableIsFetched
    ServesNewest
    SyncedAsOnChain
PROPERTIES
    LatestIsLatest
    ParentIsNext
