CONSTANTS
    Settings <- MCGames
SPECIFICATION Spec
CHECK_DEADLOCK FALSE
PROPERTIES
    LatestIsLatest
