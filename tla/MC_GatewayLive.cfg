CONSTANTS
    Caller = {c1, c2}
    First = 8
    Last = 9
    Settings <- MCLive
    MaxTrouble = 1
SPECIFICATION FairSpec
CHECK_DEADLOCK FALSE
PROPERTIES
    Finishes
