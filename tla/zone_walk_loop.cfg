SPECIFICATION ZoneSpec
CONSTANTS
    MaxZone = 2
    Delegated = {1}
    Addresses = 1
    NameLimits = {5}
    MaxWalks = 2
    MaxEdits = 1
INVARIANTS
    WalkComplete
CHECK_DEADLOCK FALSE
