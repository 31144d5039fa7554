SPECIFICATION Safe
CONSTANTS
    NNodes = 1
    NLocal = 2
    TilesPerRank = 1
    Grid = 1
    Sms = 1
    Fuse = TRUE
    Sync = "none"
    GrowAt = {1}
    FreshFlags = {0}
    MaxForwards = 2
INVARIANTS
    SumsCurrent
CHECK_DEADLOCK FALSE
