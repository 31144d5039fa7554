SPECIFICATION MCSpec
CONSTANTS
    NNodes = 1
    NLocal = 2
    TilesPerRank = 2
    Grid = 3
    Sms = 2
    Fuse = TRUE
    Sync = "launch"
    GrowAt = {1}
    FreshFlags = {0}
    MaxForwards = 2
INVARIANTS
    TypeOK
    SumsCurrent
    FlagsDrained
PROPERTIES
    ForwardsEnd
    ImplementsNodeReduce
CHECK_DEADLOCK FALSE
