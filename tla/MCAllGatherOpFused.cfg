SPECIFICATION Safe
CONSTANTS
    WorldSize = 2
    NumaSize = 1
    Options <- FusedPullOptions
    TilesInOrder = FALSE
    MaxForwards = 2
INVARIANTS
    TilesReadCurrent
CHECK_DEADLOCK FALSE
