SPECIFICATION MCSpec
CONSTANTS
    RingSize = 4
    RingCalls = 3
    WorldSize = 2
    NumaSize = 2
    Options <- PairOptions
    TilesInOrder = FALSE
    MaxForwards = 2
INVARIANTS
    RingFlagCountsRaises
    TilesReadCurrent
    ReadyMeansCurrent
PROPERTIES
    RingImplementsBarrier
    RingEveryCallReturns
    ForwardsAreBarrier
    GatherCompletes
CHECK_DEADLOCK FALSE
