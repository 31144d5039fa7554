SPECIFICATION Spec
CONSTANTS
    NNodes = 2
    NLocal = 2
    NBlocks = 1
    TilesPerRank = 1
    ChunkTiles = 1
    NSMs = 2
    MaxForwards = 2
INVARIANTS
    TypeOK
    OutputsCurrent
    GemmsDoNotOverlap
    NoLeftoverSignal
PROPERTIES
    ForwardsEnd
    ForwardsAreBarrier
CHECK_DEADLOCK FALSE
