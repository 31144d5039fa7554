SPECIFICATION Spec
CONSTANTS
    NNodes = 2
    NLocal = 1
    NBlocks = 2
    Chunks = 2
    ChunkM = 2
    TileM = 5
    NSMs = 2
    MaxForwards = 2
INVARIANTS
    TilesReadCurrent
    ResidentBeforeGemm
    ReadyMeansCurrent
    PutsStayInForward
    NoLeftoverSignal
PROPERTIES
    ForwardsAreBarrier
    AllForwardsComplete
CHECK_DEADLOCK FALSE
