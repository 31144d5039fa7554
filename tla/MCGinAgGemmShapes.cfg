SPECIFICATION MCSafe
CONSTANTS
    NNodes = 2
    NLocal = 2
    NBlocks = 1
    Chunks = 1
    ChunkM = 1
    TileM = 4
    NSMs = 1
    MaxForwards = 2
INVARIANTS
    WindowsAndSignalsKept
CHECK_DEADLOCK FALSE
