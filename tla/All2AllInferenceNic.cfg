SPECIFICATION Spec
CONSTANTS
    Ranks = {r1, r2}
    ModValue = 4
    StoresByThreads = FALSE
    MaxCalls = 2
INVARIANTS
    OutputsCurrent
CHECK_DEADLOCK FALSE
