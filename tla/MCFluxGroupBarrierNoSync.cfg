SPECIFICATION GSpec
CONSTANTS
    Ranks = {r1, r2}
    MaxCalls = 1
    CallerSyncs = FALSE
PROPERTIES
    EveryCallReturns
CHECK_DEADLOCK FALSE
