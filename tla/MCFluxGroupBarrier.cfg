SPECIFICATION GSpec
CONSTANTS
    Ranks = {r1, r2, r3}
    MaxCalls = 2
    CallerSyncs = TRUE
INVARIANTS
    GTypeOK
    FlagsCountAfterSetup
    BarrierSafety
PROPERTIES
    ImplementsBarrier
    EveryCallReturns
CHECK_DEADLOCK FALSE
