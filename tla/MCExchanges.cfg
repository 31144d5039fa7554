SPECIFICATION MCSpec
CONSTANTS
    Ranks = {r1, r2}
    ModValue = 4
    StoresByThreads = TRUE
    MaxCalls = 5
INVARIANTS
    TeamResultsExact
    NobodyStuck
    OutputsCurrent
    NoSignalOverrun
PROPERTIES
    CallsAreBarrier
    ExchangesComplete
CHECK_DEADLOCK FALSE
