SPECIFICATION MCSafe
CONSTANTS
    Configs <- TheConfigs
    MaxForwards = 2
INVARIANTS
    SumsExact
    NeverStuck
    GathersAreSound
CHECK_DEADLOCK FALSE
