SPECIFICATION Spec
CONSTANTS
    Window = 4
    Prewarm = 1
    MaxTries = 2
    Late = 1
    MaxBack = 2
    MaxTicks = 16
INVARIANTS OneWorkerPerMarket NoMarketSkipped
PROPERTIES ShutdownCompletes
CHECK_DEADLOCK FALSE
