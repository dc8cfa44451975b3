CONSTANTS
    NbCore = 2
    Failures = {512, 1024, 2048, 4096}
    MayThrow = TRUE
    SelfKill = TRUE
    Signals = {1, 15}
    MaxSignals = 3
SPECIFICATION EngineSpec
INVARIANTS AllInitialisedBeforeAnyRuns
PROPERTIES BarrierOpens StopEnds
CHECK_DEADLOCK FALSE
