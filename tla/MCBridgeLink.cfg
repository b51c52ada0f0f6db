\* Every kind of frame, one fault, command or restart.
SPECIFICATION Spec
CONSTANTS
    STALE_TIMEOUT = 2
    RECONNECT_INTERVAL = 2
    Traffic <- MCTraffic
    NoiseBytes = {0, 253}
    MaxGap = 0
    MaxEvents = 1
INVARIANTS
    TypeOK
    NothingInvented
    OnlySentPasses
    LastFrameShown
    SilenceIsNoticed
CHECK_DEADLOCK FALSE
