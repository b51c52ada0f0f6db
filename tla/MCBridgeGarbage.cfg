\* Bytes that are no frame, and nothing else.
SPECIFICATION Spec
CONSTANTS
    STALE_TIMEOUT = 2
    RECONNECT_INTERVAL = 1
    Traffic = {}
    NoiseBytes = {0}
    MaxGap = 1
    MaxEvents = 3
INVARIANTS
    GarbageIsNoticed
CHECK_DEADLOCK FALSE
