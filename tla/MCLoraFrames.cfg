\* Commands in both formats, one fault; numbers small enough to wrap.
SPECIFICATION Spec
CONSTANTS
    LINE_BUF_LEN = 16
    MAX_PAYLOAD = 4
    U16 = 2
    U32 = 4
    I16_MAX = 7
    Traffic <- MCTraffic
    Positions <- MCPositions
    NoiseBytes = {0, 178}
    MaxEvents = 1
INVARIANTS
    TypeOK
    ForwardedWereSent
    CleanLineDelivers
    SeqFailIsReal
PROPERTIES
    PositionIsHonest
    NoiseIsOvercome
