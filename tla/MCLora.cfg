\* The radio app with every kind of input, fault and restart.
SPECIFICATION Spec
CONSTANTS
    LINK_LOSS_THRESHOLD = 2
    LINK_TIMEOUT = 7
    REOPEN_BACKOFF = 3
    NoAckLimit = 2
    WAYPOINTS_PER_PAGE = 2
    ROUTE_MAX_WAYPOINTS = 3
    RouteCounts = {0, 4}
    MsgLimit = 2
    Answers = {"ROUTED", "REJECT_STATE"}
    PreviousNumbers = {0, 2}
    MaxWaiting = 1
    MaxInputs = 4
INVARIANTS
    FeedbackIsTrue
    SilenceIsNoticed
    LossIsReported
    EveryWaypointOnce
PROPERTY DegradedBeforeLost
