\* The return to NOMINAL after the bridge was restarted.
SPECIFICATION Spec
CONSTANTS
    Feeds = {"ekf"}
    Apps <- OneApp
    Present = {"bridge"}
    Timeout <- OneTick
    Interval = 3
    Escalation = 9
    Stability = 2
    PublishPeriod = 1
    TimeMod = 100
    Start = 1
    LastTick = 12
    Kinds = {"good"}
    SaveResults = {TRUE}
    MaxAhead = 5
    CountCap = 0
INVARIANT HealthReturnsInTime
