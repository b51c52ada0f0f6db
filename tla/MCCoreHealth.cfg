\* Health: two apps and one estimate, crashes of cfs_core_app and
\* restarts of the bridge, seven ticks.
SPECIFICATION Spec
CONSTANTS
    Feeds = {"ekf"}
    Apps <- TwoApps
    Present = {"bridge", "uplink"}
    Timeout <- OneTick
    Interval = 3
    Escalation = 3
    Stability = 2
    PublishPeriod = 1
    TimeMod = 100
    Start = 1
    LastTick = 7
    Kinds = {"good", "nonfinite"}
    SaveResults = {TRUE}
    MaxAhead = 2
    CountCap = 0
INVARIANTS
    NominalIsEarned
    FailedIsEscalated
    HealthReturns
