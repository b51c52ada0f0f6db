\* Restarts: two apps, every estimate missing, failed saves, nine ticks.
SPECIFICATION Spec
CONSTANTS
    Feeds = {"ekf"}
    Apps <- TwoApps
    Present = {"bridge", "uplink"}
    Timeout <- OneTick
    Interval = 3
    Escalation = 1
    Stability = 1
    PublishPeriod = 1
    TimeMod = 100
    Start = 1
    LastTick = 9
    Kinds = {}
    SaveResults = {TRUE, FALSE}
    MaxAhead = 0
    CountCap = 3
INVARIANT RestartNotStarved
PROPERTY RestartCooldown
