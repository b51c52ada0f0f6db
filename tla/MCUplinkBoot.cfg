\* Boot accounting over eight boots, a loop being three short ones.
SPECIFICATION Spec
CONSTANTS
    Threshold = 3
    StreakCap = 4
    BootMod = 5
    SurviveTicks = 2
    SaveResults = {TRUE, FALSE}
    MaxBoots = 8
INVARIANT StreakIsTrue
