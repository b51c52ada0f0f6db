\* The survival mark under the fairness the main loop gives: messages that keep
\* coming keep the session from being marked.
SPECIFICATION LoopSpec
CONSTANTS
    Threshold = 3
    StreakCap = 4
    BootMod = 5
    SurviveTicks = 2
    SaveResults = {TRUE}
    MaxBoots = 3
PROPERTY SurvivalMarked
