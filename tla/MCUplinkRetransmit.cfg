SPECIFICATION Spec
CONSTANTS
    Half = 3
    CounterMod = 2
    HealthStates = {0}
    Templates <- ResetTemplates
    MaxDelay = 3
    MaxSent = 2
    MaxHandled = 2
    MaxExecuted = 2
INVARIANT RetransmissionIsDuplicate
