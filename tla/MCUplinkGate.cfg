\* Every class and level of command, well formed and malformed, in three states of health;
\* counters modulo 2 so that they wrap.
SPECIFICATION Spec
CONSTANTS
    Half = 2
    CounterMod = 2
    HealthStates = {0, 1, 3}
    Templates <- GateTemplates
    MaxDelay = 2
    MaxSent = 2
    MaxHandled = 2
    MaxExecuted = 1
INVARIANTS
    EveryUplinkCounted
    InterventionPathOpen
    PublishedIsAllowed
