\* Sequence numbers: two turns of a small sequence space, delayed copies,
\* refusals, crashes, failed saves and a damaged file.
SPECIFICATION Spec
CONSTANTS
    Half = 3
    CounterMod = 2
    HealthStates = {0, 1}
    Templates <- SequencingTemplates
    MaxDelay = 3
    MaxSent = 7
    MaxHandled = 1
    MaxExecuted = 3
INVARIANTS
    ExecutedInOrder
    FreshCommandIsNew
    DuplicateWasExecuted
PROPERTIES
    SavedIsNeverRepeated
