\* Two uploads, the readbacks around them and a query, with one fault: an FC
\* that answers in time, or dies.
SPECIFICATION LiveSpec
CONSTANTS
    Waypoints = {"a", "b", "c", "A"}
    Legacy <- Simplified
    MaxWaypoints = 2
    MaxRetries = 1
    Routes <- OneRoute
    FcMissions <- NoneOrLong
    MaxLate = 0
    MaxUpdates = 2
    MaxQueries = 1
    MaxFaults = 1
INVARIANTS
    TypeOK
    UploadExcludesReadback
    SuccessMeansStored
    ReadbackIsAMission
PROPERTY UploadEnds
