\* Timeouts that fire while a message is under way.
SPECIFICATION Spec
CONSTANTS
    Waypoints = {"a", "b", "c", "A"}
    Legacy <- Simplified
    MaxWaypoints = 2
    MaxRetries = 1
    Routes <- OneRoute
    FcMissions <- Long
    MaxLate = 1
    MaxUpdates = 1
    MaxQueries = 1
    MaxFaults = 1
INVARIANTS
    TypeOK
    UploadExcludesReadback
    SuccessMeansStored
    ReadbackIsAMission
