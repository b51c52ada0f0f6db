\* Readbacks asked for twice while the one of the connection is running.
SPECIFICATION Spec
CONSTANTS
    Waypoints = {"a", "b", "c", "A"}
    Legacy <- Simplified
    MaxWaypoints = 2
    MaxRetries = 1
    Routes <- OneRoute
    FcMissions <- Long
    MaxLate = 0
    MaxUpdates = 0
    MaxQueries = 2
    MaxFaults = 0
INVARIANT QueriedMissionIsReal
