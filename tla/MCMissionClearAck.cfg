\* Success when a frame was lost and the FC acknowledges MISSION_CLEAR_ALL.
SPECIFICATION Spec
CONSTANTS
    Waypoints = {"a", "b", "c", "A"}
    Legacy <- Simplified
    MaxWaypoints = 2
    MaxRetries = 1
    Routes <- OneRoute
    FcMissions <- Long
    MaxLate = 0
    MaxUpdates = 1
    MaxQueries = 0
    MaxFaults = 1
INVARIANT AcceptedMeansStored
