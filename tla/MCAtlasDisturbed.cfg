SPECIFICATION Spec
CONSTANTS
    Apps = {v1, v2, v3}
    NoApp = NoApp
    Torn = Torn
    MaxRuns = 2
    MaxDb = 3
    MaxCrashes = 2
    Hazards = {"disturbance", "mutating rollback", "unlaunched"}
SYMMETRY AppSymmetry
PROPERTIES
    UpdateCommitsSealedData
CHECK_DEADLOCK FALSE
