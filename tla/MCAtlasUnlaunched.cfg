SPECIFICATION FairSpec
CONSTANTS
    Apps = {v1, v2}
    NoApp = NoApp
    Torn = Torn
    MaxRuns = 1
    MaxDb = 1
    MaxCrashes = 1
    Hazards = {"unlaunched"}
PROPERTIES
    EveryJournalRecovers
CHECK_DEADLOCK FALSE
