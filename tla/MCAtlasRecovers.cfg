SPECIFICATION FairSpec
CONSTANTS
    Apps = {v1, v2, v3}
    NoApp = NoApp
    Torn = Torn
    MaxRuns = 2
    MaxDb = 2
    MaxCrashes = 2
    Hazards = {}
PROPERTIES
    EveryJournalRecovers
CHECK_DEADLOCK FALSE
