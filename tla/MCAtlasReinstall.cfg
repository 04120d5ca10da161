SPECIFICATION FairSpec
CONSTANTS
    Apps = {v1}
    NoApp = NoApp
    Torn = Torn
    MaxRuns = 3
    MaxDb = 1
    MaxCrashes = 1
    Hazards = {"reinstall"}
PROPERTIES
    EveryJournalRecovers
CHECK_DEADLOCK FALSE
