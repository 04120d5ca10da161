SPECIFICATION Spec
CONSTANTS
    Apps = {v1, v2, v3}
    NoApp = NoApp
    Torn = Torn
    MaxRuns = 3
    MaxDb = 2
    MaxCrashes = 2
    Hazards = {"reinstall"}
SYMMETRY AppSymmetry
INVARIANTS
    TypeOK
    ClientDataInOnePlace
    AtRestDataAttached
    ReceiptBindsSlots
    CandidateNeverBesideClientData
PROPERTIES
    ClientDataNeverLost
    ReplacedDatabaseIsKept
    ImplementsAtomicRelease
CHECK_DEADLOCK FALSE
