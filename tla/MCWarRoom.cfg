SPECIFICATION Spec
CONSTANTS
    Waves = {w1}
    Steps = {s1}
    Checks = {c1}
    WaveOf <- OneWave
    Blockers = {}
    Clear = TRUE
    Scenarios = {}
    MaxTime = 4
    MaxSnaps = 2
    MaxReceipts = 1
    Procs = {p1, p2}
    Restarting = {}
    Ticks <- Forward
    Offered <- Contested
    Comparisons <- Passed
    Discarded = {}
    Skews <- Prompt
SYMMETRY ProcSymmetry
INVARIANTS
    TypeOK
PROPERTIES
    ImplementsRecord
    SignedRecordFrozen
CHECK_DEADLOCK FALSE
