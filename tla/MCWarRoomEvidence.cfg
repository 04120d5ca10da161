SPECIFICATION Spec
CONSTANTS
    Waves = {w1}
    Steps = {s1}
    Checks = {c1}
    WaveOf <- OneWave
    Blockers = {}
    Clear = TRUE
    Scenarios = {}
    MaxTime = 5
    MaxSnaps = 2
    MaxReceipts = 1
    Procs = {p1}
    Restarting = {p1}
    Ticks <- Forward
    Offered <- AnyRequest
    Comparisons <- Plain
    Discarded = {1, 2}
    Skews <- PromptOrLate
INVARIANTS
    SuccessIsEvidenced
CHECK_DEADLOCK FALSE
