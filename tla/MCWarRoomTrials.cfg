SPECIFICATION Spec
CONSTANTS
    Waves = {w1}
    Steps = {s1}
    Checks = {c1}
    WaveOf <- OneWave
    Blockers = {}
    Clear = TRUE
    Scenarios = {x}
    MaxTime = 9
    MaxSnaps = 7
    MaxReceipts = 2
    Procs = {p1}
    Restarting = {}
    Ticks <- Forward
    Offered <- Implement
    Comparisons <- TrialThenMore
    Discarded = {2}
    Skews <- Prompt
INVARIANTS
    FailureNeedsRetrial
    AuthorityReconciles
    ReceiptSourcesKept
CHECK_DEADLOCK FALSE
