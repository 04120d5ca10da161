SPECIFICATION Spec
CONSTANTS
    Waves = {w1}
    Steps = {s1}
    Checks = {c1}
    WaveOf <- OneWave
    Blockers = {}
    Clear = TRUE
    Scenarios = {}
    MaxTime = 4
    MaxSnaps = 1
    MaxReceipts = 1
    Procs = {p1}
    Restarting = {p1}
    Ticks <- SteppingBack
    Offered <- Smooth
    Comparisons <- Plain
    Discarded = {}
    Skews <- PromptOrLate
INVARIANT FinishedRunReadable
CHECK_DEADLOCK FALSE
