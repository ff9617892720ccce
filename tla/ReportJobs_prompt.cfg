SPECIFICATION FairSpec

CONSTANTS
    Jobs = {j1, j2}
    j1 = j1
    j2 = j2
    Workers = {w1, w2}
    w1 = w1
    w2 = w2
    Sweepers = {s1}
    s1 = s1
    NoJob = NoJob
    MaxJobAttempts = 3
    MaxMessages = 2
    MaxDeletions = 2
    MaxFaults = 2
    SlowAttempts = FALSE

INVARIANTS
    ReportIsTheJobs

PROPERTIES
    RecoversOnlyAbandoned
    RefinesLifecycle
    LifecycleProgress

CHECK_DEADLOCK FALSE
