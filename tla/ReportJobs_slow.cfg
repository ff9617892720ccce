SPECIFICATION FairSpec

CONSTANTS
    Jobs = {j1}
    j1 = j1
    w1 = w1
    w2 = w2
    Workers = {w1, w2}
    Sweepers = {s1}
    s1 = s1
    NoJob = NoJob
    MaxJobAttempts = 2
    MaxMessages = 2
    MaxDeletions = 2
    MaxFaults = 2
    SlowAttempts = TRUE

INVARIANTS
    TypeOK
    AttemptRunsOnce
    NoEarlyFailure
    SucceededHasReport
    AttemptsBounded

PROPERTIES
    JobsSettle

CHECK_DEADLOCK FALSE
