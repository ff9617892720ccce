SPECIFICATION Spec

CONSTANTS
    Jobs = {j1}
    j1 = j1
    Workers = {w1, w2}
    w1 = w1
    w2 = w2
    Sweepers = {s1}
    s1 = s1
    NoJob = NoJob
    MaxJobAttempts = 2
    MaxMessages = 1
    MaxDeletions = 1
    MaxFaults = 0
    SlowAttempts = TRUE

PROPERTIES
    TerminalIsFinal

CHECK_DEADLOCK FALSE
