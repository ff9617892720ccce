SPECIFICATION Spec

CONSTANTS
    Schedules = {a}
    a = a
    Passes = {p1, p2}
    p1 = p1
    p2 = p2
    Crons <- Mixed
    MaxBackfillOccurrences = 2
    MaxTime = 4
    MaxFaults = 1
    MaxEdits = 1
    EditCrons = FALSE

INVARIANTS
    TypeOK
    NoOccurrenceLost

CHECK_DEADLOCK FALSE
