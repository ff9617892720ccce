SPECIFICATION OneDisturbance

CONSTANTS
    Schedules = {a, b}
    a = a
    b = b
    Passes = {p1}
    p1 = p1
    Crons <- Never
    MaxBackfillOccurrences = 1
    MaxTime = 3
    MaxFaults = 1
    MaxEdits = 1
    EditCrons = FALSE

PROPERTIES
    RefinesFates
    DueIsServed

CHECK_DEADLOCK FALSE
