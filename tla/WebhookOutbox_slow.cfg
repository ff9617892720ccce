SPECIFICATION Spec

CONSTANTS
    Reports = {r1}
    r1 = r1
    Destinations = {x1}
    x1 = x1
    Workers = {w1, w2}
    w1 = w1
    w2 = w2
    Operators = {o1}
    o1 = o1
    MaxDeliveryAttempts = 2
    MaxMessages = 2
    MaxFaults = 1
    MaxRetries = 1
    MaxEdits = 0
    SlowSends = TRUE

SYMMETRY Symmetry

INVARIANTS
    AttemptSentOnce
    DeliveredWasReceived

CHECK_DEADLOCK FALSE
