SPECIFICATION FairSpec

CONSTANTS
    Reports = {r1}
    r1 = r1
    Destinations = {x1}
    x1 = x1
    Workers = {w1, w2}
    w1 = w1
    w2 = w2
    Operators = {}
    MaxDeliveryAttempts = 3
    MaxMessages = 2
    MaxFaults = 2
    MaxRetries = 0
    MaxEdits = 2
    SlowSends = FALSE

INVARIANTS
    TypeOK
    AttemptsBounded
    SendingIsRecoverable
    PurgeOnlyAttempted

PROPERTIES
    RefinesPromise
    NoSendAfterDelivery
    DeliveriesSettle

CHECK_DEADLOCK FALSE
