CONSTANTS
    Ids = {i1, i2}
    Callers = {c1}
    Deliveries = {d1, d2}
    Prefetch = 1
    Modes = {"retry"}
    MaxAttempts = 2
    NoId = NoId
    MaxSends = 2
    MaxDrops = 1
    MaxCrashes = 1
    MaxSendFailures = 1
SPECIFICATION FairSpec
PROPERTIES OwedIsSettled
CHECK_DEADLOCK FALSE
