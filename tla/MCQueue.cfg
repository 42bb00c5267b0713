CONSTANTS
    Ids = {i1, i2}
    Callers = {c1, c2}
    Deliveries = {d1, d2, d3}
    Prefetch = 2
    Modes = {"retry", "requeue", "none"}
    MaxAttempts = 2
    NoId = NoId
    MaxSends = 2
    MaxDrops = 1
    MaxCrashes = 1
    MaxSendFailures = 1
SYMMETRY Symmetry
SPECIFICATION Spec
INVARIANTS QueueInvariant OwedIsKept SingleFlight NoStuckId
CHECK_DEADLOCK FALSE
