CONSTANTS
    PageReaders <- MCPageReaders
    BypassReaders <- MCBypassReaders
    NonceReaders <- MCNonceReaders
    ProcessOf <- MCProcessOf
    GlobalLimit = 2
    PageLimit = 1
    HourBucket <- MCHourBucket
    CacheTtl = 1
    StaleWindow = 1
    MaxTime = 2
    MaxVersion = 1
    MaxReads = 3
    MaxFailOpens = 1
    MaxCrashes = 1
SPECIFICATION Spec
INVARIANTS SpentWithinBudget ReserveIsKept AgeIsHonest ReadsInvariant
CHECK_DEADLOCK FALSE
