CONSTANTS
    Workers = {w1}
    Pooling = TRUE
    FromBlock = 1
    MaxBlock = 5
    EventBlocks = {1, 2, 3}
    BatchEvents = {1, 3}
    BatchThreshold = 2
    Offset = 1
    Unsettled = 1
    RangeThreshold = 2
    InitialBlocks = 3
    MinBlocks = 1
    MaxBlocks = 3
    HeuristicBlocks <- MCHeuristicBlocks
    MaxBlockRange = 3
    ReductionFactor = 2
    GrowthPercent = 50
    SuccessThreshold = 3
    DensityTenths <- MCDensityTenths
SPECIFICATION FairSpec
INVARIANTS CrawlInvariant NoGap CheckpointBehindHead NothingSavedIsReplayed
PROPERTIES LaggingEventsAreHandled
