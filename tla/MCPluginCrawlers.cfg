CONSTANTS
    Workers = {w1, w2}
    Pooling = FALSE
    FromBlock = 1
    MaxBlock = 5
    EventBlocks = {1, 3, 5}
    BatchEvents = {1, 3}
    BatchThreshold = 2
    Offset = 0
    Unsettled = 0
    RangeThreshold = 2
    InitialBlocks = 3
    MinBlocks = 1
    MaxBlocks = 3
    HeuristicBlocks <- MCHeuristicBlocks
    MaxBlockRange = 4
    ReductionFactor = 2
    GrowthPercent = 50
    SuccessThreshold = 3
    DensityTenths <- MCDensityTenths
SYMMETRY Symmetry
SPECIFICATION Spec
INVARIANTS CrawlInvariant NoGap
PROPERTIES CheckpointNeverRegresses ImplementsCheckpoint
