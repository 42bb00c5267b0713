CONSTANTS
    InitialBlocks = 4
    MinBlocks = 1
    MaxBlocks = 4
    HeuristicBlocks <- MCHeuristicBlocks
    MaxBlockRange = 6
    ReductionFactor = 2
    GrowthPercent = 50
    SuccessThreshold = 3
    DensityTenths <- MCDensityTenths
    MaxEvents = 1
SPECIFICATION ManagerSpec
INVARIANTS BatchWithinBounds
PROPERTIES ErrorNeverWidens HighActivityIsConservative
