SPECIFICATION Spec
CONSTANTS
    Int64Max = 127
    UnlimitedThreshold = 64
    DefaultGOGC = 100
    GCPercents <- MCGCPercents
    Ratios <- MCRatios
    EnvLimits <- MCEnvLimits
    Files <- MCFiles
INVARIANTS
    LimitIsShare
    ContainedIsBounded
CHECK_DEADLOCK FALSE
