SPECIFICATION Spec
CONSTANTS
    MaxProbeOutputBytes = 3
    MaxSegmentBytes = 2
    Int64Max = 31
    SilenceMs = 10
    StatedDurations <- MCStatedDurations
    Pieces <- MCPieces
    MaxWritten = 4
INVARIANTS
    TypeOK
    KeptIsExact
PROPERTIES
    OnlyWholeIsRead
    SilenceWasDetected
    BlipProtects
CHECK_DEADLOCK FALSE
