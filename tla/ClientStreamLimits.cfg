CONSTANTS
    SeqMod = 16
    StartSeq = 13
    OutboxCap = 2
    ResumeTtl = 2
    ReconnectTotal = 2
    ReconnectWindow = 2
    ReconnectWindowCount = 1
    RequestWindow = 3
    RequestWindowCount = 3
    BurstWindow = 1
    BurstCount = 2
    Pushes = FALSE
    Backpressure = TRUE
    MaxTime = 3
    MaxSends = 3
    MaxFrames = 4
    MaxConns = 3
SPECIFICATION Spec
INVARIANTS
    RequestLimits
    ReconnectLimits
PROPERTIES
    InOrder
CHECK_DEADLOCK FALSE
