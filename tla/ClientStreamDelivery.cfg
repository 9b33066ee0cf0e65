CONSTANTS
    SeqMod = 16
    StartSeq = 13
    OutboxCap = 2
    ResumeTtl = 1
    ReconnectTotal = 2
    ReconnectWindow = 2
    ReconnectWindowCount = 2
    RequestWindow = 1
    RequestWindowCount = 3
    BurstWindow = 1
    BurstCount = 3
    Pushes = TRUE
    Backpressure = TRUE
    MaxTime = 2
    MaxSends = 3
    MaxFrames = 3
    MaxConns = 2
SPECIFICATION Spec
INVARIANTS
    TypeOK
    NoSilentLoss
    StillThere
    AcceptedOnce
CHECK_DEADLOCK FALSE
