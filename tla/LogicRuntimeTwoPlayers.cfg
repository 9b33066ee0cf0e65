CONSTANTS
    Gids = {g1, g2}
    Calls = {c1, c2}
    Kibs = {1, 2}
    MaxCalls = 2
    MaxKib = 3
    MaxCallsPerGid = 2
    MaxKibPerGid = 2
    MaxDirty = 1
    LossyCache = FALSE
    None = None
    Saver = Saver
SPECIFICATION Spec
SYMMETRY CallSymmetry
INVARIANTS
    TypeOK
    OneRunnerPerGid
    NoOrphanCall
    CallsExact
    AckedDurable
    KibExact
    DirtySlotsExact
    DrainedBeforeFlush
    StoppedMeansSaved
PROPERTIES
    ServesPlayerCalls
CHECK_DEADLOCK FALSE
