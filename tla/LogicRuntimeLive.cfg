CONSTANTS
    Gids = {g1}
    Calls = {c1, c2}
    Kibs = {1}
    MaxCalls = 2
    MaxKib = 2
    MaxCallsPerGid = 2
    MaxKibPerGid = 2
    MaxDirty = 1
    LossyCache = TRUE
    None = None
    Saver = Saver
SPECIFICATION FairSpec
INVARIANTS
    OneGeneration
PROPERTIES
    AcceptedCompletes
    ShutdownEnds
CHECK_DEADLOCK FALSE
