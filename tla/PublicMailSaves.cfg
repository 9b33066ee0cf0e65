SPECIFICATION Spec
CONSTANTS
    Reqs = {r1, r2, r3, r4}
    MaxId = 2
    MaxMails = 1
    MaxCells = 2
    MaxCrashes = 1
    Evicts = FALSE
    SaveMayFail = TRUE
SYMMETRY ReqSymmetry
INVARIANTS DirtyRegistered ShutdownSaves
PROPERTY DiskForward
CHECK_DEADLOCK FALSE
