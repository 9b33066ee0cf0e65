SPECIFICATION Spec
CONSTANTS
    Reqs = {r1, r2, r3}
    MaxId = 1
    MaxMails = 1
    MaxCells = 3
    MaxCrashes = 1
    Evicts = TRUE
    SaveMayFail = TRUE
SYMMETRY ReqSymmetry
INVARIANT GrantedOnce
CHECK_DEADLOCK FALSE
