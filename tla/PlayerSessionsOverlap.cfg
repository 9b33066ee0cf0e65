SPECIFICATION Spec
CONSTANTS
    Gates = {g1, g2}
    Logics = {l1}
    Conns = {c1, c2}
    None = None
    MaxTokens = 1
    Overlap = TRUE
    Reconnects = "none"
    Logouts = FALSE
    CloseRace = FALSE
    MayStop = {}
    Faults = {}
SYMMETRY FullSymmetry
INVARIANT OneActive
CHECK_DEADLOCK FALSE
