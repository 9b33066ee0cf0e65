SPECIFICATION Spec
CONSTANTS
    Gates = {g1, g2}
    Logics = {l1}
    Conns = {c1, c2, c3}
    None = None
    MaxTokens = 1
    Overlap = FALSE
    Reconnects = "recorded"
    Logouts = FALSE
    CloseRace = FALSE
    MayStop = {g1}
    Faults = {"busy"}
SYMMETRY ConnSymmetry
INVARIANTS OneActive RecordRight ActiveKnown 
CHECK_DEADLOCK FALSE
