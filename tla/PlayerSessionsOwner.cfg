SPECIFICATION Spec
CONSTANTS
    Gates = {g1, g2}
    Logics = {l1, l2}
    Conns = {c1, c2}
    None = None
    MaxTokens = 2
    Overlap = FALSE
    Reconnects = "recorded"
    Logouts = TRUE
    CloseRace = TRUE
    MayStop = {}
    Faults = {"rpc", "kick", "notify", "redis", "save"}
SYMMETRY FullSymmetry
INVARIANTS OneOwner TokenCurrent
CHECK_DEADLOCK FALSE
