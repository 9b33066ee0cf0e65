SPECIFICATION Spec
CONSTANTS
    Accounts = {a1, a2}
    Gates = {h1}
    Slots = {s1, s2}
    None = None
    PlayerCapacity = 1
    QueueCapacity = 1
    EntryTTL = 2
    MaxGids = 2
    MaxTime = 2
    MaxOnline = 1
    Faults = {"mongo", "redis", "cancel"}
SYMMETRY Symmetry
INVARIANTS OneRole BookingBound PlaceKept
CHECK_DEADLOCK FALSE
