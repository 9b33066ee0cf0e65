CONSTANTS
    Kinds = {"logic", "gate", "auth", "public", "query"}
    MaxWork = 2
    MaxWire = 3
SPECIFICATION Spec
INVARIANTS
    
    StaysDeleted
    SuccessMeansSaved
PROPERTIES
    Exits
CHECK_DEADLOCK FALSE
