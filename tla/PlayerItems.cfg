SPECIFICATION Spec
CONSTANTS
    ItemIds = {1, 2}
    Counts = {1, 3}
    MaxI64 = 3
    MaxEntries = 2
    MaxUnsure = 2
    None = None
INVARIANTS Accounted AnswerStored Solvent
CHECK_DEADLOCK FALSE
