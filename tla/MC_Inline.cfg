CONSTANTS
    Clients = {c1, c2}
    MaxRow = 1
    Kinds = {"register", "fenced", "attempt", "delete", "joined_delete", "flush", "backdated_flush", "append", "merge", "expire", "cleanup"}
    Windows = {}
    MaxOrder = 5
    MaxRacingOrder = 4
SYMMETRY Symmetry
SPECIFICATION Spec
CONSTRAINT Bounded
INVARIANTS CurrentRowsAgreeWithHistory EachRowIsReadOnce
CHECK_DEADLOCK FALSE
