SPECIFICATION Spec
CONSTANTS
    c1 = c1
    c2 = c2
    Clients = {c1, c2}
    InitialRows <- MCRows
    Requests <- MCRequests
    MaxOrder = 3
SYMMETRY Symmetry
INVARIANTS
    NamesAreUnique
    ObjectsHaveSchema
PROPERTIES
    AloneAsInOrderedStore
CHECK_DEADLOCK FALSE
