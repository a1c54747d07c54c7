SPECIFICATION Spec
CONSTANTS
    Clients = {c1, c2}
    Requests <- SomeRequests
    Tables <- SomeTables
SYMMETRY Symmetry
INVARIANTS
    TablesAreWellFormed
    ReplacesWhatWasRead
    AcknowledgedIsInPlace
    FailedLeavesNoHalf
    OneVersionOneSchema
