SPECIFICATION Spec
CONSTANTS
    Clients = {c1, c2}
    Tables <- MCTables
    Transactions <- MCTransactions
    MaxOrder = 5
    MaxExpired = 1
SYMMETRY Symmetry
INVARIANTS AcknowledgedIdShowsAttempt VersionIsOneSnapshot ChangesAreTold
CHECK_DEADLOCK FALSE
