CONSTANTS
    Clients = {c1, c2, c3}
    Kinds = {"AddColumns", "RenameTables", "SwapTables", "CreateTableIntent", "CreateAndRename", "ReplaceIntent", "CreateTables", "ReplaceTables", "DropTables", "RegisterInlineTables"}
    MaxName = 3
    MaxTableId = 5
    MaxRunning = 2
SPECIFICATION Spec
SYMMETRY Symmetry
INVARIANTS HistoryMatchesCurrent NameIndexExact ReceiptFindsTable
CHECK_DEADLOCK FALSE
