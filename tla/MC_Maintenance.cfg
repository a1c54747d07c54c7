CONSTANTS
    Jobs = {j1}
    Kinds = {"merge", "rewrite", "drop_file", "drop_table"}
    AppendShapes <- Shapes
    Partitions = {0, 1}
    DeleteKinds = {"delete_file"}
    Tolerated = {}
    MaxSources = 2
    MaxRetries = 1
    MaxOrder = 5
    MaxFiles = 4
    MaxRows = 3
    CleanupModes = {"all", "scheduled"}
    MaxCrashes = 1
SPECIFICATION CleanupSpec
CONSTRAINT Bounded
INVARIANTS RetainedSnapshotsAreReadable DanglingDeleteFilesAreCleanable
PROPERTY OldFilesAreRemoved
CHECK_DEADLOCK FALSE
