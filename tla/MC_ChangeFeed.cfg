CONSTANTS
    Jobs = {j1, j2}
    Kinds = {"merge", "rewrite", "drop_file", "drop_table", "alter_table"}
    AppendShapes <- FilePairs
    Partitions = {0, 1}
    DeleteKinds = {"delete_file", "inline"}
    Tolerated = {}
    MaxSources = 3
    MaxRetries = 1
    MaxOrder = 5
    MaxFiles = 5
    MaxRows = 3
SPECIFICATION Spec
CONSTRAINT Bounded
SYMMETRY Symmetry
INVARIANTS ReadsAgree InsertionFeedAgrees DeletionFeedAgrees
CHECK_DEADLOCK FALSE
