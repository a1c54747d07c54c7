SPECIFICATION Spec
CONSTANTS
    MaxFile = 2
    Columns = 2
    Shapes <- SomeShapes
    Asks <- SomeAsks
    ColumnSets <- SomeColumns
    PageSize = 2
    Retries = 1
    Window = 1
    FullFiles = 1
    FullColumns = 2
    DenseFiles = 2
    DenseGap = 8
    MaxChanges = 2
INVARIANT AnswersStoredRows
PROPERTY ReadsAreRangeReads
PROPERTY ReadsEnd
CONSTRAINT CallsApart
