SPECIFICATION Spec

CONSTANTS
    Opaque = Opaque
    Hive = Hive
    Values = {1, 2}
    MaxCommits = 4
    MaxLayouts = 3
    Appends <- SomeAppends
    Inserts <- SomeInserts
    Defaults <- SomeDefaults

INVARIANTS
    AnswerIsOfOneVersion
    BoundsCoverRows
    NullOnlyIsProven
    PruneKeepsMatchingFiles
