CONSTANTS
    Contexts = {c1}
    Workers = {w1, w2}
    Ops = {"files", "catalog", "inline", "tables", "partition"}
    MaxCommits = 2
    SnapshotIds <- AskedFor
    MaxRequests = 3
    MaxLeases = 2
    CaptureBudget = 1
    Tolerated = {"moved"}
SYMMETRY Symmetry
SPECIFICATION Spec
CONSTRAINT Regular
INVARIANTS AnswersMatch OneSnapshotWithOwnCommits WaitersHaveBuilder
CHECK_DEADLOCK FALSE
