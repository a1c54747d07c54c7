CONSTANTS
    Tables = {t1}
    Writers = {w1, w2}
    Rows = {w1, w2}
    MaxFileId = 3
    Kinds = {"append", "delete", "update", "replace", "drop", "flush_append"}
    Modes = {"unpinned", "pinned", "fenced"}
    Recoverable = {TRUE}
    MaxAlters = 1
    MAX_MUTATION_COMMIT_RETRIES = 1
SPECIFICATION Spec
SYMMETRY Symmetry
INVARIANTS RowIdsDisjoint AppliedOnce AcknowledgedIsApplied
PROPERTIES FenceIsExact FirstDeletionSeen UnknownIsResolved
CHECK_DEADLOCK FALSE
