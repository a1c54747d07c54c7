----------------------------- MODULE Compaction -----------------------------
(***************************************************************************)
(* Merge-adjacent and rewrite-delete compactions of one table, against     *)
(* appends, deletes, table changes and other compactions                   *)
(* (fdb_compaction.rs, runtime_compaction_ops.rs).                         *)
(*                                                                         *)
(* The client lists the files of a snapshot, writes the replacement files, *)
(* and asks for the swap.  The server checks the sources, each read at a   *)
(* version of its own, and then commits a transaction that reads only the  *)
(* sources' current entries, the table row and the current-file range.     *)
(* Row ids, file ids and orders are small numbers; rows have no content.   *)
(***************************************************************************)
EXTENDS FileListing, Sequences, SequencesExt

CONSTANTS
    Jobs,           \* requests that run concurrently
    Kinds,          \* the requests that are sent
    AppendShapes,   \* record counts of the files of one append
    Partitions,     \* partition values; NoPartition: the table has no partitions
    DeleteKinds,    \* how rows are deleted: "delete_file", "inline"
    Tolerated,      \* situations under which the properties are claimed, see below
    MaxSources,     \* bound: source files of a compaction
    MaxRetries,     \* MAX_MUTATION_COMMIT_RETRIES
    MaxOrder, MaxFiles, MaxRows  \* bounds

\* What may happen that no check of the code rules out, and that history, the feeds or
\* the cleanup do not survive:
Situations ==
    {"gaps",            \* a merge of files with other rows between theirs
     "remerge",         \* a merge of a file that began with its own merge
     "rewrite_many",    \* a rewrite of several files into one
     "escaped"}         \* a commit where no check of a running request sees it

ASSUME CompactionAssumption ==
    /\ Kinds \subseteq {"merge", "rewrite", "drop_table", "drop_file", "alter_table"}
    /\ DeleteKinds \subseteq {"delete_file", "inline"}
    /\ Tolerated \subseteq Situations
    /\ {MaxSources, MaxRetries, MaxOrder, MaxFiles, MaxRows} \subseteq Nat

VARIABLES
    latestOrder,           \* order of the newest snapshot
    dataFiles,             \* data_file_key, its begin index and its current entry
    deleteFiles,           \* delete_file_key
    deleteTimeline,        \* delete_file_timeline_key: data file -> {(order, delete file)}
    currentDeleteFile,     \* current_delete_file_key: data file -> delete file
    inlineFileDeletions,   \* inline_file_deletion_key: (data file, row, order)
    dataFileChanges,       \* table_data_file_change_key: (order, "added" or "removed", data file)
    deleteFileChanges,     \* order_delete_file_change_key: (order, delete file)
    table,                 \* the current table row: orders of its last change and its drop
    scheduled,             \* scheduled_data_file_cleanup_key: data file -> kind of cleanup
    scheduledDeletes,      \* scheduled_delete_file_cleanup_key
    nextRowId,             \* table_next_row_id_key
    inserted, deleted,     \* order that inserted or deleted each row; what readers should see
    job,                   \* requests in progress
    met                    \* the situations met so far

catalogVars ==
    <<latestOrder, dataFiles, deleteFiles, deleteTimeline, currentDeleteFile,
      inlineFileDeletions, dataFileChanges, deleteFileChanges, table, scheduled,
      scheduledDeletes, nextRowId, inserted, deleted>>
vars == <<catalogVars, job, met>>

FileIds == 1 .. MaxFiles
NoFile == 0
RowIds == 0 .. MaxRows - 1

Commit == latestOrder + 1

\* ScheduledDataFileCleanupKind
NotScheduled == "not scheduled"
UnreachableOnly == "unreachable only"
CompactionReplacement == "compaction replacement"

\* Change entries of one commit.
Changes(kind, ids) == {<<Commit, kind, i>> : i \in ids}

Scheduled(ids, kind) == [i \in FileIds |-> IF i \in ids THEN kind ELSE scheduled[i]]

Idle ==
    [pc |-> "idle", kind |-> "merge", sources |-> {}, groups |-> {}, base |-> NoOrder,
     windowed |-> FALSE, stated |-> FALSE, through |-> NoOrder, expired |-> {}, restaged |-> {},
     readAt |-> NoOrder, retries |-> 0]

Init ==
    /\ latestOrder = 1
    /\ dataFiles = [i \in FileIds |-> NoDataFile]
    /\ deleteFiles = [d \in FileIds |->
                        [data_file |-> NoFile, begin |-> NoOrder, end |-> NoOrder, rows |-> {}]]
    /\ deleteTimeline = [i \in FileIds |-> {}]
    /\ currentDeleteFile = [i \in FileIds |-> NoFile]
    /\ inlineFileDeletions = {}
    /\ dataFileChanges = {}
    /\ deleteFileChanges = {}
    /\ table = [altered |-> 1, dropped |-> NoOrder]
    /\ scheduled = [i \in FileIds |-> NotScheduled]
    /\ scheduledDeletes = {}
    /\ nextRowId = 0
    /\ inserted = [r \in RowIds |-> NoOrder]
    /\ deleted = [r \in RowIds |-> NoOrder]
    /\ job = [j \in Jobs |-> Idle]
    /\ met = {}

\* A step in these circumstances
Meets(situation, holds) == IF holds THEN {situation} ELSE {}

\* The properties hold up to the first situation that is not tolerated.
Regular == met \subseteq Tolerated

CurrentFiles == {i \in FileIds : Current(dataFiles[i])}
UnusedIds == {i \in FileIds : dataFiles[i] = NoDataFile}
TableIsCurrent == table.dropped = NoOrder

\* What a reader of the snapshot `order` gets from one listed file.
DeletedAt(i, order) ==
    DeletedRowsAt(deleteTimeline, deleteFiles, inlineFileDeletions, i, order)
RowsReadFrom(i, order) == RowsUpTo(dataFiles[i], order) \ DeletedAt(i, order)

-----------------------------------------------------------------------------
(* Commits that take one step here; DataMutation models their own races. *)

\* No check of a running request sees a deletion of kind `how` from file i.  A merge
\* reads the current delete pointers once and no inline deletions; a rewrite reads
\* both kinds, up to the order its window ends at.  A drop lists the files once.
EscapesChecks(i, how) ==
    \E j \in Jobs : i \in job[j].sources /\
        \/ job[j].kind = "merge" /\ (how = "inline" \/ job[j].pc \in {"checked", "trx"})
        \/ job[j].kind = "rewrite" /\ (~ job[j].windowed \/ job[j].pc # "planned")
        \/ job[j].kind = "drop_table"

DropIsPrepared == \E j \in Jobs : job[j].pc # "idle" /\ job[j].kind = "drop_table"

MayCommit ==
    /\ latestOrder < MaxOrder
    /\ TableIsCurrent

\* commit_append_data_files: the files of one commit share its order, and their rows
\* get the next row ids.
AppendDataFiles(shape, partitions) ==
    LET first == MaxFiles - Cardinality(UnusedIds) + 1
        start(k) == nextRowId + FoldLeft(+, 0, SubSeq(shape, 1, k - 1))
        rows(k) == start(k) .. start(k) + shape[k] - 1
    IN  /\ MayCommit
        /\ Len(shape) <= Cardinality(UnusedIds)
        /\ start(Len(shape) + 1) <= MaxRows
        /\ dataFiles' = [i \in FileIds |->
              IF i - first + 1 \in DOMAIN shape
              THEN LET k == i - first + 1
                   IN  [begin |-> Commit, end |-> NoOrder, max_partial |-> NoOrder,
                        row_id_start |-> start(k), row_id_start_known |-> TRUE,
                        origin |-> [r \in rows(k) |-> Commit], partition |-> partitions[k]]
              ELSE dataFiles[i]]
        /\ nextRowId' = start(Len(shape) + 1)
        /\ inserted' = [r \in RowIds |->
              IF r \in nextRowId .. nextRowId' - 1 THEN Commit ELSE inserted[r]]
        /\ dataFileChanges' = dataFileChanges
              \cup Changes("added", first .. first + Len(shape) - 1)
        /\ latestOrder' = Commit
        /\ met' = met \cup Meets("escaped", DropIsPrepared)
        /\ UNCHANGED <<deleteFiles, deleteTimeline, currentDeleteFile, inlineFileDeletions,
                       deleteFileChanges, table, scheduled, scheduledDeletes, deleted, job>>

\* A new delete file holds the rows of the one it replaces, takes over its begin order
\* and is entered in the timeline under the order of the commit; the old one is closed
\* and scheduled for cleanup (stage_close_current_delete_file).
WriteDeleteFile(i, r) ==
    LET old == currentDeleteFile[i]
        new == Cardinality({d \in FileIds : deleteFiles[d].data_file # NoFile}) + 1
    IN  /\ new \in FileIds
        /\ deleteFiles' = [d \in FileIds |->
              CASE d = new -> [data_file |-> i, end |-> NoOrder,
                               begin |-> IF old = NoFile THEN Commit ELSE deleteFiles[old].begin,
                               rows |-> {r} \cup (IF old = NoFile THEN {} ELSE deleteFiles[old].rows)]
                [] d = old -> [deleteFiles[d] EXCEPT !.end = Commit]
                [] OTHER   -> deleteFiles[d]]
        /\ deleteTimeline' = [deleteTimeline EXCEPT ![i] = @ \cup {<<Commit, new>>}]
        /\ currentDeleteFile' = [currentDeleteFile EXCEPT ![i] = new]
        /\ scheduledDeletes' = scheduledDeletes \cup ({old} \ {NoFile})
        /\ deleteFileChanges' = deleteFileChanges \cup {<<Commit, new>>}
        /\ UNCHANGED inlineFileDeletions

WriteInlineDeletion(i, r) ==
    /\ inlineFileDeletions' = inlineFileDeletions \cup {<<i, r, Commit>>}
    /\ UNCHANGED <<deleteFiles, deleteTimeline, currentDeleteFile, deleteFileChanges,
                   scheduledDeletes>>

\* Neither kind of deletion is a data file change.
DeleteRow(i, r, how) ==
    /\ MayCommit
    /\ i \in CurrentFiles
    /\ r \in RowsReadFrom(i, latestOrder)
    /\ \/ how = "delete_file" /\ WriteDeleteFile(i, r)
       \/ how = "inline" /\ WriteInlineDeletion(i, r)
    /\ deleted' = [deleted EXCEPT ![r] = Commit]
    /\ latestOrder' = Commit
    /\ met' = met \cup Meets("escaped", EscapesChecks(i, how))
    /\ UNCHANGED <<dataFiles, dataFileChanges, table, scheduled, nextRowId, inserted, job>>

Ended(ids) ==
    [i \in FileIds |-> IF i \in ids THEN [dataFiles[i] EXCEPT !.end = Commit] ELSE dataFiles[i]]

\* A mutation that deletes every row of a file drops the file; the delete file stays current.
DropFile(i) ==
    /\ MayCommit
    /\ "drop_file" \in Kinds
    /\ i \in CurrentFiles
    /\ dataFiles' = Ended({i})
    /\ deleted' = [r \in RowIds |-> IF r \in RowsReadFrom(i, latestOrder) THEN Commit
                                    ELSE deleted[r]]
    /\ dataFileChanges' = dataFileChanges \cup Changes("removed", {i})
    /\ scheduled' = Scheduled({i}, UnreachableOnly)
    /\ latestOrder' = Commit
    /\ met' = met \cup Meets("escaped", DropIsPrepared)
    /\ UNCHANGED <<deleteFiles, deleteTimeline, currentDeleteFile, inlineFileDeletions,
                   deleteFileChanges, table, scheduledDeletes, nextRowId, inserted, job>>

AlterTable ==
    /\ MayCommit
    /\ "alter_table" \in Kinds
    /\ table' = [table EXCEPT !.altered = Commit]
    /\ latestOrder' = Commit
    /\ UNCHANGED <<dataFiles, deleteFiles, deleteTimeline, currentDeleteFile,
                   inlineFileDeletions, dataFileChanges, deleteFileChanges, scheduled, scheduledDeletes,
                   nextRowId, inserted, deleted, job, met>>

-----------------------------------------------------------------------------
(* The client plans a compaction from the listing of the newest snapshot. *)

\* Source ranges follow on each other without a gap and hold record_count rows
\* (source_row_ranges_are_contiguous_for_record_count).
Contiguous(ids, count) ==
    LET ranges == SetToSortSeq({i \in ids : record_count(dataFiles[i]) # 0},
            LAMBDA a, b :
                \/ dataFiles[a].row_id_start < dataFiles[b].row_id_start
                \/ dataFiles[a].row_id_start = dataFiles[b].row_id_start /\ a < b)
        at(k) == dataFiles[ranges[k]]
    IN  /\ \A i \in ids : dataFiles[i].row_id_start_known
        /\ \A k \in 1 .. Len(ranges) - 1 : at(k + 1).row_id_start = row_id_end(at(k))
        /\ count = IF ranges = <<>> THEN 0
                   ELSE row_id_end(at(Len(ranges))) - at(1).row_id_start

\* Neighbours: without partitions, one range of row ids; with them, no file of the
\* partition, current or ended, that holds other rows begins between two sources.
Adjacent(g) ==
    IF g.partition = NoPartition THEN Contiguous(g.sources, Cardinality(g.rows))
    ELSE \A i \in FileIds :
            dataFiles[i].partition = g.partition /\ ~ RowsOf(dataFiles[i]) \subseteq g.rows =>
                \/ \A s \in g.sources : dataFiles[i].begin < dataFiles[s].begin
                \/ \A s \in g.sources : dataFiles[i].begin > dataFiles[s].begin

\* A replacement of files of one commit, which begins only with the merge.
BeginsWithItsMerge(i) ==
    /\ dataFiles[i].max_partial = NoOrder
    /\ \E s \in FileIds : /\ dataFiles[s].begin # NoOrder /\ dataFiles[s].end = dataFiles[i].begin
                          /\ RowsOf(dataFiles[s]) \subseteq RowsOf(dataFiles[i])

\* Files without deletions, grouped by partition: one replacement file for each.
MergeGroups(ids) ==
    {[sources |-> {i \in ids : dataFiles[i].partition = p},
      rows |-> UNION {RowsOf(dataFiles[i]) : i \in {k \in ids : dataFiles[k].partition = p}},
      partition |-> p] : p \in {dataFiles[i].partition : i \in ids}}

\* Files with deletions; the rows that are left go to one file, or to none.
RewriteGroups(ids) ==
    LET rows == UNION {RowsReadFrom(i, latestOrder) : i \in ids}
    IN  IF rows = {} THEN {}
        ELSE {[sources |-> ids, rows |-> rows,
               partition |-> dataFiles[CHOOSE i \in ids : TRUE].partition]}

Listed == ListDataFilesAt(dataFiles, latestOrder)
HasDeletions(i) == DeletedAt(i, latestOrder) # {}

Plan(j, kind, ids, groups, windowed, stated) ==
    job' = [job EXCEPT ![j] = [Idle EXCEPT !.pc = "planned", !.kind = kind, !.sources = ids,
                !.groups = groups, !.base = latestOrder, !.windowed = windowed,
                !.stated = stated]]

\* A commit attempt carries its read snapshot and so a conflict window; the direct
\* operations MergeAdjacentFiles and RewriteDeleteFiles carry none.
PlanMerge(j, ids, windowed, stated) ==
    /\ "merge" \in Kinds /\ job[j].pc = "idle" /\ MayCommit
    /\ Cardinality(ids) \in 2 .. MaxSources
    /\ \A i \in ids : ~ HasDeletions(i)
    /\ \A g \in MergeGroups(ids) : Cardinality(g.sources) >= 2
    /\ stated => \A g \in MergeGroups(ids) :
          \E i \in g.sources : IsBackfilledReplacementFile(dataFiles[i])
    /\ Plan(j, "merge", ids, MergeGroups(ids), windowed, stated)
    /\ met' = met \cup Meets("gaps", \E g \in MergeGroups(ids) : ~ Adjacent(g))
                  \cup Meets("remerge", \E i \in ids : BeginsWithItsMerge(i))
    /\ UNCHANGED catalogVars

PlanRewrite(j, ids, windowed) ==
    /\ "rewrite" \in Kinds /\ job[j].pc = "idle" /\ MayCommit
    /\ Cardinality(ids) \in 1 .. MaxSources
    /\ \A i, k \in ids : HasDeletions(i) /\ dataFiles[i].partition = dataFiles[k].partition
    /\ Plan(j, "rewrite", ids, RewriteGroups(ids), windowed, FALSE)
    /\ met' = met \cup Meets("rewrite_many", Cardinality(ids) > 1)
    /\ UNCHANGED catalogVars

-----------------------------------------------------------------------------
(* The server checks the request and commits it. *)

\* compaction_conflict_window
OpenWindow(j) ==
    /\ job[j].pc = "planned"
    /\ job' = [job EXCEPT ![j].pc = "window",
                          ![j].through = IF job[j].windowed THEN latestOrder ELSE NoOrder]
    /\ UNCHANGED <<catalogVars, met>>

InWindow(j, order) == job[j].base < order /\ order <= job[j].through

\* reject_conflicts_since_base with RewriteOrDeleteFiles: any file of the table that
\* was added or removed, or a change of the table itself.
ConflictsSinceBase(j) ==
    \/ \E c \in dataFileChanges : InWindow(j, c[1])
    \/ InWindow(j, table.altered) \/ InWindow(j, table.dropped)

\* reject_rewrite_source_delete_conflicts: delete timelines and inline deletions.
SourceDeleteConflicts(j) ==
    \E i \in job[j].sources :
        \/ \E e \in deleteTimeline[i] : InWindow(j, e[1])
        \/ \E x \in inlineFileDeletions : x[1] = i /\ InWindow(j, x[3])

InlineDeletionsOf(i) == {x \in inlineFileDeletions : x[1] = i}

\* reject_source_delete_files, then the conflict window.
MergeIsAllowed(j) ==
    /\ \A i \in job[j].sources : currentDeleteFile[i] = NoFile
    /\ ~ ConflictsSinceBase(j)

\* The window, then rewrite_source_deletions and min_known_source_row_id_start.
RewriteIsAllowed(j) ==
    /\ ~ ConflictsSinceBase(j)
    /\ ~ SourceDeleteConflicts(j)
    /\ \A i \in job[j].sources :
          currentDeleteFile[i] # NoFile \/ InlineDeletionsOf(i) # {}
    /\ \E i \in job[j].sources : dataFiles[i].row_id_start_known

Reject(j) == job' = [job EXCEPT ![j] = Idle]

\* A rewrite ends the delete file of each source; the deletions of a source that has
\* none are written again under the order of the commit.
CheckSources(j) ==
    LET withDelete == {i \in job[j].sources : currentDeleteFile[i] # NoFile}
    IN  /\ job[j].pc = "window"
        /\ \/ /\ job[j].kind = "merge" /\ MergeIsAllowed(j)
              /\ job' = [job EXCEPT ![j].pc = "checked"]
           \/ /\ job[j].kind = "rewrite" /\ RewriteIsAllowed(j)
              /\ job' = [job EXCEPT
                    ![j].pc = "checked",
                    ![j].expired = {currentDeleteFile[i] : i \in withDelete},
                    ![j].restaged = {<<x[1], x[2]>> : x \in
                        {y \in inlineFileDeletions : y[1] \in job[j].sources \ withDelete}}]
           \/ /\ \/ job[j].kind = "merge" /\ ~ MergeIsAllowed(j)
                 \/ job[j].kind = "rewrite" /\ ~ RewriteIsAllowed(j)
              /\ Reject(j)
        /\ UNCHANGED <<catalogVars, met>>

\* reject_stale_data_file_targets_in_transaction: the first reads of the transaction.
SourcesAreCurrent(j) ==
    /\ job[j].sources \subseteq CurrentFiles
    /\ job[j].groups = {} \/ TableIsCurrent

BeginTransaction(j) ==
    /\ job[j].pc = "checked" /\ job[j].kind # "drop_table"
    /\ IF SourcesAreCurrent(j)
       THEN job' = [job EXCEPT ![j].pc = "trx", ![j].readAt = latestOrder]
       ELSE Reject(j)
    /\ UNCHANGED <<catalogVars, met>>

\* Bug variant: the transaction reads without read conflicts.
SnapshotReads(j) == FALSE

\* The sources' current entries, and, with a replacement file, the table row and the
\* whole current-file range (stage_current_data_file_conflicts).
ReadsChanged(j) ==
    \/ \E i \in job[j].sources : ~ Current(dataFiles[i])
    \/ /\ job[j].groups # {}
       /\ \/ \E c \in dataFileChanges : c[1] > job[j].readAt
          \/ table.altered > job[j].readAt \/ table.dropped > job[j].readAt

RetryOrFail(j) ==
    IF job[j].retries = MaxRetries THEN Reject(j)
    ELSE job' = [job EXCEPT ![j].pc = "checked", ![j].retries = @ + 1]

\* The client keeps with each merged row the order its source file gives for it.
MergedOrigin(g) ==
    [r \in g.rows |->
        dataFiles[CHOOSE i \in g.sources : r \in RowsOf(dataFiles[i])].origin[r]]

\* Sources of several commits, or a client that states max_partial_order, give a file
\* that answers for the snapshots of its sources.
Backfilled(j, g) ==
    job[j].stated \/ Cardinality({dataFiles[i].begin : i \in g.sources}) > 1

\* apply_merge_visibility_from_sources
MergeVisibility(g) ==
    [begin |-> Min({dataFiles[i].begin : i \in g.sources}),
     max_partial |-> Max({Max({dataFiles[i].begin, dataFiles[i].max_partial}) : i \in g.sources})]

\* normalize_merge_replacements: the row ids are known when the sources leave no gap.
\* A backfilled replacement begins with the first source (they are sent in the order of
\* the listing), any other with the compaction.
MergeReplacement(j, g) ==
    LET contiguous == Contiguous(g.sources, Cardinality(g.rows))
    IN  [begin |-> IF Backfilled(j, g) THEN MergeVisibility(g).begin ELSE Commit,
         end |-> NoOrder,
         max_partial |-> IF Backfilled(j, g) THEN MergeVisibility(g).max_partial ELSE NoOrder,
         row_id_start |-> IF contiguous THEN Min({dataFiles[i].row_id_start : i \in g.sources})
                          ELSE 0,
         row_id_start_known |-> contiguous,
         origin |-> IF Backfilled(j, g) THEN MergedOrigin(g) ELSE [r \in g.rows |-> Commit],
         partition |-> g.partition]

\* normalize_rewrite_replacement_row_ids: the range ends where the last source ends.
RewriteReplacement(g) ==
    LET known == {i \in g.sources : dataFiles[i].row_id_start_known}
        first == Min({dataFiles[i].row_id_start : i \in known})
        start == Max({0, Max({row_id_end(dataFiles[i]) : i \in known}) - Cardinality(g.rows)})
    IN  [begin |-> Commit, end |-> NoOrder, max_partial |-> NoOrder,
         row_id_start |-> IF start < first THEN first + start ELSE start,
         row_id_start_known |-> TRUE, origin |-> [r \in g.rows |-> Commit], partition |-> g.partition]

\* Ends the sources, adds the replacements, ends the delete files of rewritten sources
\* and schedules merged sources for cleanup: one commit.
CommitTransaction(j) ==
    LET groups == SetToSeq(job[j].groups)
        first == MaxFiles - Cardinality(UnusedIds) + 1
        isNew(i) == i - first + 1 \in DOMAIN groups
        new(i) == IF job[j].kind = "merge" THEN MergeReplacement(j, groups[i - first + 1])
                  ELSE RewriteReplacement(groups[i - first + 1])
        expiredOf == {deleteFiles[d].data_file : d \in job[j].expired}
    IN  /\ latestOrder < MaxOrder
        /\ Len(groups) <= Cardinality(UnusedIds)
        /\ dataFiles' = [i \in FileIds |-> IF isNew(i) THEN new(i) ELSE Ended(job[j].sources)[i]]
        /\ deleteFiles' = [d \in FileIds |->
              IF d \in job[j].expired THEN [deleteFiles[d] EXCEPT !.end = Commit]
              ELSE deleteFiles[d]]
        /\ currentDeleteFile' = [i \in FileIds |->
              IF i \in expiredOf THEN NoFile ELSE currentDeleteFile[i]]
        /\ inlineFileDeletions' = inlineFileDeletions \cup
              {<<x[1], x[2], Commit>> : x \in job[j].restaged}
        /\ scheduled' = IF job[j].kind = "merge"
                        THEN Scheduled(job[j].sources, CompactionReplacement) ELSE scheduled
        /\ dataFileChanges' = dataFileChanges \cup Changes("removed", job[j].sources)
              \cup Changes("added", {i \in FileIds : isNew(i)})
        /\ latestOrder' = Commit
        /\ Reject(j)
        /\ met' = met \cup Meets("escaped", DropIsPrepared)
        /\ UNCHANGED <<deleteTimeline, deleteFileChanges, table, scheduledDeletes, nextRowId,
                       inserted, deleted>>

EndTransaction(j) ==
    /\ job[j].pc = "trx"
    /\ \/ ReadsChanged(j) /\ RetryOrFail(j) /\ UNCHANGED <<catalogVars, met>>
       \/ ~ ReadsChanged(j) /\ CommitTransaction(j)

-----------------------------------------------------------------------------
(* Dropping the table: the files are listed first, the writes are blind. *)

\* Bug variant: the delete files of the listed files are not ended.
PrepareDropOfDataFiles(j) ==
    /\ "drop_table" \in Kinds /\ job[j].pc = "idle" /\ MayCommit
    /\ job' = [job EXCEPT ![j] = [Idle EXCEPT
                !.pc = "checked", !.kind = "drop_table", !.sources = CurrentFiles]]
    /\ UNCHANGED <<catalogVars, met>>

\* prepare_table_drop
PrepareTableDrop(j) ==
    /\ "drop_table" \in Kinds /\ job[j].pc = "idle" /\ MayCommit
    /\ job' = [job EXCEPT ![j] = [Idle EXCEPT
                !.pc = "checked", !.kind = "drop_table", !.sources = CurrentFiles,
                !.expired = {currentDeleteFile[i] : i \in CurrentFiles} \ {NoFile}]]
    /\ UNCHANGED <<catalogVars, met>>

CommitTableDrop(j) ==
    /\ job[j].pc = "checked" /\ job[j].kind = "drop_table" /\ latestOrder < MaxOrder
    /\ dataFiles' = Ended(job[j].sources)
    /\ deleteFiles' = [d \in FileIds |->
          IF d \in job[j].expired THEN [deleteFiles[d] EXCEPT !.end = Commit] ELSE deleteFiles[d]]
    /\ currentDeleteFile' = [i \in FileIds |->
          IF i \in {deleteFiles[d].data_file : d \in job[j].expired} THEN NoFile
          ELSE currentDeleteFile[i]]
    /\ dataFileChanges' = dataFileChanges \cup Changes("removed", job[j].sources)
    /\ table' = [table EXCEPT !.dropped = Commit]
    /\ latestOrder' = Commit
    /\ Reject(j)
    /\ met' = met \cup Meets("escaped", ~ TableIsCurrent)
    /\ UNCHANGED <<deleteTimeline, inlineFileDeletions, deleteFileChanges, scheduled,
                   scheduledDeletes, nextRowId, inserted, deleted>>

-----------------------------------------------------------------------------
Next ==
    \/ \E shape \in AppendShapes : \E partitions \in [DOMAIN shape -> Partitions] :
          AppendDataFiles(shape, partitions)
    \/ \E i \in FileIds, r \in RowIds, how \in DeleteKinds : DeleteRow(i, r, how)
    \/ \E i \in FileIds : DropFile(i)
    \/ AlterTable
    \/ \E j \in Jobs :
          \/ \E ids \in SUBSET Listed, windowed \in BOOLEAN :
                \/ \E stated \in BOOLEAN : PlanMerge(j, ids, windowed, stated)
                \/ PlanRewrite(j, ids, windowed)
          \/ OpenWindow(j)
          \/ CheckSources(j)
          \/ BeginTransaction(j)
          \/ EndTransaction(j)
          \/ PrepareTableDrop(j)
          \/ CommitTableDrop(j)

Spec == Init /\ [][Next]_vars

-----------------------------------------------------------------------------
(* Properties *)

LiveAt(r, order) ==
    /\ inserted[r] # NoOrder /\ inserted[r] <= order
    /\ deleted[r] = NoOrder \/ deleted[r] > order

\* A reader of any snapshot, old or new, gets each row that is live there from exactly one
\* listed file, and no row that is not: compactions change which files hold the rows, never
\* the rows, and one that races the drop of the table leaves no file behind
\* (list_data_files_at, MergeReplacement, PrepareTableDrop).
ReadsAgree ==
    Regular => \A order \in 1 .. latestOrder :
        LET listed == ListDataFilesAt(dataFiles, order)
            read == [i \in listed |-> RowsReadFrom(i, order)]
            exists == TableIsCurrent \/ order < table.dropped
        IN  \A r \in RowIds :
                Cardinality({i \in listed : r \in read[i]})
                    = IF exists /\ LiveAt(r, order) THEN 1 ELSE 0
=============================================================================
