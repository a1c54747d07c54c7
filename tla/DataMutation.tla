---------------------------- MODULE DataMutation ----------------------------
(***************************************************************************)
(* The commit of a data mutation (fdb_data_mutations/commit.rs): data      *)
(* files to add, delete files to attach, data files to drop, inline rows   *)
(* to flush.  A request runs on its caller's thread as a sequence of reads *)
(* outside any transaction, then one FoundationDB transaction that         *)
(* re-validates and stages everything, then its commit, in a bounded retry *)
(* loop.                                                                   *)
(*                                                                         *)
(* All reads of one transaction see the state at its first read, so the    *)
(* validation and the staging are one step (Stage).  The transaction is    *)
(* doomed once another commit writes a key it has read: `conflicted`.      *)
(* New inline rows, partition values and statistics travel in the same     *)
(* transaction and are not modelled here.                                  *)
(***************************************************************************)
EXTENDS Catalog

CONSTANTS
    Writers,                    \* concurrent requests
    Kinds,                      \* the shapes of mutation the clients send
    Modes,                      \* how a request is bound to the snapshot it read
    Recoverable,                \* whether requests carry a recovery id
    MaxAlters,                  \* bound: metadata and inline commits of other clients
    MAX_MUTATION_COMMIT_RETRIES

ASSUME DataMutationAssumption ==
    /\ Tables # {}
    /\ Writers \subseteq Rows
    /\ Kinds \subseteq {"append", "delete", "update", "replace", "drop", "flush", "flush_append"}
    /\ Modes \subseteq {"unpinned", "pinned", "fenced"}
    /\ Recoverable \subseteq BOOLEAN
    /\ MaxAlters \in Nat
    /\ MAX_MUTATION_COMMIT_RETRIES \in Nat
    /\ MaxFileId >= 1

VARIABLES
    pc,             \* the step each request is at
    plan,           \* FdbMutationPlan of each request
    local,          \* what the call holds while it runs
    commitAttempts, \* recovery ids that have a commit_attempt_key
    applied,        \* history: how often a request with this recovery id took effect
    unguarded,      \* history: files added by commits that drop files or flush inline rows
    otherCommits    \* commits of other clients

receiptVars == <<commitAttempts, applied, unguarded, otherCommits>>
vars == <<catalogVars, pc, plan, local, receiptVars>>

\* An Option is a set with at most one member; `read` = NoOrder is None.
Plan ==
    [table : Tables, adds : BOOLEAN, row_id_start : Nat, record_count : Nat,
     columns : Nat, partition : Nat,
     deletes : SUBSET FileIdSet, rows : SUBSET Rows, drops : SUBSET FileIdSet,
     flushes : BOOLEAN, read : Nat, fenced : BOOLEAN, recovery : SUBSET Writers]

EmptyPlan ==
    [table |-> CHOOSE t \in Tables : TRUE, adds |-> FALSE, row_id_start |-> 0,
     record_count |-> 0, columns |-> 0, partition |-> 0, deletes |-> {}, rows |-> {},
     drops |-> {}, flushes |-> FALSE, read |-> NoOrder, fenced |-> FALSE, recovery |-> {}]

\* attempt_index, the reserved ids, the prepared flush (the fence value, then the chunks),
\* the request read set (a receipt found absent and the newest order it has seen), and
\* whether a key the open transaction read was written since.
Local ==
    [attempt : 0 .. MAX_MUTATION_COMMIT_RETRIES,
     dataId : FileIdSet \cup {NoFile}, deleteId : FileIdSet \cup {NoFile},
     fence : Nat, chunks : SUBSET Nat,
     cachedAbsent : BOOLEAN, cachedLatest : Nat, conflicted : BOOLEAN]

NoLocal ==
    [attempt |-> 0, dataId |-> NoFile, deleteId |-> NoFile, fence |-> 0, chunks |-> {},
     cachedAbsent |-> FALSE, cachedLatest |-> NoOrder, conflicted |-> FALSE]

Running ==
    {"prepare", "precheck", "recover", "reserve", "preflight", "stage", "commit", "unknown"}
Returned == {"done", "failed", "error"}

\* A catalog after one append with inline rows, and possibly one delete of an
\* uninteresting row.
Init ==
    /\ \E deleted \in BOOLEAN :
        /\ latestOrder = IF deleted THEN 2 ELSE 1
        /\ maxFileId = IF deleted THEN 1 ELSE 0
        /\ deleteFiles = [x \in FileIdSet |->
              [data_file |-> 0, begin |-> IF deleted /\ x = 1 THEN 2 ELSE NoOrder,
               end |-> NoOrder, partial |-> NoOrder, rows |-> {}]]
        /\ currentDeleteFile =
              [f \in FileIdSet |-> IF deleted /\ f = 0 THEN 1 ELSE NoFile]
    /\ dataFiles = [f \in FileIdSet |->
          [table |-> EmptyPlan.table, begin |-> IF f = 0 THEN 1 ELSE NoOrder, end |-> NoOrder,
           row_id_start |-> 0, record_count |-> 1, partition |-> 1]]
    /\ currentDataFiles = {0}
    /\ currentTables = [t \in Tables |-> [columns |-> 1, partition |-> 1]]
    /\ tableNextRowId = [t \in Tables |-> IF t = EmptyPlan.table THEN 1 ELSE 0]
    /\ inlineRows = [t \in Tables |-> IF t = EmptyPlan.table THEN {1} ELSE {}]
    /\ flushFence = [t \in Tables |-> 0]
    /\ pc = [w \in Writers |-> "idle"]
    /\ plan = [w \in Writers |-> EmptyPlan]
    /\ local = [w \in Writers |-> NoLocal]
    /\ commitAttempts = {}
    /\ applied = [w \in Writers |-> 0]
    /\ unguarded = {}
    /\ otherCommits = 0

-----------------------------------------------------------------------------
(* The keys a staged transaction has read and the keys its commit writes. *)

Targets(p) == p.deletes \cup p.drops

\* Targets newer than the read snapshot are not validated.
ActiveTargets(p) ==
    {f \in Targets(p) : p.read = NoOrder \/ dataFiles[f].begin <= p.read}

\* Bug variant of the families below: the key is read outside the transaction, or with
\* a snapshot read, and does not conflict.
ReadWithoutConflict(p) == {}

FenceReads(p) == IF p.fenced THEN {<<"snapshot">>} ELSE {}
ReceiptReads(p) == {<<"commit_attempt", r>> : r \in p.recovery}
TargetReads(p) == {<<"current_data_file", f>> : f \in ActiveTargets(p)}
DeleteReads(p) == {<<"current_delete_file", f>> : f \in p.deletes}
TableReads(p) == IF p.adds THEN {<<"current_table_row", p.table>>} ELSE {}

\* validates_with_row_id_watermark: it drops no file and flushes nothing inline.
RowIdsGuarded(p) == p.drops = {} /\ ~p.flushes

\* A mutation that does not validate with the row-id watermark takes the whole
\* current_data_file range of its tables as a conflict range instead.
RowIdReads(p) ==
    IF ~p.adds THEN {}
    ELSE IF RowIdsGuarded(p) THEN {<<"table_next_row_id", p.table>>}
    ELSE {<<"current_data_files_of", p.table>>}

\* reject_existing_file_ids
FileIdReads(w) ==
    (IF plan[w].adds THEN {<<"data_file", local[w].dataId>>} ELSE {})
    \cup {<<"delete_file", local[w].deleteId>> : f \in plan[w].deletes}

\* stage_prepared_inline_flushes reads the fence and the live rows it is about to clear.
FlushKeys(p) ==
    IF p.flushes THEN {<<"inline_flush_fence", p.table>>, <<"inline_current_rows", p.table>>}
    ELSE {}

ReadKeys(w) ==
    LET p == plan[w]
    IN  FenceReads(p) \cup ReceiptReads(p) \cup TargetReads(p) \cup DeleteReads(p)
        \cup TableReads(p) \cup RowIdReads(p) \cup FileIdReads(w) \cup FlushKeys(p)

WrittenKeys(w) ==
    LET p == plan[w]
        touched == p.drops \cup IF p.adds THEN {local[w].dataId} ELSE {}
    IN  {<<"snapshot">>}
        \cup {<<"commit_attempt", r>> : r \in p.recovery}
        \cup {<<"current_data_file", f>> : f \in touched}
        \cup {<<"data_file", f>> : f \in touched}
        \cup {<<"current_data_files_of", p.table>> : f \in touched}
        \cup {<<"current_delete_file", f>> : f \in p.deletes}
        \cup {<<"delete_file", local[w].deleteId>> : f \in p.deletes}
        \cup {<<"delete_file", currentDeleteFile[f]>> : f \in p.deletes}
        \cup FlushKeys(p)
        \cup IF p.adds THEN {<<"table_next_row_id", p.table>>} ELSE {}

\* A commit of these keys dooms every open transaction that has read one of them.
Doomed(v, written) ==
    [local[v] EXCEPT !.conflicted = @ \/ (pc[v] = "commit" /\ ReadKeys(v) \cap written # {})]

\* The call of w goes on to `step` with locals l; its locals are gone once it returned.
Goes(w, step, l) ==
    /\ pc' = [pc EXCEPT ![w] = step]
    /\ local' = [local EXCEPT ![w] = IF step \in Returned THEN NoLocal ELSE l]

-----------------------------------------------------------------------------
(* The client: what a DuckLake transaction that read the newest snapshot sends. *)

Adds(kind) == kind \in {"append", "update", "replace", "flush_append"}
Deletes(kind) == kind \in {"delete", "update"}
Drops(kind) == kind \in {"replace", "drop"}
Flushes(kind) == kind \in {"flush", "flush_append"}

\* Delete files are cumulative: the client merges the deletions it read with its own.
RowsDeletedFrom(f) ==
    IF currentDeleteFile[f] = NoFile THEN {} ELSE deleteFiles[currentDeleteFile[f]].rows

\* A fence is captured together with the read snapshot it protects; a flush that names no
\* read snapshot is taken to have read the snapshot it flushes at.
ComposedPlan(w, kind, f, mode, recoverable) ==
    LET t == dataFiles[f].table
    IN  [table |-> t, adds |-> Adds(kind), row_id_start |-> tableNextRowId[t],
         record_count |-> 1, columns |-> currentTables[t].columns,
         partition |-> currentTables[t].partition,
         deletes |-> IF Deletes(kind) THEN {f} ELSE {},
         rows |-> IF Deletes(kind) THEN RowsDeletedFrom(f) \cup {w} ELSE {},
         drops |-> IF Drops(kind) THEN {f} ELSE {},
         flushes |-> Flushes(kind),
         read |-> IF mode = "unpinned" /\ ~Flushes(kind) THEN NoOrder ELSE latestOrder,
         fenced |-> mode = "fenced",
         recovery |-> IF recoverable THEN {w} ELSE {}]

Request(w) ==
    /\ pc[w] = "idle"
    /\ \E kind \in Kinds, f \in currentDataFiles, mode \in Modes, recoverable \in Recoverable :
        /\ TableExists(dataFiles[f].table)
        /\ plan' = [plan EXCEPT ![w] = ComposedPlan(w, kind, f, mode, recoverable)]
    /\ Goes(w, "prepare", NoLocal)
    /\ UNCHANGED <<catalogVars, receiptVars>>

\* The same request is sent again while, or after, the first one runs.
Resend(w, v) ==
    /\ pc[w] = "idle"
    /\ pc[v] # "idle"
    /\ plan[v].recovery # {}
    /\ plan' = [plan EXCEPT ![w] = plan[v]]
    /\ Goes(w, "prepare", NoLocal)
    /\ UNCHANGED <<catalogVars, receiptVars>>

\* A metadata commit of another client replaces a current table row.
AlterTable(t) ==
    /\ TableExists(t)
    /\ otherCommits < MaxAlters
    /\ otherCommits' = otherCommits + 1
    /\ \/ currentTables' = [currentTables EXCEPT ![t].columns = @ + 1]
       \/ currentTables' = [currentTables EXCEPT ![t].partition = @ + 1]
    /\ latestOrder' = latestOrder + 1
    /\ local' = [v \in Writers |-> Doomed(v, {<<"snapshot">>, <<"current_table_row", t>>})]
    /\ UNCHANGED <<dataFiles, currentDataFiles, deleteFiles, currentDeleteFile,
                   tableNextRowId, maxFileId, inlineRows, flushFence, pc, plan,
                   commitAttempts, applied, unguarded>>

\* Another client inserts inline rows (a new chunk), or deletes some, which rewrites the
\* live-row keys that a flush reads.
OtherInline(t) ==
    /\ TableExists(t)
    /\ otherCommits < MaxAlters
    /\ otherCommits' = otherCommits + 1
    /\ latestOrder' = latestOrder + 1
    /\ \/ /\ inlineRows' = [inlineRows EXCEPT ![t] = @ \cup {latestOrder + 1}]
          /\ local' = [v \in Writers |-> Doomed(v, {<<"snapshot">>})]
       \/ /\ inlineRows[t] # {}
          /\ local' = [v \in Writers |->
                          Doomed(v, {<<"snapshot">>, <<"inline_current_rows", t>>})]
          /\ UNCHANGED inlineRows
    /\ UNCHANGED <<dataFiles, currentDataFiles, deleteFiles, currentDeleteFile, currentTables,
                   tableNextRowId, maxFileId, flushFence, pc, plan, commitAttempts, applied,
                   unguarded>>

-----------------------------------------------------------------------------
(* The request, before its transaction. *)

HasReceipt(w) == plan[w].recovery \cap commitAttempts # {}

\* recover_committed_mutation reads through the request read set.
Recovered(w) == HasReceipt(w) /\ ~local[w].cachedAbsent

\* current_catalog_state, on the commit-attempt path, prefetches the newest snapshot and
\* the receipt into the request read set; the plain data mutation call does not.
Prepare(w) ==
    /\ pc[w] = "prepare"
    /\ \E prefetch \in BOOLEAN :
        Goes(w, "precheck", [local[w] EXCEPT !.cachedAbsent = prefetch /\ ~HasReceipt(w),
                                             !.cachedLatest = IF prefetch THEN latestOrder ELSE @])
    /\ UNCHANGED <<catalogVars, plan, receiptVars>>

\* reject_delete_targets_changed_after_read: only for a request with a read snapshot; the
\* tables are compared only if the newest snapshot it knows of is not the one it read.
TargetsUnchanged(p, latest) ==
    \/ p.read = NoOrder
    \/ Targets(p) = {}
    \/ /\ \/ latest = p.read
          \/ currentTables[p.table] = [columns |-> p.columns, partition |-> p.partition]
       /\ \A f \in Targets(p) :
             dataFiles[f].begin <= p.read => ~(dataFiles[f].end > p.read)

\* runtime_foundationdb_commit_data_mutation up to the commit loop.  A flush is also refused
\* when the catalog changed since it was read, unless the newest snapshot happens to have
\* the sequence the flush proposes.
RejectStale(w) ==
    LET known == local[w].cachedLatest
        latest == IF known = NoOrder THEN latestOrder ELSE known
    IN  /\ pc[w] = "precheck"
        /\ \E sameSequence \in BOOLEAN :
            Goes(w, IF Recovered(w) THEN "done"
                    ELSE IF /\ plan[w].flushes => latest <= plan[w].read \/ sameSequence
                            /\ TargetsUnchanged(plan[w], latest)
                         THEN "recover" ELSE "failed",
                 [local[w] EXCEPT !.cachedLatest = NoOrder])
        /\ UNCHANGED <<catalogVars, plan, receiptVars>>

\* recover_committed_mutation at the head of every attempt.
Recover(w) ==
    /\ pc[w] = "recover"
    /\ Goes(w, IF Recovered(w) THEN "done" ELSE "reserve", local[w])
    /\ UNCHANGED <<catalogVars, plan, receiptVars>>

ProposedCount(p) == (IF p.adds THEN 1 ELSE 0) + (IF p.deletes = {} THEN 0 ELSE 1)

\* reserve_mutation_file_ids, as the allocator that FileIds implements: fresh ids for
\* every attempt, also for one that fails later.  Running out of ids is an error.
Reserve(w) ==
    LET p == plan[w]
        last == maxFileId + ProposedCount(p)
    IN  /\ pc[w] = "reserve"
        /\ IF last > MaxFileId
           THEN Goes(w, "failed", NoLocal) /\ UNCHANGED maxFileId
           ELSE /\ maxFileId' = last
                /\ Goes(w, "preflight",
                        [local[w] EXCEPT
                            !.dataId = IF p.adds THEN maxFileId + 1 ELSE NoFile,
                            !.deleteId = IF p.deletes = {} THEN NoFile ELSE last])
        /\ UNCHANGED <<latestOrder, dataFiles, currentDataFiles, deleteFiles,
                       currentDeleteFile, currentTables, tableNextRowId, inlineRows,
                       flushFence, plan, receiptVars>>

ProposedRow(p, order) ==
    [table |-> p.table, begin |-> order, end |-> NoOrder, row_id_start |-> p.row_id_start,
     record_count |-> p.record_count, partition |-> p.partition]

\* prepare_inline_flush: the fence value and the chunks visible at the flush snapshot.  A
\* flush in between the two reads changes the fence, so they are one step.
PreparedFlush(p, l) ==
    IF p.flushes
    THEN [l EXCEPT !.fence = flushFence[p.table],
                   !.chunks = {o \in inlineRows[p.table] : o <= p.read}]
    ELSE l

\* reject_current_data_file_row_id_overlaps_except_with_latest_order: a mutation that
\* drops files compares its row ids with the current files, outside the transaction.
Preflight(w) ==
    LET p == plan[w]
        clean == p.adds /\ p.drops # {} /\ ~p.flushes =>
                    \A f \in currentDataFiles \ p.drops :
                        ~Overlaps(ProposedRow(p, NoOrder), dataFiles[f])
    IN  /\ pc[w] = "preflight"
        /\ Goes(w, IF clean THEN "stage" ELSE "failed", PreparedFlush(p, local[w]))
        /\ UNCHANGED <<catalogVars, plan, receiptVars>>

-----------------------------------------------------------------------------
(* The transaction. *)

\* SnapshotFence::stage
FenceHolds(p) == p.fenced => latestOrder = p.read

\* reject_allocated_table_row_id_reuse_in_transaction
RowIdsUnallocated(p) ==
    p.adds /\ RowIdsGuarded(p) => p.row_id_start >= tableNextRowId[p.table]

\* reject_current_delete_file_after_read
DeleteFileNotAfterRead(p, f) ==
    currentDeleteFile[f] # NoFile => deleteFiles[currentDeleteFile[f]].begin <= p.read

\* reject_stale_data_file_targets_in_transaction, after the receipt
TargetsCurrent(p) ==
    /\ ActiveTargets(p) \subseteq currentDataFiles
    /\ p.adds => /\ TableExists(p.table)
                 /\ p.read # NoOrder => currentTables[p.table].partition = p.partition
    /\ p.read # NoOrder =>
          \A f \in p.deletes \cap ActiveTargets(p) : DeleteFileNotAfterRead(p, f)

\* reject_existing_file_ids
FileIdsUnused(w) ==
    /\ plan[w].adds => ~Exists(dataFiles[local[w].dataId])
    /\ plan[w].deletes # {} => ~Exists(deleteFiles[local[w].deleteId])

\* Bug variant: the read set outlives the commit.
KeepReadSet(l) == l

\* invalidate_after_mutation, called just before the commit
InvalidateReadSet(l) == [l EXCEPT !.cachedAbsent = FALSE]

\* Bug variant: the transaction asks the request read set for the receipt.
ReceiptInReadSet(w) == Recovered(w)

\* The receipt is read inside the transaction, not through the request read set.
ReceiptInTransaction(w) == HasReceipt(w)

\* stage_prepared_inline_flushes: no other flush since, and there is something to flush.
FlushFits(w) ==
    plan[w].flushes => flushFence[plan[w].table] = local[w].fence /\ local[w].chunks # {}

\* A flush without a fence that loses to another commit is answered with success and
\* leaves everything it carries undone (DataMutationCommit::default()).
UnfencedFlush(p) == p.flushes /\ ~p.fenced

\* The answer of a flush that does not fit, and of one whose commit met a conflict.
LostFlush(p) == IF UnfencedFlush(p) THEN "done" ELSE "failed"

Stage(w) ==
    /\ pc[w] = "stage"
    /\ Goes(w, IF ~FenceHolds(plan[w]) \/ ~RowIdsUnallocated(plan[w]) THEN "failed"
               ELSE IF ReceiptInTransaction(w) THEN "done"
               ELSE IF ~TargetsCurrent(plan[w]) THEN "failed"
               ELSE IF ~FlushFits(w) THEN LostFlush(plan[w])
               ELSE IF FileIdsUnused(w) THEN "commit"
               ELSE "failed",
            InvalidateReadSet([local[w] EXCEPT !.conflicted = FALSE]))
    /\ UNCHANGED <<catalogVars, plan, receiptVars>>

\* After a commit call only the attempt index and the request read set matter.
AfterCommit(l) == [NoLocal EXCEPT !.attempt = l.attempt, !.cachedAbsent = l.cachedAbsent]

\* The staged writes take effect at the next order, and the call goes on to `step`.
Apply(w, step) ==
    LET p == plan[w]
        order == latestOrder + 1
        id == local[w].dataId
    IN  /\ latestOrder' = order
        /\ dataFiles' =
              StageExpired(IF p.adds THEN StageDataFile(dataFiles, id, ProposedRow(p, order))
                           ELSE dataFiles,
                           p.drops, order)
        /\ currentDataFiles' = (currentDataFiles \cup IF p.adds THEN {id} ELSE {}) \ p.drops
        /\ tableNextRowId' =
              IF p.adds
              THEN [tableNextRowId EXCEPT ![p.table] = Maximum(@, p.row_id_start + p.record_count)]
              ELSE tableNextRowId
        /\ IF p.deletes = {}
           THEN UNCHANGED <<deleteFiles, currentDeleteFile>>
           ELSE \E f \in p.deletes :
                   /\ deleteFiles' = StageDeleteFile(deleteFiles, currentDeleteFile[f],
                                                     local[w].deleteId, f, p.rows, order)
                   /\ currentDeleteFile' = [currentDeleteFile EXCEPT ![f] = local[w].deleteId]
        /\ inlineRows' = IF p.flushes THEN [inlineRows EXCEPT ![p.table] = @ \ local[w].chunks]
                         ELSE inlineRows
        /\ flushFence' = IF p.flushes THEN [flushFence EXCEPT ![p.table] = @ + 1]
                         ELSE flushFence
        /\ unguarded' = IF p.adds /\ ~RowIdsGuarded(p) THEN unguarded \cup {id} ELSE unguarded
        /\ commitAttempts' = commitAttempts \cup p.recovery
        /\ applied' = [r \in Writers |-> applied[r] + IF r \in p.recovery THEN 1 ELSE 0]
        /\ pc' = [pc EXCEPT ![w] = step]
        /\ local' = [v \in Writers |->
              IF v # w THEN Doomed(v, WrittenKeys(w))
              ELSE IF step \in Returned THEN NoLocal ELSE AfterCommit(local[w])]
        /\ UNCHANGED <<currentTables, maxFileId, plan, otherCommits>>

CommitSucceeds(w) ==
    /\ pc[w] = "commit"
    /\ ~local[w].conflicted
    /\ Apply(w, "done")

\* RetryableNotCommitted: a conflict, or a read version that is too old.
CommitNotApplied(w) ==
    /\ pc[w] = "commit"
    /\ IF UnfencedFlush(plan[w])
       THEN Goes(w, "done", NoLocal)
       ELSE IF local[w].attempt < MAX_MUTATION_COMMIT_RETRIES
       THEN Goes(w, "recover", [AfterCommit(local[w]) EXCEPT !.attempt = @ + 1])
       ELSE Goes(w, "failed", NoLocal)
    /\ UNCHANGED <<catalogVars, plan, receiptVars>>

\* commit_unknown_result (MaybeCommitted): the writes are there, or they are not.
CommitUnknownApplied(w) ==
    /\ pc[w] = "commit"
    /\ ~local[w].conflicted
    /\ Apply(w, "unknown")

CommitUnknownLost(w) ==
    /\ pc[w] = "commit"
    /\ Goes(w, "unknown", AfterCommit(local[w]))
    /\ UNCHANGED <<catalogVars, plan, receiptVars>>

\* Bug variant: an unknown outcome is taken for success.
TrustUnknown(w) ==
    /\ pc[w] = "unknown"
    /\ Goes(w, "done", local[w])
    /\ UNCHANGED <<catalogVars, plan, receiptVars>>

\* RecoverMaybeCommitted: the receipt decides; without one the error is returned.
RecoverUnknown(w) ==
    /\ pc[w] = "unknown"
    /\ Goes(w, IF Recovered(w) THEN "done" ELSE "failed", local[w])
    /\ UNCHANGED <<catalogVars, plan, receiptVars>>

\* Any read, the size check or the commit can fail with an error that ends the call.
Fail(w) ==
    /\ pc[w] \in Running
    /\ Goes(w, "error", NoLocal)
    /\ UNCHANGED <<catalogVars, plan, receiptVars>>

Step(w) ==
    \/ Prepare(w) \/ RejectStale(w) \/ Recover(w) \/ Reserve(w) \/ Preflight(w) \/ Stage(w)
    \/ CommitSucceeds(w) \/ CommitNotApplied(w)
    \/ CommitUnknownApplied(w) \/ CommitUnknownLost(w) \/ RecoverUnknown(w)
    \/ Fail(w)

Next ==
    \/ \E w \in Writers : Request(w) \/ Step(w) \/ \E v \in Writers : Resend(w, v)
    \/ \E t \in Tables : AlterTable(t) \/ OtherInline(t)

Spec == Init /\ [][Next]_vars

-----------------------------------------------------------------------------
\* Every catalog key family and every request stays in its type.
TypeOK ==
    /\ CatalogTypeOK
    /\ pc \in [Writers -> {"idle"} \cup Running \cup Returned]
    /\ plan \in [Writers -> Plan]
    /\ local \in [Writers -> Local]
    /\ commitAttempts \in SUBSET Writers
    /\ applied \in [Writers -> Nat]
    /\ unguarded \in SUBSET FileIdSet
    /\ otherCommits \in Nat

\* A request with a recovery id takes effect at most once, however often it is sent,
\* retried or answered with commit_unknown_result, and its receipt says exactly whether
\* it did (commit_attempt_key is written in the transaction of the mutation).
AppliedOnce ==
    \A r \in Writers : applied[r] = IF r \in commitAttempts THEN 1 ELSE 0

\* A call that returned success has had its effect, unless it flushes inline rows without
\* a snapshot fence: no path through recovery, through the receipt found inside the
\* transaction or through a flush that lost acknowledges any other mutation that is not
\* there.  Of an unfenced flush a success says nothing, neither of the flush nor of the
\* files that travel with it (the three Done(DataMutationCommit::default()) of commit.rs).
AcknowledgedIsApplied ==
    \A w \in Writers : pc[w] = "done" /\ ~UnfencedFlush(plan[w])
                          => plan[w].recovery \subseteq commitAttempts

\* The live files of a table never share a row id, as long as they were added by commits
\* that drop no file and flush no inline rows (two clients that read the same next_row_id
\* must not both publish it).
RowIdsDisjoint ==
    \A f, g \in currentDataFiles \ unguarded :
        f # g => ~Overlaps(dataFiles[f], dataFiles[g])

\* A fenced mutation takes effect only directly after the snapshot it read: anything
\* committed in between, even between its validation and its commit, prevents it.
FenceIsExact ==
    [][\A w \in Writers :
          pc[w] = "commit" /\ plan[w].fenced /\ latestOrder' # latestOrder
            /\ pc'[w] # "commit"
              => latestOrder = plan[w].read]_vars

\* A data file appears only in a table that exists at that moment, and if the request
\* named a read snapshot, under the partition spec the table has at that moment.
AppendMatchesTable ==
    [][\A w \in Writers :
          pc[w] = "commit" /\ plan[w].adds /\ dataFiles' # dataFiles /\ pc'[w] # "commit"
              => /\ TableExists(plan[w].table)
                 /\ plan[w].read # NoOrder =>
                       currentTables[plan[w].table].partition = plan[w].partition]_vars

\* A commit whose outcome was unknown is never reported as failed when it took effect:
\* the receipt that decides must not be one the request read before the commit.
UnknownIsResolved ==
    [][\A w \in Writers :
          pc[w] = "unknown" /\ HasReceipt(w) => pc'[w] # "failed"]_vars

\* A pinned deletion never commits on top of a file's first deletion that its client has
\* not seen, however the two requests interleave (reject_current_delete_file_after_read).
FirstDeletionSeen ==
    [][\A w \in Writers :
          pc[w] = "commit" /\ plan[w].read # NoOrder /\ deleteFiles' # deleteFiles
            /\ pc'[w] # "commit"
              => \A f \in plan[w].deletes : DeleteFileNotAfterRead(plan[w], f)]_vars
=============================================================================
