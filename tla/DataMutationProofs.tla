-------------------------- MODULE DataMutationProofs --------------------------
(***************************************************************************)
(* Proofs about the commit of a data mutation, for any number of requests, *)
(* tables and files, every mix of mutation kinds and any retry budget.     *)
(***************************************************************************)
EXTENDS DataMutation, TLAPS

\* Between the reservation and the commit a request holds ids at or below the watermark.
IdsReserved ==
    \A w \in Writers : pc[w] \in {"preflight", "stage", "commit"} =>
        /\ plan[w].adds => local[w].dataId \in FileIdSet
        /\ plan[w].deletes # {} => local[w].deleteId \in FileIdSet

\* A request carries at most one recovery id (Option<CommitAttemptId>).
PlanShape ==
    \A w \in Writers : \A r, s \in plan[w].recovery : r = s

\* An open transaction that no commit has doomed would still find its receipt absent.
ReceiptStillAbsent ==
    \A w \in Writers :
        pc[w] = "commit" /\ ~local[w].conflicted => plan[w].recovery \cap commitAttempts = {}

\* The inductive strengthening of AppliedOnce and AcknowledgedIsApplied.
IInv ==
    /\ TypeOK /\ IdsReserved /\ PlanShape /\ ReceiptStillAbsent
    /\ AppliedOnce /\ AcknowledgedIsApplied

-----------------------------------------------------------------------------
\* Facts about the two places where locals change.
LEMMA NoLocalType == NoLocal \in Local
  BY DataMutationAssumption DEF NoLocal, Local, NoFile, NoOrder

LEMMA AfterCommitType ==
    ASSUME NEW l \in Local
    PROVE  AfterCommit(l) \in Local /\ AfterCommit(l).attempt = l.attempt
  BY NoLocalType, Zenon DEF AfterCommit, NoLocal, Local

LEMMA PreparedFlushType ==
    ASSUME CatalogTypeOK, NEW p \in Plan, NEW l \in Local
    PROVE  /\ PreparedFlush(p, l) \in Local
           /\ PreparedFlush(p, l).dataId = l.dataId
           /\ PreparedFlush(p, l).deleteId = l.deleteId
           /\ PreparedFlush(p, l).cachedAbsent = l.cachedAbsent
<1>1. flushFence[p.table] \in Nat /\ {o \in inlineRows[p.table] : o <= p.read} \in SUBSET Nat
  BY Zenon DEF CatalogTypeOK, Plan
<1> QED
  BY <1>1, Zenon DEF PreparedFlush, Local

LEMMA GoesType ==
    ASSUME TypeOK, NEW w \in Writers, NEW step \in Running \cup Returned,
           NEW l \in Local, Goes(w, step, l)
    PROVE  /\ pc' \in [Writers -> {"idle"} \cup Running \cup Returned]
           /\ local' \in [Writers -> Local]
           /\ pc'[w] = step
           /\ local'[w] = IF step \in Returned THEN NoLocal ELSE l
           /\ \A v \in Writers : v # w => pc'[v] = pc[v] /\ local'[v] = local[v]
  BY NoLocalType, Zenon DEF Goes, TypeOK

\* Dooming a transaction changes nothing but its flag, and only sets it.
LEMMA DoomedType ==
    ASSUME TypeOK, NEW v \in Writers, NEW written
    PROVE  /\ Doomed(v, written) \in Local
           /\ Doomed(v, written).dataId = local[v].dataId
           /\ Doomed(v, written).deleteId = local[v].deleteId
           /\ Doomed(v, written).cachedAbsent = local[v].cachedAbsent
           /\ ~Doomed(v, written).conflicted =>
                 /\ ~local[v].conflicted
                 /\ pc[v] = "commit" => ReadKeys(v) \cap written = {}
<1>1. local[v] \in Local
  BY Zenon DEF TypeOK
<1> DEFINE hit == pc[v] = "commit" /\ ReadKeys(v) \cap written # {}
<1>2. Doomed(v, written) = [local[v] EXCEPT !.conflicted = local[v].conflicted \/ hit]
  BY <1>1, Zenon DEF Doomed, Local
<1>3. (local[v].conflicted \/ hit) \in BOOLEAN
  BY Zenon
<1> HIDE DEF hit
<1>4. /\ Doomed(v, written) \in Local
      /\ Doomed(v, written).dataId = local[v].dataId
      /\ Doomed(v, written).deleteId = local[v].deleteId
      /\ Doomed(v, written).cachedAbsent = local[v].cachedAbsent
      /\ Doomed(v, written).conflicted = (local[v].conflicted \/ hit)
  BY <1>1, <1>2, <1>3, Zenon DEF Local
<1> QED
  BY <1>4, Zenon DEF hit

\* The requests whose ids, receipts or outcome a step of w may change are w alone.
LEMMA LocalStep ==
    ASSUME IInv, NEW w \in Writers, NEW step \in Running \cup Returned, NEW l \in Local,
           Goes(w, step, l), CatalogTypeOK',
           UNCHANGED <<plan, receiptVars>>,
           step \in {"preflight", "stage", "commit"} =>
                /\ plan[w].adds => l.dataId \in FileIdSet
                /\ plan[w].deletes # {} => l.deleteId \in FileIdSet,
           step = "commit" => plan[w].recovery \cap commitAttempts = {},
           step = "done" => UnfencedFlush(plan[w]) \/ plan[w].recovery \subseteq commitAttempts
    PROVE  IInv'
<1>1. /\ pc' \in [Writers -> {"idle"} \cup Running \cup Returned]
      /\ local' \in [Writers -> Local]
      /\ pc'[w] = step
      /\ local'[w] = IF step \in Returned THEN NoLocal ELSE l
      /\ \A v \in Writers : v # w => pc'[v] = pc[v] /\ local'[v] = local[v]
  BY GoesType, Zenon DEF IInv
<1> USE <1>1
<1>2. /\ plan' = plan /\ commitAttempts' = commitAttempts /\ applied' = applied
      /\ unguarded' = unguarded /\ otherCommits' = otherCommits
  BY Zenon DEF receiptVars
<1> USE <1>2
<1>3. TypeOK'
  BY Zenon DEF IInv, TypeOK
<1>4. IdsReserved'
  BY Zenon DEF IInv, IdsReserved, Returned
<1>5. PlanShape' /\ AppliedOnce'
  BY Zenon DEF IInv, PlanShape, AppliedOnce
<1>6. ReceiptStillAbsent'
  BY Zenon DEF IInv, ReceiptStillAbsent
<1>7. AcknowledgedIsApplied'
  BY Zenon DEF IInv, AcknowledgedIsApplied
<1> QED
  BY <1>3, <1>4, <1>5, <1>6, <1>7, Zenon DEF IInv

LEMMA CatalogUnchanged == CatalogTypeOK /\ UNCHANGED catalogVars => CatalogTypeOK'
  BY Zenon DEF CatalogTypeOK, catalogVars

\* A receipt that is found says that the whole request is there.
LEMMA ReceiptMeansApplied ==
    ASSUME PlanShape, NEW w \in Writers, HasReceipt(w)
    PROVE  plan[w].recovery \subseteq commitAttempts
  BY DEF PlanShape, HasReceipt

\* The steps of a request that touch only its locals.
LEMMA RequestSteps ==
    ASSUME IInv, NEW w \in Writers,
           \/ Prepare(w) \/ RejectStale(w) \/ Recover(w) \/ Preflight(w) \/ Stage(w)
           \/ CommitNotApplied(w) \/ CommitUnknownLost(w) \/ RecoverUnknown(w) \/ Fail(w)
    PROVE  IInv'
<1> USE NoLocalType, DataMutationAssumption
<1>l. local[w] \in Local /\ CatalogTypeOK /\ PlanShape /\ latestOrder \in Nat
  BY Zenon DEF IInv, TypeOK, CatalogTypeOK
<1> USE <1>l
<1>a. CASE Prepare(w)
  <2>1. PICK prefetch \in BOOLEAN :
           Goes(w, "precheck", [local[w] EXCEPT !.cachedAbsent = prefetch /\ ~HasReceipt(w),
                                   !.cachedLatest = IF prefetch THEN latestOrder ELSE @])
    BY <1>a, Zenon DEF Prepare
  <2> DEFINE absent == prefetch /\ ~HasReceipt(w)
  <2> DEFINE l == [local[w] EXCEPT !.cachedAbsent = absent,
                                   !.cachedLatest = IF prefetch THEN latestOrder ELSE @]
  <2>2. absent \in BOOLEAN
    BY Zenon
  <2>g. Goes(w, "precheck", l)
    BY <2>1, Zenon
  <2>3. l \in Local
    <3> HIDE DEF absent
    <3> QED
      BY <2>2, Zenon DEF Local
  <2> HIDE DEF l
  <2>4. CatalogTypeOK' /\ UNCHANGED <<plan, receiptVars>>
    BY <1>a, CatalogUnchanged, Zenon DEF Prepare
  <2> QED
    BY <2>3, <2>4, <2>g, LocalStep, Zenon DEF Running
<1>b. CASE RejectStale(w)
  <2> DEFINE l == [local[w] EXCEPT !.cachedLatest = NoOrder]
  <2>1. l \in Local
    BY Zenon DEF Local, NoOrder
  <2>2. PICK step \in {"done", "recover", "failed"} :
            Goes(w, step, l) /\ (step = "done" => HasReceipt(w))
    BY <1>b, Zenon DEF RejectStale, Recovered
  <2>3. CatalogTypeOK' /\ UNCHANGED <<plan, receiptVars>>
    BY <1>b, CatalogUnchanged, Zenon DEF RejectStale
  <2> HIDE DEF l
  <2> QED
    BY <2>1, <2>2, <2>3, LocalStep, ReceiptMeansApplied, Zenon DEF Running, Returned
<1>c. CASE Recover(w)
  <2>1. PICK step \in {"done", "reserve"} :
            Goes(w, step, local[w]) /\ (step = "done" => HasReceipt(w))
    BY <1>c, Zenon DEF Recover, Recovered
  <2>2. CatalogTypeOK' /\ UNCHANGED <<plan, receiptVars>>
    BY <1>c, CatalogUnchanged, Zenon DEF Recover
  <2> QED
    BY <2>1, <2>2, LocalStep, ReceiptMeansApplied, Zenon DEF Running, Returned
<1>d. CASE Preflight(w)
  <2> DEFINE l == PreparedFlush(plan[w], local[w])
  <2>1. PICK step \in {"stage", "failed"} : Goes(w, step, l)
    BY <1>d, Zenon DEF Preflight
  <2>l. l \in Local /\ l.dataId = local[w].dataId /\ l.deleteId = local[w].deleteId
    BY PreparedFlushType, Zenon DEF IInv, TypeOK
  <2>2. CatalogTypeOK' /\ UNCHANGED <<plan, receiptVars>>
    BY <1>d, CatalogUnchanged, Zenon DEF Preflight
  <2>3. /\ plan[w].adds => l.dataId \in FileIdSet
        /\ plan[w].deletes # {} => l.deleteId \in FileIdSet
    BY <1>d, <2>l, Zenon DEF Preflight, IInv, IdsReserved
  <2> HIDE DEF l
  <2> QED
    BY <2>1, <2>2, <2>3, <2>l, LocalStep, Zenon DEF Running, Returned
<1>e. CASE Stage(w)
  <2> DEFINE l == InvalidateReadSet([local[w] EXCEPT !.conflicted = FALSE])
  <2>1. l \in Local /\ l.dataId = local[w].dataId /\ l.deleteId = local[w].deleteId
    BY Zenon DEF Local, InvalidateReadSet
  <2>2. PICK step \in {"done", "commit", "failed"} :
            /\ Goes(w, step, l)
            /\ step = "done" => HasReceipt(w) \/ UnfencedFlush(plan[w])
            /\ step = "commit" => ~HasReceipt(w)
    BY <1>e, Zenon DEF Stage, ReceiptInTransaction, LostFlush
  <2>3. CatalogTypeOK' /\ UNCHANGED <<plan, receiptVars>>
    BY <1>e, CatalogUnchanged, Zenon DEF Stage
  <2>4. /\ plan[w].adds => l.dataId \in FileIdSet
        /\ plan[w].deletes # {} => l.deleteId \in FileIdSet
    BY <1>e, <2>1, Zenon DEF Stage, IInv, IdsReserved
  <2>5. ~HasReceipt(w) => plan[w].recovery \cap commitAttempts = {}
    BY Zenon DEF HasReceipt
  <2> HIDE DEF l
  <2> QED
    BY <2>1, <2>2, <2>3, <2>4, <2>5, LocalStep, ReceiptMeansApplied, Zenon DEF Running, Returned
<1>f. CASE CommitNotApplied(w)
  <2>1. CatalogTypeOK' /\ UNCHANGED <<plan, receiptVars>>
    BY <1>f, CatalogUnchanged, Zenon DEF CommitNotApplied
  <2>4. CASE UnfencedFlush(plan[w])
    <3>1. Goes(w, "done", NoLocal)
      BY <1>f, <2>4, Zenon DEF CommitNotApplied
    <3> QED
      BY <2>1, <2>4, <3>1, LocalStep, Zenon DEF Returned
  <2>2. CASE ~UnfencedFlush(plan[w]) /\ local[w].attempt < MAX_MUTATION_COMMIT_RETRIES
    <3> DEFINE l == [AfterCommit(local[w]) EXCEPT !.attempt = @ + 1]
    <3>1. l \in Local
      BY <2>2, AfterCommitType DEF Local
    <3>2. Goes(w, "recover", l)
      BY <1>f, <2>2, Zenon DEF CommitNotApplied
    <3> HIDE DEF l
    <3> QED
      BY <2>1, <3>1, <3>2, LocalStep, Zenon DEF Running
  <2>3. CASE ~UnfencedFlush(plan[w]) /\ ~(local[w].attempt < MAX_MUTATION_COMMIT_RETRIES)
    <3>1. Goes(w, "failed", NoLocal)
      BY <1>f, <2>3, Zenon DEF CommitNotApplied
    <3> QED
      BY <2>1, <3>1, LocalStep, Zenon DEF Returned
  <2> QED
    BY <2>2, <2>3, <2>4, Zenon
<1>g. CASE CommitUnknownLost(w)
  <2>1. AfterCommit(local[w]) \in Local
    BY AfterCommitType, Zenon
  <2>2. CatalogTypeOK' /\ UNCHANGED <<plan, receiptVars>>
    BY <1>g, CatalogUnchanged, Zenon DEF CommitUnknownLost
  <2>3. Goes(w, "unknown", AfterCommit(local[w]))
    BY <1>g, Zenon DEF CommitUnknownLost
  <2> QED
    BY <2>1, <2>2, <2>3, LocalStep, Zenon DEF Running
<1>h. CASE RecoverUnknown(w)
  <2>1. PICK step \in {"done", "failed"} :
            Goes(w, step, local[w]) /\ (step = "done" => HasReceipt(w))
    BY <1>h, Zenon DEF RecoverUnknown, Recovered
  <2>2. CatalogTypeOK' /\ UNCHANGED <<plan, receiptVars>>
    BY <1>h, CatalogUnchanged, Zenon DEF RecoverUnknown
  <2> QED
    BY <2>1, <2>2, LocalStep, ReceiptMeansApplied, Zenon DEF Running, Returned
<1>i. CASE Fail(w)
  <2>1. Goes(w, "error", NoLocal) /\ UNCHANGED <<plan, receiptVars>> /\ CatalogTypeOK'
    BY <1>i, CatalogUnchanged, Zenon DEF Fail
  <2> QED
    BY <2>1, LocalStep, Zenon DEF Returned
<1> QED
  BY <1>a, <1>b, <1>c, <1>d, <1>e, <1>f, <1>g, <1>h, <1>i, Zenon

\* A new request is well formed: it names rows of the catalog it was composed from.
LEMMA ComposedPlanType ==
    ASSUME CatalogTypeOK, NEW w \in Writers, NEW kind \in Kinds, NEW f \in currentDataFiles,
           NEW mode \in Modes, NEW recoverable \in Recoverable
    PROVE  /\ ComposedPlan(w, kind, f, mode, recoverable) \in Plan
           /\ \A r, s \in ComposedPlan(w, kind, f, mode, recoverable).recovery : r = s
<1> DEFINE t == dataFiles[f].table
<1>1. f \in FileIdSet /\ t \in Tables
  BY Zenon DEF CatalogTypeOK, DataFileRow
<1> USE <1>1
<1>2. /\ tableNextRowId[t] \in Nat /\ currentTables[t].columns \in Nat
      /\ currentTables[t].partition \in Nat /\ latestOrder \in Nat
  BY Zenon DEF CatalogTypeOK, TableRow
<1>3. RowsDeletedFrom(f) \cup {w} \subseteq Rows
  BY DataMutationAssumption, Zenon DEF RowsDeletedFrom, CatalogTypeOK, DeleteFileRow
<1>4. Adds(kind) \in BOOLEAN /\ (mode = "fenced") \in BOOLEAN /\ Flushes(kind) \in BOOLEAN
  BY DEF Adds, Flushes
<1> HIDE DEF t
<1> DEFINE p == ComposedPlan(w, kind, f, mode, recoverable)
<1>5. p = [table |-> t, adds |-> Adds(kind), row_id_start |-> tableNextRowId[t],
           record_count |-> 1, columns |-> currentTables[t].columns,
           partition |-> currentTables[t].partition,
           deletes |-> IF Deletes(kind) THEN {f} ELSE {},
           rows |-> IF Deletes(kind) THEN RowsDeletedFrom(f) \cup {w} ELSE {},
           drops |-> IF Drops(kind) THEN {f} ELSE {},
           flushes |-> Flushes(kind),
           read |-> IF mode = "unpinned" /\ ~Flushes(kind) THEN NoOrder ELSE latestOrder,
           fenced |-> mode = "fenced",
           recovery |-> IF recoverable THEN {w} ELSE {}]
  BY Zenon DEF ComposedPlan, t
<1>6. /\ (IF Deletes(kind) THEN {f} ELSE {}) \in SUBSET FileIdSet
      /\ (IF Deletes(kind) THEN RowsDeletedFrom(f) \cup {w} ELSE {}) \in SUBSET Rows
      /\ (IF Drops(kind) THEN {f} ELSE {}) \in SUBSET FileIdSet
      /\ (IF mode = "unpinned" /\ ~Flushes(kind) THEN NoOrder ELSE latestOrder) \in Nat
      /\ (IF recoverable THEN {w} ELSE {}) \in SUBSET Writers
  BY <1>2, <1>3, Zenon DEF NoOrder
<1>7. p \in Plan
  BY <1>2, <1>4, <1>5, <1>6 DEF Plan
<1>8. p.recovery = IF recoverable THEN {w} ELSE {}
  BY <1>5
<1> QED
  BY <1>7, <1>8, Zenon

\* A request that is sent, or sent again, starts without locals.
LEMMA Arrivals ==
    ASSUME IInv, NEW w \in Writers, Request(w) \/ \E v \in Writers : Resend(w, v)
    PROVE  IInv'
<1>1. PICK p \in Plan : plan' = [plan EXCEPT ![w] = p] /\ \A r, s \in p.recovery : r = s
  <2>1. CASE Request(w)
    <3>1. PICK kind \in Kinds, f \in currentDataFiles, mode \in Modes, rec \in Recoverable :
             plan' = [plan EXCEPT ![w] = ComposedPlan(w, kind, f, mode, rec)]
      BY <2>1, Zenon DEF Request
    <3> QED
      BY <3>1, ComposedPlanType, Zenon DEF IInv, TypeOK
  <2>2. ASSUME NEW v \in Writers, Resend(w, v)
        PROVE \E p \in Plan : plan' = [plan EXCEPT ![w] = p] /\ \A r, s \in p.recovery : r = s
    BY <2>2, Zenon DEF Resend, IInv, TypeOK, PlanShape
  <2> QED
    BY <2>1, <2>2, Zenon
<1>2. Goes(w, "prepare", NoLocal) /\ UNCHANGED <<catalogVars, receiptVars>>
  BY Zenon DEF Request, Resend
<1>3. /\ pc' \in [Writers -> {"idle"} \cup Running \cup Returned]
      /\ local' \in [Writers -> Local]
      /\ pc'[w] = "prepare"
      /\ \A v \in Writers : v # w => pc'[v] = pc[v] /\ local'[v] = local[v]
  BY <1>2, GoesType, NoLocalType, Zenon DEF IInv, Running
<1>4. /\ plan' \in [Writers -> Plan]
      /\ plan'[w] = p
      /\ \A v \in Writers : v # w => plan'[v] = plan[v]
  BY <1>1, Zenon DEF IInv, TypeOK
<1>5. /\ commitAttempts' = commitAttempts /\ applied' = applied /\ CatalogTypeOK'
      /\ unguarded' = unguarded /\ otherCommits' = otherCommits
  BY <1>2, CatalogUnchanged, Zenon DEF receiptVars, IInv, TypeOK
<1>6. TypeOK'
  BY <1>3, <1>4, <1>5, Zenon DEF IInv, TypeOK
<1>7. IdsReserved' /\ ReceiptStillAbsent' /\ AcknowledgedIsApplied'
  BY <1>3, <1>4, <1>5, Zenon
  DEF IInv, IdsReserved, ReceiptStillAbsent, AcknowledgedIsApplied
<1>8. PlanShape' /\ AppliedOnce'
  BY <1>1, <1>4, <1>5, Zenon DEF IInv, PlanShape, AppliedOnce
<1> QED
  BY <1>6, <1>7, <1>8, Zenon DEF IInv

\* A reservation moves the watermark and hands out ids below it.
LEMMA ReserveStep == ASSUME IInv, NEW w \in Writers, Reserve(w) PROVE IInv'
<1> DEFINE p == plan[w]
<1> DEFINE last == maxFileId + ProposedCount(p)
<1>1. /\ p \in Plan /\ local[w] \in Local
      /\ maxFileId \in FileIdSet \cup {NoFile} /\ CatalogTypeOK
  BY Zenon DEF IInv, TypeOK, CatalogTypeOK
<1> USE <1>1
<1>2. ProposedCount(p) \in 0 .. 2 /\ (p.adds => ProposedCount(p) >= 1)
         /\ (p.deletes # {} => ProposedCount(p) >= 1)
  BY DEF ProposedCount
<1>3. UNCHANGED <<latestOrder, dataFiles, currentDataFiles, deleteFiles,
                  currentDeleteFile, currentTables, tableNextRowId, inlineRows, flushFence,
                  plan, receiptVars>>
  BY Zenon DEF Reserve
<1> USE <1>3
<1>4. CASE last > MaxFileId
  <2>1. Goes(w, "failed", NoLocal) /\ maxFileId' = maxFileId
    BY <1>4, Zenon DEF Reserve
  <2>2. CatalogTypeOK'
    BY <2>1, Zenon DEF CatalogTypeOK
  <2> QED
    BY <2>1, <2>2, NoLocalType, LocalStep, Zenon DEF Returned
<1>5. CASE ~(last > MaxFileId)
  <2> DEFINE l == [local[w] EXCEPT !.dataId = IF p.adds THEN maxFileId + 1 ELSE NoFile,
                                   !.deleteId = IF p.deletes = {} THEN NoFile ELSE last]
  <2>1. Goes(w, "preflight", l) /\ maxFileId' = last
    BY <1>5, Zenon DEF Reserve
  <2>2. /\ last \in FileIdSet \cup {NoFile}
        /\ p.adds => maxFileId + 1 \in FileIdSet
        /\ p.deletes # {} => last \in FileIdSet
    BY <1>2, <1>5, CatalogAssumption DEF FileIdSet, NoFile
  <2>3. CatalogTypeOK'
    BY <2>1, <2>2, Zenon DEF CatalogTypeOK
  <2>4. /\ l \in Local
        /\ p.adds => l.dataId \in FileIdSet
        /\ p.deletes # {} => l.deleteId \in FileIdSet
    <3> HIDE DEF last, p
    <3> QED
      BY <2>2, Zenon DEF Local
  <2> HIDE DEF l, last
  <2> QED
    BY <2>1, <2>3, <2>4, LocalStep, Zenon DEF Running
<1> QED
  BY <1>4, <1>5, Zenon

\* Another client's commit dooms transactions and changes no request.
LEMMA OtherStep ==
    ASSUME IInv, NEW t \in Tables, AlterTable(t) \/ OtherInline(t)
    PROVE  IInv'
<1>1. PICK written : local' = [v \in Writers |-> Doomed(v, written)]
  BY Zenon DEF AlterTable, OtherInline
<1>2. UNCHANGED <<pc, plan, commitAttempts, applied, unguarded>>
  BY Zenon DEF AlterTable, OtherInline
<1> USE <1>1, <1>2
<1>3. /\ local' \in [Writers -> Local]
      /\ \A v \in Writers : /\ local'[v].dataId = local[v].dataId
                            /\ local'[v].deleteId = local[v].deleteId
                            /\ ~local'[v].conflicted => ~local[v].conflicted
  BY DoomedType, Zenon DEF IInv
<1>4. latestOrder' \in Nat /\ otherCommits' \in Nat
  BY DEF AlterTable, OtherInline, IInv, TypeOK, CatalogTypeOK
<1>5. CatalogTypeOK'
  <2>1. CASE AlterTable(t)
    <3>0. currentTables \in [Tables -> TableRow] /\ \A n \in Nat : n + 1 \in Nat
      BY DEF IInv, TypeOK, CatalogTypeOK
    <3>1. currentTables' \in [Tables -> TableRow]
      <4>1. CASE currentTables' = [currentTables EXCEPT ![t].columns = @ + 1]
        BY <3>0, <4>1, Zenon DEF TableRow
      <4>2. CASE currentTables' = [currentTables EXCEPT ![t].partition = @ + 1]
        BY <3>0, <4>2, Zenon DEF TableRow
      <4> QED
        BY <2>1, <4>1, <4>2, Zenon DEF AlterTable
    <3> QED
      BY <1>4, <2>1, <3>1, Zenon DEF AlterTable, IInv, TypeOK, CatalogTypeOK
  <2>2. CASE OtherInline(t)
    <3>1. latestOrder' = latestOrder + 1
      BY <2>2, Zenon DEF OtherInline
    <3>0. inlineRows \in [Tables -> SUBSET Nat] /\ latestOrder + 1 \in Nat
      BY <1>4, <3>1, Zenon DEF IInv, TypeOK, CatalogTypeOK
    <3>2. inlineRows' \in [Tables -> SUBSET Nat]
      <4>1. CASE inlineRows' = [inlineRows EXCEPT ![t] = @ \cup {latestOrder + 1}]
        BY <3>0, <4>1, Zenon
      <4>2. CASE inlineRows' = inlineRows
        BY <3>0, <4>2, Zenon
      <4> QED
        BY <2>2, <4>1, <4>2, Zenon DEF OtherInline
    <3> QED
      BY <1>4, <2>2, <3>2, Zenon DEF OtherInline, IInv, TypeOK, CatalogTypeOK
  <2> QED
    BY <2>1, <2>2, Zenon
<1>6. TypeOK'
  BY <1>3, <1>4, <1>5, Zenon DEF IInv, TypeOK
<1>7. IdsReserved' /\ ReceiptStillAbsent'
  BY <1>3, Zenon DEF IInv, IdsReserved, ReceiptStillAbsent
<1>8. PlanShape' /\ AppliedOnce' /\ AcknowledgedIsApplied'
  BY Zenon DEF IInv, PlanShape, AppliedOnce, AcknowledgedIsApplied
<1> QED
  BY <1>6, <1>7, <1>8, Zenon DEF IInv

\* What a commit writes keeps every row family well typed.
LEMMA ApplyCatalog ==
    ASSUME IInv, NEW w \in Writers, NEW step, pc[w] = "commit", Apply(w, step)
    PROVE  CatalogTypeOK'
<1> DEFINE p == plan[w]
<1> DEFINE order == latestOrder + 1
<1> DEFINE id == local[w].dataId
<1> DEFINE did == local[w].deleteId
<1>1. /\ p \in Plan /\ order \in Nat /\ CatalogTypeOK
      /\ p.adds => id \in FileIdSet
      /\ p.deletes # {} => did \in FileIdSet
  BY DEF IInv, TypeOK, CatalogTypeOK, IdsReserved
<1> USE <1>1
<1>2. ProposedRow(p, order) \in DataFileRow
  BY Zenon DEF ProposedRow, DataFileRow, Plan, NoOrder
<1>3. dataFiles' \in [FileIdSet -> DataFileRow]
  <2> DEFINE staged == IF p.adds THEN StageDataFile(dataFiles, id, ProposedRow(p, order))
                       ELSE dataFiles
  <2>1. staged \in [FileIdSet -> DataFileRow]
    BY <1>2, Zenon DEF StageDataFile, CatalogTypeOK
  <2>2. dataFiles' = StageExpired(staged, p.drops, order)
    BY Zenon DEF Apply
  <2> HIDE DEF staged, p, order
  <2> QED
    BY <2>1, <2>2, Zenon DEF StageExpired, DataFileRow
<1>4. currentDataFiles' \in SUBSET FileIdSet
  BY Zenon DEF Apply, CatalogTypeOK
<1>5. tableNextRowId' \in [Tables -> Nat]
  BY DEF Apply, CatalogTypeOK, Plan, Maximum
<1>6. /\ deleteFiles' \in [FileIdSet -> DeleteFileRow]
      /\ currentDeleteFile' \in [FileIdSet -> FileIdSet \cup {NoFile}]
  <2>1. CASE p.deletes = {}
    BY <2>1, Zenon DEF Apply, CatalogTypeOK
  <2>2. CASE p.deletes # {}
    <3>1. PICK f \in p.deletes :
            /\ deleteFiles' = StageDeleteFile(deleteFiles, currentDeleteFile[f], did, f,
                                              p.rows, order)
            /\ currentDeleteFile' = [currentDeleteFile EXCEPT ![f] = did]
      BY <2>2, Zenon DEF Apply
    <3> DEFINE old == currentDeleteFile[f]
    <3>2. /\ f \in FileIdSet /\ did \in FileIdSet /\ p.rows \in SUBSET Rows
          /\ old \in FileIdSet \cup {NoFile} /\ order \in Nat
          /\ deleteFiles \in [FileIdSet -> DeleteFileRow]
          /\ currentDeleteFile \in [FileIdSet -> FileIdSet \cup {NoFile}]
      BY <2>2, Zenon DEF Plan, CatalogTypeOK
    <3> HIDE DEF old, order, did, p
    <3>3. StageCloseDelete(deleteFiles, old, order) \in [FileIdSet -> DeleteFileRow]
      BY <3>2, Zenon DEF StageCloseDelete, DeleteFileRow
    <3> DEFINE row == [data_file |-> f,
                       begin |-> IF old = NoFile THEN order ELSE deleteFiles[old].begin,
                       end |-> NoOrder,
                       partial |-> IF old = NoFile THEN NoOrder ELSE order,
                       rows |-> p.rows]
    <3>4. row \in DeleteFileRow
      BY <3>2, Zenon DEF DeleteFileRow, NoOrder
    <3>5. deleteFiles' = [StageCloseDelete(deleteFiles, old, order) EXCEPT ![did] = row]
      BY <3>1, Zenon DEF StageDeleteFile, old
    <3> HIDE DEF row
    <3> QED
      BY <3>1, <3>2, <3>3, <3>4, <3>5, Zenon
  <2> QED
    BY <2>1, <2>2, Zenon
<1>7. latestOrder' \in Nat /\ UNCHANGED <<currentTables, maxFileId>>
  BY Zenon DEF Apply
<1>8. inlineRows' \in [Tables -> SUBSET Nat] /\ flushFence' \in [Tables -> Nat]
  <2>1. \A n \in Nat : n + 1 \in Nat
    OBVIOUS
  <2> QED
    BY <2>1, Zenon DEF Apply, CatalogTypeOK
<1> QED
  BY <1>3, <1>4, <1>5, <1>6, <1>7, <1>8, Zenon DEF CatalogTypeOK

\* A commit writes the receipt it has read as absent, so it dooms every other open
\* transaction of the same request.
LEMMA ApplyStep ==
    ASSUME IInv, NEW w \in Writers, pc[w] = "commit", ~local[w].conflicted,
           NEW step \in {"done", "unknown"}, Apply(w, step)
    PROVE  IInv'
<1> DEFINE written == WrittenKeys(w)
<1>1. /\ commitAttempts' = commitAttempts \cup plan[w].recovery
      /\ applied' = [r \in Writers |-> applied[r] + IF r \in plan[w].recovery THEN 1 ELSE 0]
      /\ pc' = [pc EXCEPT ![w] = step]
      /\ plan' = plan
  BY Zenon DEF Apply
<1> USE <1>1
<1>2. local' = [v \in Writers |->
          IF v # w THEN Doomed(v, written)
          ELSE IF step \in Returned THEN NoLocal ELSE AfterCommit(local[w])]
  BY Zenon DEF Apply
<1> HIDE DEF written
<1>3. /\ local' \in [Writers -> Local]
      /\ \A v \in Writers \ {w} :
            /\ local'[v].dataId = local[v].dataId
            /\ local'[v].deleteId = local[v].deleteId
            /\ ~local'[v].conflicted =>
                  /\ ~local[v].conflicted
                  /\ pc[v] = "commit" => ReadKeys(v) \cap written = {}
  BY <1>2, DoomedType, NoLocalType, AfterCommitType DEF IInv, TypeOK
<1>4. /\ pc' \in [Writers -> {"idle"} \cup Running \cup Returned]
      /\ pc'[w] = step /\ \A v \in Writers \ {w} : pc'[v] = pc[v]
  BY Zenon DEF IInv, TypeOK, Running, Returned
<1> USE <1>4
<1>5. plan \in [Writers -> Plan] /\ commitAttempts \in SUBSET Writers
        /\ applied \in [Writers -> Nat]
  BY Zenon DEF IInv, TypeOK
<1> USE <1>5
<1>6. TypeOK'
  <2>1. commitAttempts' \in SUBSET Writers
    BY Zenon DEF Plan
  <2>2. applied' \in [Writers -> Nat]
    OBVIOUS
  <2>3. unguarded' \in SUBSET FileIdSet /\ otherCommits' \in Nat
    BY Zenon DEF Apply, IInv, TypeOK, IdsReserved
  <2> QED
    BY <1>3, <2>1, <2>2, <2>3, ApplyCatalog, Zenon DEF TypeOK
<1>7. IdsReserved' /\ PlanShape'
  BY <1>3 DEF IInv, IdsReserved, PlanShape
<1>8. ReceiptStillAbsent'
  <2> SUFFICES ASSUME NEW v \in Writers, pc'[v] = "commit", ~local'[v].conflicted
               PROVE  plan[v].recovery \cap commitAttempts' = {}
    BY Zenon DEF ReceiptStillAbsent
  <2>1. v # w /\ pc[v] = "commit" /\ ~local[v].conflicted /\ ReadKeys(v) \cap written = {}
    BY <1>3, Zenon
  <2>2. plan[v].recovery \cap commitAttempts = {}
    BY <2>1, Zenon DEF IInv, ReceiptStillAbsent
  <2>3. ASSUME NEW r \in plan[v].recovery, r \in plan[w].recovery PROVE FALSE
    <3>1. <<"commit_attempt", r>> \in ReadKeys(v)
      BY <2>3, Zenon DEF ReadKeys, ReceiptReads
    <3>2. <<"commit_attempt", r>> \in written
      BY <2>3, Zenon DEF WrittenKeys, written
    <3> QED
      BY <2>1, <3>1, <3>2, Zenon
  <2> QED
    BY <2>2, <2>3, Zenon
<1>9. AppliedOnce'
  <2>1. plan[w].recovery \cap commitAttempts = {}
    BY Zenon DEF IInv, ReceiptStillAbsent
  <2> QED
    BY <2>1 DEF IInv, AppliedOnce
<1>10. AcknowledgedIsApplied'
  BY Zenon DEF IInv, AcknowledgedIsApplied
<1> QED
  BY <1>6, <1>7, <1>8, <1>9, <1>10, Zenon DEF IInv

LEMMA InitInv == Init => IInv
<1> SUFFICES ASSUME Init PROVE IInv
  BY Zenon
<1> USE DataMutationAssumption, CatalogAssumption
<1>1. EmptyPlan \in Plan /\ EmptyPlan.table \in Tables /\ EmptyPlan.recovery = {}
  BY Zenon DEF EmptyPlan, Plan, NoOrder
<1>2. 0 \in FileIdSet /\ 1 \in FileIdSet
  BY DEF FileIdSet
<1>3. CatalogTypeOK
  <2>1. PICK deleted \in BOOLEAN :
        /\ latestOrder = IF deleted THEN 2 ELSE 1
        /\ maxFileId = IF deleted THEN 1 ELSE 0
        /\ deleteFiles = [x \in FileIdSet |->
              [data_file |-> 0, begin |-> IF deleted /\ x = 1 THEN 2 ELSE NoOrder,
               end |-> NoOrder, partial |-> NoOrder, rows |-> {}]]
        /\ currentDeleteFile =
              [f \in FileIdSet |-> IF deleted /\ f = 0 THEN 1 ELSE NoFile]
    BY Zenon DEF Init
  <2>2. /\ deleteFiles \in [FileIdSet -> DeleteFileRow]
        /\ currentDeleteFile \in [FileIdSet -> FileIdSet \cup {NoFile}]
        /\ latestOrder \in Nat /\ maxFileId \in FileIdSet \cup {NoFile}
    BY <1>2, <2>1, Zenon DEF DeleteFileRow, NoOrder
  <2>3. dataFiles \in [FileIdSet -> DataFileRow] /\ currentDataFiles \in SUBSET FileIdSet
    BY <1>1, <1>2, Zenon DEF Init, DataFileRow, NoOrder
  <2>4. currentTables \in [Tables -> TableRow] /\ tableNextRowId \in [Tables -> Nat]
    BY Zenon DEF Init, TableRow
  <2>5. inlineRows \in [Tables -> SUBSET Nat] /\ flushFence \in [Tables -> Nat]
    <3>1. {1} \in SUBSET Nat /\ {} \in SUBSET Nat /\ 0 \in Nat
      OBVIOUS
    <3> QED
      BY <3>1, Zenon DEF Init
  <2> QED
    BY <2>2, <2>3, <2>4, <2>5, Zenon DEF CatalogTypeOK
<1>4. TypeOK
  BY <1>1, <1>3, NoLocalType, Zenon DEF TypeOK, Init
<1>5. IdsReserved /\ PlanShape /\ ReceiptStillAbsent
  BY <1>1, Zenon DEF Init, IdsReserved, PlanShape, ReceiptStillAbsent
<1>6. AppliedOnce /\ AcknowledgedIsApplied
  BY Zenon DEF Init, AppliedOnce, AcknowledgedIsApplied
<1> QED
  BY <1>4, <1>5, <1>6, Zenon DEF IInv

LEMMA NextInv == IInv /\ [Next]_vars => IInv'
<1> SUFFICES ASSUME IInv, [Next]_vars PROVE IInv'
  BY Zenon
<1>1. ASSUME NEW w \in Writers, Request(w) \/ \E v \in Writers : Resend(w, v) PROVE IInv'
  BY <1>1, Arrivals, Zenon
<1>2. ASSUME NEW w \in Writers, Step(w) PROVE IInv'
  <2>1. CASE Reserve(w)
    BY <2>1, ReserveStep, Zenon
  <2>2. CASE CommitSucceeds(w) \/ CommitUnknownApplied(w)
    BY <2>2, ApplyStep, Zenon DEF CommitSucceeds, CommitUnknownApplied
  <2>3. CASE \/ Prepare(w) \/ RejectStale(w) \/ Recover(w) \/ Preflight(w) \/ Stage(w)
             \/ CommitNotApplied(w) \/ CommitUnknownLost(w) \/ RecoverUnknown(w) \/ Fail(w)
    BY <2>3, RequestSteps, Zenon
  <2> QED
    BY <1>2, <2>1, <2>2, <2>3, Zenon DEF Step
<1>3. ASSUME NEW t \in Tables, AlterTable(t) \/ OtherInline(t) PROVE IInv'
  BY <1>3, OtherStep, Zenon
<1>4. CASE UNCHANGED vars
  <2>1. CatalogTypeOK'
    BY <1>4, CatalogUnchanged, Zenon DEF vars, IInv, TypeOK
  <2> QED
    BY <1>4, <2>1, Zenon DEF vars, receiptVars, IInv, TypeOK, IdsReserved, PlanShape,
                      ReceiptStillAbsent, AppliedOnce, AcknowledgedIsApplied
<1> QED
  BY <1>1, <1>2, <1>3, <1>4, Zenon DEF Next

LEMMA Invariance == Spec => []IInv
  BY InitInv, NextInv, PTL DEF Spec

\* The recovery protocol is exactly-once: a request with a recovery id takes effect at
\* most once over any number of sends, attempts and unknown commit results.
THEOREM AppliedOnceHolds == Spec => []AppliedOnce
<1>1. IInv => AppliedOnce
  BY Zenon DEF IInv
<1> QED
  BY <1>1, Invariance, PTL

\* Success is only ever returned for a mutation that took effect, or for a flush of inline
\* rows that carries no snapshot fence and lost to another commit.
THEOREM AcknowledgedHolds == Spec => []AcknowledgedIsApplied
<1>1. IInv => AcknowledgedIsApplied
  BY Zenon DEF IInv
<1> QED
  BY <1>1, Invariance, PTL

-----------------------------------------------------------------------------
\* What an open, undoomed transaction has validated is still so.
ValidationStillHolds ==
    \A w \in Writers :
        pc[w] = "commit" /\ ~local[w].conflicted =>
            /\ FenceHolds(plan[w])
            /\ plan[w].adds =>
                  /\ TableExists(plan[w].table)
                  /\ plan[w].read # NoOrder =>
                        currentTables[plan[w].table].partition = plan[w].partition

\* The steps that change neither the newest order nor a table row keep the validations of
\* the requests that do not move.
LEMMA ValidationKept ==
    ASSUME IInv, ValidationStillHolds, NEW w \in Writers,
           UNCHANGED <<latestOrder, currentTables>>,
           \A v \in Writers \ {w} : pc'[v] = pc[v] /\ local'[v] = local[v] /\ plan'[v] = plan[v],
           pc'[w] # "commit"
    PROVE  ValidationStillHolds'
  BY DEF ValidationStillHolds, FenceHolds, TableExists

LEMMA ValidationStep ==
    ASSUME IInv, ValidationStillHolds, [Next]_vars
    PROVE  ValidationStillHolds'
<1>t. /\ pc \in [Writers -> {"idle"} \cup Running \cup Returned]
      /\ local \in [Writers -> Local] /\ plan \in [Writers -> Plan]
  BY Zenon DEF IInv, TypeOK
<1> USE <1>t
<1>1. ASSUME NEW w \in Writers, Request(w) \/ \E v \in Writers : Resend(w, v)
      PROVE  ValidationStillHolds'
  <2>1. /\ UNCHANGED <<latestOrder, currentTables>>
        /\ pc' = [pc EXCEPT ![w] = "prepare"]
        /\ \E p : plan' = [plan EXCEPT ![w] = p]
        /\ \E l : local' = [local EXCEPT ![w] = l]
    BY <1>1, Zenon DEF Request, Resend, Goes, catalogVars
  <2> QED
    BY <2>1, ValidationKept, Zenon
<1>2. ASSUME NEW w \in Writers, NEW step, NEW l, step # "commit", Goes(w, step, l),
             UNCHANGED <<latestOrder, currentTables, plan>>
      PROVE  ValidationStillHolds'
  BY <1>2, ValidationKept, Zenon DEF Goes
<1>3. ASSUME NEW w \in Writers, Stage(w) PROVE ValidationStillHolds'
  <2> DEFINE l == InvalidateReadSet([local[w] EXCEPT !.conflicted = FALSE])
  <2>0. UNCHANGED <<latestOrder, currentTables, plan>>
    BY <1>3, Zenon DEF Stage, catalogVars
  <2>1. PICK step : Goes(w, step, l) /\ (step = "commit" => FenceHolds(plan[w])
                                                     /\ TargetsCurrent(plan[w]))
    <3> DEFINE s == IF ~FenceHolds(plan[w]) \/ ~RowIdsUnallocated(plan[w]) THEN "failed"
                    ELSE IF ReceiptInTransaction(w) THEN "done"
                    ELSE IF ~TargetsCurrent(plan[w]) THEN "failed"
                    ELSE IF ~FlushFits(w) THEN LostFlush(plan[w])
                    ELSE IF FileIdsUnused(w) THEN "commit"
                    ELSE "failed"
    <3>1. Goes(w, s, l)
      BY <1>3, Zenon DEF Stage
    <3>2. s = "commit" => FenceHolds(plan[w]) /\ TargetsCurrent(plan[w])
      BY Zenon DEF LostFlush
    <3> QED
      BY <3>1, <3>2, Zenon
  <2> HIDE DEF l
  <2>2. CASE step # "commit"
    BY <1>2, <2>0, <2>1, <2>2, Zenon
  <2>3. CASE step = "commit"
    <3>1. pc' = [pc EXCEPT ![w] = "commit"]
            /\ \A v \in Writers \ {w} : pc'[v] = pc[v] /\ local'[v] = local[v]
      BY <2>1, <2>3, Zenon DEF Goes
    <3>2. FenceHolds(plan[w]) /\ TargetsCurrent(plan[w])
      BY <2>1, <2>3, Zenon
    <3> QED
      BY <2>0, <3>1, <3>2, Zenon DEF ValidationStillHolds, FenceHolds, TableExists, TargetsCurrent
  <2> QED
    BY <2>2, <2>3, Zenon
<1>4. ASSUME NEW w \in Writers, NEW step \in {"done", "unknown"}, Apply(w, step)
      PROVE  ValidationStillHolds'
  <2> SUFFICES ASSUME NEW v \in Writers, pc'[v] = "commit", ~local'[v].conflicted
               PROVE  /\ FenceHolds(plan[v])'
                      /\ plan[v].adds =>
                            /\ TableExists(plan[v].table)'
                            /\ plan[v].read # NoOrder =>
                                  currentTables'[plan[v].table].partition = plan[v].partition
    BY <1>4, Zenon DEF ValidationStillHolds, Apply
  <2>1. pc' = [pc EXCEPT ![w] = step] /\ UNCHANGED <<plan, currentTables>>
    BY <1>4, Zenon DEF Apply
  <2>2. v # w /\ pc[v] = "commit"
    BY <2>1, Zenon
  <2>3. local'[v] = Doomed(v, WrittenKeys(w))
    BY <1>4, <2>2, Zenon DEF Apply
  <2>4. ~local[v].conflicted /\ ReadKeys(v) \cap WrittenKeys(w) = {}
    <3> DEFINE written == WrittenKeys(w)
    <3>1. local'[v] = Doomed(v, written)
      BY <2>3, Zenon
    <3> HIDE DEF written
    <3>2. ~local[v].conflicted /\ ReadKeys(v) \cap written = {}
      BY <2>2, <3>1, DoomedType DEF IInv
    <3> QED
      BY <3>2, Zenon DEF written
  <2>5. ~plan[v].fenced
    BY <2>4, Zenon DEF ReadKeys, FenceReads, WrittenKeys
  <2> QED
    BY <2>1, <2>2, <2>4, <2>5, Zenon DEF ValidationStillHolds, FenceHolds, TableExists
<1>5. ASSUME NEW t \in Tables, AlterTable(t) PROVE ValidationStillHolds'
  <2> DEFINE written == {<<"snapshot">>, <<"current_table_row", t>>}
  <2>1. UNCHANGED <<pc, plan>> /\ local' = [v \in Writers |-> Doomed(v, written)]
    BY <1>5, Zenon DEF AlterTable
  <2> SUFFICES ASSUME NEW v \in Writers, pc'[v] = "commit", ~local'[v].conflicted
               PROVE  /\ FenceHolds(plan[v])'
                      /\ plan[v].adds =>
                            /\ TableExists(plan[v].table)'
                            /\ plan[v].read # NoOrder =>
                                  currentTables'[plan[v].table].partition = plan[v].partition
    BY <2>1, Zenon DEF ValidationStillHolds
  <2>2. <<"snapshot">> \in written /\ <<"current_table_row", t>> \in written
    BY Zenon
  <2> HIDE DEF written
  <2>3. ~local[v].conflicted /\ ReadKeys(v) \cap written = {} /\ pc[v] = "commit"
    BY <2>1, DoomedType, Zenon DEF IInv
  <2>4. ~plan[v].fenced /\ (plan[v].adds => plan[v].table # t)
    BY <2>2, <2>3, Zenon DEF ReadKeys, FenceReads, TableReads
  <2>5. plan[v].adds => currentTables'[plan[v].table] = currentTables[plan[v].table]
    BY <1>5, <2>4, Zenon DEF AlterTable, IInv, TypeOK, CatalogTypeOK, Plan
  <2> QED
    BY <2>1, <2>3, <2>4, <2>5, Zenon DEF ValidationStillHolds, FenceHolds, TableExists
<1>8. ASSUME NEW t \in Tables, OtherInline(t) PROVE ValidationStillHolds'
  <2>1. PICK written : /\ local' = [v \in Writers |-> Doomed(v, written)]
                       /\ <<"snapshot">> \in written
    <3>1. CASE local' = [v \in Writers |-> Doomed(v, {<<"snapshot">>})]
      BY <3>1, Zenon
    <3>2. CASE local' = [v \in Writers |->
                            Doomed(v, {<<"snapshot">>, <<"inline_current_rows", t>>})]
      <4>1. <<"snapshot">> \in {<<"snapshot">>, <<"inline_current_rows", t>>}
        BY Zenon
      <4> QED
        BY <3>2, <4>1, Zenon
    <3> QED
      BY <1>8, <3>1, <3>2, Zenon DEF OtherInline
  <2>2. UNCHANGED <<pc, plan, currentTables>>
    BY <1>8, Zenon DEF OtherInline
  <2> SUFFICES ASSUME NEW v \in Writers, pc'[v] = "commit", ~local'[v].conflicted
               PROVE  /\ FenceHolds(plan[v])'
                      /\ plan[v].adds =>
                            /\ TableExists(plan[v].table)'
                            /\ plan[v].read # NoOrder =>
                                  currentTables'[plan[v].table].partition = plan[v].partition
    BY <2>2, Zenon DEF ValidationStillHolds
  <2>3. ~local[v].conflicted /\ ReadKeys(v) \cap written = {} /\ pc[v] = "commit"
    BY <2>1, <2>2, DoomedType, Zenon DEF IInv
  <2>4. ~plan[v].fenced
    BY <2>1, <2>3, Zenon DEF ReadKeys, FenceReads
  <2> QED
    BY <2>2, <2>3, <2>4, Zenon DEF ValidationStillHolds, FenceHolds, TableExists
<1>6. ASSUME NEW w \in Writers, Step(w) PROVE ValidationStillHolds'
  <2>1. CASE Prepare(w) \/ Reserve(w) \/ Preflight(w) \/ Recover(w) \/ RejectStale(w)
    BY <1>2, <2>1, Zenon DEF Prepare, Reserve, Preflight, Recover, RejectStale, catalogVars
  <2>2. CASE CommitNotApplied(w) \/ CommitUnknownLost(w) \/ RecoverUnknown(w) \/ Fail(w)
    BY <1>2, <2>2, Zenon DEF CommitNotApplied, CommitUnknownLost, RecoverUnknown, Fail, catalogVars
  <2>3. CASE CommitSucceeds(w) \/ CommitUnknownApplied(w)
    BY <1>4, <2>3, Zenon DEF CommitSucceeds, CommitUnknownApplied
  <2> QED
    BY <1>3, <1>6, <2>1, <2>2, <2>3, Zenon DEF Step
<1>7. CASE UNCHANGED vars
  BY <1>7, Zenon DEF vars, catalogVars, ValidationStillHolds, FenceHolds, TableExists
<1> QED
  BY <1>1, <1>5, <1>6, <1>7, <1>8, Zenon DEF Next

\* Only its own commit takes a request out of "commit" while the catalog moves.
LEMMA OwnCommit ==
    ASSUME IInv, [Next]_vars, NEW w \in Writers, pc[w] = "commit", pc'[w] # "commit",
           latestOrder' # latestOrder \/ dataFiles' # dataFiles \/ deleteFiles' # deleteFiles
    PROVE  ~local[w].conflicted
<1>t. pc \in [Writers -> {"idle"} \cup Running \cup Returned]
  BY Zenon DEF IInv, TypeOK
<1>1. ASSUME NEW v \in Writers, Request(v) \/ \E u \in Writers : Resend(v, u) PROVE FALSE
  BY <1>1, Zenon DEF Request, Resend, catalogVars
<1>2. ASSUME NEW t \in Tables, AlterTable(t) \/ OtherInline(t) PROVE FALSE
  BY <1>2, Zenon DEF AlterTable, OtherInline
<1>3. ASSUME NEW v \in Writers, Step(v) PROVE ~local[w].conflicted
  <2>1. CASE CommitSucceeds(v) \/ CommitUnknownApplied(v)
    <3>1. v = w
      BY <1>t, <2>1, Zenon DEF CommitSucceeds, CommitUnknownApplied, Apply
    <3> QED
      BY <2>1, <3>1, Zenon DEF CommitSucceeds, CommitUnknownApplied
  <2>2. CASE Prepare(v) \/ Reserve(v) \/ Preflight(v) \/ Recover(v) \/ RejectStale(v) \/ Stage(v)
    BY <2>2, Zenon DEF Prepare, Reserve, Preflight, Recover, RejectStale, Stage, catalogVars
  <2>3. CASE CommitNotApplied(v) \/ CommitUnknownLost(v) \/ RecoverUnknown(v) \/ Fail(v)
    BY <2>3, Zenon DEF CommitNotApplied, CommitUnknownLost, RecoverUnknown, Fail, catalogVars
  <2> QED
    BY <1>3, <2>1, <2>2, <2>3, Zenon DEF Step
<1>4. CASE UNCHANGED vars
  BY <1>4, Zenon DEF vars, catalogVars
<1> QED
  BY <1>1, <1>2, <1>3, <1>4, Zenon DEF Next

LEMMA ValidationInvariance == Spec => [](IInv /\ ValidationStillHolds)
<1>1. Init => ValidationStillHolds
  BY Zenon DEF Init, ValidationStillHolds
<1>2. IInv /\ ValidationStillHolds /\ [Next]_vars => ValidationStillHolds'
  BY ValidationStep, Zenon
<1> QED
  BY <1>1, <1>2, Invariance, PTL DEF Spec

\* The fence is exact: a fenced mutation commits only as the direct successor of the
\* snapshot it read, because the fence reads the snapshot key inside the transaction.
THEOREM FenceHoldsAtCommit == Spec => FenceIsExact
<1> DEFINE Act == \A w \in Writers :
          pc[w] = "commit" /\ plan[w].fenced /\ latestOrder' # latestOrder
            /\ pc'[w] # "commit"
              => latestOrder = plan[w].read
<1>1. IInv /\ ValidationStillHolds /\ [Next]_vars => [Act]_vars
  BY OwnCommit, Zenon DEF ValidationStillHolds, FenceHolds
<1> QED
  BY <1>1, ValidationInvariance, PTL DEF Spec, FenceIsExact

\* No append lands in a table that was altered since it was validated: the current table
\* row is a read conflict of the transaction.
THEOREM AppendMatchesTableHolds == Spec => AppendMatchesTable
<1> DEFINE Act == \A w \in Writers :
          pc[w] = "commit" /\ plan[w].adds /\ dataFiles' # dataFiles /\ pc'[w] # "commit"
              => /\ TableExists(plan[w].table)
                 /\ plan[w].read # NoOrder =>
                       currentTables[plan[w].table].partition = plan[w].partition
<1>1. IInv /\ ValidationStillHolds /\ [Next]_vars => [Act]_vars
  BY OwnCommit, Zenon DEF ValidationStillHolds
<1> QED
  BY <1>1, ValidationInvariance, PTL DEF Spec, AppendMatchesTable

-----------------------------------------------------------------------------
(* The files that mutations leave in the catalog: what was staged still fits    *)
(* when it is committed, so row ids stay disjoint and a row is deleted once.     *)

\* What the catalog itself keeps between commits: a current entry names a row that has
\* begun and not ended, with row ids below the watermark of its table; only rows that
\* were written have ended, and a current delete file was written.
FilesKept ==
    /\ \A f \in currentDataFiles :
          /\ Open(dataFiles[f]) /\ dataFiles[f].begin <= latestOrder
          /\ dataFiles[f].row_id_start + dataFiles[f].record_count
                <= tableNextRowId[dataFiles[f].table]
    /\ \A f \in FileIdSet : dataFiles[f].end # NoOrder => Exists(dataFiles[f])
    /\ \A f \in FileIdSet :
          currentDeleteFile[f] # NoFile => Exists(deleteFiles[currentDeleteFile[f]])

\* A request names files that were there when its client read them, and no later commit
\* makes such a file look younger than the snapshot it was read at.
TargetsKnown ==
    \A w \in Writers : \A f \in Targets(plan[w]) :
        /\ Exists(dataFiles[f])
        /\ plan[w].read # NoOrder => dataFiles[f].begin <= plan[w].read

\* The request read set is dropped before the commit and not filled again until it returns.
ReadSetDropped ==
    \A w \in Writers : pc[w] \in {"commit", "unknown"} => ~local[w].cachedAbsent

\* What an open, undoomed transaction has found of files, delete files and row ids is
\* still so: every one of these reads is a read conflict.
StagedStillFits(w) ==
    /\ plan[w].adds => ~Exists(dataFiles[local[w].dataId])
    /\ plan[w].deletes # {} => ~Exists(deleteFiles[local[w].deleteId])
    /\ RowIdsUnallocated(plan[w])
    /\ Targets(plan[w]) \subseteq currentDataFiles
    /\ plan[w].read # NoOrder =>
          \A f \in plan[w].deletes : DeleteFileNotAfterRead(plan[w], f)

StagingStillHolds ==
    \A w \in Writers : pc[w] = "commit" /\ ~local[w].conflicted => StagedStillFits(w)

\* The inductive strengthening of RowIdsDisjoint and FirstDeletionSeen.
FileInv ==
    FilesKept /\ TargetsKnown /\ ReadSetDropped /\ StagingStillHolds /\ RowIdsDisjoint

\* A step that writes no file row leaves the current files as they were.
LEMMA FilesUntouched ==
    ASSUME CatalogTypeOK, FilesKept, RowIdsDisjoint,
           latestOrder' \in Nat, latestOrder' >= latestOrder,
           UNCHANGED <<dataFiles, currentDataFiles, deleteFiles, currentDeleteFile, tableNextRowId,
                       unguarded>>
    PROVE  FilesKept' /\ RowIdsDisjoint'
<1>1. FilesKept'
  <2>1. \A f \in currentDataFiles : dataFiles[f].begin \in Nat
    BY Zenon DEF CatalogTypeOK, DataFileRow
  <2> QED
    BY <2>1 DEF FilesKept, CatalogTypeOK
<1>2. RowIdsDisjoint'
  BY Zenon DEF RowIdsDisjoint
<1> QED
  BY <1>1, <1>2, Zenon

\* A step of one request that writes no file row has to answer for that request only.
LEMMA OneRequestMoves ==
    ASSUME IInv, FileInv, NEW w \in Writers,
           latestOrder' \in Nat, latestOrder' >= latestOrder,
           UNCHANGED <<dataFiles, currentDataFiles, deleteFiles, currentDeleteFile, tableNextRowId,
                       unguarded>>,
           \A v \in Writers \ {w} : pc'[v] = pc[v] /\ local'[v] = local[v] /\ plan'[v] = plan[v],
           \A f \in Targets(plan'[w]) :
              /\ Exists(dataFiles[f])
              /\ plan'[w].read # NoOrder => dataFiles[f].begin <= plan'[w].read,
           pc'[w] \in {"commit", "unknown"} => ~local'[w].cachedAbsent,
           pc'[w] = "commit" => StagedStillFits(w)'
    PROVE  FileInv'
<1>1. FilesKept' /\ RowIdsDisjoint'
  BY FilesUntouched, Zenon DEF FileInv, IInv, TypeOK
<1>2. TargetsKnown'
  BY Zenon DEF FileInv, TargetsKnown, Targets
<1>3. ReadSetDropped'
  BY Zenon DEF FileInv, ReadSetDropped
<1>4. StagingStillHolds'
  <2> SUFFICES ASSUME NEW v \in Writers, v # w, pc'[v] = "commit", ~local'[v].conflicted
               PROVE  StagedStillFits(v)'
    BY Zenon DEF StagingStillHolds
  <2>1. StagedStillFits(v)
    BY Zenon DEF FileInv, StagingStillHolds
  <2> QED
    BY <2>1, Zenon DEF StagedStillFits, RowIdsUnallocated, DeleteFileNotAfterRead, Targets
<1> QED
  BY <1>1, <1>2, <1>3, <1>4, Zenon DEF FileInv

\* A request is composed from current files, as of the newest order.
LEMMA ArrivalFiles ==
    ASSUME IInv, FileInv, NEW w \in Writers, Request(w) \/ \E v \in Writers : Resend(w, v)
    PROVE  FileInv'
<1>t. /\ plan \in [Writers -> Plan] /\ CatalogTypeOK
      /\ pc \in [Writers -> {"idle"} \cup Running \cup Returned] /\ local \in [Writers -> Local]
  BY Zenon DEF IInv, TypeOK
<1>1. Goes(w, "prepare", NoLocal) /\ UNCHANGED <<catalogVars, receiptVars>>
  BY Zenon DEF Request, Resend
<1>2. /\ pc'[w] = "prepare"
      /\ \A v \in Writers \ {w} : pc'[v] = pc[v] /\ local'[v] = local[v]
  BY <1>t, <1>1, Zenon DEF Goes
<1>3. PICK p : /\ plan' = [plan EXCEPT ![w] = p]
               /\ \A f \in Targets(p) :
                     /\ Exists(dataFiles[f])
                     /\ p.read # NoOrder => dataFiles[f].begin <= p.read
  <2>1. CASE Request(w)
    <3>1. PICK kind \in Kinds, f \in currentDataFiles, mode \in Modes, rec \in Recoverable :
             plan' = [plan EXCEPT ![w] = ComposedPlan(w, kind, f, mode, rec)]
      BY <2>1, Zenon DEF Request
    <3> DEFINE p == ComposedPlan(w, kind, f, mode, rec)
    <3>2. Targets(p) \subseteq {f} /\ (p.read # NoOrder => p.read = latestOrder)
      BY Zenon DEF ComposedPlan, Targets
    <3>3. Exists(dataFiles[f]) /\ dataFiles[f].begin <= latestOrder
      BY Zenon DEF FileInv, FilesKept, Open
    <3> HIDE DEF p
    <3>4. \A g \in Targets(p) :
             Exists(dataFiles[g]) /\ (p.read # NoOrder => dataFiles[g].begin <= p.read)
      BY <3>2, <3>3, Zenon
    <3>5. plan' = [plan EXCEPT ![w] = p]
      BY <3>1, Zenon DEF p
    <3> QED
      BY <3>4, <3>5, Zenon
  <2>2. ASSUME NEW v \in Writers, Resend(w, v)
        PROVE  \E p : /\ plan' = [plan EXCEPT ![w] = p]
                      /\ \A f \in Targets(p) :
                            /\ Exists(dataFiles[f])
                            /\ p.read # NoOrder => dataFiles[f].begin <= p.read
    <3>1. plan' = [plan EXCEPT ![w] = plan[v]]
      BY <2>2, Zenon DEF Resend
    <3> QED
      BY <3>1, Zenon DEF FileInv, TargetsKnown
  <2> QED
    BY <2>1, <2>2, Zenon
<1>4. plan'[w] = p /\ \A v \in Writers \ {w} : plan'[v] = plan[v]
  BY <1>t, <1>3, Zenon
<1>5. /\ UNCHANGED <<dataFiles, currentDataFiles, deleteFiles, currentDeleteFile, tableNextRowId,
                     unguarded>>
      /\ latestOrder' \in Nat /\ latestOrder' >= latestOrder
  BY <1>1, <1>t DEF catalogVars, receiptVars, CatalogTypeOK
<1> QED
  BY <1>2, <1>3, <1>4, <1>5, OneRequestMoves, Zenon

\* The steps that only move the call, to a place where it holds no open transaction.
LEMMA CallMoves ==
    ASSUME IInv, FileInv, NEW w \in Writers, NEW step, NEW l,
           Goes(w, step, l), step # "commit",
           step = "unknown" => ~l.cachedAbsent,
           UNCHANGED <<latestOrder, dataFiles, currentDataFiles, deleteFiles,
                       currentDeleteFile, tableNextRowId, plan, unguarded>>
    PROVE  FileInv'
<1>1. /\ pc'[w] = step
      /\ local'[w] = IF step \in Returned THEN NoLocal ELSE l
      /\ \A v \in Writers : v # w => pc'[v] = pc[v] /\ local'[v] = local[v]
  BY Zenon DEF IInv, TypeOK, Goes
<1>2. pc'[w] \in {"commit", "unknown"} => ~local'[w].cachedAbsent
  BY <1>1, Zenon DEF Returned
<1>3. latestOrder' \in Nat /\ latestOrder' >= latestOrder
  BY DEF IInv, TypeOK, CatalogTypeOK
<1>4. \A f \in Targets(plan'[w]) :
         /\ Exists(dataFiles[f])
         /\ plan'[w].read # NoOrder => dataFiles[f].begin <= plan'[w].read
  BY Zenon DEF FileInv, TargetsKnown
<1> QED
  BY <1>1, <1>2, <1>3, <1>4, OneRequestMoves, Zenon

\* The staging transaction validates what StagedStillFits says: all targets are active,
\* because none is younger than the snapshot its client read.
LEMMA StageFits ==
    ASSUME IInv, FileInv, NEW w \in Writers, Stage(w)
    PROVE  FileInv'
<1> DEFINE l == InvalidateReadSet([local[w] EXCEPT !.conflicted = FALSE])
<1>1. l \in Local /\ l.dataId = local[w].dataId /\ l.deleteId = local[w].deleteId
        /\ ~l.cachedAbsent
  BY ZenonT(30) DEF IInv, TypeOK, Local, InvalidateReadSet
<1> USE <1>1
<1>2. UNCHANGED <<catalogVars, plan, receiptVars>>
  BY Zenon DEF Stage
<1> USE <1>2
<1>3. PICK step \in {"done", "commit", "failed"} :
         /\ Goes(w, step, l)
         /\ step = "commit" => /\ RowIdsUnallocated(plan[w]) /\ TargetsCurrent(plan[w])
                               /\ FileIdsUnused(w)
  <2> DEFINE s == IF ~FenceHolds(plan[w]) \/ ~RowIdsUnallocated(plan[w]) THEN "failed"
                  ELSE IF ReceiptInTransaction(w) THEN "done"
                  ELSE IF ~TargetsCurrent(plan[w]) THEN "failed"
                  ELSE IF ~FlushFits(w) THEN LostFlush(plan[w])
                  ELSE IF FileIdsUnused(w) THEN "commit"
                  ELSE "failed"
  <2>1. Goes(w, s, l)
    BY Zenon DEF Stage
  <2>2. /\ s \in {"done", "commit", "failed"}
        /\ s = "commit" => /\ RowIdsUnallocated(plan[w]) /\ TargetsCurrent(plan[w])
                           /\ FileIdsUnused(w)
    BY Zenon DEF LostFlush
  <2> QED
    BY <2>1, <2>2, Zenon
<1> HIDE DEF l
<1>4. CASE step # "commit"
  BY <1>3, <1>4, CallMoves, Zenon DEF catalogVars, receiptVars, Running, Returned
<1>5. CASE step = "commit"
  <2>1. /\ pc'[w] = "commit" /\ local'[w] = l
        /\ \A v \in Writers : v # w => pc'[v] = pc[v] /\ local'[v] = local[v]
    BY <1>3, <1>5, GoesType DEF IInv, Running, Returned
  <2>2. \A f \in Targets(plan[w]) :
           /\ Exists(dataFiles[f])
           /\ plan[w].read # NoOrder => dataFiles[f].begin <= plan[w].read
    BY Zenon DEF FileInv, TargetsKnown
  <2>3. ActiveTargets(plan[w]) = Targets(plan[w])
    BY <2>2, Zenon DEF ActiveTargets
  <2>4. StagedStillFits(w)
    BY <1>3, <1>5, <2>3, Zenon DEF StagedStillFits, TargetsCurrent, FileIdsUnused, Targets
  <2>5. StagedStillFits(w)'
    BY <2>1, <2>4, Zenon
    DEF StagedStillFits, catalogVars, RowIdsUnallocated, DeleteFileNotAfterRead, Targets
  <2>6. latestOrder' \in Nat /\ latestOrder' >= latestOrder
    BY DEF IInv, TypeOK, CatalogTypeOK, catalogVars
  <2> QED
    BY <2>1, <2>2, <2>5, <2>6, OneRequestMoves, Zenon DEF catalogVars, receiptVars
<1> QED
  BY <1>4, <1>5, Zenon

\* A metadata commit, or a commit of inline rows, writes no file row.
LEMMA OtherFiles ==
    ASSUME IInv, FileInv, NEW t \in Tables, AlterTable(t) \/ OtherInline(t)
    PROVE  FileInv'
<1>0. PICK written : local' = [v \in Writers |-> Doomed(v, written)]
  BY Zenon DEF AlterTable, OtherInline
<1>1. /\ UNCHANGED <<pc, plan, dataFiles, currentDataFiles, deleteFiles, currentDeleteFile,
                     tableNextRowId, unguarded>>
      /\ latestOrder' = latestOrder + 1
  BY Zenon DEF AlterTable, OtherInline
<1> USE <1>0, <1>1
<1>2. \A v \in Writers : /\ local'[v].dataId = local[v].dataId
                         /\ local'[v].deleteId = local[v].deleteId
                         /\ local'[v].cachedAbsent = local[v].cachedAbsent
                         /\ ~local'[v].conflicted => ~local[v].conflicted
  BY DoomedType, Zenon DEF IInv
<1>3. FilesKept' /\ RowIdsDisjoint'
  BY FilesUntouched DEF FileInv, IInv, TypeOK, CatalogTypeOK
<1>4. TargetsKnown'
  BY Zenon DEF FileInv, TargetsKnown, Targets
<1>5. ReadSetDropped'
  BY <1>2, Zenon DEF FileInv, ReadSetDropped
<1>6. StagingStillHolds'
  <2> SUFFICES ASSUME NEW v \in Writers, pc'[v] = "commit", ~local'[v].conflicted
               PROVE  StagedStillFits(v)'
    BY Zenon DEF StagingStillHolds
  <2>1. StagedStillFits(v)
    BY <1>2, Zenon DEF FileInv, StagingStillHolds
  <2> QED
    BY <1>2, <2>1, Zenon DEF StagedStillFits, RowIdsUnallocated, DeleteFileNotAfterRead, Targets
<1> QED
  BY <1>3, <1>4, <1>5, <1>6, Zenon DEF FileInv

\* What a commit does to the data files: the new row takes an id nobody has used, the
\* dropped rows were open and end now, and all else stays.
LEMMA ApplyDataFiles ==
    ASSUME IInv, FileInv, NEW w \in Writers, NEW step, pc[w] = "commit",
           ~local[w].conflicted, Apply(w, step)
    PROVE  /\ plan[w].adds =>
                 /\ local[w].dataId \in FileIdSet
                 /\ ~Exists(dataFiles[local[w].dataId])
                 /\ dataFiles'[local[w].dataId] = ProposedRow(plan[w], latestOrder + 1)
           /\ \A f \in FileIdSet : ~(plan[w].adds /\ f = local[w].dataId) =>
                 /\ dataFiles'[f].begin = dataFiles[f].begin
                 /\ dataFiles'[f].table = dataFiles[f].table
                 /\ dataFiles'[f].row_id_start = dataFiles[f].row_id_start
                 /\ dataFiles'[f].record_count = dataFiles[f].record_count
                 /\ dataFiles'[f].end =
                       IF f \in plan[w].drops THEN latestOrder + 1 ELSE dataFiles[f].end
<1> DEFINE p == plan[w]
<1> DEFINE id == local[w].dataId
<1> DEFINE order == latestOrder + 1
<1> DEFINE row == ProposedRow(p, order)
<1> DEFINE staged == IF p.adds THEN StageDataFile(dataFiles, id, row) ELSE dataFiles
<1>1. /\ p \in Plan /\ dataFiles \in [FileIdSet -> DataFileRow] /\ order \in Nat
      /\ p.adds => id \in FileIdSet /\ ~Exists(dataFiles[id])
      /\ p.drops \subseteq currentDataFiles /\ currentDataFiles \subseteq FileIdSet
  <2>1. /\ p \in Plan /\ dataFiles \in [FileIdSet -> DataFileRow] /\ order \in Nat
        /\ currentDataFiles \subseteq FileIdSet
    BY DEF IInv, TypeOK, CatalogTypeOK
  <2>2. p.adds => id \in FileIdSet
    BY Zenon DEF IInv, IdsReserved
  <2>3. StagedStillFits(w)
    BY Zenon DEF FileInv, StagingStillHolds
  <2> QED
    BY <2>1, <2>2, <2>3, Zenon DEF StagedStillFits, Targets
<1> USE <1>1
<1>2. row \in DataFileRow
  BY Zenon DEF ProposedRow, DataFileRow, Plan, NoOrder
<1>3. \A f \in p.drops : Exists(dataFiles[f])
  BY Zenon DEF FileInv, FilesKept, Open
<1>4. dataFiles' = StageExpired(staged, p.drops, order)
  BY Zenon DEF Apply
<1> HIDE DEF p, id, order, row
<1>5. /\ staged \in [FileIdSet -> DataFileRow]
      /\ p.adds => staged[id] = row
      /\ \A f \in FileIdSet : ~(p.adds /\ f = id) => staged[f] = dataFiles[f]
  BY <1>2, Zenon DEF StageDataFile
<1> HIDE DEF staged
<1>6. \A f \in FileIdSet :
         dataFiles'[f] = IF f \in p.drops THEN [staged[f] EXCEPT !.end = order] ELSE staged[f]
  BY <1>4, Zenon DEF StageExpired
<1>7. p.adds => dataFiles'[id] = row
  BY <1>3, <1>5, <1>6, Zenon
<1>8. \A f \in FileIdSet : ~(p.adds /\ f = id) =>
         /\ dataFiles'[f].begin = dataFiles[f].begin
         /\ dataFiles'[f].table = dataFiles[f].table
         /\ dataFiles'[f].row_id_start = dataFiles[f].row_id_start
         /\ dataFiles'[f].record_count = dataFiles[f].record_count
         /\ dataFiles'[f].end = IF f \in p.drops THEN order ELSE dataFiles[f].end
  <2> SUFFICES ASSUME NEW f \in FileIdSet, ~(p.adds /\ f = id)
               PROVE  /\ dataFiles'[f].begin = dataFiles[f].begin
                      /\ dataFiles'[f].table = dataFiles[f].table
                      /\ dataFiles'[f].row_id_start = dataFiles[f].row_id_start
                      /\ dataFiles'[f].record_count = dataFiles[f].record_count
                      /\ dataFiles'[f].end = IF f \in p.drops THEN order ELSE dataFiles[f].end
    BY Zenon
  <2>1. /\ dataFiles[f] \in DataFileRow
        /\ f \in p.drops => dataFiles'[f] = [dataFiles[f] EXCEPT !.end = order]
        /\ f \notin p.drops => dataFiles'[f] = dataFiles[f]
    BY <1>5, <1>6, Zenon
  <2> QED
    BY <2>1, Zenon DEF DataFileRow
<1> QED
  BY <1>7, <1>8, Zenon DEF p, id, order, row

\* What a commit does to the delete files: rows that were there keep their begin order,
\* and only the pointers of its own targets move.
LEMMA ApplyDeleteFiles ==
    ASSUME IInv, FileInv, NEW w \in Writers, NEW step, pc[w] = "commit",
           ~local[w].conflicted, Apply(w, step)
    PROVE  /\ \A d \in FileIdSet :
                 Exists(deleteFiles[d]) => deleteFiles'[d].begin = deleteFiles[d].begin
           /\ \A d \in FileIdSet : ~(plan[w].deletes # {} /\ d = local[w].deleteId) =>
                 deleteFiles'[d].begin = deleteFiles[d].begin
           /\ \A f \in FileIdSet :
                 f \notin plan[w].deletes => currentDeleteFile'[f] = currentDeleteFile[f]
           /\ \A f \in FileIdSet :
                 currentDeleteFile'[f] # NoFile => Exists(deleteFiles'[currentDeleteFile'[f]])
<1> DEFINE p == plan[w]
<1> DEFINE did == local[w].deleteId
<1> DEFINE order == latestOrder + 1
<1>1. /\ p \in Plan /\ deleteFiles \in [FileIdSet -> DeleteFileRow] /\ order \in Nat
      /\ order # NoOrder
      /\ currentDeleteFile \in [FileIdSet -> FileIdSet \cup {NoFile}]
      /\ p.deletes # {} => did \in FileIdSet /\ ~Exists(deleteFiles[did])
  <2>1. /\ p \in Plan /\ deleteFiles \in [FileIdSet -> DeleteFileRow] /\ order \in Nat
        /\ order # NoOrder
        /\ currentDeleteFile \in [FileIdSet -> FileIdSet \cup {NoFile}]
    BY DEF IInv, TypeOK, CatalogTypeOK, NoOrder
  <2>2. p.deletes # {} => did \in FileIdSet
    BY Zenon DEF IInv, IdsReserved
  <2>3. StagedStillFits(w)
    BY Zenon DEF FileInv, StagingStillHolds
  <2> QED
    BY <2>1, <2>2, <2>3, Zenon DEF StagedStillFits
<1> USE <1>1
<1>2. \A f \in FileIdSet :
         currentDeleteFile[f] # NoFile => Exists(deleteFiles[currentDeleteFile[f]])
  BY Zenon DEF FileInv, FilesKept
<1>3. CASE p.deletes = {}
  <2>1. UNCHANGED <<deleteFiles, currentDeleteFile>>
    BY <1>3, Zenon DEF Apply
  <2> QED
    BY <1>2, <2>1, Zenon
<1>4. CASE p.deletes # {}
  <2> USE <1>4
  <2>1. PICK f \in p.deletes :
          /\ deleteFiles' = StageDeleteFile(deleteFiles, currentDeleteFile[f], did, f,
                                            p.rows, order)
          /\ currentDeleteFile' = [currentDeleteFile EXCEPT ![f] = did]
    BY Zenon DEF Apply
  <2> USE <2>1
  <2> DEFINE old == currentDeleteFile[f]
  <2> DEFINE closed == StageCloseDelete(deleteFiles, old, order)
  <2> DEFINE begins == IF old = NoFile THEN order ELSE deleteFiles[old].begin
  <2>2. f \in FileIdSet /\ old \in FileIdSet \cup {NoFile} /\ begins # NoOrder
    BY <1>2, Zenon DEF Plan, Exists
  <2>3. deleteFiles' = [closed EXCEPT ![did] =
            [data_file |-> f, begin |-> begins, end |-> NoOrder,
             partial |-> IF old = NoFile THEN NoOrder ELSE order, rows |-> p.rows]]
    BY Zenon DEF StageDeleteFile
  <2> HIDE DEF p, did, order, begins
  <2>4. /\ closed \in [FileIdSet -> DeleteFileRow]
        /\ \A d \in FileIdSet : closed[d].begin = deleteFiles[d].begin
    BY <2>2 DEF StageCloseDelete, DeleteFileRow
  <2> HIDE DEF closed
  <2>5. /\ deleteFiles'[did].begin = begins
        /\ \A d \in FileIdSet \ {did} : deleteFiles'[d].begin = deleteFiles[d].begin
    BY <2>3, <2>4
  <2>6. /\ currentDeleteFile'[f] = did
        /\ \A g \in FileIdSet \ {f} : currentDeleteFile'[g] = currentDeleteFile[g]
    BY <2>2, Zenon
  <2> HIDE DEF old
  <2>7. \A d \in FileIdSet : Exists(deleteFiles[d]) => d # did
    BY Zenon
  <2>8. \A g \in FileIdSet :
           currentDeleteFile'[g] # NoFile => Exists(deleteFiles'[currentDeleteFile'[g]])
    BY <1>2, <2>2, <2>5, <2>6, <2>7 DEF Exists
  <2> QED
    BY <2>5, <2>6, <2>7, <2>8, Zenon DEF p, did
<1> QED
  BY <1>3, <1>4, Zenon

\* The current files after a commit: the row ids of a new file are below the watermark
\* that the same commit raises.
LEMMA ApplyFilesKept ==
    ASSUME IInv, FileInv, NEW w \in Writers, NEW step, pc[w] = "commit",
           ~local[w].conflicted, Apply(w, step)
    PROVE  FilesKept'
<1> DEFINE p == plan[w]
<1> DEFINE id == local[w].dataId
<1> DEFINE order == latestOrder + 1
<1>1. /\ p \in Plan /\ dataFiles \in [FileIdSet -> DataFileRow] /\ latestOrder \in Nat
      /\ currentDataFiles \subseteq FileIdSet /\ tableNextRowId \in [Tables -> Nat]
  BY Zenon DEF IInv, TypeOK, CatalogTypeOK
<1> USE <1>1
<1>2. /\ latestOrder' = order
      /\ currentDataFiles' = (currentDataFiles \cup IF p.adds THEN {id} ELSE {}) \ p.drops
      /\ tableNextRowId' =
            IF p.adds
            THEN [tableNextRowId EXCEPT ![p.table] =
                     Maximum(tableNextRowId[p.table], p.row_id_start + p.record_count)]
            ELSE tableNextRowId
  BY Zenon DEF Apply
<1> USE <1>2
<1>3. /\ p.adds => /\ id \in FileIdSet /\ ~Exists(dataFiles[id])
                   /\ dataFiles'[id] = ProposedRow(p, order)
      /\ \A f \in FileIdSet : ~(p.adds /\ f = id) =>
            /\ dataFiles'[f].begin = dataFiles[f].begin
            /\ dataFiles'[f].table = dataFiles[f].table
            /\ dataFiles'[f].row_id_start = dataFiles[f].row_id_start
            /\ dataFiles'[f].record_count = dataFiles[f].record_count
            /\ dataFiles'[f].end = IF f \in p.drops THEN order ELSE dataFiles[f].end
  BY ApplyDataFiles, Zenon
<1> USE <1>3
<1>4. p.drops \subseteq currentDataFiles
  BY Zenon DEF FileInv, StagingStillHolds, StagedStillFits, Targets
<1>5. \A f \in currentDataFiles :
          /\ Exists(dataFiles[f]) /\ dataFiles[f].end = NoOrder
          /\ dataFiles[f].begin <= latestOrder
          /\ dataFiles[f].row_id_start + dataFiles[f].record_count
                <= tableNextRowId[dataFiles[f].table]
  BY Zenon DEF FileInv, FilesKept, Open
<1>6. /\ p.table \in Tables /\ p.row_id_start \in Nat /\ p.record_count \in Nat
      /\ p.adds \in BOOLEAN
  BY Zenon DEF Plan
<1> HIDE DEF p, id
<1>7. \A t \in Tables : tableNextRowId'[t] \in Nat /\ tableNextRowId'[t] >= tableNextRowId[t]
  BY <1>6 DEF Maximum
<1>8. p.adds => p.row_id_start + p.record_count <= tableNextRowId'[p.table]
  BY <1>6 DEF Maximum
<1>9. ASSUME NEW f \in currentDataFiles'
      PROVE  /\ Open(dataFiles'[f]) /\ dataFiles'[f].begin <= latestOrder'
             /\ dataFiles'[f].row_id_start + dataFiles'[f].record_count
                   <= tableNextRowId'[dataFiles'[f].table]
  <2>1. CASE p.adds /\ f = id
    <3>1. /\ dataFiles'[f].begin = order /\ dataFiles'[f].end = NoOrder
          /\ dataFiles'[f].row_id_start = p.row_id_start
          /\ dataFiles'[f].record_count = p.record_count /\ dataFiles'[f].table = p.table
      BY <2>1 DEF ProposedRow
    <3> QED
      BY <1>8, <2>1, <3>1 DEF Open, Exists, NoOrder
  <2>2. CASE ~(p.adds /\ f = id)
    <3>1. f \in currentDataFiles /\ f \in FileIdSet /\ f \notin p.drops
      BY <1>9, <2>2, Zenon
    <3>2. /\ dataFiles[f].table \in Tables /\ dataFiles[f].begin \in Nat
          /\ dataFiles[f].row_id_start \in Nat /\ dataFiles[f].record_count \in Nat
      BY <3>1, Zenon DEF DataFileRow
    <3>3. /\ dataFiles'[f].begin = dataFiles[f].begin /\ dataFiles'[f].end = dataFiles[f].end
          /\ dataFiles'[f].row_id_start = dataFiles[f].row_id_start
          /\ dataFiles'[f].record_count = dataFiles[f].record_count
          /\ dataFiles'[f].table = dataFiles[f].table
      BY <2>2, <3>1, Zenon
    <3>4. tableNextRowId[dataFiles[f].table] \in Nat
      BY <3>2, Zenon
    <3> QED
      BY <1>5, <1>7, <3>1, <3>2, <3>3, <3>4 DEF Open, Exists
  <2> QED
    BY <2>1, <2>2, Zenon
<1>10. ASSUME NEW f \in FileIdSet, dataFiles'[f].end # NoOrder PROVE Exists(dataFiles'[f])
  <2>1. CASE p.adds /\ f = id
    BY <1>10, <2>1 DEF ProposedRow
  <2>2. CASE ~(p.adds /\ f = id)
    <3>1. dataFiles[f].end # NoOrder => Exists(dataFiles[f])
      BY Zenon DEF FileInv, FilesKept
    <3> QED
      BY <1>4, <1>5, <1>10, <2>2, <3>1, Zenon DEF Exists
  <2> QED
    BY <2>1, <2>2, Zenon
<1>11. \A f \in FileIdSet :
          currentDeleteFile'[f] # NoFile => Exists(deleteFiles'[currentDeleteFile'[f]])
  BY ApplyDeleteFiles, Zenon
<1> QED
  BY <1>9, <1>10, <1>11, Zenon DEF FilesKept

\* A new file whose row ids are guarded starts at or above the watermark, and so above all
\* files of its table; a file that came unguarded is still known as such.
LEMMA ApplyRowIds ==
    ASSUME IInv, FileInv, NEW w \in Writers, NEW step, pc[w] = "commit",
           ~local[w].conflicted, Apply(w, step)
    PROVE  RowIdsDisjoint'
<1> DEFINE p == plan[w]
<1> DEFINE id == local[w].dataId
<1> DEFINE order == latestOrder + 1
<1> DEFINE Kept(f) == f \in currentDataFiles \ unguarded
<1>1. /\ p \in Plan /\ dataFiles \in [FileIdSet -> DataFileRow] /\ latestOrder \in Nat
      /\ currentDataFiles \subseteq FileIdSet /\ tableNextRowId \in [Tables -> Nat]
  BY Zenon DEF IInv, TypeOK, CatalogTypeOK
<1> USE <1>1
<1>2. /\ currentDataFiles' = (currentDataFiles \cup IF p.adds THEN {id} ELSE {}) \ p.drops
      /\ unguarded' = IF p.adds /\ ~RowIdsGuarded(p) THEN unguarded \cup {id} ELSE unguarded
  BY Zenon DEF Apply
<1>3. /\ p.adds => /\ id \in FileIdSet /\ ~Exists(dataFiles[id])
                   /\ dataFiles'[id] = ProposedRow(p, order)
      /\ \A f \in FileIdSet : ~(p.adds /\ f = id) =>
            /\ dataFiles'[f].begin = dataFiles[f].begin
            /\ dataFiles'[f].table = dataFiles[f].table
            /\ dataFiles'[f].row_id_start = dataFiles[f].row_id_start
            /\ dataFiles'[f].record_count = dataFiles[f].record_count
            /\ dataFiles'[f].end = IF f \in p.drops THEN order ELSE dataFiles[f].end
  BY ApplyDataFiles, Zenon
<1> USE <1>3
<1>4. /\ p.drops \subseteq currentDataFiles
      /\ p.adds /\ RowIdsGuarded(p) => p.row_id_start >= tableNextRowId[p.table]
  BY Zenon DEF FileInv, StagingStillHolds, StagedStillFits, Targets, RowIdsUnallocated
<1>5. /\ \A f \in currentDataFiles :
            /\ Exists(dataFiles[f]) /\ dataFiles[f].end = NoOrder
            /\ dataFiles[f].row_id_start + dataFiles[f].record_count
                  <= tableNextRowId[dataFiles[f].table]
      /\ \A f \in FileIdSet : dataFiles[f].end # NoOrder => Exists(dataFiles[f])
  BY Zenon DEF FileInv, FilesKept, Open
<1>6. /\ p.table \in Tables /\ p.row_id_start \in Nat /\ p.record_count \in Nat
      /\ p.adds \in BOOLEAN
  BY Zenon DEF Plan
<1> HIDE DEF p, id
<1>7. ASSUME NEW f \in currentDataFiles' \ unguarded', ~(p.adds /\ f = id)
      PROVE  f \in FileIdSet /\ Kept(f)
  BY <1>2, <1>7, Zenon
<1>8. ASSUME p.adds, NEW f \in currentDataFiles' \ unguarded', f = id
      PROVE  RowIdsGuarded(p)
  BY <1>2, <1>8, Zenon
<1>9. ASSUME p.adds, RowIdsGuarded(p), NEW f \in currentDataFiles, f # id
      PROVE  /\ ~Overlaps(dataFiles'[f], dataFiles'[id])
             /\ ~Overlaps(dataFiles'[id], dataFiles'[f])
  <2>1. /\ dataFiles'[id].row_id_start = p.row_id_start
        /\ dataFiles'[id].record_count = p.record_count /\ dataFiles'[id].table = p.table
    BY <1>9 DEF ProposedRow
  <2>2. /\ dataFiles'[f].row_id_start = dataFiles[f].row_id_start
        /\ dataFiles'[f].record_count = dataFiles[f].record_count
        /\ dataFiles'[f].table = dataFiles[f].table
    BY <1>9, Zenon
  <2>3. dataFiles[f].row_id_start \in Nat /\ dataFiles[f].record_count \in Nat
          /\ tableNextRowId[p.table] \in Nat
    BY <1>6, Zenon DEF DataFileRow
  <2>4. dataFiles[f].table = p.table =>
           dataFiles[f].row_id_start + dataFiles[f].record_count <= p.row_id_start
    BY <1>4, <1>5, <1>6, <1>9, <2>3
  <2> QED
    BY <1>6, <2>1, <2>2, <2>3, <2>4 DEF Overlaps
<1>10. ASSUME NEW f \in currentDataFiles' \ unguarded', NEW g \in currentDataFiles' \ unguarded',
              f # g
       PROVE  ~Overlaps(dataFiles'[f], dataFiles'[g])
  <2> USE <1>10
  <2>1. CASE p.adds /\ f = id
    <3>1. g \in currentDataFiles /\ RowIdsGuarded(p)
      BY <1>7, <1>8, <2>1, Zenon
    <3> QED
      BY <1>9, <2>1, <3>1, Zenon
  <2>2. CASE p.adds /\ g = id
    <3>1. f \in currentDataFiles /\ RowIdsGuarded(p)
      BY <1>7, <1>8, <2>2, Zenon
    <3> QED
      BY <1>9, <2>2, <3>1, Zenon
  <2>3. CASE ~(p.adds /\ f = id) /\ ~(p.adds /\ g = id)
    <3>1. Kept(f) /\ Kept(g) /\ f \in FileIdSet /\ g \in FileIdSet
      BY <1>7, <2>3, Zenon
    <3>2. ~Overlaps(dataFiles[f], dataFiles[g])
      BY <3>1, Zenon DEF FileInv, RowIdsDisjoint
    <3> QED
      BY <2>3, <3>1, <3>2, Zenon DEF Overlaps
  <2> QED
    BY <2>1, <2>2, <2>3, Zenon
<1> QED
  BY <1>10, Zenon DEF RowIdsDisjoint

\* What another open transaction has validated survives the commit, or it is doomed.
LEMMA ApplyStagingHolds ==
    ASSUME IInv, FileInv, NEW w \in Writers, NEW step, pc[w] = "commit",
           ~local[w].conflicted, Apply(w, step),
           NEW v \in Writers, v # w, pc[v] = "commit", ~local[v].conflicted,
           ReadKeys(v) \cap WrittenKeys(w) = {},
           local'[v].dataId = local[v].dataId, local'[v].deleteId = local[v].deleteId
    PROVE  StagedStillFits(v)'
<1> DEFINE p == plan[w]
<1> DEFINE q == plan[v]
<1>1. /\ p \in Plan /\ q \in Plan /\ dataFiles \in [FileIdSet -> DataFileRow]
      /\ currentDataFiles \subseteq FileIdSet /\ tableNextRowId \in [Tables -> Nat]
      /\ currentDeleteFile \in [FileIdSet -> FileIdSet \cup {NoFile}]
      /\ q.adds => local[v].dataId \in FileIdSet
      /\ q.deletes # {} => local[v].deleteId \in FileIdSet
  BY Zenon DEF IInv, TypeOK, CatalogTypeOK, IdsReserved
<1> USE <1>1
<1>2. /\ plan' = plan
      /\ currentDataFiles' =
            (currentDataFiles \cup IF p.adds THEN {local[w].dataId} ELSE {}) \ p.drops
      /\ tableNextRowId' =
            IF p.adds
            THEN [tableNextRowId EXCEPT ![p.table] =
                     Maximum(tableNextRowId[p.table], p.row_id_start + p.record_count)]
            ELSE tableNextRowId
  BY Zenon DEF Apply
<1>3. StagedStillFits(v)
  BY Zenon DEF FileInv, StagingStillHolds
<1> USE <1>3
<1>4. q.adds => ~Exists(dataFiles'[local[v].dataId])
  <2> SUFFICES ASSUME q.adds PROVE ~Exists(dataFiles'[local[v].dataId])
    BY Zenon
  <2>1. <<"data_file", local[v].dataId>> \in ReadKeys(v)
    BY Zenon DEF ReadKeys, FileIdReads
  <2>2. p.adds => <<"data_file", local[w].dataId>> \in WrittenKeys(w)
    BY Zenon DEF WrittenKeys
  <2>3. ~(p.adds /\ local[v].dataId = local[w].dataId)
    BY <2>1, <2>2, Zenon
  <2> QED
    BY <2>3, ApplyDataFiles, Zenon DEF StagedStillFits, Exists
<1>5. q.deletes # {} => ~Exists(deleteFiles'[local[v].deleteId])
  <2> SUFFICES ASSUME q.deletes # {} PROVE ~Exists(deleteFiles'[local[v].deleteId])
    BY Zenon
  <2>1. <<"delete_file", local[v].deleteId>> \in ReadKeys(v)
    BY Zenon DEF ReadKeys, FileIdReads
  <2>2. p.deletes # {} => <<"delete_file", local[w].deleteId>> \in WrittenKeys(w)
    BY Zenon DEF WrittenKeys
  <2>3. ~(p.deletes # {} /\ local[v].deleteId = local[w].deleteId)
    BY <2>1, <2>2, Zenon
  <2> QED
    BY <2>3, ApplyDeleteFiles, Zenon DEF StagedStillFits, Exists
<1>6. q.adds /\ RowIdsGuarded(q) => q.row_id_start >= tableNextRowId'[q.table]
  <2> SUFFICES ASSUME q.adds, RowIdsGuarded(q) PROVE q.row_id_start >= tableNextRowId'[q.table]
    BY Zenon
  <2>1. <<"table_next_row_id", q.table>> \in ReadKeys(v)
    BY Zenon DEF ReadKeys, RowIdReads
  <2>2. p.adds => <<"table_next_row_id", p.table>> \in WrittenKeys(w)
    BY Zenon DEF WrittenKeys
  <2>3. p.adds => p.table # q.table
    BY <2>1, <2>2, Zenon
  <2>4. tableNextRowId'[q.table] = tableNextRowId[q.table]
    BY <1>2, <2>3, Zenon DEF Plan
  <2> QED
    BY <2>4, Zenon DEF StagedStillFits, RowIdsUnallocated
<1>7. Targets(q) \subseteq currentDataFiles'
  <2> SUFFICES ASSUME NEW f \in Targets(q) PROVE f \in currentDataFiles'
    BY Zenon
  <2>1. f \in ActiveTargets(q)
    BY Zenon DEF FileInv, TargetsKnown, ActiveTargets
  <2>2. <<"current_data_file", f>> \in ReadKeys(v)
    BY <2>1, Zenon DEF ReadKeys, TargetReads
  <2>3. f \in p.drops => <<"current_data_file", f>> \in WrittenKeys(w)
    BY Zenon DEF WrittenKeys
  <2> QED
    BY <1>2, <2>2, <2>3, Zenon DEF StagedStillFits
<1>8. q.read # NoOrder =>
         \A f \in q.deletes :
            currentDeleteFile'[f] # NoFile =>
                deleteFiles'[currentDeleteFile'[f]].begin <= q.read
  <2> SUFFICES ASSUME q.read # NoOrder, NEW f \in q.deletes, currentDeleteFile'[f] # NoFile
               PROVE  deleteFiles'[currentDeleteFile'[f]].begin <= q.read
    BY Zenon
  <2>1. <<"current_delete_file", f>> \in ReadKeys(v)
    BY Zenon DEF ReadKeys, DeleteReads
  <2>2. f \in p.deletes => <<"current_delete_file", f>> \in WrittenKeys(w)
    BY Zenon DEF WrittenKeys
  <2>3. f \in FileIdSet /\ f \notin p.deletes
    BY <2>1, <2>2, Zenon DEF Plan
  <2>4. currentDeleteFile'[f] = currentDeleteFile[f]
    BY <2>3, ApplyDeleteFiles, Zenon
  <2>5. currentDeleteFile[f] \in FileIdSet /\ Exists(deleteFiles[currentDeleteFile[f]])
    BY <2>3, <2>4, Zenon DEF FileInv, FilesKept
  <2>6. deleteFiles'[currentDeleteFile[f]].begin = deleteFiles[currentDeleteFile[f]].begin
    BY <2>5, ApplyDeleteFiles, Zenon
  <2> QED
    BY <2>4, <2>6, Zenon DEF StagedStillFits, DeleteFileNotAfterRead
<1> QED
  BY <1>2, <1>4, <1>5, <1>6, <1>7, <1>8, Zenon
  DEF StagedStillFits, RowIdsUnallocated, DeleteFileNotAfterRead, Targets

LEMMA ApplyFiles ==
    ASSUME IInv, FileInv, NEW w \in Writers, NEW step \in {"done", "unknown"},
           pc[w] = "commit", ~local[w].conflicted, Apply(w, step)
    PROVE  FileInv'
<1> DEFINE written == WrittenKeys(w)
<1>t. /\ pc \in [Writers -> {"idle"} \cup Running \cup Returned]
      /\ local \in [Writers -> Local] /\ plan \in [Writers -> Plan]
  BY Zenon DEF IInv, TypeOK
<1>1. /\ pc' = [pc EXCEPT ![w] = step] /\ plan' = plan
      /\ local' = [v \in Writers |->
            IF v # w THEN Doomed(v, written)
            ELSE IF step \in Returned THEN NoLocal ELSE AfterCommit(local[w])]
  BY Zenon DEF Apply
<1> USE <1>1
<1> HIDE DEF written
<1>2. \A v \in Writers \ {w} :
         /\ pc'[v] = pc[v]
         /\ local'[v].dataId = local[v].dataId
         /\ local'[v].deleteId = local[v].deleteId
         /\ local'[v].cachedAbsent = local[v].cachedAbsent
         /\ ~local'[v].conflicted =>
               /\ ~local[v].conflicted
               /\ pc[v] = "commit" => ReadKeys(v) \cap written = {}
  BY <1>t, DoomedType, Zenon DEF IInv
<1>3. pc'[w] = step /\ pc'[w] # "commit"
  BY <1>t, Zenon
<1>4. FilesKept' /\ RowIdsDisjoint'
  BY ApplyFilesKept, ApplyRowIds, Zenon
<1>5. TargetsKnown'
  <2> SUFFICES ASSUME NEW v \in Writers, NEW f \in Targets(plan[v])
               PROVE  /\ Exists(dataFiles'[f])
                      /\ plan[v].read # NoOrder => dataFiles'[f].begin <= plan[v].read
    BY Zenon DEF TargetsKnown
  <2>1. /\ f \in FileIdSet /\ Exists(dataFiles[f])
        /\ plan[v].read # NoOrder => dataFiles[f].begin <= plan[v].read
    BY <1>t, Zenon DEF FileInv, TargetsKnown, Targets, Plan
  <2>2. dataFiles'[f].begin = dataFiles[f].begin
    BY <2>1, ApplyDataFiles, Zenon
  <2> QED
    BY <2>1, <2>2, Zenon DEF Exists
<1>6. ReadSetDropped'
  <2>1. step = "unknown" => ~local'[w].cachedAbsent
    <3>1. ~local[w].cachedAbsent
      BY Zenon DEF FileInv, ReadSetDropped
    <3> QED
      BY <3>1, Zenon DEF Returned, AfterCommit, NoLocal
  <2> QED
    BY <1>2, <1>3, <2>1, Zenon DEF FileInv, ReadSetDropped
<1>7. StagingStillHolds'
  <2> SUFFICES ASSUME NEW v \in Writers, pc'[v] = "commit", ~local'[v].conflicted
               PROVE  StagedStillFits(v)'
    BY Zenon DEF StagingStillHolds
  <2>1. v # w
    BY <1>3, Zenon
  <2>2. /\ pc[v] = "commit" /\ ~local[v].conflicted /\ ReadKeys(v) \cap WrittenKeys(w) = {}
        /\ local'[v].dataId = local[v].dataId /\ local'[v].deleteId = local[v].deleteId
    BY <1>2, <2>1, Zenon DEF written
  <2> QED
    BY <2>1, <2>2, ApplyStagingHolds, Zenon
<1> QED
  BY <1>4, <1>5, <1>6, <1>7, Zenon DEF FileInv

LEMMA FileStep ==
    ASSUME IInv, FileInv, [Next]_vars
    PROVE  FileInv'
<1>1. ASSUME NEW w \in Writers, Request(w) \/ \E v \in Writers : Resend(w, v) PROVE FileInv'
  BY <1>1, ArrivalFiles, Zenon
<1>2. ASSUME NEW t \in Tables, AlterTable(t) \/ OtherInline(t) PROVE FileInv'
  BY <1>2, OtherFiles, Zenon
<1>3. ASSUME NEW w \in Writers, Step(w) PROVE FileInv'
  <2>1. CASE Prepare(w) \/ RejectStale(w) \/ Recover(w) \/ Preflight(w)
    BY <2>1, CallMoves, Zenon DEF Prepare, RejectStale, Recover, Preflight, catalogVars,
                               receiptVars
  <2>2. CASE Reserve(w)
    BY <2>2, CallMoves, Zenon DEF Reserve, receiptVars
  <2>3. CASE Stage(w)
    BY <2>3, StageFits, Zenon
  <2>4. CASE CommitSucceeds(w) \/ CommitUnknownApplied(w)
    BY <2>4, ApplyFiles, Zenon DEF CommitSucceeds, CommitUnknownApplied
  <2>5. CASE CommitNotApplied(w) \/ RecoverUnknown(w) \/ Fail(w)
    BY <2>5, CallMoves, Zenon DEF CommitNotApplied, RecoverUnknown, Fail, catalogVars,
                               receiptVars
  <2>6. CASE CommitUnknownLost(w)
    <3>1. ~AfterCommit(local[w]).cachedAbsent
      BY <2>6, Zenon DEF CommitUnknownLost, FileInv, ReadSetDropped, AfterCommit, NoLocal
    <3> QED
      BY <2>6, <3>1, CallMoves, Zenon DEF CommitUnknownLost, catalogVars, receiptVars
  <2> QED
    BY <1>3, <2>1, <2>2, <2>3, <2>4, <2>5, <2>6, Zenon DEF Step
<1>4. CASE UNCHANGED vars
  <2>1. FilesKept' /\ RowIdsDisjoint'
    BY <1>4, FilesUntouched DEF vars, catalogVars, receiptVars, FileInv, IInv, TypeOK, CatalogTypeOK
  <2>2. TargetsKnown' /\ ReadSetDropped'
    BY <1>4, Zenon DEF vars, catalogVars, FileInv, TargetsKnown, ReadSetDropped, Targets
  <2>3. StagingStillHolds'
    BY <1>4, Zenon DEF vars, catalogVars, FileInv, StagingStillHolds, StagedStillFits,
                RowIdsUnallocated, DeleteFileNotAfterRead, Targets
  <2> QED
    BY <2>1, <2>2, <2>3, Zenon DEF FileInv
<1> QED
  BY <1>1, <1>2, <1>3, <1>4, Zenon DEF Next

LEMMA FileInit == Init => FileInv
<1> SUFFICES ASSUME Init PROVE FileInv
  BY Zenon
<1> USE DataMutationAssumption, CatalogAssumption
<1>1. EmptyPlan.table \in Tables /\ Targets(EmptyPlan) = {}
  BY Zenon DEF EmptyPlan, Targets
<1>2. 0 \in FileIdSet /\ 1 \in FileIdSet
  BY DEF FileIdSet
<1>3. /\ currentDataFiles = {0} /\ latestOrder \in {1, 2}
      /\ dataFiles[0].begin = 1 /\ tableNextRowId[EmptyPlan.table] = 1
      /\ dataFiles[0].table = EmptyPlan.table
      /\ \A f \in FileIdSet : dataFiles[f].end = NoOrder
      /\ dataFiles[0].row_id_start = 0 /\ dataFiles[0].record_count = 1
  BY <1>1, <1>2, Zenon DEF Init
<1>4. \A f \in FileIdSet :
         currentDeleteFile[f] # NoFile => Exists(deleteFiles[currentDeleteFile[f]])
  <2>1. PICK deleted \in BOOLEAN :
        /\ deleteFiles = [x \in FileIdSet |->
              [data_file |-> 0, begin |-> IF deleted /\ x = 1 THEN 2 ELSE NoOrder,
               end |-> NoOrder, partial |-> NoOrder, rows |-> {}]]
        /\ currentDeleteFile =
              [f \in FileIdSet |-> IF deleted /\ f = 0 THEN 1 ELSE NoFile]
    BY Zenon DEF Init
  <2> QED
    BY <1>2, <2>1 DEF Exists, NoOrder
<1>5. FilesKept
  BY <1>2, <1>3, <1>4 DEF FilesKept, Open, Exists, NoOrder
<1>6. TargetsKnown /\ ReadSetDropped /\ StagingStillHolds
  BY <1>1, Zenon DEF Init, TargetsKnown, ReadSetDropped, StagingStillHolds
<1>7. RowIdsDisjoint
  BY <1>3, Zenon DEF RowIdsDisjoint
<1> QED
  BY <1>5, <1>6, <1>7, Zenon DEF FileInv

LEMMA FileInvariance == Spec => [](IInv /\ FileInv)
<1>1. IInv /\ FileInv /\ [Next]_vars => FileInv'
  BY FileStep, Zenon
<1> QED
  BY <1>1, FileInit, Invariance, PTL DEF Spec

\* Two clients that read the same next_row_id never both publish it: the watermark is read
\* inside the transaction, and every commit that raises it dooms the other.
THEOREM RowIdsDisjointHolds == Spec => []RowIdsDisjoint
<1>1. FileInv => RowIdsDisjoint
  BY Zenon DEF FileInv
<1> QED
  BY <1>1, FileInvariance, PTL

\* A pinned deletion commits on top of a file's first deletion only if its client has
\* seen it: the current pointer is a read conflict, and a replacement inherits the begin
\* order that reject_current_delete_file_after_read compares.
THEOREM FirstDeletionSeenHolds == Spec => FirstDeletionSeen
<1> DEFINE Act == \A w \in Writers :
          pc[w] = "commit" /\ plan[w].read # NoOrder /\ deleteFiles' # deleteFiles
            /\ pc'[w] # "commit"
              => \A f \in plan[w].deletes : DeleteFileNotAfterRead(plan[w], f)
<1>1. IInv /\ FileInv /\ [Next]_vars => [Act]_vars
  BY OwnCommit, Zenon DEF FileInv, StagingStillHolds, StagedStillFits
<1> QED
  BY <1>1, FileInvariance, PTL DEF Spec, FirstDeletionSeen

\* An unknown commit result is resolved by the receipt as it is now, because the request
\* read set is dropped just before the commit (invalidate_after_mutation).
THEOREM UnknownIsResolvedHolds == Spec => UnknownIsResolved
<1> DEFINE Act == \A w \in Writers :
          pc[w] = "unknown" /\ HasReceipt(w) => pc'[w] # "failed"
<1>1. ASSUME IInv, FileInv, [Next]_vars, NEW w \in Writers, pc[w] = "unknown", HasReceipt(w)
      PROVE  pc'[w] # "failed"
  <2>t. pc \in [Writers -> {"idle"} \cup Running \cup Returned]
    BY <1>1, Zenon DEF IInv, TypeOK
  <2>1. Recovered(w)
    BY <1>1, Zenon DEF FileInv, ReadSetDropped, Recovered
  <2>2. ASSUME NEW v \in Writers, NEW step, pc' = [pc EXCEPT ![v] = step], pc[v] # "unknown"
        PROVE  pc'[w] # "failed"
    BY <1>1, <2>t, <2>2, Zenon
  <2>3. ASSUME NEW v \in Writers, Request(v) \/ \E u \in Writers : Resend(v, u)
        PROVE  pc'[w] # "failed"
    BY <2>2, <2>3, Zenon DEF Request, Resend, Goes
  <2>4. ASSUME NEW t \in Tables, AlterTable(t) \/ OtherInline(t) PROVE pc'[w] # "failed"
    BY <1>1, <2>4, Zenon DEF AlterTable, OtherInline
  <2>5. ASSUME NEW v \in Writers, Step(v) PROVE pc'[w] # "failed"
    <3>1. CASE Prepare(v) \/ RejectStale(v) \/ Recover(v) \/ Reserve(v) \/ Preflight(v) \/ Stage(v)
      BY <2>2, <3>1, Zenon DEF Prepare, RejectStale, Recover, Reserve, Preflight, Stage, Goes
    <3>2. CASE \/ CommitSucceeds(v) \/ CommitNotApplied(v)
               \/ CommitUnknownApplied(v) \/ CommitUnknownLost(v)
      BY <2>2, <3>2, Zenon DEF CommitSucceeds, CommitNotApplied, CommitUnknownApplied,
                        CommitUnknownLost, Apply, Goes
    <3>3. CASE RecoverUnknown(v)
      BY <1>1, <2>t, <2>1, <3>3, Zenon DEF RecoverUnknown, Goes
    <3>4. CASE Fail(v)
      BY <1>1, <2>t, <3>4, Zenon DEF Fail, Goes
    <3> QED
      BY <2>5, <3>1, <3>2, <3>3, <3>4, Zenon DEF Step
  <2>6. CASE UNCHANGED vars
    BY <1>1, <2>6, Zenon DEF vars
  <2> QED
    BY <1>1, <2>3, <2>4, <2>5, <2>6, Zenon DEF Next
<1>2. IInv /\ FileInv /\ [Next]_vars => [Act]_vars
  BY <1>1, Zenon
<1> QED
  BY <1>2, FileInvariance, PTL DEF Spec, UnknownIsResolved

-----------------------------------------------------------------------------
(* Reserved ids: a request writes its rows under ids that nobody else has. *)

Held(w) == {local[w].dataId, local[w].deleteId} \ {NoFile}

\* The ids that a request holds from its reservation to its commit are below the watermark,
\* name no row yet, differ, and are held by no other request.
IdsAreOwn ==
    \A w \in Writers :
        /\ \A id \in Held(w) :
              /\ id <= maxFileId
              /\ ~Exists(dataFiles[id]) /\ ~Exists(deleteFiles[id])
              /\ \A v \in Writers \ {w} : id \notin Held(v)
        /\ local[w].dataId = local[w].deleteId => local[w].dataId = NoFile

UsedBelow ==
    \A id \in FileIdSet : Exists(dataFiles[id]) \/ Exists(deleteFiles[id]) => id <= maxFileId

\* The inductive strengthening of IdsAreOwn.
IdInv == IdsAreOwn /\ UsedBelow

\* Requests only lose their ids, and no row is written.
LEMMA IdsKept ==
    ASSUME IdInv, UNCHANGED <<dataFiles, deleteFiles, maxFileId>>,
           \A v \in Writers :
              \/ local'[v].dataId = local[v].dataId /\ local'[v].deleteId = local[v].deleteId
              \/ local'[v].dataId = NoFile /\ local'[v].deleteId = NoFile
    PROVE  IdInv'
<1>1. \A v \in Writers : Held(v)' \subseteq Held(v)
  BY Zenon DEF Held
<1>2. IdsAreOwn'
  BY <1>1, Zenon DEF IdInv, IdsAreOwn
<1> QED
  BY <1>2, Zenon DEF IdInv, UsedBelow

\* A step of one call that keeps its ids, or drops them.
LEMMA CallKeepsIds ==
    ASSUME IInv, IdInv, NEW w \in Writers, NEW step, NEW l, Goes(w, step, l),
           UNCHANGED <<dataFiles, deleteFiles, maxFileId>>,
           \/ l.dataId = local[w].dataId /\ l.deleteId = local[w].deleteId
           \/ l.dataId = NoFile /\ l.deleteId = NoFile
    PROVE  IdInv'
<1>1. NoLocal.dataId = NoFile /\ NoLocal.deleteId = NoFile
  BY Zenon DEF NoLocal
<1>2. local \in [Writers -> Local]
  BY Zenon DEF IInv, TypeOK
<1>3. local'[w] = (IF step \in Returned THEN NoLocal ELSE l)
        /\ \A v \in Writers : v # w => local'[v] = local[v]
  BY <1>2, Zenon DEF Goes
<1> QED
  BY <1>1, <1>3, IdsKept, Zenon

\* The new ids lie above the watermark, and all that is held or written below it.
LEMMA ReserveIds == ASSUME IInv, IdInv, NEW w \in Writers, Reserve(w) PROVE IdInv'
<1> DEFINE p == plan[w]
<1> DEFINE last == maxFileId + ProposedCount(p)
<1>1. /\ p \in Plan /\ local \in [Writers -> Local] /\ maxFileId \in FileIdSet \cup {NoFile}
  BY Zenon DEF IInv, TypeOK, CatalogTypeOK
<1>2. UNCHANGED <<dataFiles, deleteFiles>>
  BY Zenon DEF Reserve
<1>3. CASE last > MaxFileId
  <2>1. Goes(w, "failed", NoLocal) /\ maxFileId' = maxFileId
    BY <1>3, Zenon DEF Reserve
  <2>2. NoLocal.dataId = NoFile /\ NoLocal.deleteId = NoFile
    BY Zenon DEF NoLocal
  <2> QED
    BY <1>2, <2>1, <2>2, CallKeepsIds, Zenon
<1>4. CASE ~(last > MaxFileId)
  <2> DEFINE l == [local[w] EXCEPT !.dataId = IF p.adds THEN maxFileId + 1 ELSE NoFile,
                                   !.deleteId = IF p.deletes = {} THEN NoFile ELSE last]
  <2>1. Goes(w, "preflight", l) /\ maxFileId' = last
    BY <1>4, Zenon DEF Reserve
  <2>2. /\ l.dataId = IF p.adds THEN maxFileId + 1 ELSE NoFile
        /\ l.deleteId = IF p.deletes = {} THEN NoFile ELSE last
    BY <1>1, Zenon DEF Local
  <2>3. /\ maxFileId \in Int /\ last \in Int /\ maxFileId <= last
        /\ \A v \in Writers : local[v].dataId \in Int /\ local[v].deleteId \in Int
        /\ \A id \in FileIdSet : id \in Int
    <3>1. \A i \in FileIdSet \cup {NoFile} : i \in Int
      BY CatalogAssumption DEF FileIdSet, NoFile
    <3>2. maxFileId <= last
      BY <1>1, <3>1 DEF ProposedCount
    <3>3. last \in Int
      BY <1>1, <3>1 DEF ProposedCount
    <3>4. \A v \in Writers : local[v].dataId \in FileIdSet \cup {NoFile}
                               /\ local[v].deleteId \in FileIdSet \cup {NoFile}
      BY <1>1, Zenon DEF Local
    <3> QED
      BY <1>1, <3>1, <3>2, <3>3, <3>4, Zenon
  <2>4. /\ local'[w] = l
        /\ \A v \in Writers : v # w => local'[v] = local[v]
    BY <1>1, <2>1, Zenon DEF Goes, Returned
  <2>5. \A id \in Held(w)' : id > maxFileId /\ id <= last /\ id \in FileIdSet
    <3>0. /\ maxFileId \in -1 .. MaxFileId /\ ProposedCount(p) \in 0 .. 2
          /\ p.adds => ProposedCount(p) >= 1
          /\ p.deletes # {} => ProposedCount(p) >= 1
      BY <1>1, CatalogAssumption DEF ProposedCount, FileIdSet, NoFile
    <3>1. p.adds => maxFileId + 1 > maxFileId /\ maxFileId + 1 <= last /\ maxFileId + 1 \in FileIdSet
      BY <1>4, <3>0, CatalogAssumption DEF FileIdSet
    <3>2. p.deletes # {} => last > maxFileId /\ last <= last /\ last \in FileIdSet
      BY <1>4, <3>0, CatalogAssumption DEF FileIdSet
    <3> HIDE DEF p, last, l
    <3>3. Held(w)' = {l.dataId, l.deleteId} \ {NoFile}
      BY <2>4, Zenon DEF Held
    <3> QED
      BY <2>2, <3>1, <3>2, <3>3, Zenon
  <2>6. local'[w].dataId = local'[w].deleteId => local'[w].dataId = NoFile
    <3>1. p.adds /\ p.deletes # {} => maxFileId + 1 # last
      BY <2>3 DEF ProposedCount
    <3>2. p.adds => maxFileId + 1 # NoFile
      BY <1>1, CatalogAssumption DEF FileIdSet, NoFile
    <3> HIDE DEF p, last, l
    <3> QED
      BY <2>2, <2>4, <3>1, <3>2, Zenon
  <2> HIDE DEF p, last, l
  <2>7. \A v \in Writers \ {w} : Held(v)' = Held(v)
    BY <2>4, Zenon DEF Held
  <2>8. \A v \in Writers \ {w} : \A id \in Held(v) :
           /\ id <= maxFileId /\ id \in Int
           /\ ~Exists(dataFiles[id]) /\ ~Exists(deleteFiles[id])
           /\ \A u \in Writers \ {v} : id \notin Held(u)
    <3>1. \A v \in Writers : \A id \in Held(v) : id \in Int
      BY <2>3, Zenon DEF Held
    <3> QED
      BY <3>1, Zenon DEF IdInv, IdsAreOwn
  <2>9. \A id \in FileIdSet : Exists(dataFiles[id]) \/ Exists(deleteFiles[id]) =>
           id <= maxFileId
    BY Zenon DEF IdInv, UsedBelow
  <2>10. /\ \A i \in Int : i <= maxFileId => i <= last
         /\ \A i \in Int : ~(i > maxFileId /\ i <= maxFileId)
    BY <2>3
  <2>11. IdsAreOwn'
    <3> SUFFICES ASSUME NEW v \in Writers
                 PROVE  /\ \A id \in Held(v)' :
                              /\ id <= last
                              /\ ~Exists(dataFiles[id]) /\ ~Exists(deleteFiles[id])
                              /\ \A u \in Writers \ {v} : id \notin Held(u)'
                        /\ local'[v].dataId = local'[v].deleteId => local'[v].dataId = NoFile
      BY <1>2, <2>1, Zenon DEF IdsAreOwn
    <3>1. CASE v = w
      <4>1. \A id \in Held(w)' : \A u \in Writers \ {w} : id \notin Held(u)'
        BY <2>3, <2>5, <2>7, <2>8, <2>10, Zenon
      <4>2. \A id \in Held(w)' : ~Exists(dataFiles[id]) /\ ~Exists(deleteFiles[id])
        BY <2>3, <2>5, <2>9, <2>10, Zenon
      <4> QED
        BY <2>5, <2>6, <3>1, <4>1, <4>2, Zenon
    <3>2. CASE v # w
      <4>1. \A id \in Held(v)' : \A u \in Writers \ {v} : id \notin Held(u)'
        <5>1. \A id \in Held(v) : id \notin Held(w)'
          BY <2>3, <2>5, <2>8, <2>10, <3>2, Zenon
        <5>2. \A id \in Held(v) : \A u \in Writers \ {v} : u # w => id \notin Held(u)'
          BY <2>7, <2>8, <3>2, Zenon
        <5> QED
          BY <2>7, <3>2, <5>1, <5>2, Zenon
      <4>2. local'[v].dataId = local'[v].deleteId => local'[v].dataId = NoFile
        BY <2>4, <3>2, Zenon DEF IdInv, IdsAreOwn
      <4> QED
        BY <2>7, <2>8, <2>10, <3>2, <4>1, <4>2, Zenon
    <3> QED
      BY <3>1, <3>2, Zenon
  <2>12. UsedBelow'
    BY <1>2, <2>1, <2>3, <2>9, <2>10, Zenon DEF UsedBelow
  <2> QED
    BY <2>11, <2>12, Zenon DEF IdInv
<1> QED
  BY <1>3, <1>4, Zenon

\* A commit writes rows under ids that its own request held, and lets go of them.
LEMMA ApplyIds ==
    ASSUME IInv, FileInv, IdInv, NEW w \in Writers, NEW step \in {"done", "unknown"},
           pc[w] = "commit", ~local[w].conflicted, Apply(w, step)
    PROVE  IdInv'
<1>1. /\ local \in [Writers -> Local] /\ maxFileId' = maxFileId
      /\ plan[w].adds => local[w].dataId \in FileIdSet
      /\ plan[w].deletes # {} => local[w].deleteId \in FileIdSet
  BY Zenon DEF IInv, TypeOK, IdsReserved, Apply
<1>2. NoFile \notin FileIdSet
  BY CatalogAssumption DEF NoFile, FileIdSet
<1>3. /\ \A v \in Writers \ {w} : /\ local'[v].dataId = local[v].dataId
                                  /\ local'[v].deleteId = local[v].deleteId
      /\ local'[w].dataId = NoFile /\ local'[w].deleteId = NoFile
  <2> DEFINE written == WrittenKeys(w)
  <2>1. local' = [v \in Writers |->
            IF v # w THEN Doomed(v, written)
            ELSE IF step \in Returned THEN NoLocal ELSE AfterCommit(local[w])]
    BY Zenon DEF Apply
  <2> HIDE DEF written
  <2>2. \A v \in Writers \ {w} : /\ local'[v].dataId = local[v].dataId
                                 /\ local'[v].deleteId = local[v].deleteId
    BY <2>1, DoomedType, Zenon DEF IInv
  <2>3. /\ NoLocal.dataId = NoFile /\ NoLocal.deleteId = NoFile
        /\ AfterCommit(local[w]).dataId = NoFile /\ AfterCommit(local[w]).deleteId = NoFile
    BY Zenon DEF NoLocal, AfterCommit
  <2> QED
    BY <2>1, <2>2, <2>3, Zenon
<1>4. \A v \in Writers : Held(v)' \subseteq Held(v)
  BY <1>3, Zenon DEF Held
<1>5. Held(w)' = {}
  BY <1>3, Zenon DEF Held
<1>6. \A id \in FileIdSet : id \notin Held(w) =>
         /\ Exists(dataFiles'[id]) <=> Exists(dataFiles[id])
         /\ Exists(deleteFiles'[id]) <=> Exists(deleteFiles[id])
  <2> SUFFICES ASSUME NEW id \in FileIdSet, id \notin Held(w)
               PROVE  /\ Exists(dataFiles'[id]) <=> Exists(dataFiles[id])
                      /\ Exists(deleteFiles'[id]) <=> Exists(deleteFiles[id])
    BY Zenon
  <2>1. /\ ~(plan[w].adds /\ id = local[w].dataId)
        /\ ~(plan[w].deletes # {} /\ id = local[w].deleteId)
    BY <1>2, Zenon DEF Held
  <2>2. dataFiles'[id].begin = dataFiles[id].begin
    BY <2>1, ApplyDataFiles, Zenon
  <2>3. deleteFiles'[id].begin = deleteFiles[id].begin
    BY <2>1, ApplyDeleteFiles, Zenon
  <2> QED
    BY <2>2, <2>3, Zenon DEF Exists
<1>7. \A v \in Writers : Held(v) \subseteq FileIdSet
  <2>1. \A v \in Writers : local[v].dataId \in FileIdSet \cup {NoFile}
                             /\ local[v].deleteId \in FileIdSet \cup {NoFile}
    BY <1>1, Zenon DEF Local
  <2> QED
    BY <2>1, Zenon DEF Held
<1>8. IdsAreOwn'
  <2> SUFFICES ASSUME NEW v \in Writers
               PROVE  /\ \A id \in Held(v)' :
                            /\ id <= maxFileId
                            /\ ~Exists(dataFiles'[id]) /\ ~Exists(deleteFiles'[id])
                            /\ \A u \in Writers \ {v} : id \notin Held(u)'
                      /\ local'[v].dataId = local'[v].deleteId => local'[v].dataId = NoFile
    BY <1>1, Zenon DEF IdsAreOwn
  <2>1. CASE v = w
    BY <1>3, <1>5, <2>1, Zenon
  <2>2. CASE v # w
    <3>1. \A id \in Held(v) :
             /\ id <= maxFileId /\ id \notin Held(w) /\ id \in FileIdSet
             /\ ~Exists(dataFiles[id]) /\ ~Exists(deleteFiles[id])
             /\ \A u \in Writers \ {v} : id \notin Held(u)
      BY <1>7, <2>2, Zenon DEF IdInv, IdsAreOwn
    <3>2. local'[v].dataId = local'[v].deleteId => local'[v].dataId = NoFile
      BY <1>3, <2>2, Zenon DEF IdInv, IdsAreOwn
    <3> QED
      BY <1>4, <1>6, <3>1, <3>2, Zenon
  <2> QED
    BY <2>1, <2>2, Zenon
<1>9. UsedBelow'
  <2>1. \A id \in Held(w) : id <= maxFileId
    BY Zenon DEF IdInv, IdsAreOwn
  <2> QED
    BY <1>1, <1>6, <2>1, Zenon DEF IdInv, UsedBelow
<1> QED
  BY <1>8, <1>9, Zenon DEF IdInv

LEMMA IdStep ==
    ASSUME IInv, FileInv, IdInv, [Next]_vars
    PROVE  IdInv'
<1>0. /\ NoLocal.dataId = NoFile /\ NoLocal.deleteId = NoFile
      /\ local \in [Writers -> Local] /\ plan \in [Writers -> Plan] /\ CatalogTypeOK
  BY Zenon DEF NoLocal, IInv, TypeOK
<1>1. ASSUME NEW w \in Writers, Request(w) \/ \E v \in Writers : Resend(w, v) PROVE IdInv'
  BY <1>0, <1>1, CallKeepsIds, Zenon DEF Request, Resend, catalogVars
<1>2. ASSUME NEW t \in Tables, AlterTable(t) \/ OtherInline(t) PROVE IdInv'
  <2>1. PICK written : local' = [v \in Writers |-> Doomed(v, written)]
    BY <1>2, Zenon DEF AlterTable, OtherInline
  <2>2. UNCHANGED <<dataFiles, deleteFiles, maxFileId>>
    BY <1>2, Zenon DEF AlterTable, OtherInline
  <2>3. \A v \in Writers : local'[v].dataId = local[v].dataId /\ local'[v].deleteId = local[v].deleteId
    BY <2>1, DoomedType, Zenon DEF IInv
  <2> QED
    BY <2>2, <2>3, IdsKept, Zenon
<1>3. ASSUME NEW w \in Writers, Step(w) PROVE IdInv'
  <2>0. local[w] \in Local
    BY <1>0, Zenon
  <2>1. CASE Prepare(w)
    <3>1. PICK prefetch \in BOOLEAN :
             Goes(w, "precheck", [local[w] EXCEPT !.cachedAbsent = prefetch /\ ~HasReceipt(w),
                                     !.cachedLatest = IF prefetch THEN latestOrder ELSE @])
      BY <2>1, Zenon DEF Prepare
    <3> DEFINE l == [local[w] EXCEPT !.cachedAbsent = prefetch /\ ~HasReceipt(w),
                                     !.cachedLatest = IF prefetch THEN latestOrder ELSE @]
    <3>2. l.dataId = local[w].dataId /\ l.deleteId = local[w].deleteId
      BY <2>0, Zenon DEF Local
    <3>3. Goes(w, "precheck", l)
      BY <3>1, Zenon
    <3> HIDE DEF l
    <3> QED
      BY <2>1, <3>2, <3>3, CallKeepsIds, Zenon DEF Prepare, catalogVars
  <2>2. CASE RejectStale(w)
    <3> DEFINE l == [local[w] EXCEPT !.cachedLatest = NoOrder]
    <3>1. l.dataId = local[w].dataId /\ l.deleteId = local[w].deleteId
      BY <2>0, Zenon DEF Local
    <3>2. PICK step \in {"done", "recover", "failed"} : Goes(w, step, l)
      BY <2>2, Zenon DEF RejectStale
    <3> HIDE DEF l
    <3> QED
      BY <2>2, <3>1, <3>2, CallKeepsIds, Zenon DEF RejectStale, catalogVars
  <2>3. CASE Recover(w) \/ RecoverUnknown(w) \/ Fail(w)
    BY <1>0, <2>3, CallKeepsIds, Zenon DEF Recover, RecoverUnknown, Fail, catalogVars
  <2>4. CASE Preflight(w)
    <3>1. PICK step \in {"stage", "failed"} : Goes(w, step, PreparedFlush(plan[w], local[w]))
      BY <2>4, Zenon DEF Preflight
    <3>2. /\ PreparedFlush(plan[w], local[w]).dataId = local[w].dataId
          /\ PreparedFlush(plan[w], local[w]).deleteId = local[w].deleteId
      BY <1>0, PreparedFlushType, Zenon
    <3> QED
      BY <2>4, <3>1, <3>2, CallKeepsIds, Zenon DEF Preflight, catalogVars
  <2>5. CASE Stage(w)
    <3> DEFINE l == InvalidateReadSet([local[w] EXCEPT !.conflicted = FALSE])
    <3>1. l.dataId = local[w].dataId /\ l.deleteId = local[w].deleteId
      BY <2>0, Zenon DEF Local, InvalidateReadSet
    <3>2. PICK step \in {"done", "commit", "failed"} : Goes(w, step, l)
      BY <2>5, Zenon DEF Stage, LostFlush
    <3> HIDE DEF l
    <3> QED
      BY <2>5, <3>1, <3>2, CallKeepsIds, Zenon DEF Stage, catalogVars
  <2>6. CASE CommitNotApplied(w) \/ CommitUnknownLost(w)
    <3> DEFINE l == [AfterCommit(local[w]) EXCEPT !.attempt = @ + 1]
    <3>1. /\ AfterCommit(local[w]).dataId = NoFile /\ AfterCommit(local[w]).deleteId = NoFile
          /\ l.dataId = NoFile /\ l.deleteId = NoFile
      BY Zenon DEF AfterCommit, NoLocal
    <3>2. UNCHANGED catalogVars /\ \/ Goes(w, "done", NoLocal) \/ Goes(w, "failed", NoLocal)
                                   \/ Goes(w, "recover", l)
                                   \/ Goes(w, "unknown", AfterCommit(local[w]))
      BY <2>6, Zenon DEF CommitNotApplied, CommitUnknownLost
    <3> HIDE DEF l
    <3> QED
      BY <1>0, <3>1, <3>2, CallKeepsIds, Zenon DEF catalogVars
  <2>7. CASE Reserve(w)
    BY <2>7, ReserveIds, Zenon
  <2>8. CASE CommitSucceeds(w) \/ CommitUnknownApplied(w)
    BY <2>8, ApplyIds, Zenon DEF CommitSucceeds, CommitUnknownApplied
  <2> QED
    BY <1>3, <2>1, <2>2, <2>3, <2>4, <2>5, <2>6, <2>7, <2>8, Zenon DEF Step
<1>4. CASE UNCHANGED vars
  BY <1>4, IdsKept, Zenon DEF vars, catalogVars
<1> QED
  BY <1>1, <1>2, <1>3, <1>4, Zenon DEF Next

LEMMA IdInit == Init => IdInv
<1> SUFFICES ASSUME Init PROVE IdInv
  BY Zenon
<1>1. \A w \in Writers : local[w].dataId = NoFile /\ local[w].deleteId = NoFile
  BY Zenon DEF Init, NoLocal
<1>2. \A w \in Writers : Held(w) = {}
  BY <1>1, Zenon DEF Held
<1>3. PICK deleted \in BOOLEAN :
        /\ maxFileId = IF deleted THEN 1 ELSE 0
        /\ deleteFiles = [x \in FileIdSet |->
              [data_file |-> 0, begin |-> IF deleted /\ x = 1 THEN 2 ELSE NoOrder,
               end |-> NoOrder, partial |-> NoOrder, rows |-> {}]]
  BY Zenon DEF Init
<1>4. \A f \in FileIdSet : dataFiles[f].begin = IF f = 0 THEN 1 ELSE NoOrder
  BY Zenon DEF Init
<1>5. \A f \in FileIdSet : deleteFiles[f].begin = IF deleted /\ f = 1 THEN 2 ELSE NoOrder
  BY <1>3, Zenon
<1>6. UsedBelow
  BY <1>3, <1>4, <1>5 DEF UsedBelow, Exists, NoOrder
<1> QED
  BY <1>1, <1>2, <1>6, Zenon DEF IdInv, IdsAreOwn

\* Reservation makes ids private: the ids a request stages its rows under were handed to it
\* alone and name no row until its own commit, so reject_existing_file_ids never has to
\* refuse an id, however reservations, retries and commits interleave.
THEOREM ReservedIdsAreOwn == Spec => []IdsAreOwn
<1>1. IInv /\ FileInv /\ IdInv /\ [Next]_vars => IdInv'
  BY IdStep, Zenon
<1>2. IdInv => IdsAreOwn
  BY Zenon DEF IdInv
<1> QED
  BY <1>1, <1>2, IdInit, FileInvariance, PTL DEF Spec

===============================================================================
