------------------------------- MODULE Inline -------------------------------
(***************************************************************************)
(* Rows kept inside the catalog instead of in a data file, for one table   *)
(* and one inline schema (fdb_inline_tables.rs, fdb_inline_flushes.rs,     *)
(* inline_data/, runtime_inline_rows/).                                    *)
(*                                                                         *)
(* Three writers change them.  A mutation inserts, deletes or replaces     *)
(* rows; it prepares its writes from reads made before its transaction     *)
(* starts.  It comes as RegisterInlineRows, which conflicts with every     *)
(* other snapshot, or inside a CommitAttempt, which does so only behind a  *)
(* snapshot fence.  A delete prepares like a mutation and commits blindly. *)
(* A flush moves rows into a data file: the client reads them, writes a    *)
(* file and asks for the file, an end watermark and the removal of the     *)
(* current rows in one commit.                                             *)
(*                                                                         *)
(* db is the committed key space, kept in one record so that a read        *)
(* version is a copy of it.  A snapshot order is an index into db.seqs;    *)
(* a row version is <<begin order, row id>>.  content is what the commits  *)
(* mean: content[o] is the set of row versions snapshot o shows, whichever *)
(* of the two places holds them.                                           *)
(***************************************************************************)
EXTENDS Integers, Sequences, FiniteSets, FiniteSetsExt

CONSTANTS
    Clients,
    MaxRow,     \* bound: row ids are 0 .. MaxRow
    Kinds,      \* operations in play: "register", "attempt", "fenced", "delete",
                \* "joined_delete", "flush", "backdated_flush", "append", "merge",
                \* "expire", "cleanup"
    Windows,    \* races under which the properties are claimed, see "Races" below
    MaxOrder    \* bound: snapshots published

Races == {"mutation", "attempt", "delete", "flush", "reused", "regress", "span"}

ASSUME InlineAssumption ==
    /\ MaxRow \in Nat
    /\ Windows \subseteq Races
    /\ MaxOrder \in Nat \ {0}

VARIABLES db, op, content, races

vars == <<db, op, content, races>>

Rows == 0 .. MaxRow
NoOrder == 0
NoSequence == -1
Idle == [pc |-> "idle"]

Init ==
    /\ db = [seqs |-> <<0>>,                        \* order -> RawSnapshotSequence
             expired |-> {},                        \* orders without a timestamp key
             chunks |-> {},                         \* inline_table_chunk_key
             deletions |-> {},                      \* deleted inline row changes
             live |-> [r \in Rows |-> NoSequence],  \* inline_live_row_key
             current |-> [r \in Rows |-> NoOrder],  \* inline_current_row_key
             next_row_id |-> 0,                     \* inline_next_row_id_key
             watermarks |-> {},                     \* InlineFlushWatermarkKey
             fence |-> 0,                           \* inline_flush_fence_key
             files |-> {}]                          \* the table's data files
    /\ op = [c \in Clients |-> Idle]
    /\ content = <<{}>>
    /\ races = {}

Orders(d) == DOMAIN d.seqs
LatestOrder(d) == Len(d.seqs)
LatestSequence(d) == d.seqs[LatestOrder(d)]
Active(d) == Orders(d) \ d.expired

\* snapshot_by_raw_sequence: the last order published with that sequence
OrderOf(d, sequence) == Max({o \in Orders(d) : d.seqs[o] = sequence})

-----------------------------------------------------------------------------
(* What a reader of database state d sees at order o *)

\* inline_chunk_visible_at: a watermark ends every payload that began up to w.max.
VisibleVersions(d, o) ==
    {v \in d.chunks : v[1] <= o /\ \A w \in d.watermarks : v[1] <= w.max => o < w.end}

FilesAt(d, o) == {f \in d.files : f.begin <= o}

\* data_file_covers_inline_begin: no row id is compared.
CoversInlineBegin(f, begin) == f.max # NoOrder /\ f.begin <= begin /\ begin <= f.max

RowIds(f) == {x.row : x \in f.rows}

\* InlineMaterializedFiles::materializes
Materializes(f, v) ==
    /\ f.rows # {} /\ \E x \in f.rows : x.deleted = NoOrder
    /\ CoversInlineBegin(f, v[1])
    /\ v[2] \in Min(RowIds(f)) .. Min(RowIds(f)) + Cardinality(f.rows) - 1

\* The sequences of the deletions a version may have met: InlineDeletionIndex orders
\* them by sequence, and takes the ones the read snapshot has reached.
EndSequences(d, o, v) ==
    {s \in {d.seqs[x[1]] : x \in {y \in d.deletions : y[2] = v[2] /\ y[1] <= o}} :
        d.seqs[v[1]] < s /\ s <= d.seqs[o]}

\* A begin or a deletion whose snapshot has expired has no sequence any more, and the
\* read fails (active_data_snapshot_sequences, resolve_sequences).
HistoryReadFails(d, o) ==
    /\ VisibleVersions(d, o) # {}
    /\ \/ \E v \in VisibleVersions(d, o) : v[1] \in d.expired
       \/ \E x \in d.deletions : x[1] <= o /\ x[1] \in d.expired

\* read_inline_rows_payload
HistoryRows(d, o) ==
    {v \in VisibleVersions(d, o) :
        /\ ~ \E f \in FilesAt(d, o) : CoversInlineBegin(f, v[1]) \/ Materializes(f, v)
        /\ EndSequences(d, o, v) = {}}

\* list_inline_current_rows, the answer for the latest snapshot
CurrentRows(d) == {<<d.current[r], r>> : r \in {q \in Rows : d.current[q] # NoOrder}}

\* InlineHistoryRequest::stream: payloads and deletions folded in order, deletions first.
FoldHistory(d, o) ==
    {v \in VisibleVersions(d, o) :
        /\ ~ \E u \in VisibleVersions(d, o) : u[2] = v[2] /\ v[1] < u[1]
        /\ ~ \E x \in d.deletions : x[2] = v[2] /\ v[1] < x[1] /\ x[1] <= o}

InlineRows(d, o) == IF o = LatestOrder(d) THEN CurrentRows(d) ELSE HistoryRows(d, o)

\* The inline rows that a scan of the files visible at o returns.  A file with several
\* begin orders carries them per row; the scan filters on them.
FileRows(d, o) ==
    {<<x.origin, x.row>> : x \in
        {y \in UNION {f.rows : f \in FilesAt(d, o)} :
            y.origin <= o /\ (y.deleted = NoOrder \/ o < y.deleted)}}

-----------------------------------------------------------------------------
(* Races.  Each names something the code does not rule out: a fact that a writer has read
   no longer holds when the transaction that relies on it starts.  races records the ones
   that have happened; the properties are about the behaviours without them, and hold up
   to the first race outside Windows. *)

Raced(race, happened) == IF happened THEN {race} ELSE {}

SnapshotPublished(c) == op[c].seen # LatestOrder(db)

\* A flush has read these rows, and has not started its transaction.
BeingFlushed(rows) ==
    \E c \in Clients : /\ op[c].pc \in {"flush read", "flush checked", "flush prepared"}
                       /\ \E x \in op[c].rows : x.deleted = NoOrder /\ x.row \in rows

WithinWindows == races \subseteq Windows

-----------------------------------------------------------------------------
(* Inserting, deleting and replacing rows in one commit *)

NewSnapshot(d, sequence) == [d EXCEPT !.seqs = Append(@, sequence)]

\* stage_inline_delete
StageDelete(d, order, rows) ==
    [d EXCEPT !.deletions = @ \cup {<<order, r>> : r \in rows},
              !.live = [r \in Rows |-> IF r \in rows THEN NoSequence ELSE @[r]],
              !.current = [r \in Rows |-> IF r \in rows THEN NoOrder ELSE @[r]]]

\* stage_inline_payload
StagePayload(d, order, sequence, rows) ==
    [d EXCEPT !.chunks = @ \cup {<<order, r>> : r \in rows},
              !.live = [r \in Rows |-> IF r \in rows THEN sequence ELSE @[r]],
              !.current = [r \in Rows |-> IF r \in rows THEN order ELSE @[r]],
              !.next_row_id = Max({@} \cup {r + 1 : r \in rows})]

\* prepare_inline_delete: a row whose live version is not older than the commit is skipped.
DeletableRows(d, rows, sequence) ==
    {r \in rows : d.live[r] # NoSequence /\ d.live[r] < sequence}

\* reject_existing_inline_row_ids
RejectsExistingIds(d, inserts, deletes) ==
    \E r \in inserts \ deletes : d.live[r] # NoSequence

\* The client deletes rows it has just read and numbers new ones from the next row id.
ClientRows(inserts, deletes) ==
    /\ inserts \cup deletes # {}
    /\ \A r \in deletes : db.current[r] # NoOrder
    /\ \A r \in inserts \ deletes :
            r >= db.next_row_id /\ \A q \in db.next_row_id .. r : q \in inserts

\* The client's side of a mutation, by RegisterInlineRows ("register", inserts only) or
\* by CommitAttempt without or with a snapshot fence ("attempt", "fenced"): it names the
\* sequence after the one it read.
StartMutation(c, via, inserts, deletes) ==
    /\ op[c].pc = "idle" /\ via \in Kinds
    /\ via = "register" => deletes = {}
    /\ ClientRows(inserts, deletes)
    /\ op' = [op EXCEPT ![c] = [pc |-> "mutation", via |-> via, inserts |-> inserts,
                                deletes |-> deletes, sequence |-> LatestSequence(db) + 1,
                                seen |-> LatestOrder(db)]]
    /\ UNCHANGED <<db, content, races>>

\* validate_inline_commit_snapshot: CommitAttempt passes no read snapshot here, so that
\* the latest sequence is taken as well as the next one.
AcceptsSequence(d, m) ==
    \/ m.sequence = LatestSequence(d) + 1
    \/ m.via # "register" /\ m.sequence = LatestSequence(d)

\* prepare_inline_table_mutation.  ends: the deletes that are not skipped.
PrepareMutation(c) ==
    LET m == op[c] IN
    /\ m.pc = "mutation"
    /\ op' = [op EXCEPT ![c] =
                IF AcceptsSequence(db, m) /\ ~RejectsExistingIds(db, m.inserts, m.deletes)
                THEN [pc |-> "mutation prepared", via |-> m.via, inserts |-> m.inserts,
                      deletes |-> m.deletes, sequence |-> m.sequence,
                      ends |-> DeletableRows(db, m.deletes, m.sequence),
                      seen |-> IF m.via = "register" THEN LatestOrder(db) ELSE m.seen]
                ELSE Idle]
    /\ UNCHANGED <<db, content, races>>

\* create_transaction, with the read version that add_snapshot_prefix_conflict or the
\* fence's read of the latest snapshot takes.  An unfenced attempt reads nothing.
BeginMutation(c) ==
    /\ op[c].pc = "mutation prepared" /\ op[c].via # "attempt"
    /\ IF op[c].via = "fenced" /\ op[c].seen # LatestOrder(db)
       THEN op' = [op EXCEPT ![c] = Idle] /\ UNCHANGED races
       ELSE /\ op' = [op EXCEPT ![c].pc = "mutation begun", ![c].seen = LatestOrder(db)]
            /\ races' = races \cup Raced("mutation", SnapshotPublished(c))
    /\ UNCHANGED <<db, content>>

\* stage_prepared_inline_mutation: deletions first.
StageMutation(d, order, m) ==
    StagePayload(StageDelete(d, order, m.ends), order, m.sequence, m.inserts)

After(rows, deletes, order, inserts) ==
    {v \in rows : v[2] \notin deletes} \cup {<<order, r>> : r \in inserts}

\* With a read version, nothing may have been published since.
MutationCommits(c) ==
    \/ op[c].pc = "mutation begun" /\ op[c].seen = LatestOrder(db)
    \/ op[c].pc = "mutation prepared" /\ op[c].via = "attempt"

CommitMutation(c) ==
    LET order == LatestOrder(db) + 1 IN
    /\ MutationCommits(c)
    /\ order <= MaxOrder
    /\ db' = StageMutation(NewSnapshot(db, op[c].sequence), order, op[c])
    /\ content' = Append(content, After(content[order - 1], op[c].deletes, order, op[c].inserts))
    /\ op' = [op EXCEPT ![c] = Idle]
    /\ races' = races \cup Raced("attempt", /\ op[c].pc = "mutation prepared"
                                             /\ SnapshotPublished(c))
                      \cup Raced("flush", BeingFlushed(op[c].deletes))

MutationConflicts(c) ==
    /\ op[c].pc = "mutation begun" /\ ~MutationCommits(c)
    /\ op' = [op EXCEPT ![c] = Idle]
    /\ UNCHANGED <<db, content, races>>

-----------------------------------------------------------------------------
(* Deleting rows.  A table with several inline schemas takes one such commit per schema;
   all but the first name a snapshot that already exists. *)

\* commit_delete_inline_table_rows up to its transaction; target is NoOrder for a new snapshot.
PrepareDelete(c, rows, target) ==
    LET sequence == IF target = NoOrder THEN LatestSequence(db) + 1 ELSE db.seqs[target]
        deletable == DeletableRows(db, rows, sequence)
    IN
    /\ op[c].pc = "idle" /\ "delete" \in Kinds
    /\ target # NoOrder => "joined_delete" \in Kinds /\ target = OrderOf(db, db.seqs[target])
    /\ ClientRows({}, rows)
    /\ deletable # {}
    /\ op' = [op EXCEPT ![c] = [pc |-> "delete prepared", sequence |-> sequence,
                                target |-> target, deletes |-> deletable,
                                seen |-> LatestOrder(db)]]
    /\ UNCHANGED <<db, content, races>>

\* The transaction reads nothing, so nothing can make it fail.
CommitDelete(c) ==
    LET target == op[c].target
        order == IF target = NoOrder THEN LatestOrder(db) + 1 ELSE target
        d == IF target = NoOrder THEN NewSnapshot(db, op[c].sequence) ELSE db
        old == IF target = NoOrder THEN Append(content, content[order - 1]) ELSE content
    IN
    /\ op[c].pc = "delete prepared"
    /\ order <= MaxOrder
    /\ db' = StageDelete(d, order, op[c].deletes)
    /\ content' = [o \in DOMAIN old |->
                      IF o < order THEN old[o] ELSE After(old[o], op[c].deletes, o, {})]
    /\ op' = [op EXCEPT ![c] = Idle]
    /\ races' = races \cup Raced("flush", BeingFlushed(op[c].deletes))
                      \cup Raced("delete", \/ SnapshotPublished(c)
                                           \/ DeletableRows(db, op[c].deletes, op[c].sequence)
                                                 # op[c].deletes)

-----------------------------------------------------------------------------
(* Flushing rows into a data file *)

\* The row versions a flush at o is given: read_inline_rows_for_flush, with the snapshot
\* that deleted each.
RowsForFlush(d, o) ==
    {[row |-> v[2], origin |-> v[1],
      deleted |-> LET ends == EndSequences(d, o, v) IN
                  IF ends = {} THEN NoOrder
                  ELSE Min({x[1] : x \in {y \in d.deletions : y[2] = v[2] /\ d.seqs[y[1]] = Min(ends)}})] :
        v \in {u \in VisibleVersions(d, o) : ~ \E f \in FilesAt(d, o) : Materializes(f, u)}}

\* The client reads the rows at the latest snapshot and writes them to a file: all
\* versions when it backdates the file, else the rows that are not deleted.
ReadForFlush(c, backdated) ==
    LET at == LatestOrder(db)
        rows == {x \in RowsForFlush(db, at) : backdated \/ x.deleted = NoOrder}
    IN
    /\ op[c].pc = "idle"
    /\ (IF backdated THEN "backdated_flush" ELSE "flush") \in Kinds
    /\ ~HistoryReadFails(db, at)
    /\ rows # {}
    /\ op' = [op EXCEPT ![c] = [pc |-> "flush read", at |-> at, read |-> LatestSequence(db),
                                rows |-> rows, backdated |-> backdated]]
    /\ UNCHANGED <<db, content, races>>

EndOrders(d, begin) == {w.end : w \in {x \in d.watermarks : begin <= x.max}}

\* flush_inline_table_payload_rows_at_snapshot_order
Flushable(d, at) == {v \in d.chunks : v[1] <= at /\ EndOrders(d, v[1]) = {}}
FlushIsStale(d, at) ==
    \E v \in d.chunks : v[1] <= at /\ EndOrders(d, v[1]) # {} /\ Min(EndOrders(d, v[1])) > at

\* Bug variant: every current row is cleared, not only those the flush has read.
AllCurrentIds(d, at) == {r \in Rows : d.current[r] # NoOrder}

ObservedCurrentIds(d, at) == {r \in Rows : d.current[r] # NoOrder /\ d.current[r] <= at}

\* reject_stale_data_mutation: the flush names the sequence it read, and is rejected when
\* the catalog has moved on by anything but commits of the sequence it proposes.
ReadIsStale(d, read) ==
    LatestOrder(d) > OrderOf(d, read) /\ LatestSequence(d) # read + 1

CheckFlush(c) ==
    /\ op[c].pc = "flush read"
    /\ op' = [op EXCEPT ![c] = IF ReadIsStale(db, @.read) THEN Idle ELSE [@ EXCEPT !.pc = "flush checked"]]
    /\ UNCHANGED <<db, content, races>>

\* prepare_inline_flush, with the commit's sequence (mutation_snapshot_sequence_from_latest)
PrepareFlush(c) ==
    LET at == OrderOf(db, op[c].read)
        begins == {v[1] : v \in Flushable(db, at)}
        proposed == op[c].read + 1
    IN
    /\ op[c].pc = "flush checked"
    /\ IF at \in db.expired \/ FlushIsStale(db, at) \/ begins = {}
       THEN op' = [op EXCEPT ![c] = Idle]
       ELSE op' = [op EXCEPT ![c] =
                [pc |-> "flush prepared", rows |-> op[c].rows, backdated |-> op[c].backdated,
                 sequence |-> IF proposed >= LatestSequence(db) THEN proposed
                              ELSE LatestSequence(db) + 1,
                 fence |-> db.fence, min |-> Min(begins), max |-> Max(begins),
                 ids |-> ObservedCurrentIds(db, at)]]
    /\ races' = races \cup Raced("reused", at # op[c].at)
    /\ UNCHANGED <<db, content>>

\* stage_inline_flush_fence
FenceUnchanged(c) == db.fence = op[c].fence

\* The keys in the transaction's read conflict ranges: the fence, the payloads from min
\* to max and the current rows it clears.
ConflictKeys(d, flush) ==
    [fence |-> d.fence,
     chunks |-> {v \in d.chunks : flush.min <= v[1] /\ v[1] <= flush.max},
     current |-> [r \in flush.ids |-> d.current[r]]]

\* A changed fence makes the commit return without an effect.
BeginFlush(c) ==
    /\ op[c].pc = "flush prepared"
    /\ op' = [op EXCEPT ![c] =
                IF FenceUnchanged(c)
                THEN [pc |-> "flush begun", rows |-> @.rows, backdated |-> @.backdated,
                      sequence |-> @.sequence, max |-> @.max, ids |-> @.ids, min |-> @.min,
                      read |-> ConflictKeys(db, @)]
                ELSE Idle]
    /\ UNCHANGED <<db, content, races>>

\* The data file: backdated to the first version it holds, or beginning with the commit.
FlushedFile(flush, order) ==
    LET origins == {x.origin : x \in flush.rows} IN
    IF flush.backdated
    THEN [begin |-> Min(origins), max |-> Max(origins), rows |-> flush.rows]
    ELSE [begin |-> order, max |-> NoOrder, rows |-> flush.rows]

\* stage_inline_flush, with the data file of the same commit.  The live keys stay.
StageFlush(d, order, flush) ==
    [d EXCEPT !.watermarks = @ \cup {[end |-> order, max |-> flush.max]},
              !.current = [r \in Rows |-> IF r \in flush.ids THEN NoOrder ELSE @[r]],
              !.fence = @ + 1,
              !.files = @ \cup {FlushedFile(flush, order)}]

CommitFlush(c) ==
    LET order == LatestOrder(db) + 1 IN
    /\ op[c].pc = "flush begun"
    /\ ConflictKeys(db, op[c]) = op[c].read
    /\ order <= MaxOrder
    /\ db' = StageFlush(NewSnapshot(db, op[c].sequence), order, op[c])
    /\ content' = Append(content, content[order - 1])
    /\ op' = [op EXCEPT ![c] = Idle]
    /\ races' = races \cup Raced("regress", op[c].sequence < LatestSequence(db))

\* A conflict makes the commit return without an effect, as a changed fence does.
FlushConflicts(c) ==
    /\ op[c].pc = "flush begun"
    /\ ConflictKeys(db, op[c]) # op[c].read
    /\ op' = [op EXCEPT ![c] = Idle]
    /\ UNCHANGED <<db, content, races>>

-----------------------------------------------------------------------------
(* Other data files of the table *)

\* A commit of files that hold other rows
AppendDataFiles ==
    LET order == LatestOrder(db) + 1 IN
    /\ "append" \in Kinds
    /\ order <= MaxOrder
    /\ db' = [NewSnapshot(db, LatestSequence(db) + 1) EXCEPT
                !.files = @ \cup {[begin |-> order, max |-> NoOrder, rows |-> {}]}]
    /\ content' = Append(content, content[order - 1])
    /\ UNCHANGED <<op, races>>

\* Compaction merges two of them into a file that begins with the first and spans both.
MergeDataFiles(f, g) ==
    LET order == LatestOrder(db) + 1 IN
    /\ "merge" \in Kinds
    /\ order <= MaxOrder
    /\ f.rows = {} /\ g.rows = {} /\ f.begin < g.begin
    /\ db' = [NewSnapshot(db, LatestSequence(db) + 1) EXCEPT
                !.files = (@ \ {f, g}) \cup {[begin |-> f.begin, max |-> g.begin, rows |-> {}]}]
    /\ content' = Append(content, content[order - 1])
    /\ races' = races \cup Raced("span", \E v \in db.chunks : f.begin <= v[1] /\ v[1] <= g.begin)
    /\ UNCHANGED op

-----------------------------------------------------------------------------
(* Maintenance *)

\* expire_snapshots: all orders of one sequence lose their timestamp keys.
ExpireSnapshots(sequence) ==
    LET orders == {o \in Active(db) : db.seqs[o] = sequence} IN
    /\ "expire" \in Kinds
    /\ sequence # LatestSequence(db) /\ orders # {}
    /\ db' = [db EXCEPT !.expired = @ \cup orders]
    /\ UNCHANGED <<op, content, races>>

\* Bug variant: a payload may go as soon as a watermark covers it.
CoveredPayloads(d) ==
    UNION {{v[1] : v \in {u \in d.chunks : u[1] <= w.max}} : w \in d.watermarks}

\* list_old_inline_table_payloads_for_cleanup: no active snapshot between the first
\* payload a watermark still covers and the watermark's end.
OldPayloads(d) ==
    UNION {LET begins == {v[1] : v \in {u \in d.chunks : u[1] <= w.max}} IN
           IF begins # {} /\ ~ \E s \in Active(d) : Min(begins) <= s /\ s < w.end
           THEN begins ELSE {} : w \in d.watermarks}

\* remove_inline_payload_if_unchanged: one payload per transaction
RemovePayload(begin) ==
    /\ "cleanup" \in Kinds
    /\ begin \in OldPayloads(db)
    /\ db' = [db EXCEPT !.chunks = {v \in @ : v[1] # begin}]
    /\ UNCHANGED <<op, content, races>>

\* remove_empty_inline_flush_watermarks
RemoveWatermark(w) ==
    /\ "cleanup" \in Kinds
    /\ ~ \E v \in db.chunks : v[1] <= w.max
    /\ db' = [db EXCEPT !.watermarks = @ \ {w}]
    /\ UNCHANGED <<op, content, races>>

-----------------------------------------------------------------------------
ClientStep(c) ==
    \/ \E via \in {"register", "attempt", "fenced"}, inserts, deletes \in SUBSET Rows :
            StartMutation(c, via, inserts, deletes)
    \/ PrepareMutation(c) \/ BeginMutation(c) \/ CommitMutation(c) \/ MutationConflicts(c)
    \/ \E rows \in SUBSET Rows, target \in {NoOrder} \cup Orders(db) : PrepareDelete(c, rows, target)
    \/ CommitDelete(c)
    \/ \E backdated \in BOOLEAN : ReadForFlush(c, backdated)
    \/ CheckFlush(c) \/ PrepareFlush(c) \/ BeginFlush(c) \/ CommitFlush(c) \/ FlushConflicts(c)

OtherStep ==
    \/ AppendDataFiles
    \/ \E f, g \in db.files : MergeDataFiles(f, g)
    \/ \E sequence \in 0 .. MaxOrder : ExpireSnapshots(sequence)
    \/ \E begin \in Orders(db) : RemovePayload(begin)
    \/ \E w \in db.watermarks : RemoveWatermark(w)

Next == (\E c \in Clients : ClientStep(c)) \/ OtherStep

Spec == Init /\ [][Next]_vars

-----------------------------------------------------------------------------
(* Properties *)

\* Every snapshot that has not expired shows exactly the row versions its commits left,
\* each either inline or in a data file and never in both: the latest snapshot from the
\* current rows, older ones from the payloads, deletions, watermarks and file spans
\* (read_current_inline_rows_payload, read_inline_rows_payload, the file listing).  Excepted
\* are older snapshots whose read fails because a begin or a deletion has expired
\* (HistoryReadFails), and all that follows a commit in one of the windows not tolerated.
EachRowIsReadOnce ==
    WithinWindows => \A o \in Active(db) : o = LatestOrder(db) \/ ~HistoryReadFails(db, o) =>
        /\ InlineRows(db, o) \cup FileRows(db, o) = content[o]
        /\ InlineRows(db, o) \cap FileRows(db, o) = {}

\* At the latest snapshot the three ways to read inline rows agree: the current-row keys,
\* the payload history and the fold that rebuilds a capture (list_inline_current_rows,
\* read_inline_rows_payload, InlineHistoryRequest::stream).  And a row they show can be
\* deleted or replaced: its live sequence is set and below the one the next commit takes,
\* or prepare_inline_delete would skip it and report success.
CurrentRowsAgreeWithHistory ==
    WithinWindows =>
    /\ FoldHistory(db, LatestOrder(db)) = CurrentRows(db)
    /\ ~HistoryReadFails(db, LatestOrder(db)) => HistoryRows(db, LatestOrder(db)) = CurrentRows(db)
    /\ \A r \in Rows : db.current[r] # NoOrder =>
          db.live[r] # NoSequence /\ db.live[r] <= LatestSequence(db)
=============================================================================
