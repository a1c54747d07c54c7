------------------------------ MODULE Metadata ------------------------------
(***************************************************************************)
(* Table metadata commits: the metadata intents of a commit attempt        *)
(* (runtime_commit_attempt_ops) and the direct operations that create,     *)
(* replace, drop and register tables (fdb_tables.rs, fdb_table_drop.rs).   *)
(*                                                                         *)
(* A mutating request runs without a pinned read context, so each of its   *)
(* checks reads the catalog at a version of its own.  The transaction      *)
(* comes last: its only conflicting reads are the version counters, and    *)
(* every row it writes was computed from the earlier reads.                *)
(* All tables are in one schema.  Names and ids are small numbers.         *)
(***************************************************************************)
EXTENDS Integers, Sequences, FiniteSets, SequencesExt

CONSTANTS
    Clients,     \* requests; a client sends one
    Kinds,       \* the requests that are sent
    MaxName,     \* bound: table names are 1 .. MaxName
    MaxTableId,  \* bound: table ids are 1 .. MaxTableId
    MaxRunning   \* bound: requests that run at the same time

ASSUME MetadataAssumption ==
    /\ MaxName \in Nat /\ MaxName >= 2
    /\ MaxTableId \in Nat /\ MaxTableId >= 2
    /\ MaxRunning \in Nat

VARIABLES
    latestOrder,             \* order of the newest snapshot
    tableRows,               \* table_object_key: rows by (table, begin), and their visibility keys
    currentTables,           \* current_table_row_key: rows by table
    tableNames,              \* current_table_name_key: name -> table id
    schemaVersion,           \* current_schema_version_key
    schemaVersionHistory,    \* schema_version_history_key: (order, version)
    catalogSnapshotVersion,  \* catalog_snapshot_version_key
    maxCatalogId,            \* conflict_max_catalog_id_key
    commitAttempts,          \* commit_attempt_key: (attempt, order)
    pc, request, local,
    overlapped,              \* history: a request committed although another had committed
                             \* since it began
    unnamed                  \* history: a rename cleared a name that an earlier rename of its
                             \* commit had set

catalogVars ==
    <<latestOrder, tableRows, currentTables, tableNames, schemaVersion,
      schemaVersionHistory, catalogSnapshotVersion, maxCatalogId, commitAttempts>>
history == <<overlapped, unnamed>>
vars == <<catalogVars, pc, request, local, history>>

NoOrder == 0
NoTable == 0
Initial == "initial"
Names == 1 .. MaxName
TableIds == 1 .. MaxTableId

AttemptKinds == {"AddColumns", "RenameTables", "SwapTables", "CreateTableIntent",
                 "CreateAndRename", "ReplaceIntent"}
Repeatable == {"CreateTables", "ReplaceTables"}

NoRequest(c) ==
    [kind |-> "AddColumns", read |-> NoOrder, attempt |-> c, touched |-> {},
     names |-> [t \in TableIds |-> 0], created |-> {}, dropped |-> {}]

\* MetadataCommitChanges, in the order in which it is staged.
NoChanges ==
    [replacements |-> <<>>, created |-> <<>>, drops |-> {}, replacing |-> <<>>,
     public |-> TRUE, watermark |-> 0]

NoLocal ==
    [base |-> NoOrder, changes |-> NoChanges, schemaVersion |-> 0, snapshotVersion |-> 0,
     conflicted |-> FALSE, overtaken |-> FALSE]

Running == {"assemble", "check", "recover", "open", "commit"}
Returned == {"done", "failed"}

-----------------------------------------------------------------------------
(* Reading rows. *)

CurrentRows(t) == {r \in currentTables : r.table = t}
CurrentIds == {r.table : r \in currentTables}
VisibleAt(r, order) == r.begin <= order /\ (r.end = NoOrder \/ order < r.end)

\* load_table_at: the newest row that began by then, if it is visible.
RowsAt(t, order) ==
    {r \in tableRows :
        /\ r.table = t /\ VisibleAt(r, order)
        /\ \A s \in tableRows : s.table = t /\ s.begin <= order => s.begin <= r.begin}

\* list_tables_at: the current rows for the newest snapshot; else, of each table, the newest
\* row of the visibility index that is visible then.
TablesAt(order) ==
    LET visible == {r \in tableRows : VisibleAt(r, order)}
    IN  IF order = latestOrder /\ currentTables # {} THEN currentTables
        ELSE {r \in visible : \A s \in visible : s.table = r.table => s.begin <= r.begin}

SameUserVisibleSchema(a, b) ==
    a.uuid = b.uuid /\ a.name = b.name /\ a.columns = b.columns

Created(c, t, n) ==
    [table |-> t, begin |-> NoOrder, end |-> NoOrder, uuid |-> request[c].attempt, name |-> n,
     columns |-> {}, inlined_data_tables |-> {}]

HighestId(ids) == CHOOSE t \in ids \cup {NoTable} : \A u \in ids : u <= t
ById(rows) == SetToSortSeq(rows, LAMBDA a, b : a.table < b.table)

\* A request is kept until its changes are computed, and if it may be sent again also then.
Kept(c, step) ==
    IF step \in Returned \cup {"open"} /\ request[c].kind \notin Repeatable THEN NoRequest(c) ELSE request[c]

Goes(c, step, l) ==
    /\ pc' = [pc EXCEPT ![c] = step]
    /\ request' = [request EXCEPT ![c] = Kept(c, step)]
    /\ local' = [local EXCEPT ![c] = IF step \in Returned THEN NoLocal ELSE l]
    /\ UNCHANGED <<catalogVars, history>>

Sends(c, r) ==
    /\ pc' = [pc EXCEPT ![c] = "sent"]
    /\ request' = [request EXCEPT ![c] = r]
    /\ UNCHANGED <<catalogVars, local, history>>

-----------------------------------------------------------------------------
(* The client composes a request from the newest snapshot. *)

Init ==
    /\ latestOrder = 2
    /\ currentTables =
          {[table |-> t, begin |-> t, end |-> NoOrder, uuid |-> Initial, name |-> t,
            columns |-> {}, inlined_data_tables |-> {}] : t \in {1, 2}}
    /\ tableRows = currentTables
    /\ tableNames = [n \in Names |-> IF n \in {1, 2} THEN n ELSE NoTable]
    /\ schemaVersion = 2
    /\ schemaVersionHistory = {<<1, 1>>, <<2, 2>>}
    /\ catalogSnapshotVersion = 2
    /\ maxCatalogId = 2
    /\ commitAttempts = {}
    /\ pc = [c \in Clients |-> "idle"]
    /\ request = [c \in Clients |-> NoRequest(c)]
    /\ local = [c \in Clients |-> NoLocal]
    /\ overlapped = FALSE
    /\ unnamed = FALSE

FreeNames == Names \ {r.name : r \in currentTables}

Touching(c, kind, names) ==
    [NoRequest(c) EXCEPT !.kind = kind, !.read = latestOrder, !.names = names,
                         !.touched = {t \in TableIds : names[t] # 0}]

Naming(pairs) ==
    [t \in TableIds |-> IF \E p \in pairs : p[1] = t
                        THEN (CHOOSE p \in pairs : p[1] = t)[2] ELSE 0]

\* The shapes of request; the client allocates new ids from next_catalog_id.
Composed(c, kind) ==
    LET next == maxCatalogId + 1
        touching(names) == Touching(c, kind, names)
        none == touching(Naming({}))
        creating(r, t, n) == [r EXCEPT !.created = {[table |-> t, name |-> n]}]
    IN  CASE kind \in {"AddColumns", "RegisterInlineTables"} ->
               {touching(Naming({<<r.table, r.name>>})) : r \in currentTables}
          [] kind = "RenameTables" ->
               {touching(Naming({<<t, n>>})) : t \in CurrentIds, n \in FreeNames}
          [] kind = "SwapTables" ->
               {touching(Naming({<<r.table, s.name>>, <<s.table, n>>})) :
                   <<r, s, n>> \in {x \in currentTables \X currentTables \X Names :
                       x[1] # x[2] /\ x[3] \in FreeNames \cup {x[1].name}}}
          [] kind \in {"CreateTables", "CreateTableIntent"} ->
               {creating(none, next, n) : n \in FreeNames}
          [] kind = "CreateAndRename" ->
               {creating(touching(Naming({<<r.table, n>>})), next, r.name) :
                   r \in currentTables, n \in FreeNames}
          [] kind \in {"ReplaceTables", "ReplaceIntent"} ->
               {[creating(none, next, r.name) EXCEPT !.dropped = {r.table}] :
                   r \in currentTables}
          [] kind = "DropTables" ->
               {[none EXCEPT !.dropped = {t}] : t \in CurrentIds}

Send(c) ==
    /\ pc[c] = "idle"
    /\ \E kind \in Kinds : \E r \in Composed(c, kind) :
        /\ \A row \in r.created : row.table \in TableIds
        /\ Sends(c, r)

\* The client did not get the answer and sends the same request, with the ids it had or with
\* new ones: table_metadata_recovery_attempt_id is a hash of the content without the new ids.
Resend(c, d) ==
    LET r == request[d]
        next == maxCatalogId + 1
    IN  /\ pc[c] = "idle"
        /\ pc[d] # "idle"
        /\ r.kind \in Repeatable
        /\ \/ Sends(c, r)
           \/ /\ next \in TableIds
              /\ Sends(c, [r EXCEPT !.created = {[x EXCEPT !.table = next] : x \in @}])

\* The runtime begins a request; at most MaxRunning are running at a time.
Begins(c) ==
    /\ pc[c] = "sent"
    /\ Cardinality({d \in Clients : pc[d] \in Running}) < MaxRunning

-----------------------------------------------------------------------------
(* A commit attempt with metadata intents. *)

\* current_catalog_state: the snapshot the intents are applied to.
Load(c) ==
    /\ Begins(c)
    /\ request[c].kind \in AttemptKinds
    /\ Goes(c, "assemble", [NoLocal EXCEPT !.base = latestOrder])

\* TableIntentAssembler::table_mut and the apply_*_fact functions.
Previous(c, t) == RowsAt(t, local[c].base)
Applied(c, row) ==
    IF request[c].kind = "AddColumns"
    THEN [row EXCEPT !.columns = @ \cup {c}]
    ELSE [row EXCEPT !.name = request[c].names[row.table]]

\* persisted_table_id_for_create: an id that is taken is replaced by the next free one.
PersistedId(t, ids) == IF t \in ids THEN HighestId(ids) + 1 ELSE t

\* reject_duplicate_table_names: the tables at the base with the changes applied.
NamesDiffer(rows) == \A a, b \in rows : a # b => a.name # b.name

Assemble(c) ==
    LET r == request[c]
        listed == TablesAt(local[c].base)
        listedIds == {row.table : row \in listed}
        previous == UNION {Previous(c, t) : t \in r.touched}
        next == {Applied(c, row) : row \in previous}
        created == IF r.kind = "ReplaceIntent" THEN {}
                   ELSE {Created(c, PersistedId(x.table, listedIds), x.name) : x \in r.created}
        untouched == {row \in listed : row.table \notin r.touched}
        shown == {row \in next : row.table \in listedIds}
        changed == ById({row \in previous : Applied(c, row) # row})
        ids == {row.table : row \in created} \cup {row.table : row \in previous}
    IN  /\ pc[c] = "assemble"
        /\ \A row \in created : row.table \in TableIds
        /\ IF /\ \A t \in r.touched : Previous(c, t) # {}
              /\ NamesDiffer(untouched \cup shown \cup created)
           THEN Goes(c, "check",
                     [local[c] EXCEPT !.changes =
                         [NoChanges EXCEPT
                            !.replacements = [i \in DOMAIN changed |->
                                [previous |-> changed[i], next |-> Applied(c, changed[i])]],
                            !.created = ById(created),
                            !.watermark = HighestId(ids)]])
           ELSE Goes(c, "failed", NoLocal)

\* reject_stale_existing_table_changes
NotStale(c, t) ==
    \E read \in RowsAt(t, request[c].read) :
        \E current \in CurrentRows(t) :
            \/ read.begin = current.begin
            \/ \A i \in DOMAIN local[c].changes.replacements :
                  LET next == local[c].changes.replacements[i].next
                  IN  next.table = t => SameUserVisibleSchema(next, current)

\* reject_replacement_create_conflicts
ReplacementFits(r) ==
    \A x \in r.created, existing \in currentTables :
        existing.table \notin r.dropped =>
            existing.table # x.table /\ existing.name # x.name

Drops(r) == {row \in currentTables : row.table \in r.dropped}
Replacing(c) == ById({Created(c, x.table, x.name) : x \in request[c].created})

\* The conflict checks of commit_metadata_intents_with_current_kv, and what
\* commit_metadata_changes_versionstamped loads before its transaction.
CheckAttempt(c) ==
    LET r == request[c]
        replaces == r.kind = "ReplaceIntent"
        changes == IF ~replaces THEN local[c].changes
                   ELSE [local[c].changes EXCEPT
                            !.drops = Drops(r), !.replacing = Replacing(c),
                            !.watermark = HighestId({x.table : x \in r.created})]
    IN  /\ pc[c] = "check"
        /\ r.kind \in AttemptKinds
        /\ IF /\ \A t \in r.touched : NotStale(c, t)
              /\ replaces => r.dropped \subseteq CurrentIds /\ ReplacementFits(r)
           THEN Goes(c, "open", [local[c] EXCEPT !.changes = changes])
           ELSE Goes(c, "failed", NoLocal)

-----------------------------------------------------------------------------
(* The direct operations. *)

Receipts(c) == {a \in commitAttempts : a[1] = request[c].attempt}

\* same_logical_table: but for the id and the validity.
SameLogicalTable(a, b) ==
    SameUserVisibleSchema(a, b) /\ a.inlined_data_tables = b.inlined_data_tables

\* recover_committed_tables looks at the order of the receipt for a table with the content
\* of the request, recover_committed_replacement for one with its id; both fail if there
\* is none.
RecoveredRows(c) ==
    UNION {UNION {IF request[c].kind = "CreateTables"
                  THEN {row \in TablesAt(a[2]) :
                          SameLogicalTable(row, Created(c, x.table, x.name))}
                  ELSE RowsAt(x.table, a[2]) : x \in request[c].created} : a \in Receipts(c)}

AnswerFromReceipt(c) ==
    Goes(c, IF RecoveredRows(c) # {} THEN "done" ELSE "failed", NoLocal)

\* runtime_foundationdb_create_tables: reject_current_table_create_conflicts looks up the
\* id in the current rows and the name in the name index.
CheckCreate(c) ==
    /\ Begins(c)
    /\ request[c].kind = "CreateTables"
    /\ IF \/ Receipts(c) # {}
          \/ \A x \in request[c].created :
                x.table \notin CurrentIds /\ tableNames[x.name] \in {NoTable, x.table}
       THEN Goes(c, "recover", NoLocal)
       ELSE Goes(c, "failed", NoLocal)

\* create_tables_versionstamped up to its transaction.
RecoverCreate(c) ==
    /\ pc[c] = "recover"
    /\ IF Receipts(c) # {} THEN AnswerFromReceipt(c)
       ELSE Goes(c, "open",
                 [local[c] EXCEPT !.changes =
                     [NoChanges EXCEPT !.created = Replacing(c),
                                       !.watermark = HighestId({x.table : x \in request[c].created})]])

\* replace_tables_versionstamped_recoverable up to its transaction.
CheckReplace(c) ==
    LET r == request[c]
    IN  /\ Begins(c)
        /\ r.kind = "ReplaceTables"
        /\ IF Receipts(c) # {} THEN AnswerFromReceipt(c)
           ELSE IF r.dropped \subseteq CurrentIds /\ ReplacementFits(r)
           THEN Goes(c, "open", [NoLocal EXCEPT !.changes =
                          [NoChanges EXCEPT !.drops = Drops(r), !.replacing = Replacing(c)]])
           ELSE Goes(c, "failed", NoLocal)

\* drop_tables_versionstamped_at up to its transaction.
CheckDrop(c) ==
    /\ Begins(c)
    /\ request[c].kind = "DropTables"
    /\ IF request[c].dropped \subseteq CurrentIds
       THEN Goes(c, "open", [NoLocal EXCEPT !.changes =
                      [NoChanges EXCEPT !.drops = Drops(request[c])]])
       ELSE Goes(c, "failed", NoLocal)

\* register_inline_tables_with_foundationdb: the registry is not user visible.
CheckRegister(c) ==
    LET previous == {row \in currentTables : row.table \in request[c].touched}
        rows == ById(previous)
        next(row) == [row EXCEPT !.inlined_data_tables = @ \cup {c}]
    IN  /\ Begins(c)
        /\ request[c].kind = "RegisterInlineTables"
        /\ IF previous # {}
           THEN Goes(c, "open", [NoLocal EXCEPT !.changes =
                   [NoChanges EXCEPT
                      !.replacements = [i \in DOMAIN rows |->
                          [previous |-> rows[i], next |-> next(rows[i])]],
                      !.public = FALSE,
                      !.watermark = HighestId(request[c].touched)]])
           ELSE Goes(c, "failed", NoLocal)

-----------------------------------------------------------------------------
(* The transaction. *)

\* Bug variant: the counters are read with snapshot reads.
SnapshotReads(public) == {}

\* stage_fdb_next_schema_version / stage_fdb_next_catalog_snapshot_version: what the
\* transaction reads with a conflict range.
VersionReads(public) ==
    {"catalog_snapshot_version"} \cup IF public THEN {"current_schema_version"} ELSE {}

VersionWrites(public) ==
    {"catalog_snapshot_version"} \cup IF public THEN {"current_schema_version"} ELSE {}

\* The first read of the transaction fixes its read version.
Open(c) ==
    /\ pc[c] = "open"
    /\ Goes(c, "commit", [local[c] EXCEPT !.schemaVersion = schemaVersion,
                                          !.snapshotVersion = catalogSnapshotVersion,
                                          !.conflicted = FALSE])

SameKey(a, b) == a.table = b.table /\ a.begin = b.begin
Put(rows, row) == {r \in rows : ~SameKey(r, row)} \cup {row}
PutCurrent(rows, row) == {r \in rows : r.table # row.table} \cup {row}

Ended(row, order) == [row EXCEPT !.end = order]
Begun(row, order) == [row EXCEPT !.begin = order, !.end = NoOrder]

\* Bug variant: a drop only removes the current row.
KeepDroppedRows(rows, drops, order) == rows

\* The row of the previous version is written back with its end, then the next one.
StageReplacements(rows, s, order) ==
    FoldLeft(LAMBDA acc, x : Put(Put(acc, Ended(x.previous, order)), Begun(x.next, order)), rows, s)
StageCreated(rows, s, order) ==
    FoldLeft(LAMBDA acc, x : Put(acc, Begun(x, order)), rows, s)
StageDrops(rows, drops, order) ==
    {r \in rows : ~\E d \in drops : SameKey(r, d)} \cup {Ended(d, order) : d \in drops}

\* stage_current_table_row and stage_remove_current_table_row
StageCurrentRows(rows, ch, order) ==
    LET put(acc, x) == PutCurrent(acc, Begun(x, order))
        replaced == FoldLeft(LAMBDA acc, x : put(acc, x.next), rows, ch.replacements)
        created == FoldLeft(put, replaced, ch.created)
        kept == {r \in created : \A d \in ch.drops : d.table # r.table}
    IN  FoldLeft(put, kept, ch.replacing)

\* Bug variant: a rename keeps the entry of the old name.
KeepOldName(names, x) == [names EXCEPT ![x.next.name] = x.next.table]

\* stage_current_table_name_replacement: the old name is cleared, then the new one is set.
StageRename(names, x) ==
    IF x.previous.name = x.next.name THEN names
    ELSE [names EXCEPT ![x.previous.name] = NoTable, ![x.next.name] = x.next.table]

\* stage_current_table_name and stage_remove_current_table_name
StageNames(names, ch) ==
    LET set(acc, x) == [acc EXCEPT ![x.name] = x.table]
        renamed == FoldLeft(StageRename, names, ch.replacements)
        created == FoldLeft(set, renamed, ch.created)
        kept == [n \in Names |-> IF \E d \in ch.drops : d.name = n THEN NoTable ELSE created[n]]
    IN  FoldLeft(set, kept, ch.replacing)

\* A later rename of the commit is away from the name an earlier one took.
ClearsSetName(renames) ==
    \E i, j \in DOMAIN renames : i < j /\ renames[j].previous.name = renames[i].next.name

NewSchemaVersion(ch) == ch.public

\* Bug variant: the receipt names the snapshot the request read.
ReceiptOfRead(c, order) == {<<request[c].attempt, request[c].read>>}

\* The receipt is overwritten blindly; its order is the versionstamp of the commit.
Receipt(c, order) ==
    IF request[c].kind \in Repeatable
    THEN {<<request[c].attempt, order>>} ELSE {}

\* stage_fdb_max_catalog_id: ByteMax.
StageMaxCatalogId(stored, id) == IF id > stored THEN id ELSE stored

Apply(c, step) ==
    LET ch == local[c].changes
        order == latestOrder + 1
        receipt == Receipt(c, order)
        written == VersionWrites(ch.public)
    IN  /\ latestOrder' = order
        /\ tableRows' =
              StageCreated(
                  StageDrops(StageCreated(StageReplacements(tableRows, ch.replacements, order),
                                          ch.created, order),
                             ch.drops, order),
                  ch.replacing, order)
        /\ currentTables' = StageCurrentRows(currentTables, ch, order)
        /\ tableNames' = StageNames(tableNames, ch)
        /\ IF NewSchemaVersion(ch)
           THEN /\ schemaVersion' = local[c].schemaVersion + 1
                /\ schemaVersionHistory' =
                      schemaVersionHistory \cup {<<order, local[c].schemaVersion + 1>>}
           ELSE UNCHANGED <<schemaVersion, schemaVersionHistory>>
        /\ catalogSnapshotVersion' = local[c].snapshotVersion + 1
        /\ maxCatalogId' = StageMaxCatalogId(maxCatalogId, ch.watermark)
        /\ commitAttempts' = {a \in commitAttempts : \A b \in receipt : a[1] # b[1]} \cup receipt
        /\ pc' = [pc EXCEPT ![c] = step]
        /\ local' = [d \in Clients |->
              IF d = c THEN NoLocal
              ELSE [local[d] EXCEPT
                      !.overtaken = @ \/ pc[d] \in Running,
                      !.conflicted =
                        @ \/ (pc[d] = "commit"
                              /\ VersionReads(local[d].changes.public) \cap written # {})]]
        /\ overlapped' = (overlapped \/ local[c].overtaken)
        /\ unnamed' = (unnamed \/ ClearsSetName(ch.replacements))
        /\ request' = [request EXCEPT ![c] = Kept(c, step)]

CommitSucceeds(c) ==
    /\ pc[c] = "commit"
    /\ ~local[c].conflicted
    /\ Apply(c, "done")

\* commit_unknown_result is an error to the caller, whether or not the commit is there.
CommitUnknownApplied(c) ==
    /\ pc[c] = "commit"
    /\ ~local[c].conflicted
    /\ Apply(c, "failed")

\* A conflict, an unknown result that is not there, or any failed read: no retry.
Fail(c) ==
    /\ pc[c] \in Running \cup {"sent"}
    /\ Goes(c, "failed", NoLocal)

Step(c) ==
    \/ Load(c) \/ Assemble(c) \/ CheckAttempt(c)
    \/ CheckCreate(c) \/ RecoverCreate(c) \/ CheckReplace(c) \/ CheckDrop(c) \/ CheckRegister(c)
    \/ Open(c) \/ CommitSucceeds(c) \/ CommitUnknownApplied(c) \/ Fail(c)

Next == \E c \in Clients : Send(c) \/ Step(c) \/ \E d \in Clients : Resend(c, d)

Spec == Init /\ [][Next]_vars

-----------------------------------------------------------------------------

\* A receipt leads to what its commit created, and a repeated create or replace that finds
\* its receipt answers with the table that an earlier sending made, never with "not found" or
\* with the table of another request: a create whatever id it proposes this time
\* (recover_committed_tables compares contents), a replacement only if it proposes the id
\* that was committed.  One that was sent again with a new id has the same attempt id, as
\* the hash leaves out the ids, and fails, though its replacement is there
\* (recover_committed_replacement looks the new id up).
ReceiptFindsTable ==
    \A c \in Clients : \A a \in Receipts(c) :
        LET made == {row \in tableRows : row.uuid = a[1] /\ row.begin = a[2]}
            proposed == {x.table : x \in request[c].created}
        IN  /\ made # {}
            /\ request[c].kind = "CreateTables" \/ proposed \subseteq {row.table : row \in made} =>
                  /\ RecoveredRows(c) # {}
                  /\ \A row \in RecoveredRows(c) : row.uuid = a[1]

\* Whatever two racing requests write, the current row of a table is always a row of its
\* history that has not ended, and no older row of the table outlives it in load_table_at.
\* As long as no request has committed over a commit that came while it ran, history and
\* current index agree in both directions: a table that was dropped is in neither.
HistoryMatchesCurrent ==
    /\ \A row \in currentTables : RowsAt(row.table, latestOrder) = {row}
    /\ overlapped \/ UNION {RowsAt(t, latestOrder) : t \in TableIds} = currentTables

\* As long as no commit overlapped, the name index, which decides whether a table may be
\* created, holds exactly the names of the current tables.  Excepted are catalogs in which two
\* tables were renamed in one commit and the one with the lower id took the name of the other:
\* the second rename clears the name that the first one has set
\* (stage_current_table_name_replacement), and the name can be created again.
NameIndexExact ==
    overlapped \/ unnamed \/ \A n \in Names, t \in TableIds :
        tableNames[n] = t <=> \E row \in currentTables : row.table = t /\ row.name = n
=============================================================================
