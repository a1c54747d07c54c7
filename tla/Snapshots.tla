----------------------------- MODULE Snapshots -----------------------------
(***************************************************************************)
(* Public snapshots (runtime_snapshots.rs) of commit attempts              *)
(* (runtime_commit_attempt_ops/orchestration.rs).                          *)
(*                                                                         *)
(* A client's transaction is one snapshot to the client, but its commit    *)
(* publishes several rows: one for each view, one for dropped tables, one  *)
(* for the metadata intents, one for the inline tables it registers, one   *)
(* for each compaction, one for the data and one for the macros.  Rows     *)
(* have an order (here their index in the log) and a sequence, mostly the  *)
(* snapshot id the client proposed.  A reader folds consecutive rows into  *)
(* public snapshots by what they change, caches the result per process,    *)
(* and resolves snapshot ids through it.  Expiry takes rows out of the     *)
(* list that is folded, but not out of the history.                        *)
(*                                                                         *)
(* What the commits check against each other is modelled in Metadata and   *)
(* in DataMutation; here an attempt that is refused is abandoned, or is    *)
(* tried again with a new id after a check for conflicts.  That check      *)
(* reads the list of snapshots that the transaction's read context keeps   *)
(* from the first time it was asked for.                                   *)
(***************************************************************************)
EXTENDS Integers, Sequences, FiniteSets, FiniteSetsExt, Functions

CONSTANTS
    Clients,
    Tables,
    Transactions,   \* what a client may commit, see Transaction
    MaxOrder,       \* bound: length of the log
    MaxExpired      \* bound: rows that may expire

VARIABLES
    log,            \* snapshot rows and what they changed, by order; `base` is history:
                    \* the latest order when the attempt of the row began
    expired,        \* orders without a snapshot_timestamp_key
    context,        \* snapshot_read_context_cache of one process: the listed orders
    attempt,        \* the transaction each client is in and its commit attempt
    acknowledged,   \* attempts that were answered: their id and last order
    overtaken       \* ids of attempts that another commit was published inside of

vars == <<log, expired, context, attempt, acknowledged, overtaken>>

Orders == 1 .. MaxOrder
Ids == 0 .. MaxOrder
None == -1

\* What a row says it changed: rows of tables begun and ended in the history
\* (creates, alters, replaces, drops), data files added and removed, delete files,
\* inline rows inserted and deleted, rows of files deleted inline, and the marks
\* that a flush or a rewrite leaves (snapshot_operation_key).  A row that replaces
\* a table begins a table row with the same columns: an inline registration.
MetadataFacts == {"creates", "alters", "replaces", "drops"}
DataFacts == {"added", "removed", "marked", "inserted", "deleted", "file_rows"}
OperationFacts == {"flush", "rewrite"}
Facts == (MetadataFacts \union DataFacts \union OperationFacts) \X Tables

\* A transaction: how many views and whether macros are created, what it changes
\* in tables, what each of its compactions changes, and whether it is committed
\* under a snapshot fence, which allows data only.
Transaction ==
    {t \in [views : Nat, macros : BOOLEAN, facts : SUBSET Facts,
            compactions : Seq(SUBSET Facts), fenced : BOOLEAN] :
        t.fenced => /\ t.views = 0 /\ ~t.macros /\ t.compactions = <<>>
                    /\ \A f \in t.facts : f[1] \notin MetadataFacts}

ASSUME SnapshotsAssumption ==
    /\ Transactions \subseteq Transaction
    /\ MaxOrder \in Nat /\ MaxExpired \in Nat

Row(kind, facts) == [kind |-> kind, facts |-> facts]
RowIf(facts, kind) == IF facts = {} THEN <<>> ELSE <<Row(kind, facts)>>
FactsOf(t, names) == {f \in t.facts : f[1] \in names}

\* TryCreateViews sends the views while the commit is prepared, and
\* CommitPendingMetadataPayloads what else is not part of the attempt: tables that
\* are dropped before it, unless others are created in their place, and macros
\* after it.
RowsBefore(t) ==
    [i \in 1 .. t.views |-> Row("view", {})]
    \o (IF FactsOf(t, {"creates"}) = {} THEN RowIf(FactsOf(t, {"drops"}), "drop") ELSE <<>>)
RowsAfter(t) == IF t.macros THEN <<Row("macro", {})>> ELSE <<>>

\* commit_attempt: the rows of the attempt, in the order they are published.
Rows(t) ==
    LET replaced == IF FactsOf(t, {"creates"}) = {} THEN {} ELSE {"drops"}
    IN  RowIf(FactsOf(t, {"creates", "alters"} \union replaced), "metadata")
        \o RowIf(FactsOf(t, {"replaces"}), "register")
        \o [i \in 1 .. Len(t.compactions) |-> Row("data", t.compactions[i])]
        \o RowIf(FactsOf(t, DataFacts \union OperationFacts), "data")
AllRows(t) == RowsBefore(t) \o Rows(t) \o RowsAfter(t)

\* A transaction under way: the order it reads at, the order and the id of its
\* present attempt, the rows that are left, and the list of snapshots in its read
\* context ({} if it has not been asked for).
Idle == [since |-> 0, base |-> 0, id |-> None, rows |-> <<>>, fenced |-> FALSE,
         staged |-> None, published |-> FALSE, listing |-> {}]

Latest == Len(log)
Sequence(order) == log[order].sequence
LatestSequence == Sequence(Latest)

-----------------------------------------------------------------------------
(* Public snapshots: which rows a reader takes together.                   *)

\* The tables a row says something of.
Touched(order, names) == {f[2] : f \in {f \in log[order].change.facts : f[1] \in names}}

\* Rows that begin or end a schema, a view or a macro.
ObjectKinds == {"main", "view", "macro"}

HasDataChange(order) == Touched(order, DataFacts) # {}
HasMetadataChange(order) ==
    log[order].change.kind \in ObjectKinds \/ Touched(order, MetadataFacts) # {}

group_has_data_changes(g) == \E o \in g.orders : HasDataChange(o)
group_has_metadata_changes(g) == \E o \in g.orders : HasMetadataChange(o)
created_table_ids(g) == UNION {Touched(o, {"creates", "alters", "replaces"}) : o \in g.orders}
inserted_table_ids(order) == Touched(order, {"added", "inserted"})
touched_table_ids(order) == Touched(order, MetadataFacts)

only_creates_default_main_schema(g) == \E o \in g.orders : log[o].change.kind = "main"
only_replaces_tables_without_schema_change(order) ==
    /\ log[order].change.kind \notin ObjectKinds
    /\ Touched(order, {"creates", "alters", "drops"}) = {}
    /\ Touched(order, {"replaces"}) # {}

should_merge_metadata_groups_in_same_ducklake_commit(g, order) ==
    /\ g.id = Sequence(order)
    /\ ~group_has_data_changes(g) /\ ~HasDataChange(order)
    /\ group_has_metadata_changes(g) /\ HasMetadataChange(order)

should_merge_metadata_with_created_table_group(g, order) ==
    /\ g.id = Sequence(order)
    /\ ~HasDataChange(order)
    /\ created_table_ids(g) \intersect touched_table_ids(order) # {}

should_merge_data_with_created_table_group(g, order) ==
    /\ g.id = Sequence(order)
    /\ created_table_ids(g) \intersect inserted_table_ids(order) # {}

should_merge_schema_helper_table_group(g, order) ==
    /\ ~HasDataChange(order)
    /\ \/ ~HasMetadataChange(order)
       \/ only_replaces_tables_without_schema_change(order)
       \/ /\ ~group_has_data_changes(g)
          /\ only_creates_default_main_schema(g)
          /\ Touched(order, {"creates", "alters", "replaces"}) # {}

should_merge_public_snapshot_groups(g, order) ==
    \/ should_merge_metadata_groups_in_same_ducklake_commit(g, order)
    \/ should_merge_metadata_with_created_table_group(g, order)
    \/ should_merge_data_with_created_table_group(g, order)
    \/ should_merge_schema_helper_table_group(g, order)

\* The public snapshots of a set of listed orders.
coalesced_public_snapshot_groups(orders) ==
    LET Add(groups, order) ==
            IF groups # <<>> /\ should_merge_public_snapshot_groups(groups[Len(groups)], order)
            THEN [groups EXCEPT ![Len(groups)].orders = @ \union {order}]
            ELSE Append(groups, [id |-> Sequence(order), orders |-> {order}])
        upTo[order \in 0 .. Latest] ==
            IF order = 0 THEN <<>>
            ELSE LET groups == upTo[order - 1]
                 IN  IF order \in orders THEN Add(groups, order) ELSE groups
    IN  upTo[Latest]

\* The snapshot_timestamp rows, in order.
StoredSnapshots == (1 .. Latest) \ expired

\* list_snapshots, in the read context of a transaction: from the list the context
\* has kept, which a mutation does not take out (invalidate_runtime_read_context).
list_snapshots(a) == IF a.listing = {} THEN StoredSnapshots ELSE a.listing

\* SnapshotReadContext::from_snapshots.
from_snapshots(orders) == [listed |-> orders, groups |-> coalesced_public_snapshot_groups(orders)]
NoContext == [listed |-> {}, groups |-> <<>>]
Fresh == from_snapshots(StoredSnapshots)

\* Of two public snapshots with one id the later one counts; an id stands for the
\* last row of its public snapshot.
PublicIds(ctx) == {g.id : g \in Range(ctx.groups)}
Group(ctx, id) == ctx.groups[Max({i \in DOMAIN ctx.groups : ctx.groups[i].id = id})]
public_snapshot(ctx, id) == IF id \in PublicIds(ctx) THEN Max(Group(ctx, id).orders) ELSE None
public_snapshot_order_span(ctx, id) ==
    LET orders == Group(ctx, id).orders
    IN  IF id \in PublicIds(ctx) THEN Min(orders) .. Max(orders) ELSE {}
SnapshotNamed(orders, id) ==
    LET named == {o \in orders : Sequence(o) = id} IN IF named = {} THEN None ELSE Max(named)
ducklake_snapshot(ctx, id) == SnapshotNamed(ctx.listed, id)

\* raw_snapshot_row_key: written by every row of the sequence, never deleted.
snapshot_by_raw_sequence(id) == SnapshotNamed(1 .. Latest, id)

\* Mutant: a cached context is used although the catalog has moved on.
CachedIfAny(cached, fresh) == IF cached.listed # {} THEN cached ELSE fresh

\* Which context a process uses: the cached one if it knows what is asked for,
\* else a fresh one.
for_current_catalog(cached, fresh) ==
    IF cached.listed # {} /\ Max(cached.listed) = Latest THEN cached ELSE fresh
for_public_snapshot(cached, fresh, id) == IF id \in PublicIds(cached) THEN cached ELSE fresh

\* GetSnapshotAt(version): the row an id stands for.
snapshot_by_public_sequence(cached, fresh, id) ==
    IF id = LatestSequence THEN Latest
    ELSE public_snapshot(for_public_snapshot(cached, fresh, id), id)

\* FileListingRequestContext::resolve_snapshot.
resolve_files(cached, fresh, id) ==
    LET ctx == for_current_catalog(cached, fresh)
        public == public_snapshot(ctx, id)
        ducklake == ducklake_snapshot(ctx, id)
        raw == snapshot_by_raw_sequence(id)
    IN  CASE id >= LatestSequence -> Latest
          [] id < LatestSequence /\ public # None -> public
          [] id < LatestSequence /\ public = None /\ id > Max(PublicIds(ctx)) -> Latest
          [] OTHER -> IF ducklake # None THEN ducklake ELSE IF raw # None THEN raw ELSE Latest

\* Mutant: the catalog of the latest snapshot, whichever is asked for.
CatalogOfLatest(id) == Latest

\* CatalogRequestContext::resolve_snapshot of a DuckLake sequence.
resolve_catalog(id) ==
    LET raw == snapshot_by_raw_sequence(id)
    IN  IF id >= LatestSequence \/ raw = None THEN Latest ELSE raw

\* A query AT (VERSION => id): the client is given the sequence of the row the id
\* stands for, and asks for files and for the catalog with that.
VersionSequence(cached, fresh, id) == Sequence(snapshot_by_public_sequence(cached, fresh, id))
VersionFiles(cached, fresh, id) == resolve_files(cached, fresh, VersionSequence(cached, fresh, id))
VersionCatalog(cached, fresh, id) == resolve_catalog(VersionSequence(cached, fresh, id))
\* What can be seen at an order: every row up to it, but for the rows that only
\* replace table rows with equal ones.
Seen(order) == {o \in 1 .. order : log[o].change.kind \notin {"initial", "register"}}

\* SnapshotMetadataChangeIndex::new, SnapshotChangeFacts::load: what a row did to
\* the metadata and to the data of tables.
EventsAt(order) == [name \in MetadataFacts |-> Touched(order, {name})]
FactsAt(order) == [name \in DataFacts \union OperationFacts |-> Touched(order, {name})]

\* SnapshotMetadataChangeIndex::changes_at, for tables and for views and macros.
changes_at(order) ==
    {<<"created_table", t>> : t \in EventsAt(order)["creates"]}
    \union {<<"altered_table", t>> : t \in EventsAt(order)["alters"]}
    \union {<<"dropped_table", t>> : t \in EventsAt(order)["drops"]}
    \union (IF log[order].change.kind \in ObjectKinds THEN {<<"created", "object">>} ELSE {})

\* snapshot_changes_made_from_facts: files added and removed in one row are a
\* rewrite, and one of deletes if anything says so.
snapshot_changes_made(order) ==
    LET facts == FactsAt(order)
        flushed == facts["flush"] \intersect facts["added"]
        rewrites == facts["added"] \intersect facts["removed"]
        rewrite_deletes ==
            rewrites \intersect (facts["marked"] \union facts["file_rows"] \union facts["rewrite"])
        Label(name, tables) == {<<name, t>> : t \in tables}
    IN  changes_at(order)
        \union Label("inlined_insert", facts["inserted"])
        \union Label("inlined_delete", facts["deleted"] \union facts["file_rows"])
        \union Label("flushed_inlined", flushed)
        \union Label("inserted_into_table", facts["added"] \ (rewrites \union flushed))
        \union Label("deleted_from_table",
                     (facts["marked"] \union (facts["removed"] \ rewrites)) \ rewrite_deletes)
        \union Label("merge_adjacent", rewrites \ rewrite_deletes)
        \union Label("rewrite_delete", rewrite_deletes)

\* Mutant: off by one.
ChangesAfterNext(listed, id) ==
    UNION {snapshot_changes_made(o) : o \in {o \in listed : Sequence(o) > id + 1}}

\* snapshot_changes_after_payload: what a client that began at a snapshot is told
\* before it tries to commit again.
snapshot_changes_after(listed, id) ==
    UNION {snapshot_changes_made(o) : o \in {o \in listed : Sequence(o) > id}}

-----------------------------------------------------------------------------
(* Commit attempts.                                                        *)

\* initialize_empty_catalog, then the main schema.
Init ==
    /\ log = << [sequence |-> 0, change |-> Row("initial", {}), base |-> 0],
                [sequence |-> 1, change |-> Row("main", {}), base |-> 0] >>
    /\ expired = {}
    /\ context = NoContext
    /\ attempt = [c \in Clients |-> Idle]
    /\ acknowledged = {}
    /\ overtaken = {}

\* A transaction begins: it will propose the snapshot after the one it reads.
Begin(c, t) ==
    /\ attempt[c] = Idle
    /\ Latest + Len(AllRows(t)) <= MaxOrder
    /\ attempt' = [attempt EXCEPT ![c] =
            [Idle EXCEPT !.since = Latest, !.base = Latest, !.id = LatestSequence + 1,
                         !.rows = AllRows(t), !.fenced = t.fenced]]
    /\ UNCHANGED <<log, expired, context, acknowledged, overtaken>>

\* The first request of the commit was refused for what another client committed:
\* the client asks what has changed since its snapshot
\* (ListSnapshotStatsAndChangesInputs) and proposes the snapshot after the latest
\* one.  The read context keeps the list of snapshots until it ends, unless the
\* cache has had no room for it.
Retry(c) ==
    /\ attempt[c] # Idle
    /\ ~attempt[c].published
    /\ attempt[c].base < Latest
    /\ \E listed \in {list_snapshots(attempt[c]), StoredSnapshots} :
           attempt' = [attempt EXCEPT ![c].listing = listed,
               ![c].base = Latest, ![c].id = LatestSequence + 1, ![c].staged = None]
    /\ UNCHANGED <<log, expired, context, acknowledged, overtaken>>

\* A row is committed.  Its process drops its context, and answers from then on as
\* one without; the context we follow is that of another process.  The last row of
\* an attempt is followed by the answer to the client.
Publish(c, sequence) ==
    LET a == attempt[c]
    IN  /\ Latest < MaxOrder
        /\ log' = Append(log, [sequence |-> sequence, change |-> Head(a.rows), base |-> a.base])
        /\ overtaken' = overtaken \union
                {attempt[d].id : d \in {d \in Clients \ {c} : attempt[d] # Idle /\ ~attempt[d].fenced}}
        /\ IF Len(a.rows) = 1
           THEN /\ attempt' = [attempt EXCEPT ![c] = Idle]
                /\ acknowledged' = acknowledged \union {[id |-> a.id, order |-> Latest + 1]}
           ELSE /\ attempt' = [attempt EXCEPT ![c].rows = Tail(@), ![c].staged = None,
                                              ![c].published = TRUE]
                /\ UNCHANGED acknowledged
        /\ UNCHANGED <<expired, context>>

Sends(c, kind) == attempt[c].rows # <<>> /\ Head(attempt[c].rows).kind = kind

Stage(c, sequence) ==
    /\ attempt[c].staged = None
    /\ attempt' = [attempt EXCEPT ![c].staged = sequence]
    /\ UNCHANGED <<log, expired, context, acknowledged, overtaken>>

\* create_view_versionstamped, commit_view_replacements: the latest snapshot is
\* read, and the view committed in a transaction of its own with the next sequence.
StageView(c) == Sends(c, "view") /\ Stage(c, LatestSequence + 1)
CommitView(c) ==
    /\ Sends(c, "view")
    /\ attempt[c].staged # None
    /\ Publish(c, attempt[c].staged)

\* drop_tables_versionstamped_at, commit_metadata_intents: the proposed sequence is
\* used whatever the latest is.
DropTables(c) == Sends(c, "drop") /\ Publish(c, attempt[c].id)
CommitMetadata(c) == Sends(c, "metadata") /\ Publish(c, attempt[c].id)

\* register_inline_tables.
RegisterInlineTables(c) == Sends(c, "register") /\ Publish(c, attempt[c].id)

\* create_macros_versionstamped, drop_macros_versionstamped.
CommitMacros(c) == Sends(c, "macro") /\ Publish(c, attempt[c].id)

\* mutation_snapshot_sequence_from_latest: a sequence that is behind moves on.
StageData(c) ==
    /\ Sends(c, "data")
    /\ Stage(c, IF attempt[c].id >= LatestSequence THEN attempt[c].id ELSE LatestSequence + 1)

\* A compaction or the data commits with the sequence it staged; a fence wants the
\* latest order to be the one the transaction began with.
CommitData(c) ==
    /\ Sends(c, "data")
    /\ attempt[c].staged # None
    /\ attempt[c].fenced => attempt[c].since = Latest
    /\ Publish(c, attempt[c].staged)

\* A refused commit, an error or a crash: the rows that are published stay.
Abandon(c) ==
    /\ attempt[c] # Idle
    /\ attempt' = [attempt EXCEPT ![c] = Idle]
    /\ UNCHANGED <<log, expired, context, acknowledged, overtaken>>

-----------------------------------------------------------------------------
(* Readers.                                                                *)

\* SnapshotReadContext::load: a request the cached context cannot answer.
LoadContext ==
    /\ context.listed # StoredSnapshots
    /\ context' = Fresh
    /\ UNCHANGED <<log, expired, attempt, acknowledged, overtaken>>

\* expire_snapshots: the rows of the sequences leave the list, unless one of them
\* is the latest.
Expire(sequences) ==
    LET gone == {o \in StoredSnapshots : Sequence(o) \in sequences}
    IN  /\ gone # {}
        /\ LatestSequence \notin sequences
        /\ Cardinality(expired \union gone) <= MaxExpired
        /\ expired' = expired \union gone
        /\ UNCHANGED <<log, context, attempt, acknowledged, overtaken>>

\* ExpireSnapshots with snapshot_kind=ducklake: the ids are sequences.
ExpireDuckLake == \E id \in PublicIds(Fresh) : Expire({id})

\* ExpireSnapshots by public id: every sequence with a row in its span.
ExpirePublic ==
    LET fresh == Fresh
    IN  \E id \in PublicIds(fresh) : \E cached \in {context, NoContext} :
            LET span == public_snapshot_order_span(for_public_snapshot(cached, fresh, id), id)
            IN  Expire({Sequence(o) : o \in span \intersect StoredSnapshots})

Next ==
    \/ \E c \in Clients :
        \/ \E t \in Transactions : Begin(c, t)
        \/ Retry(c)
        \/ StageView(c)
        \/ CommitView(c)
        \/ DropTables(c)
        \/ CommitMetadata(c)
        \/ RegisterInlineTables(c)
        \/ CommitMacros(c)
        \/ StageData(c)
        \/ CommitData(c)
        \/ Abandon(c)
    \/ LoadContext
    \/ ExpireDuckLake
    \/ ExpirePublic

Spec == Init /\ [][Next]_vars

-----------------------------------------------------------------------------
\* The public snapshot of an id took in a row of another sequence that has rows
\* outside of it too.
Borrows(ctx, id) ==
    LET orders == Group(ctx, id).orders
    IN  \E o \in orders : \E p \in (1 .. Latest) \ orders :
            Sequence(o) = Sequence(p) /\ Sequence(o) # id

SeenMetadata(order) == {o \in Seen(order) : HasMetadataChange(o)}
SeenData(order) == {o \in Seen(order) : HasDataChange(o)}

\* A listed id, with no row expired in its public snapshot or after it.
Settled(ctx, id) ==
    id \in PublicIds(ctx) /\ \A o \in expired : o < Min(Group(ctx, id).orders)

\* Once an attempt is answered, its id names exactly what was there when its last
\* row was published: a query AT that version, from a process with a cached context
\* or without one, sees the whole attempt and nothing later.  This is so unless
\* another commit was published inside the attempt or took an id as low after it,
\* rows were expired since, or the public snapshot took in a row of another attempt;
\* and but for attempts whose last row has another sequence, such as that of a
\* second view (create_view_versionstamped takes the sequence after the first).
AcknowledgedIdShowsAttempt ==
    LET fresh == Fresh
    IN  \A a \in acknowledged : \A cached \in {context, NoContext} :
          (/\ a.id \notin overtaken /\ Sequence(a.order) = a.id
           /\ Settled(fresh, a.id) /\ ~Borrows(fresh, a.id)
           /\ \A o \in a.order + 1 .. Latest : Sequence(o) > a.id) =>
              Seen(VersionFiles(cached, fresh, a.id)) = Seen(a.order)

\* A row was published under a lower sequence than one before it, on the other side
\* of the given sequence or on it.
Returned(sequence) ==
    \E o \in 1 .. Latest : \E p \in 1 .. o :
        Sequence(o) < Sequence(p) /\ sequence \in Sequence(o) .. Sequence(p)

\* The catalog and the files of a query AT a version are those of one snapshot,
\* although the one is found by its raw sequence and the other through a public
\* snapshot of a possibly stale context.  The exception is a version whose sequence
\* was taken again after a higher one: an attempt that was overtaken registers its
\* inline tables (or commits data it had staged) under the id it proposed, and the
\* catalog of the version is from then on the one at that row.
VersionIsOneSnapshot ==
    LET fresh == Fresh
    IN  \A cached \in {context, NoContext} : \A id \in PublicIds(fresh) :
          LET catalog == SeenMetadata(VersionCatalog(cached, fresh, id))
              files == SeenData(VersionFiles(cached, fresh, id))
          IN  Settled(fresh, id) /\ ~Returned(VersionSequence(cached, fresh, id)) =>
                  \E o \in 1 .. Latest : catalog = SeenMetadata(o) /\ files = SeenData(o)

\* The changes that tell a client what was done to a table.
Tells(name) ==
    CASE name = "creates" -> {"created_table"}
      [] name = "alters" -> {"altered_table"}
      [] name = "drops" -> {"dropped_table"}
      [] name = "inserted" -> {"inlined_insert"}
      [] name = "added" -> {"inserted_into_table", "flushed_inlined", "merge_adjacent", "rewrite_delete"}
      [] name \in {"removed", "marked"} -> {"deleted_from_table", "merge_adjacent", "rewrite_delete"}
      [] name \in {"deleted", "file_rows"} -> {"inlined_delete"}
      [] OTHER -> {}

\* A client that checks for conflicts with the changes since its transaction began
\* (snapshot_changes_after_payload) is told of everything that was committed
\* since then and is not expired.  What it may miss are rows with an old sequence:
\* those of an attempt that began before the latest row the client has seen, whose
\* metadata keeps the sequence it proposed, and what was published on top of them;
\* and, if its read context has listed the snapshots before (an earlier check of
\* the same transaction), what was published after that.
ChangesAreTold ==
    \A c \in Clients :
        LET since == attempt[c].since
            listed == list_snapshots(attempt[c])
            told == snapshot_changes_after(listed, Sequence(since))
            Old(o) == Sequence(o) <= Sequence(since)
        IN  attempt[c] # Idle =>
              \A o \in since + 1 .. Latest :
                  \/ o \in expired
                  \/ \A p \in listed : p < o
                  \/ Old(o) /\ \E p \in since + 1 .. o : Old(p) /\ log[p].base < since
                  \/ \A f \in log[o].change.facts :
                        Tells(f[1]) # {} => \E name \in Tells(f[1]) : <<name, f[2]>> \in told
=============================================================================
