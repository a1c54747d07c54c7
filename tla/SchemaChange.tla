---------------------------- MODULE SchemaChange ----------------------------
(***************************************************************************)
(* The direct schema changes: AddColumns, RenameColumns, ChangeColumnTypes, *)
(* ChangeColumnDefaults, DropColumns, RenameTables, ChangePartitionKeys,   *)
(* ChangeSortKeys and ChangeComments (runtime_schema_change_ops.rs and the *)
(* table_*.rs modules it calls).                                           *)
(*                                                                         *)
(* A request is one or more commits.  Each commit reads the newest         *)
(* snapshot and the current table row, computes the next row and writes    *)
(* both back in a transaction whose only conflicting reads are the version *)
(* counters.  AddColumns is up to three commits, of which only the first   *)
(* looks for conflicts; ChangePartitionKeys is one commit for each table.  *)
(* Names, types, defaults and comments are small numbers.                  *)
(***************************************************************************)
EXTENDS Integers, Sequences, FiniteSets, Functions

CONSTANTS
    Clients,       \* a client sends one request
    Requests(_),   \* the payloads a client may compose from the table rows it read
    Tables         \* the tables of the first snapshot

VARIABLES
    log,       \* snapshot rows by order: raw sequence and schema version
    rows,      \* table_object_key and table_visibility_key: rows by (table, begin)
    current,   \* current_table_row_key: rows by table
    pc, request, local,
    met        \* history: what commits met that their checks do not see

stored == <<log, rows, current>>
vars == <<stored, pc, request, local, met>>

None == 0
Latest == Len(log)

\* TableColumnRow
Column(id, name, type, parent, default) ==
    [id |-> id, name |-> name, type |-> type, nulls |-> TRUE, parent |-> parent,
     default |-> default, comment |-> None]

\* TableRow
Table(id, columns) ==
    [table |-> id, begin |-> 1, end |-> None, name |-> id, columns |-> columns,
     partition |-> <<>>, sort |-> <<>>, comment |-> None]

\* The first snapshot has one row for each table.
ASSUME SchemaChangeAssumption ==
    /\ \A r \in Tables : r = Table(r.table, r.columns)
    /\ \A r, s \in Tables : r.table = s.table => r = s

\* TableRow::same_user_visible_schema_as; inline registrations are not modelled here.
Visible(row) == [row EXCEPT !.begin = None, !.end = None]
same_user_visible_schema_as(a, b) == Visible(a) = Visible(b)

Current(t) == CHOOSE r \in current : r.table = t

\* load_table_at: the newest row that began by then, if it has not ended.
load_table_at(t, order) ==
    {r \in rows :
        /\ r.table = t /\ r.begin <= order /\ (r.end = None \/ order < r.end)
        /\ \A s \in rows : s.table = t /\ s.begin <= order => s.begin <= r.begin}

TablesAt(order) == UNION {load_table_at(t, order) : t \in {r.table : r \in rows}}

\* A row that a read names by its public sequence: the newest snapshot, or one that
\* some snapshot context listed.
snapshot_by_public_sequence(id) ==
    IF log[Latest].sequence = id THEN {Latest}
    ELSE {o \in 1 .. Latest : log[o].sequence = id}

-----------------------------------------------------------------------------
(* What a request does to the columns of a row.  A computation that fails has *)
(* the answer Error.                                                       *)

Error == {}
Computed(columns) == {columns}

\* Apply(c, x) for each x in turn; the first error ends it.
ForEach(Apply(_, _), columns, xs) ==
    LET after[i \in 0 .. Len(xs)] ==
            IF i = 0 THEN Computed(columns) ELSE UNION {Apply(c, xs[i]) : c \in after[i - 1]}
    IN  after[Len(xs)]

Having(columns, id) == {c \in columns : c.id = id}
Replaced(columns, c, d) == (columns \ {c}) \cup {d}
Taken(columns, column, name) ==
    \E c \in columns : c.parent = column.parent /\ c.id # column.id /\ c.name = name

same_column_shape_except_name(a, b) ==
    a.id = b.id /\ a.type = b.type /\ a.nulls = b.nulls /\ a.parent = b.parent
same_column_identity(a, b) == a.name = b.name /\ same_column_shape_except_name(a, b)

\* reject_duplicate_columns: the id and the name below its parent are free.
Appended(columns, x) ==
    IF Having(columns, x.id) = {} /\ ~Taken(columns, x, x.name)
    THEN Computed(columns \cup {x}) ELSE Error

\* reject_non_rename_column_change
OnlyNameDiffers(c, x) == c.name # x.name /\ same_column_shape_except_name(c, x)

Renamed(columns, x) ==
    {Replaced(columns, c, [c EXCEPT !.name = x.name]) :
        c \in {c \in Having(columns, x.id) :
                 OnlyNameDiffers(c, x) /\ ~Taken(columns, c, x.name)}}

\* reject_non_default_column_change
OnlyDefaultDiffers(c, x) == same_column_identity(c, x) /\ c.default # x.default

Defaulted(columns, x) ==
    {Replaced(columns, c, [c EXCEPT !.default = x.default]) :
        c \in {c \in Having(columns, x.id) : OnlyDefaultDiffers(c, x)}}

\* reject_parent_column_type_change
HasChildren(columns, c) == \E d \in columns : d.parent = c.id

\* reject_non_type_column_identity_change: a field may also change its nullability.
TypeDiffers(c, x) ==
    /\ c.name = x.name /\ c.parent = x.parent
    /\ c.parent = None => c.nulls = x.nulls
    /\ c.type # x.type

\* Mutant: the default of the new type is not taken over.
TypeOnly(c, x) == [c EXCEPT !.type = x.type, !.nulls = x.nulls]

type_change_replacement(c, x) ==
    [c EXCEPT !.type = x.type, !.nulls = x.nulls, !.default = x.default]

Retyped(columns, x) ==
    {Replaced(columns, c, type_change_replacement(c, x)) :
        c \in {c \in Having(columns, x.id) : ~HasChildren(columns, c) /\ TypeDiffers(c, x)}}

\* Mutant: the children stay.
ColumnAlone(columns, root) == {root}

\* The fixed point of adding the children of what is there.
column_and_descendant_ids(columns, root) ==
    LET Grow(s) == s \cup {c.id : c \in {c \in columns : c.parent \in s}}
        ids[i \in 0 .. Cardinality(columns)] == IF i = 0 THEN {root} ELSE Grow(ids[i - 1])
    IN  ids[Cardinality(columns)]

Dropped(columns, x) ==
    IF Having(columns, x.id) = {} THEN Error
    ELSE LET ids == column_and_descendant_ids(columns, x.id)
         IN  Computed({c \in columns : c.id \notin ids})

apply_column_comments(columns, x) ==
    {Replaced(columns, c, [c EXCEPT !.comment = x.comment]) : c \in Having(columns, x.id)}

-----------------------------------------------------------------------------
(* The next rows of a commit, a set of one set of rows or an error; `part` *)
(* is one call of a commit_* function, `previous` the rows it replaces.    *)

ColumnKinds == {"append", "rename", "default", "type", "drop", "comment"}

ColumnChange(kind, columns, x) ==
    CASE kind = "append" -> Appended(columns, x)
      [] kind = "rename" -> Renamed(columns, x)
      [] kind = "default" -> Defaulted(columns, x)
      [] kind = "type" -> Retyped(columns, x)
      [] kind = "drop" -> Dropped(columns, x)
      [] kind = "comment" -> apply_column_comments(columns, x)

\* reject_*_batch_shape: no column, and no table, is listed twice.
ListedOnce(part) ==
    \A i, j \in DOMAIN part.changes :
        part.changes[i].id = part.changes[j].id => i = j

NextColumns(part, columns) ==
    ForEach(LAMBDA c, x : ColumnChange(part.kind, c, x), columns, part.changes)

\* commit_column_version
ColumnRows(part, previous) ==
    {{[r EXCEPT !.columns = columns] : r \in previous} :
        columns \in NextColumns(part, (CHOOSE r \in previous : TRUE).columns)}

\* A request for comments lists that of the table, and those of any columns.
commit_change_table_comments(part, previous) ==
    {{[r EXCEPT !.comment = part.comment] : r \in next} : next \in ColumnRows(part, previous)}

\* reject_table_name_conflict: tables that are renamed too do not count, those
\* already renamed count with their new name.
NameFree(part, i, tables) ==
    /\ \A r \in tables :
          (\A j \in DOMAIN part.changes : part.changes[j].id # r.table)
             => r.name # part.changes[i].name
    /\ \A j \in 1 .. i - 1 : part.changes[j].name # part.changes[i].name

commit_rename_tables(part, previous, tables) ==
    LET named(t) == CHOOSE i \in DOMAIN part.changes : part.changes[i].id = t
    IN  IF \A i \in DOMAIN part.changes : NameFree(part, i, tables)
        THEN {{[r EXCEPT !.name = part.changes[named(r.table)].name] : r \in previous}}
        ELSE Error

commit_change_table_partition(part, previous) ==
    {{[r EXCEPT !.partition = part.changes[1].keys] : r \in previous}}

commit_change_table_sort(part, previous) ==
    {{[r EXCEPT !.sort = part.changes[1].keys] : r \in previous}}

NextRows(part, previous, tables) ==
    IF ~ListedOnce(part) THEN Error
    ELSE CASE part.kind \in ColumnKinds \ {"comment"} -> ColumnRows(part, previous)
           [] part.kind = "comment" -> commit_change_table_comments(part, previous)
           [] part.kind = "table" -> commit_rename_tables(part, previous, tables)
           [] part.kind = "partition" -> commit_change_table_partition(part, previous)
           [] OTHER -> commit_change_table_sort(part, previous)

\* commit_change_table_partition and commit_change_table_sort write nothing when
\* nothing changes; the others write a row like the one before.
NothingToDo(part, previous, next) == part.kind \in {"partition", "sort"} /\ previous = next

-----------------------------------------------------------------------------
(* A request. *)

Part(kind, checked, tables, changes, comment) ==
    [kind |-> kind, checked |-> checked, tables |-> tables, changes |-> changes,
     comment |-> comment]

NoLocal ==
    [base |-> None, through |-> None, parts |-> <<>>, sequence |-> None, order |-> None,
     previous |-> {}, next |-> {}, version |-> None, conflicted |-> FALSE,
     late |-> FALSE, alone |-> TRUE, unknown |-> FALSE]

NoRequest ==
    [kind |-> "none", tables |-> {}, changes |-> <<>>, comment |-> None, named |-> FALSE,
     read |-> None, commit |-> None]

PartKind(kind) ==
    CASE kind = "AddColumns" -> "append"
      [] kind = "RenameColumns" -> "rename"
      [] kind = "ChangeColumnTypes" -> "type"
      [] kind = "ChangeColumnDefaults" -> "default"
      [] kind = "DropColumns" -> "drop"
      [] kind = "ChangeComments" -> "comment"
      [] kind = "RenameTables" -> "table"
      [] kind = "ChangePartitionKeys" -> "partition"
      [] kind = "ChangeSortKeys" -> "sort"

\* A partition row begins a change, the fields after it are its keys; without fields
\* the table is no longer partitioned.  A field of another table is an error.
parse_partition_changes(lines) ==
    LET Add(list, line) ==
            IF line.row = "partition" THEN Append(list, [id |-> line.id, keys |-> <<>>])
            ELSE [list EXCEPT ![Len(list)].keys = Append(@, line.column)]
        changes[i \in 0 .. Len(lines)] ==
            IF i = 0 THEN <<>> ELSE Add(changes[i - 1], lines[i])
    IN  changes[Len(lines)]

\* Mutant: every change is a commit of its own.
OneByOne(r) ==
    LET changes == IF r.kind = "ChangePartitionKeys" THEN parse_partition_changes(r.changes)
                   ELSE r.changes
    IN  [i \in DOMAIN changes |->
            Part(PartKind(r.kind), TRUE,
                 IF r.kind = "ChangePartitionKeys" THEN {changes[i].id} ELSE r.tables,
                 <<changes[i]>>, r.comment)]

\* The commits of a request other than AddColumns, each after a look for conflicts.
Parts(r) ==
    LET changes == parse_partition_changes(r.changes)
    IN  IF r.kind = "ChangePartitionKeys"
        THEN [i \in DOMAIN changes |->
                Part("partition", TRUE, {changes[i].id}, <<changes[i]>>, None)]
        ELSE <<Part(PartKind(r.kind), TRUE, r.tables, r.changes, r.comment)>>

\* split_add_columns_by_current_table: a column that is there under its name is a
\* change of its default, one under another name a rename.
split_add_columns_by_current_table(r, columns) ==
    LET Known(x) == Having(columns, x.id) # {}
        Same(x) == \E c \in columns : same_column_identity(c, x)
        Shaped(x) == \E c \in columns : same_column_shape_except_name(c, x)
        part(kind, checked, Of(_)) ==
            LET changes == SelectSeq(r.changes, Of)
            IN  IF changes = <<>> THEN <<>> ELSE <<Part(kind, checked, r.tables, changes, None)>>
    IN  IF \E i \in DOMAIN r.changes : Known(r.changes[i]) /\ ~Shaped(r.changes[i])
        THEN Error
        ELSE Computed(part("append", TRUE, LAMBDA x : ~Known(x))
                      \o part("default", FALSE, Same)
                      \o part("rename", FALSE, LAMBDA x : Shaped(x) /\ ~Same(x)))

\* normalize_column_renames_to_current_shape: only the new name is taken from the request.
normalize_column_renames_to_current_shape(r, columns) ==
    LET shape(x) == CHOOSE c \in columns : c.id = x.id
    IN  IF \E i \in DOMAIN r.changes : Having(columns, r.changes[i].id) = {}
        THEN Error
        ELSE Computed(Parts([r EXCEPT !.changes =
                [i \in DOMAIN @ |-> [shape(@[i]) EXCEPT !.name = r.changes[i].name]]]))

ShapedParts(r) ==
    LET columns == Current(CHOOSE t \in r.tables : TRUE).columns
    IN  CASE r.kind = "AddColumns" -> split_add_columns_by_current_table(r, columns)
          [] r.kind = "RenameColumns" -> normalize_column_renames_to_current_shape(r, columns)
          [] OTHER -> Computed(Parts(r))

-----------------------------------------------------------------------------
(* The steps of a request; each reads at a version of its own.             *)

Goes(c, step, l) ==
    /\ pc' = [pc EXCEPT ![c] = step]
    /\ local' = [local EXCEPT ![c] = l]
    /\ UNCHANGED <<stored, request, met>>

Fails(c) == Goes(c, "failed", local[c])

\* The next commit of the request, or its answer.
Proceeds(c, l) ==
    Goes(c, IF l.parts = <<>> THEN "done" ELSE IF Head(l.parts).checked THEN "check" ELSE "latest",
         l)

\* The client composes its request from the newest snapshot, and says which it read
\* unless its own commit attempt made the table.
Send(c) ==
    /\ pc[c] = "idle"
    /\ \E r \in Requests(current), named \in BOOLEAN :
          request' = [request EXCEPT ![c] =
              [kind |-> r.kind, tables |-> r.tables, changes |-> r.changes, comment |-> r.comment,
               named |-> named, read |-> Latest, commit |-> log[Latest].sequence + 1]]
    /\ pc' = [pc EXCEPT ![c] = "base"]
    /\ UNCHANGED <<stored, local, met>>

\* Mutant: the proposed snapshot is preferred to the one that was read.
ProposedFirst(r) ==
    LET proposed == snapshot_by_public_sequence(r.commit)
    IN  IF proposed # {} THEN proposed
        ELSE snapshot_by_public_sequence(r.commit - 1)

\* If the request does not say what it read and its snapshot is there already, that
\* one is taken for the base.
ddl_base_snapshot(r) ==
    LET proposed == snapshot_by_public_sequence(r.commit)
    IN  IF r.named THEN snapshot_by_public_sequence(log[r.read].sequence)
        ELSE IF proposed # {} THEN proposed
        ELSE snapshot_by_public_sequence(r.commit - 1)

\* load_ddl_orders, its first read.
LoadBase(c) ==
    /\ pc[c] = "base"
    /\ \E base \in ddl_base_snapshot(request[c]) :
          Goes(c, "through", [local[c] EXCEPT !.base = base])

\* load_ddl_orders, its second read.
LoadThrough(c) ==
    /\ pc[c] = "through"
    /\ Goes(c, "shape", [local[c] EXCEPT !.through = Latest])

Shape(c) ==
    /\ pc[c] = "shape"
    /\ LET parts == ShapedParts(request[c])
       IN  IF parts = Error THEN Fails(c)
           ELSE \E p \in parts : Proceeds(c, [local[c] EXCEPT !.parts = p])

\* reject_table_metadata_conflicts_since_base: the row at the base has ended by then,
\* and the table is gone or has another schema.
Conflicts(t, base, through) ==
    \E b \in load_table_at(t, base) :
        /\ b.end # None /\ base < b.end /\ b.end <= through
        /\ \A r \in load_table_at(t, through) : ~same_user_visible_schema_as(r, b)

Check(c) ==
    /\ pc[c] = "check"
    /\ LET l == local[c]
       IN  IF \E t \in Head(l.parts).tables : Conflicts(t, l.base, l.through)
           THEN Fails(c)
           ELSE Goes(c, "latest", l)

\* A partition change takes the sequence the client proposed.
LoadLatest(c) ==
    /\ pc[c] = "latest"
    /\ Goes(c, "row", [local[c] EXCEPT
          !.order = Latest,
          !.sequence = IF Head(local[c].parts).kind = "partition" THEN request[c].commit
                       ELSE log[Latest].sequence + 1])

\* load_current_table_row; commit_rename_tables lists the tables at the snapshot it read.
LoadRows(c) ==
    /\ pc[c] = "row"
    /\ LET l == local[c]
           part == Head(l.parts)
           tables == IF part.kind = "table" /\ l.order # Latest THEN TablesAt(l.order) ELSE current
           previous == {r \in tables : r.table \in part.tables}
           next == NextRows(part, previous, tables)
       IN  IF next = Error THEN Fails(c)
           ELSE \E n \in next :
                   IF NothingToDo(part, previous, n)
                   THEN Proceeds(c, [l EXCEPT !.parts = Tail(@)])
                   ELSE Goes(c, "open", [l EXCEPT !.previous = previous, !.next = n])

-----------------------------------------------------------------------------
(* commit_table_changes_with_sequence_versionstamped *)

\* Mutant: a change of a comment, a sort or a partition key is no new schema.
ColumnsChange(previous, next) == {r.columns : r \in previous} # {r.columns : r \in next}

\* Whether some replacement needs a new schema version.
NewSchemaVersion(previous, next) ==
    \E r \in previous : \A s \in next :
        r.table = s.table => ~same_user_visible_schema_as(r, s)

\* The counters are read in the transaction; every commit reads and writes that of the
\* catalog snapshot, so of two open transactions the second to commit fails.
Open(c) ==
    /\ pc[c] = "open"
    /\ Goes(c, "commit", [local[c] EXCEPT !.version = log[Latest].version, !.conflicted = FALSE])

SameKey(r, s) == r.table = s.table /\ r.begin = s.begin

\* The request says what it read, and the id stands for no other row as well: commits of
\* one ChangePartitionKeys share a sequence, as do commits that read one newest snapshot.
KnowsItsBase(c) ==
    request[c].named /\ \A o \in 1 .. Latest :
        log[o].sequence = log[request[c].read].sequence => o = request[c].read

\* What the checks of a commit do not see.
Situations(c) ==
    LET l == local[c]
        checked == Head(l.parts).checked
    IN  (IF l.previous \subseteq current THEN {} ELSE {"stale row"})
          \cup (IF checked /\ l.late THEN {"late"} ELSE {})
          \cup (IF checked /\ ~KnowsItsBase(c) THEN {"unnamed"} ELSE {})

\* The rows of a replacement: the previous ones with their end, the next ones.
Staged(previous, next, order) ==
    {[r EXCEPT !.end = order] : r \in previous}
      \cup {[r EXCEPT !.begin = order, !.end = None] : r \in next}

Apply(c, step, unknown) ==
    LET l == local[c]
        order == Latest + 1
        staged == Staged(l.previous, l.next, order)
        begun == {r \in staged : r.end = None}
        bump == IF NewSchemaVersion(l.previous, l.next) THEN 1 ELSE 0
    IN  /\ pc[c] = "commit"
        /\ ~l.conflicted
        /\ log' = Append(log, [sequence |-> l.sequence, version |-> l.version + bump])
        /\ rows' = {r \in rows : ~\E e \in staged : SameKey(r, e)} \cup staged
        /\ current' = {r \in current : ~\E b \in begun : b.table = r.table} \cup begun
        /\ met' = met \cup Situations(c)
        /\ pc' = [pc EXCEPT ![c] = step]
        /\ local' = [d \in Clients |->
              IF d = c
              THEN [l EXCEPT !.parts = Tail(@), !.previous = {}, !.next = {}, !.order = None,
                             !.sequence = None, !.version = None, !.unknown = unknown]
              ELSE [local[d] EXCEPT
                      !.alone = FALSE,
                      !.late = @ \/ pc[d] \notin {"idle", "base", "through"},
                      !.conflicted = @ \/ pc[d] = "commit"]]
        /\ UNCHANGED request

\* commit_append_table_columns reads the row back; the others return.
Commit(c) ==
    LET l == local[c]
        rest == Tail(l.parts)
    IN  Apply(c, IF Head(l.parts).kind = "append" THEN "reload"
                 ELSE IF rest = <<>> THEN "done"
                 ELSE IF Head(rest).checked THEN "check" ELSE "latest", FALSE)

\* commit_unknown_result is an error to the caller, also when the commit is there.
CommitUnknownApplied(c) == Apply(c, "failed", TRUE)

\* load_current_table
Reload(c) ==
    /\ pc[c] = "reload"
    /\ Proceeds(c, local[c])

\* A failed read, a conflict of the transaction, or a commit that is not there.
Fail(c) ==
    /\ pc[c] \notin {"idle", "done", "failed"}
    /\ Fails(c)

Init ==
    /\ log = <<[sequence |-> 1, version |-> 1]>>
    /\ rows = Tables
    /\ current = Tables
    /\ pc = [c \in Clients |-> "idle"]
    /\ request = [c \in Clients |-> NoRequest]
    /\ local = [c \in Clients |-> NoLocal]
    /\ met = {}

Terminated == (\A c \in Clients : pc[c] \in {"done", "failed"}) /\ UNCHANGED vars

Next ==
    \/ \E c \in Clients :
          \/ Send(c) \/ LoadBase(c) \/ LoadThrough(c) \/ Shape(c) \/ Check(c)
          \/ LoadLatest(c) \/ LoadRows(c) \/ Open(c) \/ Commit(c)
          \/ CommitUnknownApplied(c) \/ Reload(c) \/ Fail(c)
    \/ Terminated

Spec == Init /\ [][Next]_vars

-----------------------------------------------------------------------------
(* Properties. *)

Siblings(columns) == {p \in columns \X columns : p[1].parent = p[2].parent /\ p[1] # p[2]}

\* In every version of a table the column ids differ, and so do the names below one
\* parent, however the commits of requests mix: a commit judges its columns by the row
\* it extends, not by the row the request was split or normalised by
\* (reject_duplicate_columns, reject_column_name_conflict).  And the version names only
\* columns it has, as parent of a column and as partition key: conflicts since the base
\* are rejected, and a column is dropped with all that is below it.  Excepted from this
\* are commits that another one slipped in before, after the conflicts were looked for,
\* commits computed from a row that was replaced in the meantime (the row they skip is
\* never ended, and conflicts are looked for by ends), and requests whose base is not known.
TablesAreWellFormed ==
    \A r \in rows :
        /\ \A p \in Siblings(r.columns) : p[1].name # p[2].name
        /\ \A a, b \in r.columns : a.id = b.id => a = b
        /\ met = {} =>
              {c.parent : c \in r.columns} \cup Range(r.partition) \subseteq
                  {c.id : c \in r.columns} \cup {None}

\* What a request that looked for conflicts is about to replace is to the user what its
\* client read (load_ddl_orders, reject_table_conflicts_since_base).  Excepted are rows
\* that began after the look, commits after some commit was computed from a row that was
\* replaced in the meantime, and a base that is not known: the request does not say what
\* it read, or says it with an id that another snapshot row shares.
ReplacesWhatWasRead ==
    "stale row" \notin met =>
        \A c \in Clients :
            LET l == local[c]
            IN  pc[c] = "commit" /\ Head(l.parts).checked /\ KnowsItsBase(c) =>
                    \A r \in l.previous : r.begin <= l.through =>
                        \E s \in load_table_at(r.table, request[c].read) :
                            same_user_visible_schema_as(r, s)

Listed(r) ==
    IF r.kind = "ChangePartitionKeys" THEN parse_partition_changes(r.changes) ELSE r.changes

\* AddColumns lists a column under another name than its client read: of such a column
\* it changes the name alone.
IsRename(r, x, t) ==
    \E s \in load_table_at(t, r.read) : \E c \in Having(s.columns, x.id) : c.name # x.name

\* Whether a table has a change of a request.
InPlace(r, x, t) ==
    LET columns == Current(t).columns
        column == CHOOSE c \in columns : c.id = x.id
        is(fields) == Having(columns, x.id) # {} /\ \A f \in fields : column[f] = x[f]
    IN  CASE r.kind = "AddColumns" ->
                 /\ is({"name", "type", "nulls", "parent"})
                 /\ ~IsRename(r, x, t) => is({"default"})
          [] r.kind = "RenameColumns" -> is({"name"})
          [] r.kind = "ChangeColumnTypes" -> is({"type", "nulls", "default"})
          [] r.kind = "ChangeColumnDefaults" -> is({"default"})
          [] r.kind = "DropColumns" -> \A c \in columns : c.id # x.id
          [] r.kind = "ChangeComments" -> is({"comment"}) /\ Current(t).comment = r.comment
          [] r.kind = "RenameTables" -> Current(x.id).name = x.name
          [] r.kind = "ChangePartitionKeys" -> Current(x.id).partition = x.keys
          [] r.kind = "ChangeSortKeys" -> Current(x.id).sort = x.keys

\* A request that is answered and that no other commit met has all its changes in
\* place, though AddColumns and ChangePartitionKeys make them in several commits
\* (add_columns, change_partition_keys).  Excepted is the default of a column that
\* AddColumns lists under a new name: it goes to the renames, which do not look at
\* defaults, and a new default in the same line is lost without an error
\* (split_add_columns_by_current_table, reject_non_rename_column_change).
AcknowledgedIsInPlace ==
    \A c \in Clients :
        LET r == request[c]
        IN  pc[c] = "done" /\ local[c].alone =>
                \A x \in Range(Listed(r)) : \A t \in r.tables : InPlace(r, x, t)

\* A request that fails and that no other commit met leaves the tables as its client
\* read them.  AddColumns and ChangePartitionKeys may leave some of their changes, but
\* then each of the columns or tables they list is as it was or as it should be;
\* so may a commit with an unknown result.
FailedLeavesNoHalf ==
    \A c \in Clients :
        LET r == request[c]
            before == TablesAt(r.read)
        IN  pc[c] = "failed" /\ local[c].alone =>
                \/ {Visible(s) : s \in current} = {Visible(s) : s \in before}
                \/ r.kind = "AddColumns" /\ \A x \in Range(r.changes), t \in r.tables :
                      \/ InPlace(r, x, t)
                      \/ \A s \in before : s.table = t =>
                            Having(s.columns, x.id) = Having(Current(t).columns, x.id)
                \/ r.kind = "ChangePartitionKeys" /\ \A x \in Range(Listed(r)) :
                      \/ InPlace(r, x, x.id)
                      \/ \A s \in before : s.table = x.id =>
                            s.partition = Current(s.table).partition
                \/ local[c].unknown

\* Two snapshots in a row with one schema version show the same tables, as readers that
\* keep the schema by its version take for granted (same_user_visible_schema_as, the
\* choice of counters in commit_table_changes_with_sequence_versionstamped).  Excepted
\* are commits computed from a row that was replaced in the meantime.
OneVersionOneSchema ==
    "stale row" \notin met =>
        \A o \in 1 .. Latest - 1 :
            log[o].version = log[o + 1].version =>
                {Visible(r) : r \in TablesAt(o)} = {Visible(r) : r \in TablesAt(o + 1)}
=============================================================================
