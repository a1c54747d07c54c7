----------------------------- MODULE ObjectRows -----------------------------
(***************************************************************************)
(* Schemas, tables, views and macros as they are stored: an object is a    *)
(* chain of rows, each with the orders between which it is visible.        *)
(***************************************************************************)
EXTENDS Naturals, FiniteSets, FiniteSetsExt

VARIABLES
    rows,       \* every row of every object
    latest,     \* order of the latest snapshot
    watermark   \* conflict_max_catalog_id_key

Main == 0
NoOrder == 0
Open == 0                       \* end of a row that is visible now

Key(r) == <<r.kind, r.id, r.begin>>
Object(r) == <<r.kind, r.id>>

NewRow(kind, id, schema, name, detail) ==
    [kind |-> kind, id |-> id, schema |-> schema, name |-> name, detail |-> detail,
     begin |-> NoOrder, end |-> Open]

SchemaRow(id, parent, name) == NewRow("schema", id, parent, name, "none")
TableRow(id, schema, name) == NewRow("table", id, schema, name, "none")
ViewRow(id, schema, name) == NewRow("view", id, schema, name, "none")
MacroRow(id, schema, name, type) == NewRow("macro", id, schema, name, type)

\* What the payload of an operation is read into: rows to create, objects to drop, new
\* names and comments by id, and the snapshot the client read.
NoRequest == [op |-> "none", created |-> {}, dropped |-> {}, renames |-> {}, comments |-> {},
              base |-> NoOrder, snapshot |-> {}]
create_schemas_payload_values(set) == [NoRequest EXCEPT !.op = "CreateSchemas", !.created = set]
drop_schemas_payload_values(ids) ==
    [NoRequest EXCEPT !.op = "DropSchemas", !.dropped = {"schema"} \X ids]
create_view_rows(set) == [NoRequest EXCEPT !.op = "CreateViews", !.created = set]
view_renames(pairs) == [NoRequest EXCEPT !.op = "RenameViews", !.renames = pairs]
drop_view_ids(ids) == [NoRequest EXCEPT !.op = "DropViews", !.dropped = {"view"} \X ids]
view_comment_change(id, text) ==
    [NoRequest EXCEPT !.op = "ChangeViewComment", !.comments = {<<id, text>>}]
create_macro_rows(set) == [NoRequest EXCEPT !.op = "CreateMacros", !.created = set]
macro_ids(ids) == [NoRequest EXCEPT !.op = "DropMacros", !.dropped = {"macro"} \X ids]
drop_table_ids(ids) == [NoRequest EXCEPT !.op = "DropTables", !.dropped = {"table"} \X ids]

\* The metadata intents of an attempt, gathered over its operations.
commit_attempt_intent(created, dropped, renames, comments) ==
    [NoRequest EXCEPT !.op = "CommitAttempt", !.created = created, !.dropped = dropped,
                      !.renames = renames, !.comments = comments]

-----------------------------------------------------------------------------
(* Reading. *)

is_visible_at(r, order) == r.begin <= order /\ (r.end = Open \/ order < r.end)

\* All rows of a kind are read, once for each order, and filtered.
Listed(kind, order) == {r \in rows : r.kind = kind /\ is_visible_at(r, order)}
list_schemas_at(order) == Listed("schema", order)
list_tables_at(order) == Listed("table", order)
list_views_at(order) == Listed("view", order)
list_macros_at(order) == Listed("macro", order)
ListAll(order) ==
    list_schemas_at(order) \union list_tables_at(order)
        \union list_views_at(order) \union list_macros_at(order)

\* The newest row of an object up to an order, if it is visible there.
Loaded(object, order) ==
    LET before == {r \in rows : Object(r) = object /\ r.begin <= order}
        newest == {r \in before : \A s \in before : s.begin <= r.begin}
    IN  {r \in newest : is_visible_at(r, order)}
load_schema_at(id, order) == Loaded(<<"schema", id>>, order)
load_table_at(id, order) == Loaded(<<"table", id>>, order)
load_view_at(id, order) == Loaded(<<"view", id>>, order)
load_macro_at(id, order) == Loaded(<<"macro", id>>, order)
load_at(object, order) ==
    CASE object[1] = "schema" -> load_schema_at(object[2], order)
      [] object[1] = "table" -> load_table_at(object[2], order)
      [] object[1] = "view" -> load_view_at(object[2], order)
      [] object[1] = "macro" -> load_macro_at(object[2], order)

Objects(set, kind) == {r \in set : r.kind = kind}
Ids(set) == {r.id : r \in set}
SameName(a, b) == a.schema = b.schema /\ a.name = b.name

\* reject_macro_create_conflicts: a name may stand for one macro of each type.
reject_macro_create_conflicts(now, created) ==
    \A m \in created : \A n \in (Objects(now, "macro") \union created) \ {m} :
        m.id # n.id /\ ~(SameName(m, n) /\ m.detail = n.detail)
=============================================================================
