------------------------------ MODULE Namespace ------------------------------
(***************************************************************************)
(* Schemas, tables, views and macros: who may create, rename and drop what *)
(* while others do the same.                                               *)
(*                                                                         *)
(* An object is a chain of rows with a validity window.  Every operation   *)
(* reads the latest snapshot, checks some of the rules of a namespace      *)
(* there, and commits with writes that conflict with nothing but the       *)
(* schema version counter, which its transaction reads only after the      *)
(* checks.  What an operation does not check is left to the client that    *)
(* composed the request from an older snapshot.  gaps records, for every   *)
(* object a commit wrote, which of its windows another commit fell into.   *)
(***************************************************************************)
EXTENDS ObjectRows

CONSTANTS
    Clients,
    Requests(_, _),     \* the requests a client may compose from what it sees
    InitialRows,
    MaxOrder            \* bound: orders of commits

VARIABLES
    pc,         \* where the request of a client is
    request,    \* what it asks for
    plan,       \* what its handler read and is going to write
    missed,     \* which of its windows a commit of others fell into
    gaps        \* <<kind, id, window>> of the commits that missed something

vars == <<rows, latest, watermark, pc, request, plan, missed, gaps>>

Windows == {"sent", "checked", "prepared"}
NoPlan == [created |-> {}, replaced |-> {}]

-----------------------------------------------------------------------------
(* The checks of commit_metadata_intents_with_current_kv. *)

\* reject_invalid_schema_parents: every chain of parents ends in the main schema.
ValidParents(schemas) ==
    LET Parents(ids) == {r.schema : r \in {s \in schemas : s.id \in ids}}
        Climb[n \in 0 .. Cardinality(schemas)] ==
            IF n = 0 THEN Ids(schemas) ELSE Parents(Climb[n - 1])
    IN  /\ Parents(Ids(schemas)) \subseteq Ids(schemas) \union {Main}
        /\ Climb[Cardinality(schemas)] \subseteq {Main}

reject_schema_create_conflicts(now, created, dropped) ==
    LET kept == {r \in Objects(now, "schema") : Object(r) \notin dropped}
    IN  created # {} =>
          /\ ValidParents(kept \union created)
          /\ \A r \in created : \A s \in (kept \union created) \ {r} :
                r.id # s.id /\ ~SameName(r, s)

reject_table_target_schema_conflicts(now, created, dropped) ==
    LET known == Ids({r \in Objects(now, "schema") : Object(r) \notin dropped})
                    \union Ids(Objects(created, "schema"))
    IN  \A t \in Objects(created, "table") : t.schema \in known \union {Main}

\* Bug variant: the tables of a dropped schema are left to the client.
ChildSchemasOnly(now, dropped) ==
    \A r \in Objects(now, "schema") :
        <<"schema", r.schema>> \in dropped => Object(r) \in dropped

\* Child schemas and tables are looked for, views and macros are not.
reject_schema_drop_conflicts(now, dropped) ==
    \A r \in Objects(now, "schema") \union Objects(now, "table") :
        <<"schema", r.schema>> \in dropped => Object(r) \in dropped

\* reject_duplicate_table_names
DistinctTableNames(now, created, dropped) ==
    LET tables == {r \in Objects(now, "table") : Object(r) \notin dropped}
                      \union Objects(created, "table")
    IN  \A a, b \in tables : a # b => ~SameName(a, b)

\* reject_view_comment_conflicts: the view must be the one the client read.
reject_view_comment_conflicts(comments, base) ==
    \A c \in comments :
        LET read == load_view_at(c[1], base)
            current == load_view_at(c[1], latest)
        IN  read # {} => current # {} /\ \A a \in read, b \in current : a.begin = b.begin

\* persisted_table_id_for_create: a table whose id is taken gets the next one.
Persisted(now, r) ==
    LET ids == Ids(Objects(now, "table"))
    IN  IF r.kind = "table" /\ r.id \in ids THEN [r EXCEPT !.id = Max(ids) + 1] ELSE r

-----------------------------------------------------------------------------
(* prepare_view_changes *)

Renamed(r, renames) ==
    LET to == {x[2] : x \in {x \in renames : x[1] = r.id}}
    IN  IF to = {} THEN r ELSE [r EXCEPT !.name = CHOOSE n \in to : TRUE]
Commented(r, comments) ==
    LET to == {x[2] : x \in {x \in comments : x[1] = r.id}}
    IN  IF to = {} THEN r ELSE [r EXCEPT !.detail = CHOOSE d \in to : TRUE]

\* Bug variant: names are compared with the views of the request only.
CreatedDiffer(now, created, dropped) ==
    \A v \in created : \A w \in created \ {v} : v.id # w.id /\ ~SameName(v, w)

reject_created_view_conflicts(now, created, dropped) ==
    \A v \in created :
        /\ \A w \in created \ {v} : v.id # w.id /\ ~SameName(v, w)
        /\ \A w \in Objects(now, "view") :
              Object(w) \notin dropped => v.id # w.id /\ ~SameName(v, w)
        /\ \A t \in Objects(now, "table") : ~SameName(v, t)

\* A view cannot take the name of a view that is there, also if the same request
\* renames that one away.
reject_view_name_conflict(now, next, created, others, dropped) ==
    /\ \A w \in Objects(now, "view") :
          w.id # next.id /\ Object(w) \notin dropped => ~SameName(next, w)
    /\ \A w \in (others \ {next}) \union created : ~SameName(next, w)

\* Renames and comments of a view the request creates are folded into the new row.
\* A view that is created and dropped is not created; its drop then finds no view.
prepare_view_changes(now, r) ==
    LET views == Objects(now, "view")
        own == Objects(r.created, "view")
        dropped == {d \in r.dropped : d[1] = "view"}
        created == {Commented(Renamed(v, r.renames), r.comments) :
                      v \in {v \in own : Object(v) \notin dropped \/ v.id \in Ids(views)}}
        renames == {x \in r.renames : x[1] \notin Ids(own)}
        comments == {x \in r.comments : x[1] \notin Ids(own) /\ <<"view", x[1]>> \notin dropped}
        touched == {x[1] : x \in renames \union comments}
        After(v) == Commented(Renamed(v, renames), comments)
        nexts == {After(v) : v \in {v \in views : v.id \in {x[1] : x \in renames}}}
    IN  [ok |->
            /\ reject_created_view_conflicts(now, created, dropped)
            /\ \A d \in dropped : d[2] \in Ids(views)
            /\ touched \subseteq Ids(views)
            /\ \A x \in renames : <<"view", x[1]>> \notin dropped
            /\ \A n \in nexts : reject_view_name_conflict(now, n, created, nexts, dropped),
         created |-> created,
         replaced |->
            {[old |-> v, new |-> {}] : v \in {v \in views : Object(v) \in dropped}}
            \union {[old |-> v, new |-> {After(v)}] : v \in {v \in views : v.id \in touched}}]

-----------------------------------------------------------------------------
(* The direct operations. *)

\* reject_current_view_create_conflicts: the views of a request are not compared
\* with one another.
reject_current_view_create_conflicts(now, created) ==
    \A v \in created :
        /\ v.id \notin Ids(Objects(now, "view"))
        /\ \A w \in Objects(now, "view") \union Objects(now, "table") : ~SameName(v, w)

\* What the handler of an operation finds at the latest snapshot: whether it goes on,
\* and what it is going to write.
Creating(ok, created) == [ok |-> ok, created |-> created, replaced |-> {}]
Dropping(dropped) ==
    [ok |-> \A d \in dropped : load_at(d, latest) # {},
     created |-> {},
     replaced |-> {[old |-> r, new |-> {}] : r \in UNION {load_at(d, latest) : d \in dropped}}]

\* reject_stale_object_commit: no check is made when the request names no snapshot.
NotStale(snapshot) == \A s \in snapshot : latest <= s

create_schemas_versionstamped(now, r) == Creating(TRUE, r.created)
drop_schemas_versionstamped_at(now, r) == Dropping(r.dropped)
create_views(now, r) == Creating(reject_current_view_create_conflicts(now, r.created), r.created)
rename_views_versionstamped(now, r) ==
    LET Old(x) == CHOOSE v \in Objects(now, "view") : v.id = x[1]
        known == \A x \in r.renames : x[1] \in Ids(Objects(now, "view"))
        nexts == IF known THEN {[Old(x) EXCEPT !.name = x[2]] : x \in r.renames} ELSE {}
    IN  [ok |-> known /\ \A n \in nexts : reject_view_name_conflict(now, n, {}, nexts, {}),
         created |-> {},
         replaced |-> {[old |-> Old(x), new |-> {[Old(x) EXCEPT !.name = x[2]]}] :
                         x \in IF known THEN r.renames ELSE {}}]
drop_views_versionstamped(now, r) == Dropping(r.dropped)
change_view_comment_versionstamped(now, r) ==
    LET Old(x) == load_view_at(x[1], latest)
    IN  [ok |-> NotStale(r.snapshot) /\ \A x \in r.comments : Old(x) # {},
         created |-> {},
         replaced |-> UNION {{[old |-> v, new |-> {[v EXCEPT !.detail = x[2]]}] : v \in Old(x)} :
                               x \in r.comments}]
create_macros_versionstamped(now, r) ==
    Creating(reject_macro_create_conflicts(now, r.created), r.created)
drop_macros_versionstamped(now, r) == Dropping(r.dropped)
drop_tables_versionstamped_at(now, r) == Dropping(r.dropped)

\* commit_metadata_changes_versionstamped, before its transaction: the rows that the
\* attempt drops and the views are looked up at the latest snapshot of this moment.
prepare_metadata_changes(now, r, created) ==
    LET drops == Dropping({d \in r.dropped : d[1] # "view"})
        views == prepare_view_changes(now, r)
    IN  [ok |-> drops.ok /\ views.ok,
         created |-> views.created \union {x \in created : x.kind # "view"},
         replaced |-> drops.replaced \union views.replaced]

Prepared(now, r, created) ==
    CASE r.op = "CreateSchemas" -> create_schemas_versionstamped(now, r)
      [] r.op = "DropSchemas" -> drop_schemas_versionstamped_at(now, r)
      [] r.op = "CreateViews" -> create_views(now, r)
      [] r.op = "RenameViews" -> rename_views_versionstamped(now, r)
      [] r.op = "DropViews" -> drop_views_versionstamped(now, r)
      [] r.op = "ChangeViewComment" -> change_view_comment_versionstamped(now, r)
      [] r.op = "CreateMacros" -> create_macros_versionstamped(now, r)
      [] r.op = "DropMacros" -> drop_macros_versionstamped(now, r)
      [] r.op = "DropTables" -> drop_tables_versionstamped_at(now, r)
      [] r.op = "CommitAttempt" -> prepare_metadata_changes(now, r, created)

-----------------------------------------------------------------------------
Init ==
    /\ rows = InitialRows
    /\ latest = 1
    /\ watermark = Max(Ids(InitialRows))
    /\ pc = [c \in Clients |-> "idle"]
    /\ request = [c \in Clients |-> NoRequest]
    /\ plan = [c \in Clients |-> NoPlan]
    /\ missed = [c \in Clients |-> {}]
    /\ gaps = {}

catalogVars == <<rows, latest, watermark, gaps>>

\* A client composes a request from the snapshot it reads.  The ids are the next
\* ones after the watermark of that snapshot.  A direct comment change may name the
\* snapshot read or else the one proposed.
Send(c) ==
    /\ pc[c] = "idle"
    /\ latest < MaxOrder
    /\ \E r \in Requests(ListAll(latest), watermark + 1) :
        \E named \in {{}} \union IF r.op = "ChangeViewComment" THEN {{latest}, {latest + 1}} ELSE {} :
          request' = [request EXCEPT ![c] = [r EXCEPT !.base = latest, !.snapshot = named]]
    /\ pc' = [pc EXCEPT ![c] = "sent"]
    /\ UNCHANGED <<catalogVars, plan, missed>>

Ends(c) ==
    /\ pc' = [pc EXCEPT ![c] = "idle"]
    /\ request' = [request EXCEPT ![c] = NoRequest]
    /\ plan' = [plan EXCEPT ![c] = NoPlan]

\* commit_metadata_intents_with_current_kv: the tables of the attempt are put
\* together and the schemas and tables are checked.
Check(c) ==
    LET r == request[c]
        now == ListAll(latest)
        created == {Persisted(now, x) : x \in r.created}
    IN  /\ pc[c] = "sent" /\ r.op = "CommitAttempt"
        /\ IF /\ DistinctTableNames(now, created, {})
              /\ reject_schema_create_conflicts(now, Objects(created, "schema"), r.dropped)
              /\ reject_table_target_schema_conflicts(now, created, r.dropped)
              /\ reject_schema_drop_conflicts(now, r.dropped)
              /\ reject_view_comment_conflicts(r.comments, r.base)
           THEN /\ pc' = [pc EXCEPT ![c] = "checked"]
                /\ plan' = [plan EXCEPT ![c].created = created]
                /\ UNCHANGED <<request, missed>>
           ELSE Ends(c) /\ missed' = [missed EXCEPT ![c] = {}]
        /\ UNCHANGED catalogVars

Prepare(c) ==
    LET r == request[c]
        prepared == Prepared(ListAll(latest), r, plan[c].created)
    IN  /\ pc[c] = IF r.op = "CommitAttempt" THEN "checked" ELSE "sent"
        /\ IF prepared.ok
           THEN /\ pc' = [pc EXCEPT ![c] = "prepared"]
                /\ plan' = [plan EXCEPT ![c] = [created |-> prepared.created,
                                                replaced |-> prepared.replaced]]
                /\ UNCHANGED <<request, missed>>
           ELSE Ends(c) /\ missed' = [missed EXCEPT ![c] = {}]
        /\ UNCHANGED catalogVars

\* commit_view_replacements, stage_view_changes, and the drops of stage_schemas: old
\* rows are written again with an end, without looking at what is stored now.
StageEnds(replaced, order) ==
    {r \in rows : \A x \in replaced : Key(r) # Key(x.old)}
    \union {[x.old EXCEPT !.end = order] : x \in replaced}

Stage(replaced, created, order) ==
    StageEnds(replaced, order)
    \union {[r EXCEPT !.begin = order] : r \in created \union UNION {x.new : x \in replaced}}

\* The windows of a request that the commits of others fell into.  The direct
\* operations on schemas check nothing, so what they missed since they were
\* composed they missed altogether.
Missed(c) ==
    IF request[c].op \in {"CreateSchemas", "DropSchemas"} /\ missed[c] # {} THEN Windows
    ELSE missed[c]

WindowsOf(step) ==
    CASE step = "idle" -> {}
      [] step = "sent" -> {"sent"}
      [] step = "checked" -> {"sent", "checked"}
      [] step = "prepared" -> Windows

\* The transaction reads and writes the schema version counter, so from its first
\* read on no other of these commits can come between.  Views of a direct request
\* are created one by one, each with a transaction of its own.
Commit(c) ==
    LET order == latest + 1
        p == plan[c]
        created == IF request[c].op = "CreateViews"
                   THEN {v \in p.created : v.id = Min(Ids(p.created))} ELSE p.created
        rest == p.created \ created
        written == created \union {x.old : x \in p.replaced}
        kept == created \union UNION {x.new : x \in p.replaced}
    IN  /\ pc[c] = "prepared" /\ order <= MaxOrder
        /\ rows' = Stage(p.replaced, created, order)
        /\ latest' = order
        /\ watermark' = Max({watermark} \union Ids(kept))
        /\ gaps' = gaps \union {<<r.kind, r.id, w>> : r \in written, w \in Missed(c)}
        /\ IF rest = {} THEN Ends(c)
           ELSE plan' = [plan EXCEPT ![c].created = rest] /\ UNCHANGED <<pc, request>>
        /\ missed' = [d \in Clients |->
                        IF d = c THEN IF rest = {} THEN {} ELSE missed[d]
                        ELSE missed[d] \union WindowsOf(pc[d])]

\* A failed transaction, or a client that goes away.
Fail(c) ==
    /\ pc[c] = "prepared"
    /\ Ends(c)
    /\ missed' = [missed EXCEPT ![c] = {}]
    /\ UNCHANGED catalogVars

Next ==
    \E c \in Clients : Send(c) \/ Check(c) \/ Prepare(c) \/ Commit(c) \/ Fail(c)

Spec == Init /\ [][Next]_vars

-----------------------------------------------------------------------------
Missing(r, window) == <<r.kind, r.id, window>> \in gaps

\* Which window two objects of one name must have slipped through: tables and
\* schemas are compared when an attempt is checked, views with views and tables when
\* they are prepared, and a table, or a view that is renamed, with the other kind
\* never.
NameWindow(a, b) ==
    CASE {a.kind, b.kind} \in {{"schema"}, {"table"}} -> "checked"
      [] {a.kind, b.kind} \in {{"view"}, {"macro"}} -> "prepared"
      [] OTHER -> "sent"

\* Two objects of a schema have one name only if a commit of others fell into the
\* window between the check for that name and the commit of one of the two.  Tables
\* and views share their names, schemas have theirs, and macros theirs for each type.
NamesAreUnique ==
    \A order \in 1 .. latest : \A a, b \in ListAll(order) :
        (/\ Object(a) # Object(b) /\ SameName(a, b)
         /\ \/ {a.kind, b.kind} \subseteq {"table", "view"}
            \/ a.kind = "schema" /\ b.kind = "schema"
            \/ a.kind = "macro" /\ b.kind = "macro" /\ a.detail = b.detail) =>
                \/ Missing(a, NameWindow(a, b))
                \/ Missing(b, NameWindow(a, b))

\* An object whose schema is gone: only if the object, or the drop of the schema,
\* slipped through.  For tables and child schemas that takes a commit after the
\* checks of the attempt, for views and macros one after the request was composed.
ObjectsHaveSchema ==
    \A order \in 1 .. latest : \A r \in ListAll(order) :
        (r.schema # Main /\ r.schema \notin Ids(list_schemas_at(order))) =>
            LET window == IF r.kind \in {"schema", "table"} THEN "checked" ELSE "sent"
            IN  Missing(r, window) \/ <<"schema", r.schema, window>> \in gaps

\* The store of the tests: every operation in one step.
Store == INSTANCE OrderedStore
    WITH rows <- rows, latest <- latest, watermark <- watermark,
         Requests <- Requests, InitialRows <- InitialRows, MaxOrder <- MaxOrder

\* A direct operation that met no other commit does in one transaction, or one for
\* each view, what the store of the tests does for the same request: what the tests
\* show of the ordered store then holds of FoundationDB.
AloneAsInOrderedStore ==
    [][\A c \in Clients :
          (/\ pc[c] = "prepared" /\ latest' # latest /\ plan'[c] # plan[c]
           /\ missed[c] = {} /\ request[c].op # "CommitAttempt") =>
              Store!Commit(request[c])]_vars
=============================================================================
