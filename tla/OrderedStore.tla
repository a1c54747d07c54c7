---------------------------- MODULE OrderedStore ----------------------------
(***************************************************************************)
(* The store on an ordered key-value map that the tests run on: every      *)
(* operation reads the latest snapshot, checks and commits one batch, and  *)
(* nothing comes between.  Views are created one at a time.                *)
(***************************************************************************)
EXTENDS ObjectRows

CONSTANTS
    Requests(_, _),
    InitialRows,
    MaxOrder

\* One batch at the next order: old rows end, new ones begin.
CommitBatch(replaced, created) ==
    LET order == latest + 1
        new == created \union UNION {x.new : x \in replaced}
    IN  /\ latest' = order
        /\ rows' = {r \in rows : \A x \in replaced : Key(r) # Key(x.old)}
                   \union {[x.old EXCEPT !.end = order] : x \in replaced}
                   \union {[r EXCEPT !.begin = order] : r \in new}
        /\ watermark' = Max({watermark} \union Ids(new))

Ended(set) == {[old |-> r, new |-> {}] : r \in set}
Found(ids, Load(_, _)) == UNION {Load(id, latest) : id \in ids}

commit_create_schema_rows(schemas) == CommitBatch({}, schemas)

commit_drop_schema_rows(ids) ==
    /\ \A id \in ids : load_schema_at(id, latest) # {}
    /\ CommitBatch(Ended(Found(ids, load_schema_at)), {})

\* A view is compared with views and not with tables.
reject_create_view_conflict(view) ==
    \A v \in list_views_at(latest) : v.id # view.id /\ ~SameName(v, view)

commit_create_view_row(view) ==
    /\ reject_create_view_conflict(view)
    /\ CommitBatch({}, {view})

\* Bug variant: the row before the change stays open.
CommentBesideOld(id, text) ==
    \E v \in load_view_at(id, latest) : CommitBatch({}, {[v EXCEPT !.detail = text]})

commit_change_view_comment(id, text) ==
    \E v \in load_view_at(id, latest) :
        CommitBatch({[old |-> v, new |-> {[v EXCEPT !.detail = text]}]}, {})

\* The names that are there and those given by the same call are taken.
reject_rename_conflict(v, name, others) ==
    /\ \A w \in list_views_at(latest) : w.id # v.id => ~SameName(w, [v EXCEPT !.name = name])
    /\ \A x \in others : x[2] = name =>
          \A w \in load_view_at(x[1], latest) : w.schema # v.schema

commit_rename_views(renames) ==
    /\ \A x, y \in renames : x[1] = y[1] => x = y
    /\ \A x \in renames : \E v \in list_views_at(latest) :
          v.id = x[1] /\ reject_rename_conflict(v, x[2], renames \ {x})
    /\ CommitBatch(UNION {{[old |-> v, new |-> {[v EXCEPT !.name = x[2]]}] :
                               v \in {v \in list_views_at(latest) : v.id = x[1]}} :
                               x \in renames}, {})

commit_drop_views(ids) ==
    /\ \A id \in ids : load_view_at(id, latest) # {}
    /\ CommitBatch(Ended(Found(ids, load_view_at)), {})

commit_create_macro_rows(macros) ==
    /\ reject_macro_create_conflicts(list_macros_at(latest), macros)
    /\ CommitBatch({}, macros)

commit_drop_macros(ids) ==
    /\ \A id \in ids : load_macro_at(id, latest) # {}
    /\ CommitBatch(Ended(Found(ids, load_macro_at)), {})

commit_drop_tables_at(ids) ==
    /\ \A id \in ids : load_table_at(id, latest) # {}
    /\ CommitBatch(Ended(Found(ids, load_table_at)), {})

Commit(r) ==
    \/ r.op = "CreateSchemas" /\ commit_create_schema_rows(r.created)
    \/ r.op = "DropSchemas" /\ commit_drop_schema_rows({d[2] : d \in r.dropped})
    \/ r.op = "CreateViews" /\ \E v \in r.created : commit_create_view_row(v)
    \/ r.op = "ChangeViewComment" /\ \E x \in r.comments : commit_change_view_comment(x[1], x[2])
    \/ r.op = "RenameViews" /\ commit_rename_views(r.renames)
    \/ r.op = "DropViews" /\ commit_drop_views({d[2] : d \in r.dropped})
    \/ r.op = "CreateMacros" /\ commit_create_macro_rows(r.created)
    \/ r.op = "DropMacros" /\ commit_drop_macros({d[2] : d \in r.dropped})
    \/ r.op = "DropTables" /\ commit_drop_tables_at({d[2] : d \in r.dropped})

Init == rows = InitialRows /\ latest = 1 /\ watermark = Max(Ids(InitialRows))

Next ==
    /\ latest < MaxOrder
    /\ \E r \in Requests(ListAll(latest), watermark + 1) : Commit(r)

Spec == Init /\ [][Next]_<<rows, latest, watermark>>
=============================================================================
