----------------------------- MODULE MC_Namespace -----------------------------
(* Two clients that create, rename and drop schemas, tables, views and macros. *)
EXTENDS Namespace, TLC

\* Schema 1 with table 2 and view 3; macro 4 in the main schema.
MCRows ==
    {[r EXCEPT !.begin = 1] :
        r \in {SchemaRow(1, Main, "a"), TableRow(2, 1, "a"), ViewRow(3, 1, "b"),
               MacroRow(4, Main, "a", "scalar")}}

\* What a client composes from a catalog in which every schema is there.
MCRequests(all, id) ==
    LET now == {r \in all : r.schema \in {Main} \union Ids(Objects(all, "schema"))}
        schemas == Ids(Objects(now, "schema"))
        views == Objects(now, "view")
        Inside(s) == {r \in now : r.schema = s}
        Free(s, name) == \A r \in Inside(s) : r.kind \in {"table", "view"} => r.name # name
        open == {s \in schemas : Free(s, "c")}
        newSchemas == {r \in {SchemaRow(id, Main, "c")} :
                          \A s \in Objects(now, "schema") : s.name # "c"}
        created ==
            {{r} : r \in newSchemas}
            \union {{TableRow(id, s, "c")} : s \in open}
            \union {{ViewRow(id, s, "c")} : s \in open}
            \* a schema in a schema, with a table
            \union {{SchemaRow(id, s, "c"), TableRow(id + 1, id, "a")} : s \in schemas}
        attempts ==
            {commit_attempt_intent(set, {}, {}, {}) : set \in created}
            \* DROP SCHEMA ... CASCADE
            \union {commit_attempt_intent({}, {<<"schema", s>>} \union {Object(r) : r \in Inside(s)}, {}, {}) :
                        s \in {s \in schemas : Objects(Inside(s), "macro") = {}}}
            \* CREATE OR REPLACE VIEW
            \union {commit_attempt_intent({ViewRow(id, v.schema, v.name)}, {Object(v)}, {}, {}) : v \in views}
            \union {commit_attempt_intent({}, {}, {<<v.id, "c">>}, {<<v.id, "said">>}) :
                        v \in {v \in views : v.schema \in open}}
            \union {commit_attempt_intent({}, {}, {}, {<<v.id, "said">>}) : v \in views}
        direct ==
            {create_schemas_payload_values({r}) : r \in newSchemas}
            \union {drop_schemas_payload_values({s}) : s \in {s \in schemas : Inside(s) = {}}}
            \* two views in one call
            \union {create_view_rows({ViewRow(id, s, "c"), ViewRow(id + 1, s, "d")}) :
                        s \in {s \in open : Free(s, "d")}}
            \union {view_renames({<<v.id, "c">>}) : v \in {v \in views : v.schema \in open}}
            \union {drop_view_ids({v.id}) : v \in views}
            \union {view_comment_change(v.id, "noted") : v \in views}
            \union {create_macro_rows({MacroRow(id, s, "c", "scalar")}) : s \in schemas}
            \union {macro_ids({m.id}) : m \in Objects(now, "macro")}
            \union {drop_table_ids({t.id}) : t \in Objects(now, "table")}
    IN  attempts \union direct

Symmetry == Permutations(Clients)
=============================================================================
