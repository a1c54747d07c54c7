------------------------- MODULE SchemaChangeProofs -------------------------
(***************************************************************************)
(* Proofs about the direct schema changes, for any number of clients, any  *)
(* tables and any requests: what a request replaces is what its client     *)
(* read, and snapshots with one schema version show one schema.            *)
(***************************************************************************)
EXTENDS SchemaChange, TLAPS

LogRow == [sequence : Nat, version : Nat]

RowFields == {"table", "begin", "end", "name", "columns", "partition", "sort", "comment"}
IsRow(r) == r = [f \in RowFields |-> r[f]]

LocalFields ==
    {"base", "through", "parts", "sequence", "order", "previous", "next", "version",
     "conflicted", "late", "alone", "unknown"}
IsLocal(l) ==
    /\ l = [f \in LocalFields |-> l[f]]
    /\ l.sequence \in Nat /\ l.version \in Nat

Steps ==
    {"idle", "base", "through", "shape", "check", "latest", "row", "open", "commit",
     "reload", "done", "failed"}

\* The log, the calls and their locals stay in their types.
Typed ==
    /\ log \in Seq(LogRow) /\ Len(log) >= 1
    /\ pc \in [Clients -> Steps]
    /\ request = [c \in Clients |-> request[c]]
    /\ local = [c \in Clients |-> local[c]]
    /\ \A c \in Clients : request[c].commit \in Nat
    /\ \A c \in Clients : IsLocal(local[c])

-----------------------------------------------------------------------------
(* The rows of a table follow one another without gap or overlap. *)

\* The row is the one of its table at an order.
Alive(r, o) == r.begin <= o /\ (r.end = None \/ o < r.end)

Windows ==
    /\ \A r \in rows :
          /\ IsRow(r) /\ r.begin \in 1 .. Latest
          /\ r.end = None \/ r.end \in r.begin + 1 .. Latest
    /\ \A r, s \in rows : r.table = s.table /\ r # s =>
          \/ r.end # None /\ r.end <= s.begin
          \/ s.end # None /\ s.end <= r.begin
    /\ \A r \in rows : \A o \in 1 .. Latest : \E s \in rows : s.table = r.table /\ Alive(s, o)
    /\ current = {r \in rows : r.end = None}

\* The tables of two orders look the same to the user.
SameTables(o, p) ==
    /\ \A r \in rows : Alive(r, o) => \E s \in rows : Alive(s, p) /\ Visible(s) = Visible(r)
    /\ \A r \in rows : Alive(r, p) => \E s \in rows : Alive(s, o) /\ Visible(s) = Visible(r)

VersionsTellSchemas ==
    \A o \in 1 .. Latest - 1 : log[o].version = log[o + 1].version => SameTables(o, o + 1)

-----------------------------------------------------------------------------
(* What a call has found out, by the step it is at. *)

\* reject_table_metadata_conflicts_since_base found nothing, in terms of the windows.
NoConflict(t, base, through) ==
    \A b \in rows :
        b.table = t /\ Alive(b, base) /\ b.end # None /\ b.end <= through =>
            \E r \in rows : r.table = t /\ Alive(r, through) /\ Visible(r) = Visible(b)

\* A replacement has one next row for each row it ends, and the other way round.
Replacement(previous, next) ==
    /\ \A r \in previous : IsRow(r)
    /\ \A r \in next : IsRow(r)
    /\ \A r, s \in previous : r.table = s.table => r = s
    /\ \A r, s \in next : r.table = s.table => r = s
    /\ \A r \in previous : \E s \in next : s.table = r.table
    /\ \A s \in next : \E r \in previous : r.table = s.table

\* A row the call has read was the one of its table when it looked for conflicts, or began
\* later.
ReadRow(r, through) ==
    r.begin <= through =>
        \E s \in rows : s.table = r.table /\ Alive(s, through) /\ Visible(s) = Visible(r)

\* The facts about the call of a client that is at a step with its locals.
Facts(c, step, l) ==
    /\ step # "idle" => request[c].read \in 1 .. Latest
    /\ step \notin {"idle", "base", "done", "failed"} =>
          l.base \in 1 .. Latest /\ (KnowsItsBase(c) => l.base = request[c].read)
    /\ step \notin {"idle", "base", "through", "done", "failed"} =>
          l.through \in l.base .. Latest
    /\ step \in {"latest", "row", "open", "commit"} /\ Head(l.parts).checked =>
          \A t \in Head(l.parts).tables : NoConflict(t, l.base, l.through)
    /\ step \in {"row", "open", "commit"} => l.order \in l.through .. Latest
    /\ step \in {"open", "commit"} =>
          /\ Replacement(l.previous, l.next)
          /\ \A r \in l.previous : r.table \in Head(l.parts).tables /\ ReadRow(r, l.through)
    /\ step = "commit" /\ ~l.conflicted => l.version = log[Latest].version

\* The inductive invariant: as long as no commit was computed from a row that was replaced
\* in the meantime, the windows are whole and what the calls found is so.
IInv ==
    /\ Typed
    /\ "stale row" \notin met =>
          Windows /\ VersionsTellSchemas /\ \A c \in Clients : Facts(c, pc[c], local[c])

-----------------------------------------------------------------------------
(* Rows and what the user sees of them. *)

Ended(r, o) == [r EXCEPT !.end = o]
Begun(r, o) == [r EXCEPT !.begin = o, !.end = None]

\* A row with another end is the same row to the user.
LEMMA EndedRow ==
    ASSUME NEW r, IsRow(r), NEW o
    PROVE  /\ IsRow(Ended(r, o))
           /\ Ended(r, o).table = r.table /\ Ended(r, o).begin = r.begin /\ Ended(r, o).end = o
           /\ Visible(Ended(r, o)) = Visible(r)
  BY Zenon DEF IsRow, RowFields, Visible, Ended

\* So is a row that begins later and has not ended.
LEMMA BegunRow ==
    ASSUME NEW r, IsRow(r), NEW o
    PROVE  /\ IsRow(Begun(r, o))
           /\ Begun(r, o).table = r.table /\ Begun(r, o).begin = o /\ Begun(r, o).end = None
           /\ Visible(Begun(r, o)) = Visible(r)
  BY Zenon DEF IsRow, RowFields, Visible, Begun

\* Rows that look the same are rows of one table.
LEMMA VisibleTable ==
    ASSUME NEW r, NEW s, IsRow(r), IsRow(s), Visible(r) = Visible(s)
    PROVE  r.table = s.table
  BY Zenon DEF IsRow, RowFields, Visible

\* A row with a new value in one of the fields the user sees.
LEMMA ChangedRow ==
    ASSUME NEW r, IsRow(r), NEW x
    PROVE  /\ IsRow([r EXCEPT !.columns = x]) /\ [r EXCEPT !.columns = x].table = r.table
           /\ IsRow([r EXCEPT !.comment = x]) /\ [r EXCEPT !.comment = x].table = r.table
           /\ IsRow([r EXCEPT !.name = x]) /\ [r EXCEPT !.name = x].table = r.table
           /\ IsRow([r EXCEPT !.partition = x]) /\ [r EXCEPT !.partition = x].table = r.table
           /\ IsRow([r EXCEPT !.sort = x]) /\ [r EXCEPT !.sort = x].table = r.table
  BY Zenon DEF IsRow, RowFields

\* The rows of a set, each changed but for its table, are a replacement of the set.
LEMMA ImageReplaces ==
    ASSUME NEW previous, NEW g,
           \A r \in previous : IsRow(r) /\ IsRow(g[r]) /\ g[r].table = r.table,
           \A r, s \in previous : r.table = s.table => r = s
    PROVE  Replacement(previous, {g[r] : r \in previous})
  BY DEF Replacement

LEMMA ColumnRowsReplace ==
    ASSUME NEW part, NEW previous, NEW n \in ColumnRows(part, previous),
           \A r \in previous : IsRow(r),
           \A r, s \in previous : r.table = s.table => r = s
    PROVE  Replacement(previous, n)
  <1>1. PICK columns : n = {[r EXCEPT !.columns = columns] : r \in previous}
    BY Zenon DEF ColumnRows
  <1> DEFINE g == [r \in previous |-> [r EXCEPT !.columns = columns]]
  <1>2. n = {g[r] : r \in previous}
    BY <1>1, Zenon
  <1>3. \A r \in previous : IsRow(g[r]) /\ g[r].table = r.table
    BY ChangedRow, Zenon
  <1> HIDE DEF g
  <1> QED BY <1>2, <1>3, ImageReplaces

\* A replacement of a replacement is one of the first rows.
LEMMA CommentsReplace ==
    ASSUME NEW part, NEW previous, NEW n \in commit_change_table_comments(part, previous),
           \A r \in previous : IsRow(r),
           \A r, s \in previous : r.table = s.table => r = s
    PROVE  Replacement(previous, n)
  <1>1. PICK m \in ColumnRows(part, previous) :
            n = {[r EXCEPT !.comment = part.comment] : r \in m}
    BY Zenon DEF commit_change_table_comments
  <1>2. Replacement(previous, m)
    BY ColumnRowsReplace, Zenon
  <1> DEFINE g == [r \in m |-> [r EXCEPT !.comment = part.comment]]
  <1>3. n = {g[r] : r \in m}
    BY <1>1, Zenon
  <1>4. \A r \in m : IsRow(g[r]) /\ g[r].table = r.table
    BY <1>2, ChangedRow, Zenon DEF Replacement
  <1> HIDE DEF g
  <1>5. Replacement(m, n)
    <2>1. /\ \A r \in m : IsRow(r)
          /\ \A r, s \in m : r.table = s.table => r = s
      BY <1>2, Zenon DEF Replacement
    <2> QED BY <2>1, <1>3, <1>4, ImageReplaces
  <1> QED BY <1>2, <1>5 DEF Replacement

LEMMA RenamesReplace ==
    ASSUME NEW part, NEW previous, NEW tables,
           NEW n \in commit_rename_tables(part, previous, tables),
           \A r \in previous : IsRow(r),
           \A r, s \in previous : r.table = s.table => r = s
    PROVE  Replacement(previous, n)
  <1> DEFINE i(t) == CHOOSE j \in DOMAIN part.changes : part.changes[j].id = t
             g == [r \in previous |-> [r EXCEPT !.name = part.changes[i(r.table)].name]]
  <1>1. n = {g[r] : r \in previous}
    BY Zenon DEF commit_rename_tables, Error
  <1>2. \A r \in previous : IsRow(g[r]) /\ g[r].table = r.table
    BY ChangedRow, Zenon
  <1> HIDE DEF g
  <1> QED BY <1>1, <1>2, ImageReplaces

LEMMA KeysReplace ==
    ASSUME NEW part, NEW previous, NEW n,
           n \in commit_change_table_partition(part, previous)
             \/ n \in commit_change_table_sort(part, previous),
           \A r \in previous : IsRow(r),
           \A r, s \in previous : r.table = s.table => r = s
    PROVE  Replacement(previous, n)
  <1> DEFINE x == part.changes[1].keys
             f == [r \in previous |-> [r EXCEPT !.partition = x]]
             g == [r \in previous |-> [r EXCEPT !.sort = x]]
  <1>1. n = {f[r] : r \in previous} \/ n = {g[r] : r \in previous}
    BY Zenon DEF commit_change_table_partition, commit_change_table_sort
  <1>2. \A r \in previous : /\ IsRow(f[r]) /\ f[r].table = r.table
                            /\ IsRow(g[r]) /\ g[r].table = r.table
    BY ChangedRow, Zenon
  <1> HIDE DEF f, g
  <1> QED BY <1>1, <1>2, ImageReplaces

\* Whatever a commit_* function computes replaces each previous row by one next row.
LEMMA NextRowsReplace ==
    ASSUME NEW part, NEW previous, NEW tables, NEW n \in NextRows(part, previous, tables),
           \A r \in previous : IsRow(r),
           \A r, s \in previous : r.table = s.table => r = s
    PROVE  Replacement(previous, n)
  <1>1. \/ n \in ColumnRows(part, previous)
        \/ n \in commit_change_table_comments(part, previous)
        \/ n \in commit_rename_tables(part, previous, tables)
        \/ n \in commit_change_table_partition(part, previous)
        \/ n \in commit_change_table_sort(part, previous)
    BY Zenon DEF NextRows, Error
  <1> QED BY <1>1, ColumnRowsReplace, CommentsReplace, RenamesReplace, KeysReplace, Zenon

-----------------------------------------------------------------------------
(* What the reads find when the windows are whole. *)

\* The window of a row.
LEMMA WindowOf ==
    ASSUME Typed, Windows, NEW r \in rows
    PROVE  /\ Latest \in Nat /\ Latest >= 1 /\ None = 0
           /\ r.begin \in Int /\ 1 <= r.begin /\ r.begin <= Latest
           /\ r.end = None \/ (r.end \in Int /\ r.begin < r.end /\ r.end <= Latest)
  <1>1. Latest \in Nat /\ Latest >= 1 /\ None = 0
    BY DEF Typed, Latest, None
  <1>2. r.begin \in 1 .. Latest /\ (r.end = None \/ r.end \in r.begin + 1 .. Latest)
    BY Zenon DEF Windows
  <1> QED BY <1>1, <1>2

\* load_table_at finds the row that is alive, and there is at most one.
LEMMA LoadedIsAlive ==
    ASSUME Typed, Windows, NEW t, NEW o \in 1 .. Latest
    PROVE  /\ load_table_at(t, o) = {r \in rows : r.table = t /\ Alive(r, o)}
           /\ \A r, s \in rows : r.table = s.table /\ Alive(r, o) /\ Alive(s, o) => r = s
  <1>1. Latest \in Nat /\ None = 0
    BY DEF Typed, Latest, None
  <1>2. \A r \in rows : r.begin \in Int /\ (r.end = None \/ (r.end \in Int /\ r.begin < r.end))
    BY WindowOf, Zenon
  <1>3. \A r, s \in rows : r.table = s.table /\ Alive(r, o) /\ Alive(s, o) => r = s
    <2> SUFFICES ASSUME NEW r \in rows, NEW s \in rows, r.table = s.table,
                        Alive(r, o), Alive(s, o), r # s
                 PROVE  FALSE
      BY Zenon
    <2>1. \/ r.end # None /\ r.end <= s.begin
          \/ s.end # None /\ s.end <= r.begin
      BY Zenon DEF Windows
    <2> QED BY <2>1, <1>1, <1>2 DEF Alive
  <1>4. ASSUME NEW r \in rows, r.table = t, Alive(r, o), NEW s \in rows, s.table = t,
               s.begin <= o
        PROVE  s.begin <= r.begin
    <2>1. CASE s = r
      BY <2>1, <1>2
    <2>2. CASE s # r
      <3>1. \/ r.end # None /\ r.end <= s.begin
            \/ s.end # None /\ s.end <= r.begin
        BY <2>2, <1>4, Zenon DEF Windows
      <3> QED BY <3>1, <1>1, <1>2, <1>4 DEF Alive
    <2> QED BY <2>1, <2>2, Zenon
  <1> QED BY <1>3, <1>4, Zenon DEF load_table_at, Alive

LEMMA TablesAreAlive ==
    ASSUME Typed, Windows, NEW o \in 1 .. Latest
    PROVE  TablesAt(o) = {r \in rows : Alive(r, o)}
  <1>1. \A t : load_table_at(t, o) = {r \in rows : r.table = t /\ Alive(r, o)}
    BY LoadedIsAlive, Zenon
  <1> QED BY <1>1 DEF TablesAt

\* The rows that are alive at the newest order are the current ones.
LEMMA CurrentIsAlive ==
    ASSUME Typed, Windows, NEW r \in rows
    PROVE  Alive(r, Latest) <=> r.end = None
  BY DEF Typed, Windows, Alive, Latest, None, LogRow

\* A row that is alive later, and had begun, was alive.
LEMMA AliveBefore ==
    ASSUME Typed, Windows, NEW r \in rows, NEW o \in 1 .. Latest, NEW p \in 1 .. o,
           Alive(r, o), r.begin <= p
    PROVE  Alive(r, p)
  BY DEF Typed, Windows, Alive, Latest, None, LogRow

\* A look that finds no conflict, by the windows.
LEMMA LookedAt ==
    ASSUME Typed, Windows, NEW t, NEW base \in 1 .. Latest, NEW through \in base .. Latest,
           ~Conflicts(t, base, through)
    PROVE  NoConflict(t, base, through)
  <1>1. Latest \in Nat /\ through \in 1 .. Latest
    BY DEF Typed, Latest
  <1>2. /\ load_table_at(t, base) = {r \in rows : r.table = t /\ Alive(r, base)}
        /\ load_table_at(t, through) = {r \in rows : r.table = t /\ Alive(r, through)}
    BY <1>1, LoadedIsAlive, Zenon
  <1> QED BY <1>2, Zenon DEF Conflicts, NoConflict, Alive, same_user_visible_schema_as

\* The row a call is about to replace, if it had begun when the call looked for
\* conflicts and none were found, looks like the row at the base.
LEMMA ReadIsReplaced ==
    ASSUME Typed, Windows, NEW r, NEW base \in 1 .. Latest, NEW through \in base .. Latest,
           NoConflict(r.table, base, through), ReadRow(r, through), r.begin <= through
    PROVE  \E s \in load_table_at(r.table, base) : same_user_visible_schema_as(r, s)
  <1>1. Latest \in Nat /\ through \in 1 .. Latest
    BY DEF Typed, Latest
  <1>2. PICK x \in rows : x.table = r.table /\ Alive(x, through) /\ Visible(x) = Visible(r)
    BY Zenon DEF ReadRow
  <1>3. PICK b \in rows : b.table = r.table /\ Alive(b, base)
    BY <1>2, Zenon DEF Windows
  <1>4. b \in load_table_at(r.table, base)
    BY <1>3, LoadedIsAlive
  <1>5. \A y \in rows : y.table = r.table /\ Alive(y, through) => y = x
    BY <1>1, <1>2, LoadedIsAlive, Zenon
  <1>6. CASE b.end # None /\ b.end <= through
    BY <1>6, <1>2, <1>3, <1>4, <1>5, Zenon DEF NoConflict, same_user_visible_schema_as
  <1>7. CASE ~(b.end # None /\ b.end <= through)
    <2>1. Alive(b, through)
      BY <1>7, <1>1, <1>3, WindowOf DEF Alive
    <2> QED BY <2>1, <1>2, <1>3, <1>4, <1>5, Zenon DEF same_user_visible_schema_as
  <1> QED BY <1>6, <1>7, Zenon

-----------------------------------------------------------------------------
(* What a commit does to the rows. *)

\* A commit that replaces current rows gives each of them its end and begins the next
\* ones; no other row changes.
Replaces(previous, next) ==
    /\ \A x \in rows' : \/ x \in rows /\ x \notin previous
                        \/ \E p \in previous : x = Ended(p, Latest + 1)
                        \/ \E n \in next : x = Begun(n, Latest + 1)
    /\ \A x \in rows : x \notin previous => x \in rows'
    /\ \A p \in previous : Ended(p, Latest + 1) \in rows'
    /\ \A n \in next : Begun(n, Latest + 1) \in rows'

\* Of the rows of a table, a current one and another one begin at different orders.
LEMMA KeyIsOfOneRow ==
    ASSUME Typed, Windows, NEW r \in rows, NEW p \in rows, p.end = None, SameKey(r, p)
    PROVE  r = p
  <1>1. r # p => \/ r.end # None /\ r.end <= p.begin
                 \/ p.end # None /\ p.end <= r.begin
    BY Zenon DEF Windows, SameKey
  <1> QED BY <1>1, WindowOf DEF SameKey

LEMMA CommitReplaces ==
    ASSUME Typed, Windows, NEW previous \in SUBSET current, NEW next,
           Replacement(previous, next),
           rows' = {r \in rows : ~\E e \in Staged(previous, next, Latest + 1) : SameKey(r, e)}
                     \cup Staged(previous, next, Latest + 1)
    PROVE  Replaces(previous, next)
  <1> DEFINE order == Latest + 1
             staged == Staged(previous, next, order)
  <1>1. \A x : x \in staged <=> \/ \E p \in previous : x = Ended(p, order)
                                \/ \E n \in next : x = Begun(n, order)
    BY Zenon DEF Staged, Ended, Begun
  <1>2. \A p \in previous : p \in rows /\ p.end = None
    BY Zenon DEF Windows
  <1>3. ASSUME NEW x \in rows, x \notin previous, NEW e \in staged, SameKey(x, e)
        PROVE  FALSE
    <2>1. CASE \E p \in previous : e = Ended(p, order)
      <3>1. PICK p \in previous : e = Ended(p, order)
        BY <2>1, Zenon
      <3>2. e.table = p.table /\ e.begin = p.begin
        BY <3>1, EndedRow, Zenon DEF Replacement
      <3> QED BY <3>2, <1>2, <1>3, KeyIsOfOneRow, Zenon DEF SameKey
    <2>2. CASE \E n \in next : e = Begun(n, order)
      <3>1. e.begin = order
        BY <2>2, BegunRow DEF Replacement
      <3> QED BY <3>1, <1>3, WindowOf DEF SameKey
    <2> QED BY <2>1, <2>2, <1>1, <1>3, Zenon
  <1>4. ASSUME NEW p \in previous
        PROVE  \E e \in staged : SameKey(p, e)
    <2>1. SameKey(p, Ended(p, order))
      BY EndedRow DEF Replacement, SameKey
    <2> QED BY <2>1, <1>1, Zenon
  <1> HIDE DEF staged
  <1>5. rows' = {r \in rows : ~\E e \in staged : SameKey(r, e)} \cup staged
    BY Zenon DEF staged
  <1> QED BY <1>1, <1>3, <1>4, <1>5, Zenon DEF Replaces

\* Where a row comes from that is there after a commit, with the fields that tell.
Origin(x, previous, next) ==
    \/ x \in rows /\ x \notin previous
    \/ \E p \in previous : /\ x = Ended(p, Latest + 1) /\ x.table = p.table
                           /\ x.begin = p.begin /\ x.end = Latest + 1
                           /\ Visible(x) = Visible(p)
    \/ \E n \in next : /\ x = Begun(n, Latest + 1) /\ x.table = n.table
                       /\ x.begin = Latest + 1 /\ x.end = None /\ Visible(x) = Visible(n)

LEMMA RowOrigin ==
    ASSUME Windows, NEW previous \in SUBSET current, NEW next,
           Replacement(previous, next), Replaces(previous, next), NEW x \in rows'
    PROVE  IsRow(x) /\ Origin(x, previous, next)
  <1>1. CASE x \in rows /\ x \notin previous
    BY <1>1, Zenon DEF Origin, Windows
  <1>2. ASSUME NEW p \in previous, x = Ended(p, Latest + 1)
        PROVE  IsRow(x) /\ Origin(x, previous, next)
    <2>1. IsRow(p)
      BY Zenon DEF Replacement
    <2> QED BY <1>2, <2>1, EndedRow, Zenon DEF Origin
  <1>3. ASSUME NEW n \in next, x = Begun(n, Latest + 1)
        PROVE  IsRow(x) /\ Origin(x, previous, next)
    <2>1. IsRow(n)
      BY Zenon DEF Replacement
    <2> QED BY <1>3, <2>1, BegunRow, Zenon DEF Origin
  <1> QED BY <1>1, <1>2, <1>3, Zenon DEF Replaces

\* Every row of an earlier order is there after a commit, the same to the user, and was
\* there before: a commit does not change what earlier orders show.
LEMMA PastKept ==
    ASSUME Typed, Windows, NEW previous \in SUBSET current, NEW next,
           Replacement(previous, next), Replaces(previous, next), NEW o \in 1 .. Latest
    PROVE  /\ \A r \in rows : Alive(r, o) =>
                 \E s \in rows' : s.table = r.table /\ Alive(s, o) /\ Visible(s) = Visible(r)
           /\ \A s \in rows' : Alive(s, o) =>
                 \E r \in rows : /\ r.table = s.table /\ r.begin = s.begin
                                 /\ Alive(r, o) /\ Visible(s) = Visible(r)
                                 /\ s.end = r.end \/ s.end = Latest + 1
  <1>1. Latest \in Nat /\ Latest >= 1 /\ None = 0
    BY DEF Typed, Latest, None
  <1>2. \A p \in previous : p \in rows /\ p.end = None /\ IsRow(p)
    BY Zenon DEF Windows
  <1>3. ASSUME NEW r \in rows, Alive(r, o)
        PROVE  \E s \in rows' : s.table = r.table /\ Alive(s, o) /\ Visible(s) = Visible(r)
    <2>1. CASE r \in previous
      <3> DEFINE s == Ended(r, Latest + 1)
      <3>1. /\ s \in rows' /\ s.table = r.table /\ s.begin = r.begin /\ s.end = Latest + 1
            /\ Visible(s) = Visible(r)
        BY <2>1, <1>2, EndedRow, Zenon DEF Replaces
      <3> HIDE DEF s
      <3>2. Alive(s, o)
        BY <3>1, <1>1, <1>3, WindowOf DEF Alive
      <3> QED BY <3>1, <3>2, Zenon
    <2>2. CASE r \notin previous
      BY <2>2, <1>3, Zenon DEF Replaces
    <2> QED BY <2>1, <2>2, Zenon
  <1>4. ASSUME NEW s \in rows', Alive(s, o)
        PROVE  \E r \in rows : /\ r.table = s.table /\ r.begin = s.begin
                               /\ Alive(r, o) /\ Visible(s) = Visible(r)
                               /\ s.end = r.end \/ s.end = Latest + 1
    <2>1. CASE s \in rows /\ s \notin previous
      BY <2>1, <1>1, <1>4, WindowOf, Zenon
    <2>2. ASSUME NEW p \in previous, s.table = p.table, s.begin = p.begin,
                 s.end = Latest + 1, Visible(s) = Visible(p)
          PROVE  \E r \in rows : /\ r.table = s.table /\ r.begin = s.begin
                                 /\ Alive(r, o) /\ Visible(s) = Visible(r)
                                 /\ s.end = r.end \/ s.end = Latest + 1
      <3>1. Alive(p, o)
        BY <2>2, <1>2, <1>4, Zenon DEF Alive
      <3> QED BY <2>2, <3>1, <1>2, Zenon
    <2>3. ~(s.begin = Latest + 1)
      BY <1>1, <1>4 DEF Alive
    <2> QED BY <2>1, <2>2, <2>3, RowOrigin, Zenon DEF Origin
  <1> QED BY <1>3, <1>4, Zenon

\* After a commit the windows are whole again.
LEMMA WindowsKept ==
    ASSUME Typed, Windows, NEW previous \in SUBSET current, NEW next,
           Replacement(previous, next), Replaces(previous, next),
           Latest' = Latest + 1,
           current' = {r \in current : ~\E n \in next : n.table = r.table}
                        \cup {Begun(n, Latest + 1) : n \in next}
    PROVE  Windows'
  <1> DEFINE order == Latest + 1
  <1>1. Latest \in Nat /\ Latest >= 1 /\ None = 0
    BY DEF Typed, Latest, None
  <1>2. \A p \in previous : p \in rows /\ p.end = None /\ IsRow(p)
    BY Zenon DEF Windows
  <1>3. \A r \in rows : /\ r.begin \in Int /\ 1 <= r.begin /\ r.begin <= Latest
                        /\ r.end = None \/ (r.end \in Int /\ r.begin < r.end /\ r.end <= Latest)
    BY WindowOf, Zenon
  <1>4. \A x \in rows' : IsRow(x) /\ Origin(x, previous, next)
    BY RowOrigin, Zenon
  <1>5. \A x \in rows' : /\ x.begin \in 1 .. order
                         /\ x.end = None \/ x.end \in x.begin + 1 .. order
    BY <1>1, <1>2, <1>3, <1>4 DEF Origin
  <1>6. ASSUME NEW x \in rows', NEW y \in rows', x.table = y.table, x # y
        PROVE  \/ x.end # None /\ x.end <= y.begin
               \/ y.end # None /\ y.end <= x.begin
    <2> DEFINE Kept(z) == z \in rows /\ z \notin previous
               IsEnded(z) == \E p \in previous : /\ z = Ended(p, order) /\ z.table = p.table
                                                 /\ z.begin = p.begin /\ z.end = order
               IsBegun(z) == \E n \in next : /\ z = Begun(n, order) /\ z.table = n.table
                                             /\ z.begin = order /\ z.end = None
    <2>1. \A z \in rows' : Kept(z) \/ IsEnded(z) \/ IsBegun(z)
      BY <1>4, Zenon DEF Origin
    <2>2. \A z \in rows' : z.begin \in Int /\ (z.end = None \/ z.end \in Int)
      BY <1>1, <1>5
    <2>3. ASSUME NEW u \in rows', NEW v \in rows', u.table = v.table, u # v, Kept(u)
          PROVE  \/ u.end # None /\ u.end <= v.begin
                 \/ v.end # None /\ v.end <= u.begin
      <3>1. CASE Kept(v)
        BY <2>3, <3>1, Zenon DEF Windows
      <3>2. CASE IsEnded(v)
        <4>1. PICK p \in previous : v.table = p.table /\ v.begin = p.begin /\ v.end = order
          BY <3>2, Zenon
        <4>2. \/ u.end # None /\ u.end <= p.begin
              \/ p.end # None /\ p.end <= u.begin
          BY <2>3, <4>1, <1>2, Zenon DEF Windows
        <4> QED BY <4>1, <4>2, <1>2, Zenon
      <3>3. CASE IsBegun(v)
        <4>1. PICK n \in next : v.table = n.table /\ v.begin = order
          BY <3>3, Zenon
        <4>2. PICK p \in previous : p.table = n.table
          BY Zenon DEF Replacement
        <4>3. u # p /\ u.table = p.table
          BY <2>3, <4>1, <4>2, Zenon
        <4>4. \/ u.end # None /\ u.end <= p.begin
              \/ p.end # None /\ p.end <= u.begin
          BY <2>3, <4>3, <1>2, Zenon DEF Windows
        <4> QED BY <4>1, <4>4, <2>3, <1>1, <1>2, <1>3
      <3> QED BY <3>1, <3>2, <3>3, <2>1, Zenon
    <2>4. ASSUME NEW u \in rows', NEW v \in rows', u.table = v.table, u # v,
                 IsEnded(u), IsEnded(v)
          PROVE  FALSE
      <3>1. PICK p \in previous : u = Ended(p, order) /\ u.table = p.table
        BY <2>4, Zenon
      <3>2. PICK q \in previous : v = Ended(q, order) /\ v.table = q.table
        BY <2>4, Zenon
      <3>3. p.table = q.table
        BY <3>1, <3>2, <2>4, Zenon
      <3>4. p = q
        BY <3>3, Zenon DEF Replacement
      <3> QED BY <3>1, <3>2, <3>4, <2>4, Zenon
    <2>5. ASSUME NEW u \in rows', NEW v \in rows', u.table = v.table, u # v,
                 IsBegun(u), IsBegun(v)
          PROVE  FALSE
      <3>1. PICK n \in next : u = Begun(n, order) /\ u.table = n.table
        BY <2>5, Zenon
      <3>2. PICK q \in next : v = Begun(q, order) /\ v.table = q.table
        BY <2>5, Zenon
      <3>3. n.table = q.table
        BY <3>1, <3>2, <2>5, Zenon
      <3>4. n = q
        BY <3>3, Zenon DEF Replacement
      <3> QED BY <3>1, <3>2, <3>4, <2>5, Zenon
    <2>6. ASSUME NEW u, NEW v, IsEnded(u), IsBegun(v)
          PROVE  u.end # None /\ u.end <= v.begin
      BY <2>6, <1>1
    <2> HIDE DEF Kept, IsEnded, IsBegun
    <2> QED BY <1>6, <2>1, <2>3, <2>4, <2>5, <2>6, Zenon
  <1>7. ASSUME NEW x \in rows', NEW o \in 1 .. order
        PROVE  \E s \in rows' : s.table = x.table /\ Alive(s, o)
    <2>1. PICK r \in rows : r.table = x.table
      BY <1>2, <1>4 DEF Origin, Replacement
    <2>2. CASE o \in 1 .. Latest
      <3>1. PICK s \in rows : s.table = x.table /\ Alive(s, o)
        BY <2>1, <2>2, Zenon DEF Windows
      <3> QED BY <2>2, <3>1, PastKept, Zenon
    <2>3. CASE o = order
      <3>1. PICK s \in rows : s.table = x.table /\ Alive(s, Latest)
        BY <2>1, <1>1 DEF Windows
      <3>2. s.end = None /\ s.begin \in Int /\ s.begin <= order
        BY <3>1, <1>1, <1>3 DEF Alive
      <3>3. CASE s \in previous
        <4>1. PICK n \in next : n.table = s.table
          BY <3>3, Zenon DEF Replacement
        <4>2. /\ Begun(n, order) \in rows' /\ Begun(n, order).table = s.table
              /\ Begun(n, order).begin = order /\ Begun(n, order).end = None
          BY <4>1, BegunRow DEF Replaces, Replacement
        <4> QED BY <4>2, <3>1, <2>3, <1>1 DEF Alive
      <3>4. CASE s \notin previous
        BY <3>1, <3>2, <3>4, <2>3, Zenon DEF Replaces, Alive
      <3> QED BY <3>3, <3>4, Zenon
    <2> QED BY <2>2, <2>3, <1>1
  <1>8. current' = {r \in rows' : r.end = None}
    <2>1. ASSUME NEW x \in current'
          PROVE  x \in rows' /\ x.end = None
      <3>1. CASE x \in current /\ ~\E n \in next : n.table = x.table
        <4>1. x \notin previous
          BY <3>1, Zenon DEF Replacement
        <4> QED BY <3>1, <4>1, Zenon DEF Windows, Replaces
      <3>2. CASE \E n \in next : x = Begun(n, order)
        BY <3>2, BegunRow DEF Replaces, Replacement
      <3> QED BY <3>1, <3>2, Zenon
    <2>2. ASSUME NEW x \in rows', x.end = None
          PROVE  x \in current'
      <3>1. CASE x \in rows /\ x \notin previous
        <4>1. x \in current
          BY <2>2, <3>1, Zenon DEF Windows
        <4>2. ASSUME NEW n \in next, n.table = x.table
              PROVE  FALSE
          <5>1. PICK p \in previous : p.table = x.table
            BY <4>2, Zenon DEF Replacement
          <5>2. \/ x.end # None /\ x.end <= p.begin
                \/ p.end # None /\ p.end <= x.begin
            BY <3>1, <5>1, <1>2, Zenon DEF Windows
          <5> QED BY <5>2, <2>2, <1>2, Zenon
        <4> QED BY <4>1, <4>2, Zenon
      <3>2. ~(x.end = order)
        BY <2>2, <1>1
      <3> QED BY <3>1, <3>2, <1>4, Zenon DEF Origin
    <2> QED BY <2>1, <2>2, Zenon
  <1> QED BY <1>4, <1>5, <1>6, <1>7, <1>8, Zenon DEF Windows

\* What a look found, and what a call read, is not changed by a later commit.
LEMMA LookKept ==
    ASSUME Typed, Windows, NEW previous \in SUBSET current, NEW next,
           Replacement(previous, next), Replaces(previous, next),
           NEW t, NEW base \in 1 .. Latest, NEW through \in base .. Latest,
           NoConflict(t, base, through)
    PROVE  NoConflict(t, base, through)'
  <1>1. Latest \in Nat /\ through \in 1 .. Latest
    BY DEF Typed, Latest
  <1> SUFFICES ASSUME NEW b \in rows', b.table = t, Alive(b, base), b.end # None,
                      b.end <= through
               PROVE  \E r \in rows' : r.table = t /\ Alive(r, through) /\ Visible(r) = Visible(b)
    BY Zenon DEF NoConflict, Alive, Visible
  <1>2. PICK a \in rows : /\ a.table = t /\ Alive(a, base) /\ Visible(b) = Visible(a)
                          /\ b.end = a.end \/ b.end = Latest + 1
    BY PastKept, Zenon
  <1>3. a.end # None /\ a.end <= through
    BY <1>1, <1>2
  <1>4. PICK r \in rows : r.table = t /\ Alive(r, through) /\ Visible(r) = Visible(a)
    BY <1>2, <1>3, Zenon DEF NoConflict
  <1>5. \E s \in rows' : s.table = r.table /\ Alive(s, through) /\ Visible(s) = Visible(r)
    BY <1>1, <1>4, PastKept, Zenon
  <1> QED BY <1>2, <1>4, <1>5, Zenon

LEMMA ReadKept ==
    ASSUME Typed, Windows, NEW previous \in SUBSET current, NEW next,
           Replacement(previous, next), Replaces(previous, next),
           NEW r, NEW through \in 1 .. Latest, ReadRow(r, through)
    PROVE  ReadRow(r, through)'
  <1> SUFFICES ASSUME r.begin <= through
               PROVE  \E s \in rows' : /\ s.table = r.table /\ Alive(s, through)
                                       /\ Visible(s) = Visible(r)
    BY Zenon DEF ReadRow, Alive, Visible
  <1>1. PICK s \in rows : s.table = r.table /\ Alive(s, through) /\ Visible(s) = Visible(r)
    BY Zenon DEF ReadRow
  <1>2. \E x \in rows' : x.table = s.table /\ Alive(x, through) /\ Visible(x) = Visible(s)
    BY <1>1, PastKept, Zenon
  <1> QED BY <1>1, <1>2, Zenon

\* A commit without a new schema version changes nothing that the user sees.
LEMMA SameSchema ==
    ASSUME Typed, Windows, NEW previous \in SUBSET current, NEW next,
           Replacement(previous, next), Replaces(previous, next),
           ~NewSchemaVersion(previous, next)
    PROVE  /\ \A x \in rows' : Alive(x, Latest) =>
                 \E y \in rows' : Alive(y, Latest + 1) /\ Visible(y) = Visible(x)
           /\ \A x \in rows' : Alive(x, Latest + 1) =>
                 \E y \in rows' : Alive(y, Latest) /\ Visible(y) = Visible(x)
  <1> DEFINE order == Latest + 1
  <1>1. Latest \in Nat /\ Latest >= 1 /\ None = 0
    BY DEF Typed, Latest, None
  <1>2. \A p \in previous : p \in rows /\ p.end = None /\ IsRow(p)
    BY Zenon DEF Windows
  <1>3. \A p \in previous : \E s \in next : s.table = p.table /\ Visible(s) = Visible(p)
    BY Zenon DEF NewSchemaVersion, same_user_visible_schema_as
  <1>4. ASSUME NEW n \in next
        PROVE  /\ Begun(n, order) \in rows' /\ Alive(Begun(n, order), order)
               /\ Visible(Begun(n, order)) = Visible(n)
    BY <1>1, BegunRow DEF Replaces, Replacement, Alive
  <1>5. ASSUME NEW p \in previous
        PROVE  /\ Ended(p, order) \in rows' /\ Alive(Ended(p, order), Latest)
               /\ Visible(Ended(p, order)) = Visible(p)
    <2>1. /\ Ended(p, order) \in rows' /\ Visible(Ended(p, order)) = Visible(p)
          /\ Ended(p, order).begin = p.begin /\ Ended(p, order).end = order
      BY <1>2, EndedRow, Zenon DEF Replaces
    <2>2. p.begin <= Latest
      BY <1>2, WindowOf, Zenon
    <2> QED BY <2>1, <2>2, <1>1 DEF Alive
  <1>6. ASSUME NEW x \in rows', Alive(x, Latest)
        PROVE  \E y \in rows' : Alive(y, order) /\ Visible(y) = Visible(x)
    <2>1. PICK r \in rows : Alive(r, Latest) /\ Visible(x) = Visible(r)
      BY <1>1, <1>6, PastKept
    <2>2. CASE r \in previous
      BY <2>1, <2>2, <1>3, <1>4, Zenon
    <2>3. CASE r \notin previous
      <3>1. r \in rows' /\ r.end = None /\ r.begin \in Int /\ r.begin <= Latest
        BY <2>1, <2>3, CurrentIsAlive, WindowOf, Zenon DEF Replaces
      <3>2. Alive(r, order)
        BY <3>1, <1>1 DEF Alive
      <3> QED BY <2>1, <3>1, <3>2, Zenon
    <2> QED BY <2>2, <2>3, Zenon
  <1>7. ASSUME NEW x \in rows', Alive(x, order)
        PROVE  \E y \in rows' : Alive(y, Latest) /\ Visible(y) = Visible(x)
    <2>1. CASE x \in rows /\ x \notin previous
      <3>1. Alive(x, Latest)
        BY <2>1, <1>1, <1>7, WindowOf DEF Alive
      <3> QED BY <3>1, Zenon
    <2>2. ~(x.end = order)
      BY <1>1, <1>7 DEF Alive
    <2>3. ASSUME NEW n \in next, Visible(x) = Visible(n)
          PROVE  \E y \in rows' : Alive(y, Latest) /\ Visible(y) = Visible(x)
      <3>1. PICK p \in previous : p.table = n.table
        BY Zenon DEF Replacement
      <3>2. Visible(n) = Visible(p)
        BY <3>1, <1>3 DEF Replacement
      <3> QED BY <2>3, <3>2, <1>5, Zenon
    <2> QED BY <2>1, <2>2, <2>3, RowOrigin, Zenon DEF Origin
  <1> QED BY <1>6, <1>7, Zenon

LEMMA VersionsKept ==
    ASSUME Typed, Windows, VersionsTellSchemas, NEW previous \in SUBSET current, NEW next,
           Replacement(previous, next), Replaces(previous, next), NEW row \in LogRow,
           log' = Append(log, row),
           row.version = log[Latest].version => ~NewSchemaVersion(previous, next)
    PROVE  VersionsTellSchemas'
  <1>1. /\ Latest \in Nat /\ Latest >= 1 /\ Latest' = Latest + 1
        /\ log'[Latest + 1] = row
        /\ \A o \in 1 .. Latest : log'[o] = log[o]
    BY DEF Typed, Latest
  <1> SUFFICES ASSUME NEW o \in 1 .. Latest, log'[o].version = log'[o + 1].version
               PROVE  SameTables(o, o + 1)'
    <2>1. 1 .. Latest' - 1 = 1 .. Latest
      BY <1>1
    <2> QED BY <2>1, Zenon DEF VersionsTellSchemas
  <1>2. CASE o = Latest
    <2>1. ~NewSchemaVersion(previous, next)
      BY <1>1, <1>2, Zenon
    <2> QED BY <2>1, <1>2, SameSchema, Zenon DEF SameTables, Alive, Visible
  <1>3. CASE o \in 1 .. Latest - 1
    <2>1. o + 1 \in 1 .. Latest
      BY <1>1, <1>3
    <2>2. SameTables(o, o + 1)
      <3>1. log'[o] = log[o] /\ log'[o + 1] = log[o + 1]
        BY <2>1, <1>1, Zenon
      <3>2. log[o].version = log[o + 1].version
        BY <3>1, Zenon
      <3> QED BY <3>2, <1>3, Zenon DEF VersionsTellSchemas
    <2>3. ASSUME NEW p \in 1 .. Latest, NEW q \in 1 .. Latest, NEW x \in rows', Alive(x, p),
                 \A r \in rows : Alive(r, p) => \E s \in rows : Alive(s, q) /\ Visible(s) = Visible(r)
          PROVE  \E y \in rows' : Alive(y, q) /\ Visible(y) = Visible(x)
      <3>1. PICK r \in rows : Alive(r, p) /\ Visible(x) = Visible(r)
        BY <2>3, PastKept
      <3>2. PICK s \in rows : Alive(s, q) /\ Visible(s) = Visible(r)
        BY <2>3, <3>1, Zenon
      <3>3. \E y \in rows' : Alive(y, q) /\ Visible(y) = Visible(s)
        BY <3>2, PastKept, Zenon
      <3> QED BY <3>1, <3>2, <3>3, Zenon
    <2>4. /\ \A x \in rows' : Alive(x, o) => \E y \in rows' : Alive(y, o + 1) /\ Visible(y) = Visible(x)
          /\ \A x \in rows' : Alive(x, o + 1) => \E y \in rows' : Alive(y, o) /\ Visible(y) = Visible(x)
      BY <2>1, <2>2, <2>3 DEF SameTables
    <2> QED BY <2>4, Zenon DEF SameTables, Alive, Visible
  <1> QED BY <1>1, <1>2, <1>3

-----------------------------------------------------------------------------
(* The steps of a call that write nothing. *)

LEMMA LatestType ==
    ASSUME IInv
    PROVE  /\ Latest \in Nat /\ Latest >= 1 /\ Latest \in 1 .. Latest
           /\ log[Latest] \in LogRow
           /\ \A b \in 1 .. Latest : Latest \in b .. Latest
  <1>1. Typed
    BY Zenon DEF IInv
  <1>2. log \in Seq(LogRow) /\ Len(log) \in Nat /\ Len(log) >= 1
    BY <1>1 DEF Typed
  <1> QED BY <1>2 DEF Latest

\* The facts about a call hold as long as the rows and the request are the same.
LEMMA FactsKept ==
    ASSUME UNCHANGED <<stored, request>>, NEW c, NEW step, NEW l, Facts(c, step, l)
    PROVE  Facts(c, step, l)'
  <1>1. log' = log /\ rows' = rows /\ request' = request /\ Latest' = Latest
    BY Zenon DEF stored, Latest
  <1>2. KnowsItsBase(c)' = KnowsItsBase(c)
    BY <1>1, Zenon DEF KnowsItsBase
  <1>3. \A t, base, through : NoConflict(t, base, through) => NoConflict(t, base, through)'
    BY <1>1, Zenon DEF NoConflict, Alive, Visible
  <1>4. \A r, through : ReadRow(r, through) => ReadRow(r, through)'
    BY <1>1, Zenon DEF ReadRow, Alive, Visible
  <1>5. Replacement(l.previous, l.next) => Replacement(l.previous, l.next)'
    BY Zenon DEF Replacement, IsRow, RowFields
  <1> QED BY <1>1, <1>2, <1>3, <1>4, <1>5, Zenon DEF Facts

\* A step that writes nothing and leaves its call with the facts of the next step.
LEMMA CallMoves ==
    ASSUME IInv, NEW c \in Clients, NEW step \in Steps, NEW l, IsLocal(l), Goes(c, step, l),
           "stale row" \notin met => Facts(c, step, l)
    PROVE  IInv'
  <1>1. /\ pc' = [pc EXCEPT ![c] = step] /\ local' = [local EXCEPT ![c] = l]
        /\ UNCHANGED <<stored, request>> /\ met' = met
        /\ log' = log /\ rows' = rows /\ current' = current /\ request' = request
    BY Zenon DEF Goes, stored
  <1>2. Typed'
    BY <1>1, Zenon DEF IInv, Typed, Steps, IsLocal, LogRow
  <1>3. ASSUME "stale row" \notin met'
        PROVE  (Windows /\ VersionsTellSchemas)'
    <2>1. Latest' = Latest
      BY <1>1, Zenon DEF Latest
    <2>2. Windows'
      BY <1>1, <1>3, <2>1, Zenon DEF IInv, Windows, Alive, IsRow, RowFields
    <2>3. \A o, p : SameTables(o, p) => SameTables(o, p)'
      BY <1>1, Zenon DEF SameTables, Alive, Visible
    <2> QED BY <1>1, <1>3, <2>1, <2>2, <2>3, Zenon DEF IInv, VersionsTellSchemas
  <1>4. ASSUME "stale row" \notin met', NEW d \in Clients
        PROVE  Facts(d, pc[d], local[d])'
    <2>1. PICK s, m : s = pc'[d] /\ m = local'[d]
      BY Zenon
    <2>2. Facts(d, s, m)
      BY <2>1, <1>1, <1>4, Zenon DEF IInv, Typed
    <2>3. Facts(d, s, m)'
      BY <2>2, <1>1, FactsKept, Zenon
    <2> QED BY <2>1, <2>3, Zenon DEF Facts
  <1> QED BY <1>1, <1>2, <1>3, <1>4, Zenon DEF IInv

LEMMA FailStep ==
    ASSUME IInv, NEW c \in Clients, pc[c] # "idle", Fails(c)
    PROVE  IInv'
  <1>1. IsLocal(local[c])
    BY Zenon DEF IInv, Typed
  <1>2. "stale row" \notin met => Facts(c, "failed", local[c])
    BY Zenon DEF IInv, Facts
  <1>3. "failed" \in Steps
    BY Zenon DEF Steps
  <1> QED BY <1>1, <1>2, <1>3, CallMoves, Zenon DEF Fails

LEMMA ProceedStep ==
    ASSUME IInv, NEW c \in Clients, NEW l, IsLocal(l), Proceeds(c, l),
           "stale row" \notin met => Facts(c, "shape", l)
    PROVE  IInv'
  <1> DEFINE step == IF l.parts = <<>> THEN "done"
                     ELSE IF Head(l.parts).checked THEN "check" ELSE "latest"
  <1>1. step \in {"done", "check", "latest"} /\ (step = "latest" => ~Head(l.parts).checked)
    BY Zenon
  <1>2. Goes(c, step, l)
    BY Zenon DEF Proceeds
  <1> HIDE DEF step
  <1>3. "stale row" \notin met => Facts(c, step, l)
    BY <1>1, Zenon DEF Facts
  <1>4. step \in Steps
    BY <1>1, Zenon DEF Steps
  <1> QED BY <1>2, <1>3, <1>4, CallMoves, Zenon

LEMMA SendStep ==
    ASSUME IInv, NEW c \in Clients, Send(c)
    PROVE  IInv'
  <1>1. /\ log \in Seq(LogRow) /\ Latest \in Nat /\ Latest >= 1
        /\ log[Latest].sequence + 1 \in Nat
    <2>1. log \in Seq(LogRow)
      BY Zenon DEF IInv, Typed
    <2> QED BY <2>1, LatestType DEF LogRow
  <1>2. PICK r : /\ request' = [request EXCEPT ![c] = r] /\ r.read = Latest
                 /\ r.commit = log[Latest].sequence + 1
    <2> DEFINE sent(p, named) ==
                  [kind |-> p.kind, tables |-> p.tables, changes |-> p.changes,
                   comment |-> p.comment, named |-> named, read |-> Latest,
                   commit |-> log[Latest].sequence + 1]
    <2>1. PICK p \in Requests(current), named \in BOOLEAN :
              request' = [request EXCEPT ![c] = sent(p, named)]
      BY Zenon DEF Send
    <2>2. /\ sent(p, named).read = Latest
          /\ sent(p, named).commit = log[Latest].sequence + 1
      BY Zenon
    <2> HIDE DEF sent
    <2> QED BY <2>1, <2>2, Zenon
  <1>3. /\ pc' = [pc EXCEPT ![c] = "base"] /\ pc[c] = "idle"
        /\ UNCHANGED <<stored, local, met>> /\ Latest' = Latest
        /\ log' = log /\ rows' = rows /\ current' = current /\ local' = local /\ met' = met
    BY Zenon DEF Send, stored, Latest
  <1>4. Typed'
    BY <1>1, <1>2, <1>3, Zenon DEF IInv, Typed, Steps, IsLocal
  <1>5. ASSUME "stale row" \notin met'
        PROVE  (Windows /\ VersionsTellSchemas)'
    <2>2. Windows'
      BY <1>3, <1>5, Zenon DEF IInv, Windows, Alive, IsRow, RowFields
    <2>3. \A o, p : SameTables(o, p) => SameTables(o, p)'
      BY <1>3, ZenonT(30) DEF SameTables, Alive, Visible
    <2> QED BY <1>3, <1>5, <2>2, <2>3, Zenon DEF IInv, VersionsTellSchemas
  <1>6. ASSUME "stale row" \notin met', NEW d \in Clients
        PROVE  Facts(d, pc[d], local[d])'
    <2>1. CASE d = c
      <3>1. pc'[c] = "base" /\ request'[c].read = Latest
        BY <1>2, <1>3, Zenon DEF IInv, Typed
      <3> QED BY <2>1, <3>1, <1>1, <1>3 DEF Facts
    <2>2. CASE d # c
      <3>1. pc'[d] = pc[d] /\ request'[d] = request[d] /\ local'[d] = local[d]
        BY <2>2, <1>2, <1>3, ZenonT(30) DEF IInv, Typed
      <3>2. KnowsItsBase(d)' = KnowsItsBase(d)
        BY <3>1, <1>3, Zenon DEF KnowsItsBase
      <3>3. \A t, base, through : NoConflict(t, base, through) => NoConflict(t, base, through)'
        BY <1>3, Zenon DEF NoConflict, Alive, Visible
      <3>4. \A x, through : ReadRow(x, through) => ReadRow(x, through)'
        BY <1>3, Zenon DEF ReadRow, Alive, Visible
      <3>5. Facts(d, pc[d], local[d])
        BY <1>3, <1>6, Zenon DEF IInv
      <3>6. Replacement(local[d].previous, local[d].next)
              => Replacement(local[d].previous, local[d].next)'
        BY <3>1, Zenon DEF Replacement, IsRow, RowFields
      <3> QED BY <3>1, <3>2, <3>3, <3>4, <3>5, <3>6, <1>3, Zenon DEF Facts
    <2> QED BY <2>1, <2>2, Zenon
  <1> QED BY <1>3, <1>4, <1>5, <1>6, Zenon DEF IInv

LEMMA LoadBaseStep ==
    ASSUME IInv, NEW c \in Clients, LoadBase(c)
    PROVE  IInv'
  <1>1. PICK base \in ddl_base_snapshot(request[c]) :
            Goes(c, "through", [local[c] EXCEPT !.base = base])
    BY Zenon DEF LoadBase
  <1> DEFINE l == [local[c] EXCEPT !.base = base]
  <1>2. IsLocal(l) /\ l.base = base
    BY Zenon DEF IInv, Typed, IsLocal, LocalFields
  <1>3. \A id : \A o \in snapshot_by_public_sequence(id) : o \in 1 .. Latest /\ log[o].sequence = id
    <2>1. Latest \in 1 .. Latest
      BY LatestType, Zenon
    <2> QED BY <2>1, Zenon DEF snapshot_by_public_sequence
  <1>4. base \in 1 .. Latest
    BY <1>3, Zenon DEF ddl_base_snapshot
  <1>5. KnowsItsBase(c) => base = request[c].read
    BY <1>3, <1>4 DEF ddl_base_snapshot, KnowsItsBase
  <1>6. pc[c] = "base"
    BY Zenon DEF LoadBase
  <1>7. "stale row" \notin met => request[c].read \in 1 .. Latest
    BY <1>6, Zenon DEF IInv, Facts
  <1> HIDE DEF l
  <1>8. "stale row" \notin met => Facts(c, "through", l)
    BY <1>2, <1>4, <1>5, <1>7, Zenon DEF Facts
  <1>9. Goes(c, "through", l) /\ "through" \in Steps
    BY <1>1, Zenon DEF l, Steps
  <1> QED BY <1>2, <1>8, <1>9, CallMoves, Zenon

LEMMA LoadThroughStep ==
    ASSUME IInv, NEW c \in Clients, LoadThrough(c)
    PROVE  IInv'
  <1> DEFINE l == [local[c] EXCEPT !.through = Latest]
  <1>1. IsLocal(l) /\ l.through = Latest /\ l.base = local[c].base
    BY Zenon DEF IInv, Typed, IsLocal, LocalFields
  <1>2. Goes(c, "shape", l) /\ "shape" \in Steps /\ pc[c] = "through"
    BY Zenon DEF LoadThrough, Steps
  <1> HIDE DEF l
  <1>3. "stale row" \notin met => Facts(c, "shape", l)
    <2> SUFFICES ASSUME "stale row" \notin met
                 PROVE  Facts(c, "shape", l)
      BY Zenon
    <2>1. /\ request[c].read \in 1 .. Latest /\ l.base \in 1 .. Latest
          /\ KnowsItsBase(c) => l.base = request[c].read
      BY <1>1, <1>2, Zenon DEF IInv, Facts
    <2>2. l.through \in l.base .. Latest
      BY <2>1, <1>1, LatestType, Zenon
    <2> QED BY <2>1, <2>2, Zenon DEF Facts
  <1> QED BY <1>1, <1>2, <1>3, CallMoves, Zenon

LEMMA ShapeStep ==
    ASSUME IInv, NEW c \in Clients, Shape(c)
    PROVE  IInv'
  <1>1. pc[c] = "shape"
    BY Zenon DEF Shape
  <1>2. CASE Fails(c)
    BY <1>1, <1>2, FailStep, Zenon
  <1>3. CASE \E p \in ShapedParts(request[c]) : Proceeds(c, [local[c] EXCEPT !.parts = p])
    <2> PICK p \in ShapedParts(request[c]) : Proceeds(c, [local[c] EXCEPT !.parts = p])
      BY <1>3, Zenon
    <2> DEFINE l == [local[c] EXCEPT !.parts = p]
    <2>1. Proceeds(c, l)
      BY Zenon
    <2>2. IsLocal(l) /\ l.base = local[c].base /\ l.through = local[c].through
      BY ZenonT(30) DEF IInv, Typed, IsLocal, LocalFields
    <2> HIDE DEF l
    <2>3. "stale row" \notin met => Facts(c, "shape", l)
      BY <2>2, <1>1, Zenon DEF IInv, Facts
    <2> QED BY <2>1, <2>2, <2>3, ProceedStep, Zenon
  <1> QED BY <1>2, <1>3, Zenon DEF Shape

LEMMA CheckStep ==
    ASSUME IInv, NEW c \in Clients, Check(c)
    PROVE  IInv'
  <1>1. pc[c] = "check"
    BY Zenon DEF Check
  <1>2. CASE Fails(c)
    BY <1>1, <1>2, FailStep, Zenon
  <1>3. CASE /\ \A t \in Head(local[c].parts).tables :
                    ~Conflicts(t, local[c].base, local[c].through)
             /\ Goes(c, "latest", local[c])
    <2>1. PICK l : l = local[c]
      BY Zenon
    <2>2. IsLocal(l) /\ "latest" \in Steps
      BY <2>1, Zenon DEF IInv, Typed, Steps
    <2>3. ASSUME "stale row" \notin met
          PROVE  Facts(c, "latest", l)
      <3>1. /\ Typed /\ Windows /\ request[c].read \in 1 .. Latest /\ l.base \in 1 .. Latest
            /\ KnowsItsBase(c) => l.base = request[c].read
            /\ l.through \in l.base .. Latest
        BY <2>1, <2>3, <1>1, Zenon DEF IInv, Facts
      <3>2. \A t \in Head(l.parts).tables : NoConflict(t, l.base, l.through)
        BY <2>1, <3>1, <1>3, LookedAt, Zenon
      <3> QED BY <3>1, <3>2, Zenon DEF Facts
    <2> QED BY <2>1, <2>2, <2>3, <1>3, CallMoves, Zenon
  <1> QED BY <1>2, <1>3, Zenon DEF Check

LEMMA LoadLatestStep ==
    ASSUME IInv, NEW c \in Clients, LoadLatest(c)
    PROVE  IInv'
  <1> DEFINE sequence == IF Head(local[c].parts).kind = "partition" THEN request[c].commit
                         ELSE log[Latest].sequence + 1
             l == [local[c] EXCEPT !.order = Latest, !.sequence = sequence]
  <1>1. pc[c] = "latest" /\ Goes(c, "row", l) /\ "row" \in Steps
    BY Zenon DEF LoadLatest, Steps
  <1>2. sequence \in Nat
    <2>1. request[c].commit \in Nat
      BY Zenon DEF IInv, Typed
    <2>2. log[Latest].sequence + 1 \in Nat
      BY LatestType DEF LogRow
    <2> QED BY <2>1, <2>2, Zenon
  <1> HIDE DEF sequence
  <1>3. /\ IsLocal(l) /\ l.order = Latest /\ l.base = local[c].base
        /\ l.through = local[c].through /\ l.parts = local[c].parts
    BY <1>2, ZenonT(30) DEF IInv, Typed, IsLocal, LocalFields
  <1> HIDE DEF l
  <1>4. ASSUME "stale row" \notin met
        PROVE  Facts(c, "row", l)
    <2>1. Facts(c, "latest", local[c])
      BY <1>1, <1>4, Zenon DEF IInv
    <2>2. l.base \in 1 .. Latest /\ l.through \in l.base .. Latest
      BY <2>1, <1>3, Zenon DEF Facts
    <2>3. l.through \in 1 .. Latest
      BY <2>2, LatestType
    <2>4. l.order \in l.through .. Latest
      BY <2>3, <1>3, LatestType, Zenon
    <2> QED BY <2>1, <2>4, <1>3, Zenon DEF Facts
  <1> QED BY <1>1, <1>3, <1>4, CallMoves, Zenon

\* The rows a commit starts from: one for each table, and those that had begun when the
\* call looked for conflicts were the ones of their tables then.
LEMMA RowsRead ==
    ASSUME Typed, Windows, NEW order \in 1 .. Latest, NEW through \in 1 .. order,
           NEW tables, tables = current \/ tables = TablesAt(order)
    PROVE  /\ \A r \in tables : IsRow(r) /\ ReadRow(r, through)
           /\ \A r, s \in tables : r.table = s.table => r = s
  <1>1. Latest \in Nat /\ Latest >= 1
    BY DEF Typed, Latest
  <1>2. PICK o \in order .. Latest : tables = {r \in rows : Alive(r, o)}
    <2>1. CASE tables = TablesAt(order)
      BY <2>1, <1>1, TablesAreAlive
    <2>2. CASE tables = current
      <3>1. tables = {r \in rows : Alive(r, Latest)}
        BY <2>2, CurrentIsAlive, Zenon DEF Windows
      <3> QED BY <3>1, <1>1
    <2> QED BY <2>1, <2>2, Zenon
  <1>3. o \in 1 .. Latest /\ through \in 1 .. o /\ through \in 1 .. Latest
    BY <1>1
  <1>4. \A r, s \in tables : r.table = s.table => r = s
    BY <1>2, <1>3, LoadedIsAlive, Zenon
  <1>5. ASSUME NEW r \in tables
        PROVE  IsRow(r) /\ ReadRow(r, through)
    <2>1. r \in rows /\ Alive(r, o)
      BY <1>2, Zenon
    <2>2. r.begin <= through => Alive(r, through)
      BY <2>1, <1>3, AliveBefore, Zenon
    <2> QED BY <2>1, <2>2, Zenon DEF ReadRow, Windows
  <1> QED BY <1>4, <1>5, Zenon

LEMMA LoadRowsStep ==
    ASSUME IInv, NEW c \in Clients, LoadRows(c)
    PROVE  IInv'
  <1> DEFINE part == Head(local[c].parts)
             tables == IF part.kind = "table" /\ local[c].order # Latest
                       THEN TablesAt(local[c].order) ELSE current
             previous == {r \in tables : r.table \in part.tables}
  <1>1. pc[c] = "row"
    BY Zenon DEF LoadRows
  <1>2. CASE Fails(c)
    BY <1>1, <1>2, FailStep, Zenon
  <1>3. ASSUME Proceeds(c, [local[c] EXCEPT !.parts = Tail(@)])
        PROVE  IInv'
    <2> DEFINE l == [local[c] EXCEPT !.parts = Tail(@)]
    <2>1. IsLocal(l) /\ l.base = local[c].base /\ l.through = local[c].through
      BY Zenon DEF IInv, Typed, IsLocal, LocalFields
    <2>2. Proceeds(c, l)
      BY <1>3, Zenon
    <2> HIDE DEF l
    <2>3. "stale row" \notin met => Facts(c, "shape", l)
      BY <2>1, <1>1, Zenon DEF IInv, Facts
    <2> QED BY <2>1, <2>2, <2>3, ProceedStep, Zenon
  <1>4. ASSUME NEW n \in NextRows(part, previous, tables),
               Goes(c, "open", [local[c] EXCEPT !.previous = previous, !.next = n])
        PROVE  IInv'
    <2> DEFINE l == [local[c] EXCEPT !.previous = previous, !.next = n]
    <2> HIDE DEF previous
    <2>1. /\ IsLocal(l) /\ l.base = local[c].base /\ l.through = local[c].through
          /\ l.parts = local[c].parts /\ l.order = local[c].order
          /\ l.previous = previous /\ l.next = n
      BY ZenonT(30) DEF IInv, Typed, IsLocal, LocalFields
    <2>2. Goes(c, "open", l) /\ "open" \in Steps
      BY <1>4, Zenon DEF Steps
    <2> HIDE DEF l
    <2>3. ASSUME "stale row" \notin met
          PROVE  Facts(c, "open", l)
      <3>1. Facts(c, "row", local[c]) /\ Typed /\ Windows
        BY <2>3, <1>1, Zenon DEF IInv
      <3>2. /\ l.base \in 1 .. Latest /\ l.through \in l.base .. Latest
            /\ l.order \in l.through .. Latest
        BY <2>1, <3>1, Zenon DEF Facts
      <3>3. l.order \in 1 .. Latest /\ l.through \in 1 .. l.order
        BY <3>2, LatestType
      <3>4. tables = current \/ tables = TablesAt(l.order)
        BY <2>1, Zenon
      <3> HIDE DEF tables
      <3>5. /\ \A r \in tables : IsRow(r) /\ ReadRow(r, l.through)
            /\ \A r, s \in tables : r.table = s.table => r = s
        BY <3>1, <3>3, <3>4, RowsRead, Zenon
      <3>6. /\ \A r \in previous : IsRow(r) /\ ReadRow(r, l.through) /\ r.table \in part.tables
            /\ \A r, s \in previous : r.table = s.table => r = s
        BY <3>5, Zenon DEF previous
      <3> HIDE DEF part
      <3>7. Replacement(previous, n)
        BY <3>6, NextRowsReplace, Zenon
      <3>8. /\ Replacement(l.previous, l.next)
            /\ \A r \in l.previous : r.table \in Head(l.parts).tables /\ ReadRow(r, l.through)
        BY <2>1, <3>6, <3>7, Zenon DEF part
      <3> QED BY <2>1, <3>1, <3>2, <3>8, Zenon DEF Facts
    <2> QED BY <2>1, <2>2, <2>3, CallMoves, Zenon
  <1> QED BY <1>2, <1>3, <1>4, Zenon DEF LoadRows

LEMMA OpenStep ==
    ASSUME IInv, NEW c \in Clients, Open(c)
    PROVE  IInv'
  <1> DEFINE l == [local[c] EXCEPT !.version = log[Latest].version, !.conflicted = FALSE]
  <1>1. pc[c] = "open" /\ Goes(c, "commit", l) /\ "commit" \in Steps
    BY Zenon DEF Open, Steps
  <1>2. log[Latest].version \in Nat
    BY LatestType, Zenon DEF LogRow
  <1>3. /\ IsLocal(l) /\ l.base = local[c].base /\ l.through = local[c].through
        /\ l.parts = local[c].parts /\ l.order = local[c].order
        /\ l.previous = local[c].previous /\ l.next = local[c].next
        /\ l.version = log[Latest].version
    BY <1>2, Zenon DEF IInv, Typed, IsLocal, LocalFields
  <1> HIDE DEF l
  <1>4. "stale row" \notin met => Facts(c, "commit", l)
    BY <1>1, <1>3, Zenon DEF IInv, Facts
  <1> QED BY <1>1, <1>3, <1>4, CallMoves, Zenon

LEMMA ReloadStep ==
    ASSUME IInv, NEW c \in Clients, Reload(c)
    PROVE  IInv'
  <1>1. pc[c] = "reload" /\ Proceeds(c, local[c]) /\ IsLocal(local[c])
    BY Zenon DEF Reload, IInv, Typed
  <1>2. "stale row" \notin met => Facts(c, "shape", local[c])
    BY <1>1, Zenon DEF IInv, Facts
  <1> QED BY <1>1, <1>2, ProceedStep, Zenon

-----------------------------------------------------------------------------
(* The commit. *)

\* The facts about a call that an other commit, or its own, meets.  A transaction that is
\* open then is marked as conflicting.
LEMMA FactsMet ==
    ASSUME IInv, Windows, NEW previous \in SUBSET current, NEW next,
           Replacement(previous, next), Replaces(previous, next),
           NEW row \in LogRow, log' = Append(log, row), UNCHANGED request,
           NEW c, NEW step, NEW l, NEW m, Facts(c, step, l),
           m.base = l.base, m.through = l.through,
           step # "shape" => /\ m.parts = l.parts /\ m.order = l.order
                             /\ m.previous = l.previous /\ m.next = l.next,
           step = "commit" => m.conflicted
    PROVE  Facts(c, step, m)'
  <1>1. /\ Typed /\ Latest \in Nat /\ Latest >= 1 /\ Latest' = Latest + 1
        /\ \A o \in 1 .. Latest : log'[o] = log[o]
    <2>1. log \in Seq(LogRow) /\ Typed
      BY ZenonT(30) DEF IInv, Typed
    <2> QED BY <2>1, LatestType DEF Latest
  <1>2. step # "idle" => request'[c].read \in 1 .. Latest'
    <2>1. step # "idle" => request[c].read \in 1 .. Latest
      BY Zenon DEF Facts
    <2> QED BY <2>1, <1>1
  <1>3. ASSUME step \notin {"idle", "base", "done", "failed"}
        PROVE  m.base \in 1 .. Latest' /\ (KnowsItsBase(c)' => m.base = request'[c].read)
    <2>1. /\ l.base \in 1 .. Latest /\ request[c].read \in 1 .. Latest
          /\ KnowsItsBase(c) => l.base = request[c].read
      BY <1>3, Zenon DEF Facts
    <2>2. KnowsItsBase(c)' => KnowsItsBase(c)
      <3> SUFFICES ASSUME KnowsItsBase(c)', NEW o \in 1 .. Latest,
                          log[o].sequence = log[request[c].read].sequence
                   PROVE  o = request[c].read
        BY ZenonT(30) DEF KnowsItsBase
      <3>1. log'[o] = log[o] /\ log'[request[c].read] = log[request[c].read]
        BY <2>1, <1>1, Zenon
      <3>2. o \in 1 .. Latest'
        BY <1>1
      <3> QED BY <3>1, <3>2, Zenon DEF KnowsItsBase
    <2> QED BY <2>1, <2>2, <1>1
  <1>4. ASSUME step \notin {"idle", "base", "through", "done", "failed"}
        PROVE  m.through \in m.base .. Latest'
    <2>1. l.base \in 1 .. Latest /\ l.through \in l.base .. Latest
      BY <1>4, Zenon DEF Facts
    <2> QED BY <2>1, <1>1
  <1>5. ASSUME step \in {"latest", "row", "open", "commit"}, Head(m.parts).checked,
               NEW t \in Head(m.parts).tables
        PROVE  NoConflict(t, m.base, m.through)'
    <2>1. /\ l.base \in 1 .. Latest /\ l.through \in l.base .. Latest
          /\ NoConflict(t, l.base, l.through)
      BY <1>5, Zenon DEF Facts
    <2> QED BY <2>1, <1>1, LookKept, Zenon
  <1>6. ASSUME step \in {"row", "open", "commit"}
        PROVE  m.order \in m.through .. Latest'
    <2>1. /\ l.base \in 1 .. Latest /\ l.through \in l.base .. Latest
          /\ l.order \in l.through .. Latest
      BY <1>6, Zenon DEF Facts
    <2> QED BY <2>1, <1>1, <1>6
  <1>7. ASSUME step \in {"open", "commit"}
        PROVE  /\ Replacement(m.previous, m.next)
               /\ \A r \in m.previous : r.table \in Head(m.parts).tables /\ ReadRow(r, m.through)'
    <2>1. /\ l.base \in 1 .. Latest /\ l.through \in l.base .. Latest
          /\ Replacement(l.previous, l.next)
          /\ \A r \in l.previous : r.table \in Head(l.parts).tables /\ ReadRow(r, l.through)
      BY <1>7, Zenon DEF Facts
    <2>2. l.through \in 1 .. Latest
      BY <2>1, <1>1
    <2>3. \A r \in l.previous : ReadRow(r, l.through)'
      BY <2>1, <2>2, <1>1, ReadKept, Zenon
    <2> QED BY <2>1, <2>3, <1>7, Zenon
  <1>8. Replacement(m.previous, m.next) => Replacement(m.previous, m.next)'
    BY Zenon DEF Replacement, IsRow, RowFields
  <1> QED BY <1>2, <1>3, <1>4, <1>5, <1>6, <1>7, <1>8, Zenon DEF Facts

\* What a commit writes to the log and to the locals of the calls.
LEMMA ApplyShape ==
    ASSUME IInv, NEW c \in Clients, NEW step \in Steps, NEW unknown, Apply(c, step, unknown)
    PROVE  /\ pc[c] = "commit" /\ ~local[c].conflicted /\ pc' = [pc EXCEPT ![c] = step]
           /\ request' = request /\ met' = met \cup Situations(c)
           /\ \E row \in LogRow :
                 /\ log' = Append(log, row)
                 /\ row.version = local[c].version
                      => ~NewSchemaVersion(local[c].previous, local[c].next)
           /\ local' = [d \in Clients |-> local'[d]]
           /\ \A d \in Clients :
                 IsLocal(local'[d]) /\ local'[d].base = local[d].base
                   /\ local'[d].through = local[d].through
           /\ local'[c].parts = Tail(local[c].parts)
           /\ \A d \in Clients \ {c} :
                 /\ local'[d].parts = local[d].parts /\ local'[d].order = local[d].order
                 /\ local'[d].previous = local[d].previous /\ local'[d].next = local[d].next
                 /\ pc[d] = "commit" => local'[d].conflicted
  <1> DEFINE own == [local[c] EXCEPT !.parts = Tail(@), !.previous = {}, !.next = {},
                                     !.order = None, !.sequence = None, !.version = None,
                                     !.unknown = unknown]
             late(d) == local[d].late \/ pc[d] \notin {"idle", "base", "through"}
             conflicted(d) == local[d].conflicted \/ pc[d] = "commit"
             other(d) == [local[d] EXCEPT !.alone = FALSE, !.late = late(d),
                                          !.conflicted = conflicted(d)]
  <1>1. \A d \in Clients : IsLocal(local[d])
    BY Zenon DEF IInv, Typed
  <1>2. /\ IsLocal(own) /\ own.base = local[c].base /\ own.through = local[c].through
        /\ own.parts = Tail(local[c].parts)
    BY <1>1, ZenonT(30) DEF IsLocal, LocalFields, None
  <1>3. ASSUME NEW d \in Clients
        PROVE  /\ IsLocal(other(d)) /\ other(d).base = local[d].base
               /\ other(d).through = local[d].through
               /\ other(d).parts = local[d].parts /\ other(d).order = local[d].order
               /\ other(d).previous = local[d].previous /\ other(d).next = local[d].next
               /\ pc[d] = "commit" => other(d).conflicted
    <2>1. pc[d] = "commit" => conflicted(d)
      BY Zenon
    <2> HIDE DEF late, conflicted
    <2> QED BY <1>1, <2>1, Zenon DEF IsLocal, LocalFields
  <1> HIDE DEF own, other
  <1>4. local' = [d \in Clients |-> IF d = c THEN own ELSE other(d)]
    BY ZenonT(30) DEF Apply, own, other
  <1>5. \E row \in LogRow :
           /\ log' = Append(log, row)
           /\ row.version = local[c].version => ~NewSchemaVersion(local[c].previous, local[c].next)
    <2> DEFINE bump == IF NewSchemaVersion(local[c].previous, local[c].next) THEN 1 ELSE 0
               row == [sequence |-> local[c].sequence, version |-> local[c].version + bump]
    <2>1. local[c].sequence \in Nat /\ local[c].version \in Nat
      BY <1>1, Zenon DEF IsLocal
    <2>2. row \in LogRow /\ (row.version = local[c].version => bump = 0)
      BY <2>1 DEF LogRow
    <2>3. log' = Append(log, row)
      BY Zenon DEF Apply
    <2>4. bump = 0 => ~NewSchemaVersion(local[c].previous, local[c].next)
      OBVIOUS
    <2> HIDE DEF row, bump
    <2> QED BY <2>2, <2>3, <2>4, Zenon
  <1>6. /\ pc[c] = "commit" /\ ~local[c].conflicted /\ pc' = [pc EXCEPT ![c] = step]
        /\ request' = request /\ met' = met \cup Situations(c)
    BY Zenon DEF Apply
  <1> QED BY <1>2, <1>3, <1>4, <1>5, <1>6, Zenon

\* What a commit of current rows writes to the rows.
LEMMA ApplyReplaces ==
    ASSUME Typed, Windows, NEW c \in Clients, NEW step, NEW unknown, Apply(c, step, unknown),
           local[c].previous \subseteq current,
           Replacement(local[c].previous, local[c].next)
    PROVE  /\ Replaces(local[c].previous, local[c].next)
           /\ current' = {r \in current : ~\E n \in local[c].next : n.table = r.table}
                           \cup {Begun(n, Latest + 1) : n \in local[c].next}
  <1> DEFINE previous == local[c].previous
             next == local[c].next
             staged == Staged(previous, next, Latest + 1)
             begun == {r \in staged : r.end = None}
  <1>1. Replaces(previous, next)
    <2>1. rows' = {r \in rows : ~\E e \in staged : SameKey(r, e)} \cup staged
      BY Zenon DEF Apply
    <2> QED BY <2>1, CommitReplaces, Zenon
  <1>2. current' = {r \in current : ~\E b \in begun : b.table = r.table} \cup begun
    BY Zenon DEF Apply
  <1>3. Latest \in Nat /\ Latest + 1 # None
    BY DEF Typed, Latest, None
  <1>4. /\ \A p \in previous : Ended(p, Latest + 1).end = Latest + 1
        /\ \A n \in next : Begun(n, Latest + 1).table = n.table /\ Begun(n, Latest + 1).end = None
    BY EndedRow, BegunRow DEF Replacement
  <1>5. begun = {Begun(n, Latest + 1) : n \in next}
    <2>1. \A x : x \in staged <=> \/ \E p \in previous : x = Ended(p, Latest + 1)
                                  \/ \E n \in next : x = Begun(n, Latest + 1)
      BY Zenon DEF Staged, Ended, Begun
    <2> HIDE DEF staged, previous, next
    <2> QED BY <1>3, <1>4, <2>1
  <1> HIDE DEF begun, next, previous
  <1>6. current' = {r \in current : ~\E n \in next : n.table = r.table}
                     \cup {Begun(n, Latest + 1) : n \in next}
    BY <1>2, <1>4, <1>5
  <1> QED BY <1>1, <1>6, Zenon DEF previous, next

LEMMA ApplyStep ==
    ASSUME IInv, NEW c \in Clients, NEW unknown,
           NEW step \in {"reload", "done", "check", "latest", "failed"},
           step = "latest" => ~Head(Tail(local[c].parts)).checked,
           Apply(c, step, unknown)
    PROVE  IInv'
  <1>1. step \in Steps
    BY Zenon DEF Steps
  <1>2. /\ pc[c] = "commit" /\ ~local[c].conflicted /\ pc' = [pc EXCEPT ![c] = step]
        /\ request' = request /\ met' = met \cup Situations(c)
        /\ local' = [d \in Clients |-> local'[d]]
    BY <1>1, ApplyShape, Zenon
  <1>3. \A d \in Clients : /\ IsLocal(local'[d]) /\ local'[d].base = local[d].base
                           /\ local'[d].through = local[d].through
    BY <1>1, ApplyShape, Zenon
  <1>4. PICK row \in LogRow :
           /\ log' = Append(log, row)
           /\ row.version = local[c].version => ~NewSchemaVersion(local[c].previous, local[c].next)
    BY <1>1, ApplyShape, Zenon
  <1>5. Typed'
    <2>1. log' \in Seq(LogRow) /\ Len(log') >= 1
      <3>1. log \in Seq(LogRow)
        BY Zenon DEF IInv, Typed
      <3> QED BY <3>1, <1>4
    <2>2. pc' \in [Clients -> Steps]
      BY <1>1, <1>2, ZenonT(30) DEF IInv, Typed
    <2> QED BY <2>1, <2>2, <1>2, <1>3, ZenonT(30) DEF IInv, Typed, IsLocal, LocalFields
  <1>6. ASSUME "stale row" \notin met'
        PROVE  (Windows /\ VersionsTellSchemas /\ \A d \in Clients : Facts(d, pc[d], local[d]))'
    <2>1. "stale row" \notin met /\ local[c].previous \subseteq current
      BY <1>2, <1>6, Zenon DEF Situations
    <2>2. /\ Typed /\ Windows /\ VersionsTellSchemas
          /\ \A d \in Clients : Facts(d, pc[d], local[d])
      BY <2>1, ZenonT(30) DEF IInv
    <2>3. /\ Replacement(local[c].previous, local[c].next)
          /\ local[c].version = log[Latest].version
      BY <2>2, <1>2, Zenon DEF Facts
    <2> DEFINE previous == local[c].previous
               next == local[c].next
    <2>4. /\ previous \in SUBSET current /\ Replacement(previous, next)
          /\ Replaces(previous, next)
          /\ current' = {r \in current : ~\E n \in next : n.table = r.table}
                          \cup {Begun(n, Latest + 1) : n \in next}
          /\ row.version = log[Latest].version => ~NewSchemaVersion(previous, next)
      BY <2>1, <2>2, <2>3, <1>4, ApplyReplaces, Zenon
    <2>5. PICK p, n : p = previous /\ n = next
      BY Zenon
    <2>6. /\ p \in SUBSET current /\ Replacement(p, n) /\ Replaces(p, n)
          /\ current' = {r \in current : ~\E x \in n : x.table = r.table}
                          \cup {Begun(x, Latest + 1) : x \in n}
          /\ row.version = log[Latest].version => ~NewSchemaVersion(p, n)
      BY <2>4, <2>5, Zenon
    <2>7. Latest' = Latest + 1
      BY <1>4, <2>2 DEF Typed, Latest
    <2>8. Windows' /\ VersionsTellSchemas'
      BY <2>2, <2>6, <2>7, <1>4, WindowsKept, VersionsKept, ZenonT(30)
    <2>9. ASSUME NEW d \in Clients
          PROVE  Facts(d, pc[d], local[d])'
      <3>1. PICK m, l : m = local'[d] /\ l = local[d]
        BY Zenon
      <3>2. m.base = l.base /\ m.through = l.through
        BY <3>1, <1>3, Zenon
      <3>3. CASE d = c
        <4>1. Facts(d, "shape", l)
          BY <2>2, <3>1, <3>3, <1>2, Zenon DEF Facts
        <4>2. Facts(d, "shape", m)'
          BY <4>1, <3>2, <2>2, <2>6, <1>2, <1>4, FactsMet, Zenon
        <4>3. step = "latest" => ~Head(m.parts).checked
          BY <3>1, <3>3, <1>1, ApplyShape, Zenon
        <4>4. Facts(d, step, m)'
          BY <4>2, <4>3, Zenon DEF Facts
        <4>5. pc'[d] = step
          BY <3>3, <1>2, <2>2, Zenon DEF Typed
        <4> QED BY <4>4, <4>5, <3>1, Zenon DEF Facts
      <3>4. CASE d # c
        <4>1. PICK s : s = pc[d]
          BY Zenon
        <4>2. /\ m.parts = l.parts /\ m.order = l.order /\ m.previous = l.previous
              /\ m.next = l.next /\ (s = "commit" => m.conflicted)
          BY <4>1, <3>1, <3>4, <1>1, ApplyShape
        <4>3. Facts(d, s, l)
          BY <4>1, <2>2, <3>1, Zenon
        <4>4. Facts(d, s, m)'
          BY <4>2, <4>3, <3>2, <2>2, <2>6, <1>2, <1>4, FactsMet, Zenon
        <4>5. pc'[d] = s
          BY <4>1, <3>4, <1>2, <2>2, Zenon DEF Typed
        <4> QED BY <4>4, <4>5, <3>1, Zenon DEF Facts
      <3> QED BY <3>3, <3>4, Zenon
    <2> QED BY <2>8, <2>9, Zenon
  <1> QED BY <1>5, <1>6, Zenon DEF IInv

-----------------------------------------------------------------------------
(* The invariant and what follows from it. *)

LEMMA InitInv ==
    ASSUME Init
    PROVE  IInv
  <1>1. log = <<[sequence |-> 1, version |-> 1]>> /\ Latest = 1 /\ None = 0
    BY Zenon DEF Init, Latest, None
  <1>2. Typed
    <2>1. log \in Seq(LogRow) /\ Len(log) >= 1
      BY <1>1 DEF LogRow
    <2>2. IsLocal(NoLocal) /\ NoRequest.commit \in Nat
      BY Zenon DEF IsLocal, LocalFields, NoLocal, NoRequest, None
    <2> QED BY <2>1, <2>2, Zenon DEF Init, Typed, Steps
  <1>3. \A r \in rows : IsRow(r) /\ r.begin = 1 /\ r.end = None
    BY SchemaChangeAssumption DEF Init, Table, IsRow, RowFields
  <1>4. Windows
    BY <1>1, <1>3, SchemaChangeAssumption DEF Init, Windows, Alive
  <1>5. VersionsTellSchemas
    BY <1>1 DEF VersionsTellSchemas
  <1>6. \A c \in Clients : Facts(c, pc[c], local[c])
    BY Zenon DEF Init, Facts
  <1> QED BY <1>2, <1>4, <1>5, <1>6, Zenon DEF IInv

LEMMA NextInv ==
    ASSUME IInv, [Next]_vars
    PROVE  IInv'
  <1>1. ASSUME NEW c \in Clients, Commit(c)
        PROVE  IInv'
    <2> DEFINE rest == Tail(local[c].parts)
               step == IF Head(local[c].parts).kind = "append" THEN "reload"
                       ELSE IF rest = <<>> THEN "done"
                       ELSE IF Head(rest).checked THEN "check" ELSE "latest"
    <2>1. Apply(c, step, FALSE)
      BY <1>1, Zenon DEF Commit
    <2>2. /\ step \in {"reload", "done", "check", "latest", "failed"}
          /\ step = "latest" => ~Head(rest).checked
      BY Zenon
    <2> HIDE DEF step
    <2> QED BY <2>1, <2>2, ApplyStep, Zenon
  <1>2. ASSUME NEW c \in Clients, CommitUnknownApplied(c)
        PROVE  IInv'
    <2>1. Apply(c, "failed", TRUE)
      BY <1>2, Zenon DEF CommitUnknownApplied
    <2> QED BY <2>1, ApplyStep, Zenon
  <1>3. ASSUME NEW c \in Clients, Fail(c)
        PROVE  IInv'
    BY <1>3, FailStep, Zenon DEF Fail
  <1>4. CASE UNCHANGED vars
    <2>1. /\ UNCHANGED <<stored, request>> /\ log' = log /\ rows' = rows /\ current' = current
          /\ pc' = pc /\ local' = local /\ request' = request /\ met' = met /\ Latest' = Latest
      BY <1>4, Zenon DEF vars, stored, Latest
    <2>2. Typed'
      BY <2>1, Zenon DEF IInv, Typed, IsLocal
    <2>3. "stale row" \notin met' => Windows'
      BY <2>1, Zenon DEF IInv, Windows, Alive, IsRow, RowFields
    <2>4. \A o, p : SameTables(o, p) => SameTables(o, p)'
      BY <2>1, Zenon DEF SameTables, Alive, Visible
    <2>5. "stale row" \notin met' => VersionsTellSchemas'
      BY <2>1, <2>4, ZenonT(30) DEF IInv, VersionsTellSchemas
    <2>6. ASSUME "stale row" \notin met', NEW d \in Clients
          PROVE  Facts(d, pc[d], local[d])'
      <3>1. PICK s, m : s = pc[d] /\ m = local[d]
        BY Zenon
      <3>2. Facts(d, s, m)
        BY <3>1, <2>1, <2>6, Zenon DEF IInv
      <3>3. Facts(d, s, m)'
        BY <3>2, <2>1, FactsKept, Zenon
      <3> QED BY <3>1, <3>3, <2>1, Zenon DEF Facts
    <2> QED BY <2>2, <2>3, <2>5, <2>6, Zenon DEF IInv
  <1> QED BY Zenon, <1>1, <1>2, <1>3, <1>4, SendStep, LoadBaseStep, LoadThroughStep, ShapeStep,
             CheckStep, LoadLatestStep, LoadRowsStep, OpenStep, ReloadStep
          DEF Next, Terminated

LEMMA Invariance == Spec => []IInv
  <1>1. Init => IInv
    BY InitInv, Zenon
  <1>2. IInv /\ [Next]_vars => IInv'
    BY NextInv, Zenon
  <1> QED BY <1>1, <1>2, PTL DEF Spec

\* What a request that looked for conflicts is about to replace is what its client read
\* (load_ddl_orders, reject_table_conflicts_since_base), for any clients, tables and
\* requests: the look covers the changes up to it, and no commit rewrites the past.
THEOREM ReplacesWhatWasReadHolds == Spec => []ReplacesWhatWasRead
  <1>1. IInv => ReplacesWhatWasRead
    <2> SUFFICES ASSUME IInv, "stale row" \notin met, NEW c \in Clients, pc[c] = "commit",
                        Head(local[c].parts).checked, KnowsItsBase(c),
                        NEW r \in local[c].previous, r.begin <= local[c].through
                 PROVE  \E s \in load_table_at(r.table, request[c].read) :
                            same_user_visible_schema_as(r, s)
      BY Zenon DEF ReplacesWhatWasRead
    <2>1. Typed /\ Windows /\ Facts(c, "commit", local[c])
      BY Zenon DEF IInv
    <2>2. /\ local[c].base \in 1 .. Latest /\ local[c].through \in local[c].base .. Latest
          /\ local[c].base = request[c].read
          /\ NoConflict(r.table, local[c].base, local[c].through)
          /\ ReadRow(r, local[c].through)
      BY <2>1, Zenon DEF Facts
    <2> QED BY <2>1, <2>2, ReadIsReplaced, Zenon
  <1> QED BY <1>1, Invariance, PTL

LEMMA NextOrder == \A n \in Nat : \A i \in 1 .. n - 1 : i \in 1 .. n /\ i + 1 \in 1 .. n
  OBVIOUS

LEMMA SameImages ==
    ASSUME NEW S, NEW T,
           \A r \in S : \E s \in T : Visible(s) = Visible(r),
           \A r \in T : \E s \in S : Visible(s) = Visible(r)
    PROVE  {Visible(r) : r \in S} = {Visible(r) : r \in T}
  <1>1. \A v : v \in {Visible(r) : r \in S} <=> v \in {Visible(r) : r \in T}
    <2> SUFFICES ASSUME NEW v
                 PROVE  (\E r \in S : v = Visible(r)) <=> (\E r \in T : v = Visible(r))
      BY Zenon
    <2> QED BY Zenon
  <1> QED BY <1>1, Zenon

\* Two snapshots in a row with one schema version show the same tables
\* (same_user_visible_schema_as, commit_table_changes_with_sequence_versionstamped), for
\* any clients, tables and requests.
THEOREM OneVersionOneSchemaHolds == Spec => []OneVersionOneSchema
  <1>1. IInv => OneVersionOneSchema
    <2> SUFFICES ASSUME IInv, "stale row" \notin met, NEW o \in 1 .. Latest - 1,
                        log[o].version = log[o + 1].version
                 PROVE  {Visible(r) : r \in TablesAt(o)} = {Visible(r) : r \in TablesAt(o + 1)}
      BY Zenon DEF OneVersionOneSchema
    <2>1. Typed /\ Windows /\ SameTables(o, o + 1)
      BY Zenon DEF IInv, VersionsTellSchemas
    <2>2. o \in 1 .. Latest /\ o + 1 \in 1 .. Latest
      <3>1. Latest \in Nat
        BY LatestType, Zenon
      <3> QED BY <3>1, NextOrder, Zenon
    <2>3. /\ TablesAt(o) = {r \in rows : Alive(r, o)}
          /\ TablesAt(o + 1) = {r \in rows : Alive(r, o + 1)}
      BY <2>1, <2>2, TablesAreAlive, Zenon
    <2>4. /\ \A r \in TablesAt(o) : \E s \in TablesAt(o + 1) : Visible(s) = Visible(r)
          /\ \A r \in TablesAt(o + 1) : \E s \in TablesAt(o) : Visible(s) = Visible(r)
      BY <2>1, <2>3, Zenon DEF SameTables
    <2> QED BY <2>4, SameImages, Zenon
  <1> QED BY <1>1, Invariance, PTL
=============================================================================
