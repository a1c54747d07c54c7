--------------------------- MODULE StatisticsProofs ----------------------------
(***************************************************************************)
(* Two facts about Statistics for every number of commits and layouts and  *)
(* every choice of files, rows and defaults: pruning by partition keeps    *)
(* each file with a row that matches, and a column listed as holding only  *)
(* NULL does.                                                              *)
(*                                                                         *)
(* Both follow from what is true of every file of the store, current or    *)
(* not (GoodFile): its age against the age of the column, its statistics   *)
(* row against its rows, its partition against its values.                 *)
(***************************************************************************)
EXTENDS Statistics, TLAPS

(* The shape of the store.  Row ids, bounds and NULL counts are results of  *)
(* folds the proofs do not look into: they are members of some set U.       *)
RowsType(U) == [nulls : Nat, others : Nat, values : SUBSET U]

StatsType(U) == [count : SUBSET Nat, nulls : U, min : SUBSET U, max : SUBSET U]

FileType(U) ==
    [rows : RowsType(U), has : BOOLEAN, stats : SUBSET StatsType(U), start : SUBSET U,
     by : PartitionKeys, partition : SUBSET U, lookup : BOOLEAN, begin : Nat, last : Nat, end : SUBSET U,
     deletions : BOOLEAN, guessed : BOOLEAN]

StoreType(U) ==
    [files : Seq(FileType(U)), inline : [1..MaxLayouts -> RowsType(U)],
     layout : 1..MaxLayouts, since : Nat, default : SUBSET U, birth : Nat,
     key : PartitionKeys, version : U, next_row_id : U,
     inline_next : [1..MaxLayouts -> U], used : U, rewrite : BOOLEAN, commits : Nat]

(* What is true of a file: it is as old as the last of the rows merged into *)
(* it; a file without the column is older than the column, and one that was *)
(* given the column by a merge and is older has none of its values, unless  *)
(* from a default; a statistics row that counts no value says the truth;    *)
(* and a file of a partition of the column has the column, and only its     *)
(* partition's value.                                                       *)
OneValue(partition, values) ==
    \E v \in partition : partition = {v} /\ values \subseteq {v}

Keyed(by, partition) ==
    /\ partition # {} => by # "none"
    /\ by # "none" => \E v \in partition : partition = {v}

GoodFile(s, file) ==
    /\ file.begin <= file.last
    /\ file.has => HasColumn(s)
    /\ file.stats # {} => file.has
    /\ HasColumn(s) /\ ~file.has => file.last < s.birth
    /\ file.has /\ s.default = {} /\ file.last < s.birth => file.rows.others = 0
    /\ \A r \in file.stats : r.count = {0} => file.rows.others = 0
    /\ file.lookup => file.partition # {}
    /\ Keyed(file.by, file.partition)
    /\ file.by = "column" => file.has /\ OneValue(file.partition, file.rows.values)

(* A store whose files and column were made by the order n.                 *)
Good(s, n) ==
    /\ \E U : s \in StoreType(U)
    /\ \A f \in Files(s) : s.files[f].last <= n /\ GoodFile(s, s.files[f])
    /\ s.birth <= n
    /\ ~HasColumn(s) => s.default = {}
    /\ s.key = "column" => HasColumn(s)

(* The inductive invariant.                                                 *)
IInv == Good(store, store.commits)

--------------------------------------------------------------------------------
(* The larger of two numbers is one of them, and no smaller than either.    *)
LEMMA MaxOfTwo ==
    ASSUME NEW a \in Nat, NEW b \in Nat
    PROVE  /\ Max({a, b}) \in {a, b}
           /\ Max({a, b}) >= a
           /\ Max({a, b}) >= b
<1>1. \E x \in {a, b} : \A y \in {a, b} : x >= y
  <2>1. CASE a >= b
    BY <2>1
  <2>2. CASE b >= a
    BY <2>2
  <2> QED
    BY <2>1, <2>2
<1>2. /\ Max({a, b}) \in {a, b}
      /\ \A y \in {a, b} : Max({a, b}) >= y
  BY <1>1, Zenon DEF Max
<1> QED
  BY <1>2, Zenon

(* A larger set of unexplained values does no harm.                         *)
LEMMA FileTypeGrows ==
    ASSUME NEW U, NEW W, U \subseteq W
    PROVE  FileType(U) \subseteq FileType(W)
<1>1. RowsType(U) \subseteq RowsType(W)
  BY Zenon DEF RowsType
<1>2. StatsType(U) \subseteq StatsType(W)
  BY Zenon DEF StatsType
<1> QED
  BY <1>1, <1>2, Zenon DEF FileType

LEMMA StoreTypeGrows ==
    ASSUME NEW U, NEW W, U \subseteq W
    PROVE  StoreType(U) \subseteq StoreType(W)
<1>1. RowsType(U) \subseteq RowsType(W)
  BY Zenon DEF RowsType
<1>2. Seq(FileType(U)) \subseteq Seq(FileType(W))
  <2>1. FileType(U) \subseteq FileType(W)
    BY FileTypeGrows, Zenon
  <2> QED
    BY <2>1
<1>3. [1..MaxLayouts -> RowsType(U)] \subseteq [1..MaxLayouts -> RowsType(W)]
  BY <1>1, Zenon
<1>4. [1..MaxLayouts -> U] \subseteq [1..MaxLayouts -> W]
  BY Zenon
<1> QED
  BY <1>2, <1>3, <1>4, Zenon DEF StoreType

LEMMA FilesTyped ==
    ASSUME NEW U, NEW s \in StoreType(U), NEW f \in Files(s)
    PROVE  s.files[f] \in FileType(U)
<1>1. s.files \in Seq(FileType(U))
  BY Zenon DEF StoreType
<1> QED
  BY <1>1 DEF Files

--------------------------------------------------------------------------------
(* GoodFile looks at the column of the store only.                          *)
SameColumn(s, t) ==
    t.since = s.since /\ t.default = s.default /\ t.birth = s.birth

LEMMA GoodFileMoves ==
    ASSUME NEW s, NEW t, NEW file, SameColumn(s, t), GoodFile(s, file)
    PROVE  GoodFile(t, file)
BY Zenon DEF SameColumn, GoodFile, HasColumn

(* A store stays good while its files, its column and its partitioning stay *)
(* the same, whatever happens to the rest.                                  *)
LEMMA GoodRest ==
    ASSUME NEW s, NEW t, NEW n \in Nat, NEW m \in Nat, n <= m, Good(s, n),
           \E U : t \in StoreType(U),
           t.files = s.files, SameColumn(s, t), t.key = "column" => HasColumn(t)
    PROVE  Good(t, m)
<1>1. PICK U : s \in StoreType(U)
  BY Zenon DEF Good
<1>2. s.birth \in Nat /\ \A f \in Files(s) : s.files[f].last \in Nat
  <2>1. s.birth \in Nat
    BY <1>1, Zenon DEF StoreType
  <2>2. \A f \in Files(s) : s.files[f] \in FileType(U)
    BY <1>1, FilesTyped, Zenon
  <2> QED
    BY <2>1, <2>2, Zenon DEF FileType
<1>3. \A f \in Files(t) : t.files[f].last <= m /\ GoodFile(t, t.files[f])
  <2> SUFFICES ASSUME NEW f \in Files(t)
               PROVE  t.files[f].last <= m /\ GoodFile(t, t.files[f])
    BY Zenon
  <2>1. f \in Files(s) /\ s.files[f].last <= n /\ GoodFile(s, s.files[f])
    BY Zenon DEF Files, Good
  <2>2. s.files[f].last <= m
    BY <1>2, <2>1
  <2> QED
    BY <2>1, <2>2, GoodFileMoves, Zenon
<1>4. t.birth <= m /\ (~HasColumn(t) => t.default = {})
  BY <1>2 DEF SameColumn, Good, HasColumn
<1> QED
  BY <1>3, <1>4, Zenon DEF Good

(* The store goes on being good when a good file is added.                  *)
LEMMA WithFileGood ==
    ASSUME NEW s, NEW n \in Nat, Good(s, n),
           NEW U, NEW file \in FileType(U), file.last <= n, GoodFile(s, file)
    PROVE  Good(WithFile(s, file), n)
<1>1. PICK S : s \in StoreType(S)
  BY Zenon DEF Good
<1> DEFINE v == IF file.stats = {} THEN s.version ELSE Order
           x == Max({s.next_row_id} \cup {k + RecordCount(file.rows) : k \in file.start})
           y == Max({s.used} \cup {k + RecordCount(file.rows) : k \in file.start})
           W == S \cup U \cup {v, x, y}
           t == WithFile(s, file)
<1>2. t = [s EXCEPT !.files = Append(s.files, file), !.version = v,
                    !.next_row_id = x, !.used = y, !.rewrite = FALSE]
  BY Zenon DEF WithFile
<1>3. S \subseteq W /\ U \subseteq W /\ v \in W /\ x \in W /\ y \in W
  BY Zenon
<1> HIDE DEF v, x, y, W, t
<1>4. s \in StoreType(W) /\ file \in FileType(W)
  BY <1>1, <1>3, StoreTypeGrows, FileTypeGrows, Zenon
<1>5. s.files \in Seq(FileType(W))
  BY <1>4, Zenon DEF StoreType
<1>6. /\ Append(s.files, file) \in Seq(FileType(W))
      /\ DOMAIN Append(s.files, file) = DOMAIN s.files \cup {Len(s.files) + 1}
      /\ \A f \in DOMAIN s.files : Append(s.files, file)[f] = s.files[f]
      /\ Append(s.files, file)[Len(s.files) + 1] = file
  BY <1>4, <1>5
<1>7. t \in StoreType(W)
  BY <1>2, <1>3, <1>4, <1>6, Zenon DEF StoreType
<1>8. t.files = Append(s.files, file) /\ SameColumn(s, t) /\ t.key = s.key
  BY <1>2, <1>4, Zenon DEF StoreType, SameColumn
<1>9. \A f \in Files(t) : t.files[f].last <= n /\ GoodFile(t, t.files[f])
  <2> SUFFICES ASSUME NEW f \in Files(t)
               PROVE  t.files[f].last <= n /\ GoodFile(t, t.files[f])
    BY Zenon
  <2>1. CASE f \in Files(s)
    <3>1. t.files[f] = s.files[f]
      BY <1>6, <1>8, <2>1, Zenon DEF Files
    <3> QED
      BY <1>8, <2>1, <3>1, GoodFileMoves, Zenon DEF Good
  <2>2. CASE f = Len(s.files) + 1
    <3>1. t.files[f] = file
      BY <1>6, <1>8, <2>2, Zenon
    <3> QED
      BY <1>8, <3>1, GoodFileMoves, Zenon
  <2> QED
    BY <1>6, <1>8, <2>1, <2>2, Zenon DEF Files
<1>10. /\ t.birth <= n
       /\ ~HasColumn(t) => t.default = {}
       /\ t.key = "column" => HasColumn(t)
  BY <1>8, Zenon DEF Good, SameColumn, HasColumn
<1>11. Good(t, n)
  BY <1>7, <1>9, <1>10, Zenon DEF Good
<1> QED
  BY <1>11, Zenon DEF t

(* A file of the store that is replaced by one like it but for its end, its *)
(* deletions and its lookup, which may go: the store is still good.         *)
LEMMA FileReplaced ==
    ASSUME NEW s, NEW n \in Nat, Good(s, n), NEW f \in Files(s),
           NEW U, NEW file \in FileType(U),
           file.begin = s.files[f].begin, file.last = s.files[f].last,
           file.has = s.files[f].has, file.stats = s.files[f].stats,
           file.rows = s.files[f].rows, file.partition = s.files[f].partition, file.by = s.files[f].by,
           file.lookup => s.files[f].lookup,
           NEW t, t = [s EXCEPT !.files = [s.files EXCEPT ![f] = file]]
    PROVE  Good(t, n) /\ Files(t) = Files(s) /\ SameColumn(s, t)
<1>1. PICK S : s \in StoreType(S)
  BY Zenon DEF Good
<1>2. PICK W : W = S \cup U
  BY Zenon
<1>3. s \in StoreType(W) /\ file \in FileType(W)
  BY <1>1, <1>2, StoreTypeGrows, FileTypeGrows, Zenon
<1>4. s.files \in Seq(FileType(W))
  BY <1>3, Zenon DEF StoreType
<1>5. PICK files : files = [s.files EXCEPT ![f] = file]
  BY Zenon
<1>6. /\ files \in Seq(FileType(W)) /\ DOMAIN files = DOMAIN s.files
      /\ files[f] = file /\ \A g \in DOMAIN s.files \ {f} : files[g] = s.files[g]
  BY <1>3, <1>4, <1>5 DEF Files
<1>7. t \in StoreType(W) /\ t.files = files
  BY <1>3, <1>5, <1>6, Zenon DEF StoreType
<1>8. SameColumn(s, t) /\ t.key = s.key
  BY <1>3, Zenon DEF StoreType, SameColumn
<1>9. \A g \in Files(t) : t.files[g].last <= n /\ GoodFile(t, t.files[g])
  <2> SUFFICES ASSUME NEW g \in Files(t)
               PROVE  t.files[g].last <= n /\ GoodFile(t, t.files[g])
    BY Zenon
  <2>1. g \in Files(s) /\ s.files[g].last <= n /\ GoodFile(s, s.files[g])
    BY <1>6, <1>7, Zenon DEF Files, Good
  <2>2. CASE g = f
    <3>1. GoodFile(s, file)
      BY <2>1, <2>2, Zenon DEF GoodFile
    <3> QED
      BY <1>6, <1>7, <1>8, <2>1, <2>2, <3>1, GoodFileMoves, Zenon
  <2>3. CASE g # f
    <3>1. t.files[g] = s.files[g]
      BY <1>6, <1>7, <2>1, <2>3, Zenon DEF Files
    <3> QED
      BY <1>8, <2>1, <3>1, GoodFileMoves, Zenon
  <2> QED
    BY <2>2, <2>3, Zenon
<1>10. /\ t.birth <= n
       /\ ~HasColumn(t) => t.default = {}
       /\ t.key = "column" => HasColumn(t)
  BY <1>8, Zenon DEF Good, SameColumn, HasColumn
<1>11. Good(t, n)
  BY <1>7, <1>9, <1>10, Zenon DEF Good
<1> QED
  BY <1>6, <1>7, <1>8, <1>11, Zenon DEF Files

(* Ending a file, and deleting rows of it.                                  *)
LEMMA ExpiredGood ==
    ASSUME NEW s, NEW n \in Nat, Good(s, n), NEW f \in Files(s), NEW order
    PROVE  /\ Good(Expired(s, f, order), n)
           /\ Files(Expired(s, f, order)) = Files(s)
           /\ SameColumn(s, Expired(s, f, order))
<1>1. PICK S : s \in StoreType(S)
  BY Zenon DEF Good
<1>2. PICK W : W = S \cup {order}
  BY Zenon
<1>3. s \in StoreType(W)
  BY <1>1, <1>2, StoreTypeGrows, Zenon
<1>4. PICK old : old = s.files[f]
  BY Zenon
<1>5. old \in FileType(W)
  BY <1>3, <1>4, FilesTyped, Zenon
<1>6. PICK file : file = [old EXCEPT !.end = {order}, !.lookup = FALSE]
  BY Zenon
<1>7. /\ file \in FileType(W) /\ file.lookup = FALSE
      /\ file.begin = old.begin /\ file.last = old.last /\ file.has = old.has
      /\ file.stats = old.stats /\ file.rows = old.rows /\ file.partition = old.partition /\ file.by = old.by
  BY <1>2, <1>5, <1>6, Zenon DEF FileType
<1>8. Expired(s, f, order) = [s EXCEPT !.files = [s.files EXCEPT ![f] = file]]
  BY <1>3, <1>4, <1>6, Zenon DEF Expired, StoreType, Files
<1> QED
  BY <1>4, <1>7, <1>8, FileReplaced

LEMMA DeletionsGood ==
    ASSUME NEW s, NEW n \in Nat, Good(s, n), NEW f \in Files(s)
    PROVE  Good([s EXCEPT !.files[f].deletions = TRUE], n)
<1>1. PICK W : s \in StoreType(W)
  BY Zenon DEF Good
<1>2. PICK old : old = s.files[f]
  BY Zenon
<1>3. old \in FileType(W)
  BY <1>1, <1>2, FilesTyped, Zenon
<1>4. PICK file : file = [old EXCEPT !.deletions = TRUE]
  BY Zenon
<1>5. /\ file \in FileType(W) /\ file.lookup = old.lookup
      /\ file.begin = old.begin /\ file.last = old.last /\ file.has = old.has
      /\ file.stats = old.stats /\ file.rows = old.rows /\ file.partition = old.partition /\ file.by = old.by
  BY <1>3, <1>4, Zenon DEF FileType
<1>6. [s EXCEPT !.files[f].deletions = TRUE] = [s EXCEPT !.files = [s.files EXCEPT ![f] = file]]
  BY <1>2, <1>4, Zenon
<1> QED
  BY <1>2, <1>5, <1>6, FileReplaced

(* A committed store.                                                       *)
LEMMA CommitGood ==
    ASSUME NEW s, NEW n \in Nat, Good(s, n)
    PROVE  Good([s EXCEPT !.commits = n], n) /\ [s EXCEPT !.commits = n].commits = n
<1>1. PICK U : s \in StoreType(U)
  BY Zenon DEF Good
<1>2. PICK t : t = [s EXCEPT !.commits = n]
  BY Zenon
<1>3. /\ t \in StoreType(U) /\ t.files = s.files /\ SameColumn(s, t)
      /\ t.key = s.key /\ t.commits = n
  BY <1>1, <1>2, Zenon DEF StoreType, SameColumn
<1>4. t.key = "column" => HasColumn(t)
  BY <1>3, Zenon DEF Good, SameColumn, HasColumn
<1>5. Good(t, n)
  BY <1>3, <1>4, GoodRest
<1> QED
  BY <1>2, <1>3, <1>5, Zenon

LEMMA CommitStep ==
    ASSUME NEW s, IInv, store.commits \in Nat, Commit(s), Good(s, Order)
    PROVE  IInv'
<1>1. PICK n : n = store.commits + 1
  BY Zenon
<1>2. n \in Nat /\ Good(s, n) /\ store' = [s EXCEPT !.commits = n]
  BY <1>1 DEF Commit, Order
<1>3. Good(store', n) /\ store'.commits = n
  BY <1>2, CommitGood, Zenon
<1> QED
  BY <1>3, Zenon DEF IInv

--------------------------------------------------------------------------------
(* What IInv says of the store, for a commit that is about to be made.      *)
LEMMA StoreFacts ==
    ASSUME IInv
    PROVE  /\ store.commits \in Nat /\ Order \in Nat /\ store.birth < Order
           /\ Good(store, Order)
           /\ \A f \in Files(store) : store.files[f].last < Order
<1>1. PICK U : store \in StoreType(U)
  BY Zenon DEF IInv, Good
<1>2. store.commits \in Nat /\ store.birth \in Nat
  BY <1>1, Zenon DEF StoreType
<1>3. \A f \in Files(store) : store.files[f].last \in Nat
  <2>1. \A f \in Files(store) : store.files[f] \in FileType(U)
    BY <1>1, FilesTyped, Zenon
  <2> QED
    BY <2>1, Zenon DEF FileType
<1>4. Order \in Nat /\ store.birth < Order
  BY <1>2 DEF IInv, Good, Order
<1>5. \A f \in Files(store) : store.files[f].last < Order
  BY <1>2, <1>3 DEF IInv, Good, Order
<1>6. Good(store, Order)
  <2>1. PICK s : s = store
    BY Zenon
  <2>2. PICK n : n = store.commits
    BY Zenon
  <2>3. PICK m : m = Order
    BY Zenon
  <2>4. n \in Nat /\ m \in Nat /\ n <= m /\ Good(s, n)
    BY <1>2, <1>4, <2>1, <2>2, <2>3 DEF Order, IInv
  <2>5. SameColumn(s, s) /\ (s.key = "column" => HasColumn(s)) /\ \E V : s \in StoreType(V)
    BY <2>4, Zenon DEF SameColumn, Good
  <2>6. Good(s, m)
    BY <2>4, <2>5, GoodRest, Zenon
  <2> QED
    BY <2>1, <2>3, <2>6, Zenon
<1> QED
  BY <1>2, <1>4, <1>5, <1>6, Zenon

(* Rows as a reader sees them are rows, and no more of them.                *)
LEMMA FilledTyped ==
    ASSUME NEW U, NEW s \in StoreType(U), NEW rows \in RowsType(U), NEW has \in BOOLEAN
    PROVE  Filled(s, rows, has) \in RowsType(U)
<1>1. RecordCount(rows) \in Nat /\ s.default \in SUBSET U
  BY DEF RowsType, RecordCount, StoreType
<1> QED
  BY <1>1, Zenon DEF Filled, NoRows, RowsType

LEMMA FileRowsTyped ==
    ASSUME NEW U, NEW s \in StoreType(U), NEW f \in Files(s)
    PROVE  FileRows(s, f) \in RowsType(U)
<1>1. s.files[f] \in FileType(U)
  BY FilesTyped, Zenon
<1>2. s.files[f].rows \in RowsType(U) /\ s.files[f].has \in BOOLEAN
  BY <1>1, Zenon DEF FileType
<1> QED
  BY <1>2, FilledTyped, Zenon DEF FileRows

(* The row a client registers: only for a column there is, and it counts    *)
(* the values that are not NULL.                                            *)
LEMMA StatsOptionTyped ==
    ASSUME NEW U, NEW rows \in RowsType(U), rows.nulls \in U, NEW registered
    PROVE  /\ StatsOption(rows, registered) \subseteq StatsType(U)
           /\ StatsOption(rows, registered) # {} => HasColumn(store)
           /\ \A r \in StatsOption(rows, registered) : r.count = {0} => rows.others = 0
<1>1. PICK r : r = ClientRow(rows)
  BY Zenon
<1>2. BoundsOf(rows).min \subseteq U /\ BoundsOf(rows).max \subseteq U
  BY Zenon DEF BoundsOf, RowsType, Lowest, Highest
<1>3. r \in StatsType(U) /\ r.count = {rows.others}
  BY <1>1, <1>2, Zenon DEF ClientRow, StatsType, RowsType
<1>4. r.count = {0} => rows.others = 0
  BY <1>3, Zenon
<1>5. StatsOption(rows, registered) \in {{r}, {}}
  BY <1>1, Zenon DEF StatsOption
<1>6. StatsOption(rows, registered) # {} => HasColumn(store)
  BY Zenon DEF StatsOption
<1> QED
  BY <1>3, <1>4, <1>5, <1>6, Zenon

(* A file written now, with the column if there is one: what its rows, its  *)
(* statistics, row ids and partition must be for it to be good.             *)
Writable(U, rows, stats, start, by, partition) ==
    /\ rows \in RowsType(U) /\ stats \in SUBSET StatsType(U)
    /\ start \in SUBSET U /\ partition \in SUBSET U
    /\ stats # {} => HasColumn(store)
    /\ \A r \in stats : r.count = {0} => rows.others = 0
    /\ by \in PartitionKeys /\ Keyed(by, partition)
    /\ by = "column" => HasColumn(store) /\ OneValue(partition, rows.values)

LEMMA NewFileGood ==
    ASSUME IInv, NEW U, NEW rows, NEW stats, NEW start, NEW by, NEW partition,
           Writable(U, rows, stats, start, by, partition),
           NEW file, file = NewFile(rows, stats, start, by, partition)
    PROVE  file \in FileType(U) /\ file.last = Order /\ GoodFile(store, file)
<1>1. Order \in Nat /\ store.birth < Order
  BY StoreFacts, Zenon
<1>2. file \in FileType(U)
  BY <1>1 DEF NewFile, FileType, HasColumn, Writable
<1>3. /\ file.begin = Order /\ file.last = Order /\ file.has = HasColumn(store)
      /\ file.stats = stats /\ file.rows = rows /\ file.partition = partition
      /\ file.by = by /\ file.lookup = (partition # {})
  BY Zenon DEF NewFile
<1>4. ~(file.last < store.birth)
  <2>1. store.birth \in Nat
    BY Zenon DEF IInv, Good, StoreType
  <2> QED
    BY <1>1, <1>3, <2>1
<1>5. file.begin <= file.last
  BY <1>1, <1>3
<1> QED
  BY <1>2, <1>3, <1>4, <1>5, Zenon DEF GoodFile, Writable

--------------------------------------------------------------------------------
(* The commits, one by one.                                                 *)
LEMMA AppendFileStep ==
    ASSUME IInv, NEW a \in Appends, AppendFile(a)
    PROVE  IInv'
<1>1. PICK s : s = store
  BY Zenon
<1>2. PICK n : n = Order
  BY Zenon
<1>3. n \in Nat /\ store.commits \in Nat /\ Good(s, n)
  BY <1>1, <1>2, StoreFacts, Zenon
<1>4. PICK stats : stats = StatsOption(a.rows, a.stats)
  BY Zenon
<1>5. PICK start : start = IF a.known THEN {FreeRowId(store)} ELSE {}
  BY Zenon
<1>6. PICK file : file = NewFile(a.rows, stats, start, a.by, a.partition)
  BY Zenon
<1>7. /\ a.rows \in [nulls : Nat, others : Nat, values : SUBSET a.rows.values]
      /\ a.by \in PartitionKeys /\ Keyed(a.by, a.partition)
      /\ a.by = "column" => OneValue(a.partition, a.rows.values)
  BY StatisticsAssumption, Zenon DEF OneValue, Keyed, PartitionKeys
<1>8. PICK U : U = a.rows.values \cup a.partition \cup start \cup {a.rows.nulls}
  BY Zenon
<1>9. /\ a.rows \in RowsType(U) /\ a.rows.nulls \in U
      /\ start \in SUBSET U /\ a.partition \in SUBSET U
  BY <1>7, <1>8, Zenon DEF RowsType
<1>10. /\ stats \in SUBSET StatsType(U) /\ (stats # {} => HasColumn(store))
       /\ \A r \in stats : r.count = {0} => a.rows.others = 0
  BY <1>4, <1>9, StatsOptionTyped, Zenon
<1>11. a.by = "column" => HasColumn(store) /\ OneValue(a.partition, a.rows.values)
  BY <1>7, Zenon DEF AppendFile, IInv, Good
<1>12. file \in FileType(U) /\ file.last = Order /\ GoodFile(store, file)
  <2>1. Writable(U, a.rows, stats, start, a.by, a.partition)
    BY <1>7, <1>9, <1>10, <1>11, Zenon DEF Writable
  <2> QED
    BY <1>6, <2>1, NewFileGood
<1>13. file.last <= n /\ GoodFile(s, file)
  BY <1>1, <1>2, <1>3, <1>12
<1>14. Good(WithFile(s, file), n)
  BY <1>3, <1>12, <1>13, WithFileGood, Zenon
<1>15. PICK t : t = WithFile(s, file)
  BY Zenon
<1>16. Commit(t)
  BY <1>1, <1>4, <1>5, <1>6, <1>15, Zenon DEF AppendFile
<1> QED
  BY <1>2, <1>3, <1>14, <1>15, <1>16, CommitStep, Zenon

LEMMA FlushInlineStep ==
    ASSUME IInv, NEW l \in Layouts(store), NEW registered \in BOOLEAN,
           FlushInline(l, registered)
    PROVE  IInv'
<1>1. PICK s : s = store
  BY Zenon
<1>2. PICK n : n = Order
  BY Zenon
<1>3. n \in Nat /\ store.commits \in Nat /\ Good(s, n)
  BY <1>1, <1>2, StoreFacts, Zenon
<1>4. PICK S : s \in StoreType(S)
  BY <1>3, Zenon DEF Good
<1>5. PICK rows : rows = InlineRows(store, l)
  BY Zenon
<1>6. PICK U : U = S \cup {rows.nulls}
  BY Zenon
<1>7. l \in 1..MaxLayouts /\ s.inline[l] \in RowsType(U) /\ s \in StoreType(U)
  <2>1. s \in StoreType(U)
    BY <1>4, <1>6, StoreTypeGrows, Zenon
  <2>2. l \in 1..MaxLayouts
    BY <1>1, <2>1, StatisticsAssumption DEF Layouts, StoreType
  <2> QED
    BY <2>1, <2>2, Zenon DEF StoreType
<1>8. rows \in RowsType(U) /\ rows.nulls \in U
  <2>1. LayoutHas(s, l) \in BOOLEAN
    BY Zenon DEF LayoutHas, HasColumn
  <2> QED
    BY <1>1, <1>5, <1>6, <1>7, <2>1, FilledTyped, Zenon DEF InlineRows
<1>9. PICK stats : stats = StatsOption(rows, registered)
  BY Zenon
<1>10. /\ stats \in SUBSET StatsType(U) /\ (stats # {} => HasColumn(store))
       /\ \A r \in stats : r.count = {0} => rows.others = 0
  BY <1>8, <1>9, StatsOptionTyped, Zenon
<1>11. PICK file : file = NewFile(rows, stats, {}, "none", {})
  BY Zenon
<1>12. file \in FileType(U) /\ file.last = Order /\ GoodFile(store, file)
  <2>1. Writable(U, rows, stats, {}, "none", {})
    BY <1>8, <1>10, Zenon DEF Writable, Keyed, PartitionKeys
  <2> QED
    BY <1>11, <2>1, NewFileGood, Zenon
<1>13. file.last <= n /\ GoodFile(s, file)
  BY <1>1, <1>2, <1>3, <1>12
<1>14. PICK t : t = WithFile(s, file)
  BY Zenon
<1>15. Good(t, n)
  BY <1>3, <1>12, <1>13, <1>14, WithFileGood, Zenon
<1>16. PICK u : u = [t EXCEPT !.inline[l] = NoRows]
  BY Zenon
<1>17. Good(u, n)
  <2>1. PICK W : t \in StoreType(W)
    BY <1>15, Zenon DEF Good
  <2>2. NoRows \in RowsType(W)
    BY Zenon DEF NoRows, RowsType
  <2>3. /\ u \in StoreType(W) /\ u.files = t.files /\ SameColumn(t, u)
        /\ u.key = t.key
    BY <1>16, <2>1, <2>2, Zenon DEF StoreType, SameColumn
  <2>4. u.key = "column" => HasColumn(u)
    BY <1>15, <2>3, Zenon DEF Good, SameColumn, HasColumn
  <2> QED
    BY <1>3, <1>15, <2>3, <2>4, GoodRest
<1>18. Commit(u)
  BY <1>1, <1>5, <1>9, <1>11, <1>14, <1>16, Zenon DEF FlushInline
<1> QED
  BY <1>2, <1>3, <1>17, <1>18, CommitStep, Zenon

(* Commits that leave the files as they are.                                *)
LEMMA InsertInlineStep ==
    ASSUME IInv, NEW rows \in Inserts, InsertInline(rows)
    PROVE  IInv'
<1>1. PICK s : s = store
  BY Zenon
<1>2. PICK n : n = Order
  BY Zenon
<1>3. n \in Nat /\ store.commits \in Nat /\ Good(s, n)
  BY <1>1, <1>2, StoreFacts, Zenon
<1>4. PICK S : s \in StoreType(S)
  BY <1>3, Zenon DEF Good
<1>5. PICK next : next = FreeRowId(store) + RecordCount(rows)
  BY Zenon
<1>6. PICK U : U = S \cup rows.values \cup {next}
  BY Zenon
<1>7. s \in StoreType(U)
  BY <1>4, <1>6, StoreTypeGrows, Zenon
<1>8. PICK l : l = s.layout
  BY Zenon
<1>9. l \in 1..MaxLayouts /\ s.inline[l] \in RowsType(U) /\ rows \in RowsType(U)
  <2>1. rows \in [nulls : Nat, others : Nat, values : SUBSET rows.values]
    BY StatisticsAssumption, Zenon
  <2> QED
    BY <1>6, <1>7, <1>8, <2>1, Zenon DEF StoreType, RowsType
<1>10. PICK sum : sum = Together(s.inline[l], rows)
  BY Zenon
<1>11. sum \in RowsType(U)
  BY <1>9, <1>10 DEF Together, RowsType
<1>12. PICK t : t = [s EXCEPT !.inline[l] = sum, !.inline_next[l] = next, !.used = next,
                              !.rewrite = FALSE]
  BY Zenon
<1>13. /\ t \in StoreType(U) /\ t.files = s.files /\ SameColumn(s, t)
       /\ t.key = s.key
  <2>1. PICK inline : inline = [s.inline EXCEPT ![l] = sum]
    BY Zenon
  <2>2. PICK inline_next : inline_next = [s.inline_next EXCEPT ![l] = next]
    BY Zenon
  <2>3. next \in U /\ inline \in [1..MaxLayouts -> RowsType(U)]
                   /\ inline_next \in [1..MaxLayouts -> U]
    BY <1>6, <1>7, <1>11, <2>1, <2>2 DEF StoreType
  <2>4. t = [s EXCEPT !.inline = inline, !.inline_next = inline_next, !.used = next,
                      !.rewrite = FALSE]
    BY <1>7, <1>12, <2>1, <2>2, Zenon DEF StoreType
  <2> QED
    BY <1>7, <2>3, <2>4, Zenon DEF StoreType, SameColumn
<1>14. t.key = "column" => HasColumn(t)
  BY <1>3, <1>13, Zenon DEF Good, SameColumn, HasColumn
<1>15. Good(t, n)
  BY <1>3, <1>13, <1>14, GoodRest
<1>16. Commit(t)
  BY <1>1, <1>5, <1>8, <1>10, <1>12, Zenon DEF InsertInline
<1> QED
  BY <1>2, <1>3, <1>15, <1>16, CommitStep, Zenon

LEMMA DeleteInlineStep ==
    ASSUME IInv, NEW l, DeleteInline(l)
    PROVE  IInv'
<1>1. PICK s : s = store
  BY Zenon
<1>2. PICK n : n = Order
  BY Zenon
<1>3. n \in Nat /\ store.commits \in Nat /\ Good(s, n)
  BY <1>1, <1>2, StoreFacts, Zenon
<1>4. PICK U : s \in StoreType(U)
  BY <1>3, Zenon DEF Good
<1>5. PICK t : t = [s EXCEPT !.inline[l] = NoRows, !.rewrite = FALSE]
  BY Zenon
<1>6. /\ t \in StoreType(U) /\ t.files = s.files /\ SameColumn(s, t)
      /\ t.key = s.key
  <2>1. NoRows \in RowsType(U)
    BY Zenon DEF NoRows, RowsType
  <2> QED
    BY <1>4, <1>5, <2>1, Zenon DEF StoreType, SameColumn
<1>7. t.key = "column" => HasColumn(t)
  BY <1>3, <1>6, Zenon DEF Good, SameColumn, HasColumn
<1>8. Good(t, n)
  BY <1>3, <1>6, <1>7, GoodRest
<1>9. Commit(t)
  BY <1>1, <1>5, Zenon DEF DeleteInline
<1> QED
  BY <1>2, <1>3, <1>8, <1>9, CommitStep, Zenon

LEMMA TableStep ==
    ASSUME IInv, ChangeLayout \/ \E by \in PartitionKeys : SetPartition(by)
    PROVE  IInv'
<1>1. PICK s : s = store
  BY Zenon
<1>2. PICK n : n = Order
  BY Zenon
<1>3. n \in Nat /\ store.commits \in Nat /\ Good(s, n)
  BY <1>1, <1>2, StoreFacts, Zenon
<1>4. PICK U : s \in StoreType(U)
  BY <1>3, Zenon DEF Good
<1>5. CASE ChangeLayout
  <2>1. PICK t : t = [s EXCEPT !.layout = s.layout + 1, !.rewrite = FALSE]
    BY Zenon
  <2>2. s.layout \in 1..MaxLayouts /\ s.layout < MaxLayouts
    BY <1>1, <1>4, <1>5, Zenon DEF ChangeLayout, StoreType
  <2>3. s.layout + 1 \in 1..MaxLayouts
    BY <2>2, StatisticsAssumption
  <2>4. /\ t \in StoreType(U) /\ t.files = s.files /\ SameColumn(s, t)
        /\ t.key = s.key
    BY <1>4, <2>1, <2>3, Zenon DEF StoreType, SameColumn
  <2>5. t.key = "column" => HasColumn(t)
    BY <1>3, <2>4, Zenon DEF Good, SameColumn, HasColumn
  <2>6. Good(t, n)
    BY <1>3, <2>4, <2>5, GoodRest
  <2>7. Commit(t)
    BY <1>1, <1>5, <2>1, Zenon DEF ChangeLayout
  <2> QED
    BY <1>2, <1>3, <2>6, <2>7, CommitStep, Zenon
<1>6. ASSUME NEW by \in PartitionKeys, SetPartition(by)
      PROVE  IInv'
  <2>1. PICK t : t = [s EXCEPT !.key = by, !.rewrite = FALSE]
    BY Zenon
  <2>2. t \in StoreType(U) /\ t.files = s.files /\ SameColumn(s, t) /\ t.key = by
    BY <1>4, <1>6, <2>1, Zenon DEF StoreType, SameColumn
  <2>3. t.key = "column" => HasColumn(t)
    BY <1>1, <1>6, <2>2, Zenon DEF SetPartition, SameColumn, HasColumn
  <2>4. Good(t, n)
    BY <1>3, <2>2, <2>3, GoodRest
  <2>5. Commit(t)
    BY <1>1, <1>6, <2>1, Zenon DEF SetPartition
  <2> QED
    BY <1>2, <1>3, <2>4, <2>5, CommitStep, Zenon
<1> QED
  BY <1>5, <1>6, Zenon

(* The column is added: every file there is lacks it, and is older.         *)
LEMMA AddColumnStep ==
    ASSUME IInv, NEW default, AddColumn(default)
    PROVE  IInv'
<1>1. PICK s : s = store
  BY Zenon
<1>2. PICK n : n = Order
  BY Zenon
<1>3. /\ n \in Nat /\ store.commits \in Nat /\ Good(s, n)
      /\ \A f \in Files(s) : s.files[f].last < n
  BY <1>1, <1>2, StoreFacts, Zenon
<1>4. PICK S : s \in StoreType(S)
  BY <1>3, Zenon DEF Good
<1>5. PICK U : U = S \cup default
  BY Zenon
<1>6. s \in StoreType(U)
  BY <1>4, <1>5, StoreTypeGrows, Zenon
<1>7. PICK t : t = [s EXCEPT !.layout = s.layout + 1, !.since = s.layout + 1,
                             !.default = default, !.birth = n, !.rewrite = FALSE]
  BY Zenon
<1>8. s.layout \in Nat /\ s.layout + 1 \in 1..MaxLayouts
  <2>1. s.layout \in 1..MaxLayouts /\ s.layout < MaxLayouts
    BY <1>1, <1>6, Zenon DEF AddColumn, StoreType
  <2> QED
    BY <2>1, StatisticsAssumption
<1>9. /\ t \in StoreType(U) /\ t.files = s.files /\ t.key = s.key
      /\ t.since = s.layout + 1 /\ t.birth = n
  <2>1. PICK k : k = s.layout + 1
    BY Zenon
  <2>2. k \in 1..MaxLayouts /\ k \in Nat /\ default \in SUBSET U
    BY <1>5, <1>8, <2>1
  <2>3. t = [s EXCEPT !.layout = k, !.since = k, !.default = default, !.birth = n,
                      !.rewrite = FALSE]
    BY <1>7, <2>1, Zenon
  <2>4. /\ t \in StoreType(U) /\ t.files = s.files /\ t.key = s.key
        /\ t.since = k /\ t.birth = n
    BY <1>3, <1>6, <2>2, <2>3, Zenon DEF StoreType
  <2> QED
    BY <2>1, <2>4, Zenon
<1>10. HasColumn(t)
  BY <1>8, <1>9 DEF HasColumn
<1>11. \A f \in Files(t) : t.files[f].last <= n /\ GoodFile(t, t.files[f])
  <2> SUFFICES ASSUME NEW f \in Files(t)
               PROVE  t.files[f].last <= n /\ GoodFile(t, t.files[f])
    BY Zenon
  <2>1. PICK file : file = s.files[f]
    BY Zenon
  <2>2. file \in FileType(U) /\ file.last < n /\ file.last <= n /\ GoodFile(s, file)
    BY <1>3, <1>6, <1>9, <2>1, FilesTyped, Zenon DEF Files, Good
  <2>3. ~file.has
    BY <1>1, <2>2, Zenon DEF GoodFile, AddColumn
  <2>4. GoodFile(t, file)
    BY <1>9, <1>10, <2>2, <2>3, Zenon DEF GoodFile
  <2> QED
    BY <1>9, <2>1, <2>2, <2>4, Zenon
<1>12. Good(t, n)
  BY <1>3, <1>9, <1>10, <1>11 DEF Good
<1>13. Commit(t)
  BY <1>1, <1>2, <1>7, Zenon DEF AddColumn
<1> QED
  BY <1>2, <1>3, <1>12, <1>13, CommitStep, Zenon

(* Only the table's mark of a rewrite changes.                              *)
LEMMA RewriteMark ==
    ASSUME NEW s, NEW n \in Nat, Good(s, n), NEW mark \in BOOLEAN
    PROVE  Good([s EXCEPT !.rewrite = mark], n)
<1>1. PICK U : s \in StoreType(U)
  BY Zenon DEF Good
<1>2. PICK t : t = [s EXCEPT !.rewrite = mark]
  BY Zenon
<1>3. /\ t \in StoreType(U) /\ t.files = s.files /\ SameColumn(s, t)
      /\ t.key = s.key
  BY <1>1, <1>2, Zenon DEF StoreType, SameColumn
<1>4. t.key = "column" => HasColumn(t)
  BY <1>3, Zenon DEF Good, SameColumn, HasColumn
<1>5. Good(t, n)
  BY <1>3, <1>4, GoodRest
<1> QED
  BY <1>2, <1>5, Zenon

LEMMA ExpireFileStep ==
    ASSUME IInv, NEW f \in Files(store), ExpireFile(f)
    PROVE  IInv'
<1>1. PICK s : s = store
  BY Zenon
<1>2. PICK n : n = Order
  BY Zenon
<1>3. n \in Nat /\ store.commits \in Nat /\ Good(s, n)
  BY <1>1, <1>2, StoreFacts, Zenon
<1>4. PICK t : t = Expired(s, f, n)
  BY Zenon
<1>5. Good(t, n)
  BY <1>1, <1>3, <1>4, ExpiredGood, Zenon
<1>6. PICK u : u = [t EXCEPT !.rewrite = FALSE]
  BY Zenon
<1>7. Good(u, n)
  BY <1>3, <1>5, <1>6, RewriteMark, Zenon
<1>8. Commit(u)
  BY <1>1, <1>2, <1>4, <1>6, Zenon DEF ExpireFile
<1> QED
  BY <1>2, <1>3, <1>7, <1>8, CommitStep, Zenon

LEMMA DeleteFromFileStep ==
    ASSUME IInv, NEW f \in Files(store), DeleteFromFile(f)
    PROVE  IInv'
<1>1. PICK s : s = store
  BY Zenon
<1>2. PICK n : n = Order
  BY Zenon
<1>3. n \in Nat /\ store.commits \in Nat /\ Good(s, n)
  BY <1>1, <1>2, StoreFacts, Zenon
<1>4. PICK t : t = [s EXCEPT !.files[f].deletions = TRUE]
  BY Zenon
<1>5. Good(t, n)
  BY <1>1, <1>3, <1>4, DeletionsGood, Zenon
<1>6. PICK u : u = [t EXCEPT !.rewrite = FALSE]
  BY Zenon
<1>7. Good(u, n)
  BY <1>3, <1>5, <1>6, RewriteMark
<1>8. Commit(u)
  <2>1. u = [s EXCEPT !.files[f].deletions = TRUE, !.rewrite = FALSE]
    BY <1>4, <1>6, Zenon
  <2> QED
    BY <1>1, <2>1, Zenon DEF DeleteFromFile
<1> QED
  BY <1>2, <1>3, <1>7, <1>8, CommitStep, Zenon

--------------------------------------------------------------------------------
(* A file of a partition is read as it is stored; and one that is older     *)
(* than a column without a default has none of its values.                  *)
LEMMA SourceRows ==
    ASSUME NEW U, NEW s \in StoreType(U), NEW f \in Files(s), GoodFile(s, s.files[f])
    PROVE  /\ s.files[f].by = "column" =>
                HasColumn(s) /\ OneValue(s.files[f].partition, FileRows(s, f).values)
           /\ s.default = {} /\ s.files[f].last < s.birth => FileRows(s, f).others = 0
<1>1. s.files[f].has => FileRows(s, f) = s.files[f].rows
  BY Zenon DEF FileRows, Filled
<1>2. ~s.files[f].has /\ s.default = {} => FileRows(s, f).others = 0
  BY Zenon DEF FileRows, Filled, NoRows
<1> QED
  BY <1>1, <1>2, Zenon DEF GoodFile

LEMMA OneValueTogether ==
    ASSUME NEW partition, NEW a, NEW b, OneValue(partition, a.values),
           OneValue(partition, b.values)
    PROVE  OneValue(partition, Together(a, b).values)
<1>1. Together(a, b).values = a.values \cup b.values
  BY Zenon DEF Together
<1> QED
  BY <1>1, Zenon DEF OneValue

(* The row derived for a merged file: there is one only if a source has the *)
(* column, and it counts every record of the file.                          *)
StatsTyped(U, stats) == \E W : U \subseteq W /\ stats \in SUBSET StatsType(W)

LEMMA MergedStats ==
    ASSUME IInv, NEW f \in Files(store), NEW g \in Files(store),
           NEW U, NEW rows \in RowsType(U),
           NEW stats, stats = merge_stats_for_replacement({f, g}, rows)
    PROVE  /\ StatsTyped(U, stats)
           /\ stats # {} => HasColumn(store)
           /\ \A r \in stats : r.count = {0} => rows.others = 0
<1>1. PICK nulls, min, max, total :
        /\ stats # {} => \E x \in {f, g} : store.files[x].stats # {}
        /\ stats \in {{}, {[count |-> {total}, nulls |-> nulls, min |-> min, max |-> max]}}
        /\ total = RecordCount(rows)
  BY ZenonT(30) DEF merge_stats_for_replacement
<1>2. total \in Nat /\ (total = 0 => rows.others = 0)
  BY <1>1 DEF RecordCount, RowsType
<1>3. PICK W : W = U \cup {nulls} \cup min \cup max
  BY Zenon
<1>4. PICK row : row = [count |-> {total}, nulls |-> nulls, min |-> min, max |-> max]
  BY Zenon
<1>5. row \in StatsType(W) /\ row.count = {total}
  BY <1>2, <1>3, <1>4, Zenon DEF StatsType
<1>6. row.count = {0} => rows.others = 0
  BY <1>2, <1>5, Zenon
<1>7. \A x \in {f, g} : store.files[x].stats # {} => HasColumn(store)
  BY Zenon DEF IInv, Good, GoodFile
<1>8. StatsTyped(U, stats)
  BY <1>1, <1>3, <1>4, <1>5, ZenonT(30) DEF StatsTyped
<1> QED
  BY <1>1, <1>4, <1>6, <1>7, <1>8, Zenon

(* The file two others are merged into.                                     *)
LEMMA MergedFileGood ==
    ASSUME IInv, NEW f \in Files(store), NEW g \in Files(store), NEW provided \in BOOLEAN,
           store.files[f].partition = store.files[g].partition,
           store.files[f].by = store.files[g].by,
           NEW rows, rows = Together(FileRows(store, f), FileRows(store, g)),
           NEW stats, stats = IF provided THEN StatsOption(rows, TRUE)
                              ELSE merge_stats_for_replacement({f, g}, rows),
           NEW start, NEW guessed \in BOOLEAN, NEW file,
           file = [NewFile(rows, stats, start, store.files[f].by, store.files[f].partition)
                     EXCEPT !.begin = store.files[f].begin,
                            !.last = Max({store.files[f].last, store.files[g].last}),
                            !.guessed = guessed]
    PROVE  (\E U : file \in FileType(U)) /\ file.last <= Order /\ GoodFile(store, file)
<1>1. PICK s : s = store
  BY Zenon
<1>2. PICK n : n = Order
  BY Zenon
<1>3. /\ n \in Nat /\ Good(s, n)
      /\ \A x \in Files(s) : s.files[x].last < n
  BY <1>1, <1>2, StoreFacts, Zenon
<1>4. PICK S : s \in StoreType(S)
  BY <1>3, Zenon DEF Good
<1>5. PICK a : a = s.files[f]
  BY Zenon
<1>6. PICK b : b = s.files[g]
  BY Zenon
<1>7. a \in FileType(S) /\ b \in FileType(S) /\ GoodFile(s, a) /\ GoodFile(s, b)
  BY <1>1, <1>3, <1>4, <1>5, <1>6, FilesTyped, Zenon DEF Good
<1>8. /\ FileRows(s, f) \in RowsType(S) /\ FileRows(s, g) \in RowsType(S)
      /\ rows \in RowsType(S)
      /\ rows.others = FileRows(s, f).others + FileRows(s, g).others
  <2>1. FileRows(s, f) \in RowsType(S) /\ FileRows(s, g) \in RowsType(S)
    BY <1>1, <1>4, FileRowsTyped, Zenon
  <2> QED
    BY <1>1, <2>1 DEF Together, RowsType
<1>9. PICK W : /\ S \subseteq W /\ start \subseteq W /\ stats \in SUBSET StatsType(W)
               /\ stats # {} => HasColumn(store)
               /\ \A r \in stats : r.count = {0} => rows.others = 0
  <2>1. CASE provided
    <3>1. PICK W : W = S \cup start \cup {rows.nulls}
      BY Zenon
    <3>2. rows \in RowsType(W) /\ rows.nulls \in W
      BY <1>8, <3>1, Zenon DEF RowsType
    <3> QED
      BY <2>1, <3>1, <3>2, StatsOptionTyped, Zenon
  <2>2. CASE ~provided
    <3>1. PICK W : S \cup start \subseteq W /\ stats \in SUBSET StatsType(W)
      <4>1. PICK V : V = S \cup start
        BY Zenon
      <4>2. rows \in RowsType(V) /\ stats = merge_stats_for_replacement({f, g}, rows)
        BY <1>8, <2>2, <4>1, Zenon DEF RowsType
      <4>3. StatsTyped(V, stats)
        BY <4>2, MergedStats, Zenon
      <4> QED
        BY <4>1, <4>3, Zenon DEF StatsTyped
    <3>2. /\ stats # {} => HasColumn(store)
          /\ \A r \in stats : r.count = {0} => rows.others = 0
      BY <1>8, <2>2, MergedStats
    <3> QED
      BY <3>1, <3>2, Zenon
  <2> QED
    BY <2>1, <2>2, Zenon
<1>10. PICK base : base = NewFile(rows, stats, start, a.by, a.partition)
  BY Zenon
<1>11. Writable(W, rows, stats, start, a.by, a.partition)
  <2>1. /\ rows \in RowsType(W) /\ a.partition \in SUBSET W
        /\ a.by \in PartitionKeys /\ Keyed(a.by, a.partition)
    BY <1>7, <1>8, <1>9, Zenon DEF RowsType, FileType, GoodFile
  <2>2. a.by = "column" => HasColumn(store) /\ OneValue(a.partition, rows.values)
    <3>1. a.partition = b.partition /\ a.by = b.by
      BY <1>1, <1>5, <1>6, Zenon
    <3> QED
      BY <1>1, <1>4, <1>5, <1>6, <1>7, <3>1, SourceRows, OneValueTogether, Zenon
  <2> QED
    BY <1>9, <2>1, <2>2, Zenon DEF Writable
<1>12. base \in FileType(W) /\ GoodFile(store, base)
  BY <1>10, <1>11, NewFileGood, Zenon
<1>13. PICK last : last = Max({a.last, b.last})
  BY Zenon
<1>14. /\ a.begin \in Nat /\ a.begin <= a.last /\ a.last \in Nat /\ b.last \in Nat
       /\ a.last < n /\ b.last < n
  BY <1>1, <1>3, <1>5, <1>6, <1>7, Zenon DEF FileType, GoodFile
<1>15. last \in Nat /\ a.last <= last /\ b.last <= last /\ last <= n
  BY <1>3, <1>13, <1>14, MaxOfTwo
<1>16. file = [base EXCEPT !.begin = a.begin, !.last = last, !.guessed = guessed]
  BY <1>1, <1>5, <1>6, <1>10, <1>13, Zenon
<1>17. /\ file \in FileType(W) /\ file.begin = a.begin /\ file.last = last
       /\ file.has = base.has /\ file.stats = base.stats /\ file.rows = base.rows
       /\ file.partition = base.partition /\ file.by = base.by /\ file.lookup = base.lookup
  BY <1>12, <1>14, <1>15, <1>16, ZenonT(30) DEF FileType
<1>18. base.has = HasColumn(store) /\ base.rows = rows
  BY <1>10, Zenon DEF NewFile
<1>19. s.default = {} /\ last < s.birth => rows.others = 0
  <2> SUFFICES ASSUME s.default = {}, last < s.birth
               PROVE  rows.others = 0
    BY Zenon
  <2>1. a.last < s.birth /\ b.last < s.birth
    <3>1. s.birth \in Nat
      BY <1>4, Zenon DEF StoreType
    <3> QED
      BY <1>14, <1>15, <3>1
  <2>2. FileRows(s, f).others = 0 /\ FileRows(s, g).others = 0
    BY <1>1, <1>4, <1>5, <1>6, <1>7, <2>1, SourceRows, Zenon
  <2> QED
    BY <1>8, <2>2
<1>20. GoodFile(store, file)
  <2>1. file.begin <= file.last
    BY <1>14, <1>15, <1>17
  <2> QED
    BY <1>1, <1>12, <1>17, <1>18, <1>19, <2>1, Zenon DEF GoodFile
<1> QED
  BY <1>2, <1>15, <1>17, <1>20, Zenon

LEMMA MergeAdjacentStep ==
    ASSUME IInv, NEW f \in Files(store), NEW g \in Files(store), NEW provided \in BOOLEAN,
           MergeAdjacent(f, g, provided)
    PROVE  IInv'
<1>1. PICK s : s = store
  BY Zenon
<1>2. PICK n : n = Order
  BY Zenon
<1>3. n \in Nat /\ store.commits \in Nat /\ Good(s, n)
  BY <1>1, <1>2, StoreFacts, Zenon
<1>4. PICK rows : rows = Together(FileRows(store, f), FileRows(store, g))
  BY Zenon
<1>5. PICK stats : stats = IF provided THEN StatsOption(rows, TRUE)
                           ELSE merge_stats_for_replacement({f, g}, rows)
  BY Zenon
<1>6. PICK start : start = derive_merge_replacement_row_ids(store.files[f], store.files[g])
  BY Zenon
<1>7. PICK guessed \in BOOLEAN :
        guessed = (/\ ~provided /\ stats # {}
                   /\ \E x \in {f, g} : \/ ~Trusted(store, x)
                                        \/ /\ store.files[x].stats = {}
                                           /\ FileRows(store, x).others > 0)
  BY Zenon
<1>8. PICK file : file = [NewFile(rows, stats, start, store.files[f].by, store.files[f].partition)
                            EXCEPT !.begin = store.files[f].begin,
                                   !.last = Max({store.files[f].last, store.files[g].last}),
                                   !.guessed = guessed]
  BY Zenon
<1>9. store.files[f].partition = store.files[g].partition /\ store.files[f].by = store.files[g].by
  BY Zenon DEF MergeAdjacent
<1>10. (\E U : file \in FileType(U)) /\ file.last <= Order /\ GoodFile(store, file)
  BY <1>4, <1>5, <1>8, <1>9, MergedFileGood, ZenonT(60)
<1>11. PICK t : t = Expired(s, f, n)
  BY Zenon
<1>12. Good(t, n) /\ Files(t) = Files(s) /\ SameColumn(s, t)
  BY <1>1, <1>3, <1>11, ExpiredGood
<1>13. PICK u : u = Expired(t, g, n)
  BY Zenon
<1>14. Good(u, n) /\ SameColumn(t, u)
  BY <1>1, <1>3, <1>12, <1>13, ExpiredGood, Zenon
<1>15. GoodFile(u, file)
  BY <1>1, <1>10, <1>12, <1>14, GoodFileMoves, Zenon
<1>16. PICK w : w = WithFile(u, file)
  BY Zenon
<1>17. Good(w, n)
  BY <1>2, <1>3, <1>10, <1>14, <1>15, <1>16, WithFileGood, Zenon
<1>18. Commit(w)
  BY <1>1, <1>2, <1>4, <1>5, <1>6, <1>7, <1>8, <1>11, <1>13, <1>16, Zenon DEF MergeAdjacent
<1> QED
  BY <1>2, <1>3, <1>17, <1>18, CommitStep, Zenon

(* A file is rewritten without its deleted rows.                            *)
LEMMA RewriteDeleteStep ==
    ASSUME IInv, NEW f \in Files(store), NEW provided \in BOOLEAN,
           NEW rows \in Remainders(FileRows(store, f)), RewriteDelete(f, rows, provided)
    PROVE  IInv'
<1>1. PICK s : s = store
  BY Zenon
<1>2. PICK n : n = Order
  BY Zenon
<1>3. n \in Nat /\ store.commits \in Nat /\ Good(s, n)
  BY <1>1, <1>2, StoreFacts, Zenon
<1>4. PICK S : s \in StoreType(S)
  BY <1>3, Zenon DEF Good
<1>5. PICK old : old = s.files[f]
  BY Zenon
<1>6. old \in FileType(S) /\ GoodFile(s, old)
  BY <1>1, <1>3, <1>4, <1>5, FilesTyped, Zenon DEF Good
<1>7. PICK whole : whole = FileRows(s, f)
  BY Zenon
<1>8. whole \in RowsType(S)
  BY <1>1, <1>4, <1>7, FileRowsTyped, Zenon
<1>9. /\ rows \in RowsType(S) /\ rows.values \subseteq whole.values
      /\ RecordCount(rows) \in Nat /\ RecordCount(rows) > 0
  <2>1. /\ [whole EXCEPT !.nulls = 0] \in RowsType(S)
        /\ [whole EXCEPT !.nulls = 0].values = whole.values
        /\ [whole EXCEPT !.others = 0, !.values = {}] \in RowsType(S)
        /\ [whole EXCEPT !.others = 0, !.values = {}].values = {}
    BY <1>8, Zenon DEF RowsType
  <2>2. /\ rows \in {[whole EXCEPT !.nulls = 0], [whole EXCEPT !.others = 0, !.values = {}]}
        /\ RecordCount(rows) > 0
    BY <1>1, <1>7, Zenon DEF Remainders
  <2>3. rows \in RowsType(S) /\ rows.values \subseteq whole.values
    BY <2>1, <2>2, Zenon
  <2> QED
    BY <2>2, <2>3 DEF RecordCount, RowsType
<1>0. PICK start : start = RewriteStart(old, rows)
  BY Zenon
<1>10. PICK W : W = S \cup {rows.nulls} \cup start
  BY Zenon
<1>11. rows \in RowsType(W) /\ rows.nulls \in W /\ old \in FileType(W)
  BY <1>6, <1>9, <1>10, FileTypeGrows, Zenon DEF RowsType
<1>12. PICK stats : stats = IF provided THEN StatsOption(rows, TRUE)
                            ELSE derive_single_source_rewrite_stats(f, rows)
  BY Zenon
<1>13. /\ stats \in SUBSET StatsType(W) /\ (stats # {} => HasColumn(store))
       /\ \A r \in stats : r.count = {0} => rows.others = 0
  <2>1. CASE provided
    BY <1>11, <1>12, <2>1, StatsOptionTyped, Zenon
  <2>2. CASE ~provided
    <3>1. stats = {[r EXCEPT !.count = {RecordCount(rows)}] : r \in old.stats}
      BY <1>1, <1>5, <1>12, <2>2, Zenon DEF derive_single_source_rewrite_stats
    <3>2. PICK total : total = RecordCount(rows)
      BY Zenon
    <3>3. \A r \in old.stats : /\ [r EXCEPT !.count = {total}] \in StatsType(W)
                               /\ [r EXCEPT !.count = {total}].count = {total}
      <4>1. total \in Nat /\ old.stats \subseteq StatsType(W)
        BY <1>9, <1>11, <3>2, Zenon DEF FileType
      <4> QED
        BY <4>1, Zenon DEF StatsType
    <3>4. \A r \in stats : r \in StatsType(W) /\ r.count = {total}
      BY <3>1, <3>2, <3>3, Zenon
    <3>5. {total} # {0}
      BY <1>9, <3>2
    <3>6. stats # {} => HasColumn(store)
      BY <1>1, <1>6, <3>1, Zenon DEF GoodFile
    <3> QED
      BY <3>4, <3>5, <3>6, Zenon
  <2> QED
    BY <2>1, <2>2, Zenon
<1>14. PICK guessed \in BOOLEAN : guessed = (~provided /\ ~Trusted(store, f))
  BY Zenon
<1>15. PICK base : base = NewFile(rows, stats, start, old.by, old.partition)
  BY Zenon
<1>16. Writable(W, rows, stats, start, old.by, old.partition)
  <2>1. /\ start \in SUBSET W /\ old.partition \in SUBSET W
        /\ old.by \in PartitionKeys /\ Keyed(old.by, old.partition)
    BY <1>6, <1>10, <1>11, Zenon DEF FileType, GoodFile
  <2>2. old.by = "column" => HasColumn(s) /\ OneValue(old.partition, whole.values)
    BY <1>1, <1>4, <1>5, <1>6, <1>7, SourceRows, Zenon
  <2>3. old.by = "column" => HasColumn(store) /\ OneValue(old.partition, rows.values)
    BY <1>1, <1>9, <2>2, Zenon DEF OneValue
  <2> QED
    BY <1>11, <1>13, <2>1, <2>3, Zenon DEF Writable
<1>17. base \in FileType(W) /\ base.last = Order /\ GoodFile(store, base)
  BY <1>15, <1>16, NewFileGood
<1>18. PICK file : file = [base EXCEPT !.guessed = guessed]
  BY Zenon
<1>19. /\ file \in FileType(W) /\ file.begin = base.begin /\ file.last = base.last
       /\ file.has = base.has /\ file.stats = base.stats /\ file.rows = base.rows
       /\ file.partition = base.partition /\ file.by = base.by /\ file.lookup = base.lookup
  BY <1>17, <1>18, Zenon DEF FileType
<1>20. GoodFile(store, file)
  BY <1>17, <1>19, Zenon DEF GoodFile
<1>21. PICK t : t = Expired(s, f, n)
  BY Zenon
<1>22. Good(t, n) /\ SameColumn(s, t)
  BY <1>1, <1>3, <1>21, ExpiredGood, Zenon
<1>23. GoodFile(t, file) /\ file.last <= n
  BY <1>1, <1>2, <1>3, <1>17, <1>19, <1>20, <1>22, GoodFileMoves
<1>24. PICK u : u = WithFile(t, file)
  BY Zenon
<1>25. Good(u, n)
  BY <1>3, <1>19, <1>22, <1>23, <1>24, WithFileGood, Zenon
<1>26. PICK w : w = [u EXCEPT !.rewrite = TRUE]
  BY Zenon
<1>27. Good(w, n)
  BY <1>3, <1>25, <1>26, RewriteMark, ZenonT(30)
<1>28. Commit(w)
  BY <1>0, <1>1, <1>2, <1>5, <1>12, <1>14, <1>15, <1>18, <1>21, <1>24, <1>26, Zenon DEF RewriteDelete
<1> QED
  BY <1>2, <1>3, <1>27, <1>28, CommitStep, Zenon

--------------------------------------------------------------------------------
LEMMA InitGood == Init => IInv
<1> SUFFICES ASSUME Init
             PROVE  IInv
  BY Zenon
<1>1. PICK with_table \in BOOLEAN :
        store = [files |-> <<>>, inline |-> [l \in 1..MaxLayouts |-> NoRows],
                 layout |-> 1, since |-> IF with_table THEN 1 ELSE 0,
                 default |-> {}, birth |-> 0, key |-> "none",
                 version |-> 0, next_row_id |-> 0,
                 inline_next |-> [l \in 1..MaxLayouts |-> 0],
                 used |-> 0, rewrite |-> FALSE, commits |-> 0]
  BY Zenon DEF Init
<1>2. store \in StoreType({0})
  <2>1. NoRows \in RowsType({0}) /\ 1 \in 1..MaxLayouts
    BY StatisticsAssumption DEF NoRows, RowsType
  <2> QED
    BY <1>1, <2>1 DEF StoreType, PartitionKeys
<1>3. /\ store.files = <<>> /\ store.birth = 0 /\ store.default = {}
      /\ store.key = "none" /\ store.commits = 0
  BY <1>1, Zenon
<1>4. Files(store) = {}
  BY <1>3 DEF Files
<1> QED
  BY <1>2, <1>3, <1>4 DEF IInv, Good

LEMMA NextGood == IInv /\ [Next]_vars => IInv'
<1> SUFFICES ASSUME IInv, [Next]_vars
             PROVE  IInv'
  BY Zenon
<1>1. CASE \E a \in Appends : AppendFile(a)
  BY <1>1, AppendFileStep, Zenon
<1>2. CASE \E rows \in Inserts : InsertInline(rows)
  BY <1>2, InsertInlineStep, Zenon
<1>3. CASE \E l \in Layouts(store) : DeleteInline(l)
  BY <1>3, DeleteInlineStep, Zenon
<1>4. CASE \E l \in Layouts(store) : \E registered \in BOOLEAN : FlushInline(l, registered)
  BY <1>4, FlushInlineStep, Zenon
<1>5. CASE \E f \in Files(store) : DeleteFromFile(f)
  BY <1>5, DeleteFromFileStep, Zenon
<1>6. CASE \E f \in Files(store) : ExpireFile(f)
  BY <1>6, ExpireFileStep, Zenon
<1>7. CASE \E default \in Defaults : AddColumn(default)
  BY <1>7, AddColumnStep, Zenon
<1>8. CASE ChangeLayout \/ \E by \in PartitionKeys : SetPartition(by)
  BY <1>8, TableStep, Zenon
<1>9. CASE \E f, g \in Files(store), provided \in BOOLEAN : MergeAdjacent(f, g, provided)
  BY <1>9, MergeAdjacentStep, Zenon
<1>10. CASE \E f \in Files(store), provided \in BOOLEAN :
              \E rows \in Remainders(FileRows(store, f)) : RewriteDelete(f, rows, provided)
  BY <1>10, RewriteDeleteStep, Zenon
<1>11. CASE PinVersion \/ GlobalStats \/ UNCHANGED vars
  <2>1. store' = store
    BY <1>11, Zenon DEF PinVersion, GlobalStats, vars
  <2> QED
    BY <2>1, Zenon DEF IInv
<1> QED
  BY <1>1, <1>2, <1>3, <1>4, <1>5, <1>6, <1>7, <1>8, <1>9, <1>10, <1>11, Zenon DEF Next

LEMMA IInvHolds == Spec => []IInv
BY InitGood, NextGood, PTL DEF Spec

(* Pruning: a file with a lookup under the column has its one partition     *)
(* value among the values that match, as its rows have no other; one with a *)
(* lookup under another column is listed if its value happens to match.     *)
LEMMA PruneFollows == IInv => PruneKeepsMatchingFiles
<1> SUFFICES ASSUME IInv,
                    NEW order \in 0..store.commits, NEW comparison \in Comparisons,
                    NEW boundary \in Values,
                    NEW matching, matching = matching_partition_values(store, comparison, boundary),
                    matching # {},
                    NEW f \in VisibleAt(store, order),
                    ~(Foreign(store, f) /\ store.files[f].partition \intersect matching = {}),
                    NEW v \in FileRows(store, f).values,
                    partition_value_matches(v, comparison, boundary)
             PROVE  f \in partition_prune_files_at(store, order, comparison, boundary)
  BY Zenon DEF PruneKeepsMatchingFiles
<1>1. /\ f \in Files(store) /\ GoodFile(store, store.files[f])
      /\ store.files[f].by \in PartitionKeys
  <2>1. f \in Files(store) /\ GoodFile(store, store.files[f])
    BY Zenon DEF VisibleAt, IInv, Good
  <2> QED
    BY <2>1, FilesTyped, Zenon DEF IInv, Good, FileType
<1>2. CASE store.files[f].lookup
  <2>1. PICK w : store.files[f].partition = {w} /\ w \in matching
    <3>1. store.files[f].by \in {"column", "other"} /\ \E w : store.files[f].partition = {w}
      BY <1>1, <1>2, Zenon DEF GoodFile, Keyed, PartitionKeys
    <3>2. CASE store.files[f].by = "other"
      BY <1>2, <3>1, <3>2, Zenon DEF Foreign
    <3>3. CASE store.files[f].by = "column"
      <4>1. store.files[f].has /\ OneValue(store.files[f].partition, store.files[f].rows.values)
        BY <1>1, <3>3, Zenon DEF GoodFile
      <4>2. FileRows(store, f) = store.files[f].rows
        BY <4>1, Zenon DEF FileRows, Filled
      <4>3. store.files[f].partition = {v}
        BY <4>1, <4>2, Zenon DEF OneValue
      <4>4. f \in partitioned_data_file_ids(store)
        BY <1>1, <1>2, Zenon DEF partitioned_data_file_ids
      <4>5. v \in matching
        BY <4>3, <4>4, Zenon DEF matching_partition_values
      <4> QED
        BY <4>3, <4>5, Zenon
    <3> QED
      BY <3>1, <3>2, <3>3, Zenon
  <2>2. f \in partition_value_lookup_ids(store, w)
    BY <1>1, <1>2, <2>1, Zenon DEF partition_value_lookup_ids
  <2> QED
    BY <2>1, <2>2, Zenon DEF partition_prune_files_at, PartitionScanFilter
<1>3. CASE ~store.files[f].lookup
  <2>1. PICK w : w \in matching
    BY Zenon
  <2>2. f \notin partitioned_data_file_ids(store)
    BY <1>3, Zenon DEF partitioned_data_file_ids
  <2> QED
    BY <2>1, <2>2, Zenon DEF partition_prune_files_at, PartitionScanFilter
<1> QED
  BY <1>2, <1>3, Zenon

(* NULL only: a file that is not suspected of values has none, whether it   *)
(* is told by its row, by its age or by the missing default.                *)
LEMMA UnsuspectedFile ==
    ASSUME NEW U, NEW s \in StoreType(U), NEW f \in Files(s), GoodFile(s, s.files[f]),
           HasColumn(s), ~find_file_columns_with_possible_values(s, f)
    PROVE  FileRows(s, f).others = 0
<1>1. PICK file : file = s.files[f]
  BY Zenon
<1>2. file \in FileType(U) /\ s.birth \in Nat /\ GoodFile(s, file)
  BY <1>1, FilesTyped, Zenon DEF StoreType
<1>3. /\ file.last \in Nat /\ file.begin \in Nat /\ file.begin <= file.last
      /\ file.rows.nulls \in Nat /\ file.rows.others \in Nat
  BY <1>2, Zenon DEF FileType, RowsType, GoodFile
<1>4. Max({file.last, file.begin}) = file.last
  BY <1>3, MaxOfTwo
<1>5. \/ ~(RecordCount(file.rows) > 0)
      \/ /\ ~(s.default # {} /\ file.last < s.birth)
         /\ ~(IF file.stats = {} THEN s.default # {} \/ file.last >= s.birth
              ELSE \E r \in file.stats : r.count # {0})
  BY <1>1, <1>4, Zenon DEF find_file_columns_with_possible_values
<1>6. FileRows(s, f) = Filled(s, file.rows, file.has)
  BY <1>1, Zenon DEF FileRows
<1>7. CASE ~(RecordCount(file.rows) > 0)
  <2>1. RecordCount(file.rows) = 0 /\ file.rows.others = 0
    BY <1>3, <1>7 DEF RecordCount
  <2> QED
    BY <1>6, <2>1 DEF Filled, NoRows
<1>8. CASE /\ ~(s.default # {} /\ file.last < s.birth)
           /\ ~(IF file.stats = {} THEN s.default # {} \/ file.last >= s.birth
                ELSE \E r \in file.stats : r.count # {0})
  <2>1. CASE ~file.has
    <3>1. file.last < s.birth
      BY <1>2, <2>1, Zenon DEF GoodFile
    <3>2. s.default = {}
      BY <1>8, <3>1, Zenon
    <3> QED
      BY <1>6, <2>1, <3>2, Zenon DEF Filled, NoRows
  <2>2. CASE file.has
    <3>1. file.rows.others = 0
      <4>1. CASE file.stats = {}
        <5>1. s.default = {} /\ file.last < s.birth
          BY <1>2, <1>3, <1>8, <4>1
        <5> QED
          BY <1>2, <2>2, <5>1, Zenon DEF GoodFile
      <4>2. CASE file.stats # {}
        BY <1>2, <1>8, <4>2, Zenon DEF GoodFile
      <4> QED
        BY <4>1, <4>2, Zenon
    <3> QED
      BY <1>6, <2>2, <3>1, Zenon DEF Filled
  <2> QED
    BY <2>1, <2>2, Zenon
<1> QED
  BY <1>5, <1>7, <1>8, Zenon

LEMMA UnsuspectedInline ==
    ASSUME NEW U, NEW s \in StoreType(U), NEW l \in Layouts(s),
           ~find_inline_columns_with_possible_values(s, l)
    PROVE  InlineRows(s, l).others = 0
<1>1. l \in 1..MaxLayouts /\ s.inline[l] \in RowsType(U)
  <2>1. l \in 1..MaxLayouts
    BY StatisticsAssumption DEF Layouts, StoreType
  <2> QED
    BY <2>1, Zenon DEF StoreType
<1>2. PICK rows : rows = s.inline[l]
  BY Zenon
<1>3. rows.nulls \in Nat /\ rows.others \in Nat
  BY <1>1, <1>2, Zenon DEF RowsType
<1>4. CASE ~(RecordCount(rows) > 0)
  <2>1. RecordCount(rows) = 0 /\ rows.others = 0
    BY <1>3, <1>4 DEF RecordCount
  <2> QED
    BY <1>2, <2>1, Zenon DEF InlineRows, Filled, NoRows
<1>5. CASE RecordCount(rows) > 0
  <2>1. CASE LayoutHas(s, l)
    BY <1>2, <1>3, <1>5, <2>1 DEF find_inline_columns_with_possible_values, InlineRows, Filled
  <2>2. CASE ~LayoutHas(s, l)
    BY <1>2, <1>5, <2>2, Zenon
       DEF find_inline_columns_with_possible_values, InlineRows, Filled, NoRows
  <2> QED
    BY <2>1, <2>2, Zenon
<1> QED
  BY <1>4, <1>5, Zenon

LEMMA NullOnlyFollows == IInv => NullOnlyIsProven
<1> SUFFICES ASSUME IInv, list_null_only_columns(store), NEW rows \in RowsOf(store)
             PROVE  rows.others = 0
  BY Zenon DEF NullOnlyIsProven
<1>1. PICK s : s = store
  BY Zenon
<1>2. PICK U : s \in StoreType(U)
  BY <1>1, Zenon DEF IInv, Good
<1>3. CASE \E f \in Current(s) : rows = FileRows(s, f)
  <2>1. PICK f \in Current(s) : rows = FileRows(s, f)
    BY <1>3, Zenon
  <2>2. /\ f \in Files(s) /\ GoodFile(s, s.files[f]) /\ HasColumn(s)
        /\ ~find_file_columns_with_possible_values(s, f)
    BY <1>1, Zenon DEF Current, IInv, Good, list_null_only_columns
  <2> QED
    BY <1>2, <2>1, <2>2, UnsuspectedFile, Zenon
<1>4. CASE \E l \in Layouts(s) : rows = InlineRows(s, l)
  <2>1. PICK l \in Layouts(s) : rows = InlineRows(s, l)
    BY <1>4, Zenon
  <2>2. ~find_inline_columns_with_possible_values(s, l)
    BY <1>1, Zenon DEF list_null_only_columns
  <2> QED
    BY <1>2, <2>1, <2>2, UnsuspectedInline, Zenon
<1> QED
  BY <1>1, <1>3, <1>4, Zenon DEF RowsOf

--------------------------------------------------------------------------------
(* For every order, comparison and boundary: a file with a row that matches *)
(* is in the pruned listing, current or ended, merged or rewritten, however *)
(* often the table was partitioned, unless no stored partition value        *)
(* matches or the file has a value of another column that does not          *)
(* (foundationdb_partition_prune_files_at_payload, partition_lookup_key).   *)
THEOREM PruneKeepsMatchingFilesHolds == Spec => []PruneKeepsMatchingFiles
BY IInvHolds, PruneFollows, PTL

(* A column that list_null_only_columns names holds no value in any current *)
(* file or inline table, through any history of merges, rewrites, flushes   *)
(* and an added column with or without a default.                           *)
THEOREM NullOnlyIsProvenHolds == Spec => []NullOnlyIsProven
BY IInvHolds, NullOnlyFollows, PTL
=============================================================================
