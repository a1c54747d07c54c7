-------------------------- MODULE ReadAnswersProofs --------------------------
(***************************************************************************)
(* For any number of contexts, workers, leases and commits: what a context *)
(* is answered is what the catalog was at its snapshot, from the caches    *)
(* too, as long as no request has held a version older than that snapshot. *)
(***************************************************************************)
EXTENDS ReadContextProofs

-----------------------------------------------------------------------------
(* Answers are those of the snapshot.  The second invariant says what every *)
(* request and every cache entry holds, as long as no request has held a    *)
(* version older than the pinned snapshot.                                  *)

\* The rows are those of the order, unless they are current rows of a newer version.
Right(op, rows, at) ==
    \/ rows = RowsAt(KindRead[op], at, at)
    \/ "moved" \in met /\ op \in {"partition", "tables"}

Committed == 0 .. Len(log)

\* What a request of each operation may cache.
FillOf(r, k) ==
    \/ r.op = "files" /\ k \in {<<"files", r.ctx, r.at>>, <<"payload", r.ctx, r.asked>>}
    \/ r.op = "partition" /\ k = <<"partition", r.ctx>>
    \/ r.op = "catalog" /\ k \in {CatalogKey(r), FactsKey(r)}
    \/ r.op = "tables" /\ k = <<"visible", r.ctx, r.at>>
    \/ r.op = "tables" /\ k = <<"current", r.ctx>> /\ r.at = r.latest

\* A request that knows its snapshot holds a committed version that shows it.
GoodRequest(r) ==
    /\ r.pc \in {"latest", "pin"} => r.version \in Committed
    /\ r.pc = "version" => r.latest \in Committed
    /\ r.pc \in {"waiting", "building", "read", "finish"} =>
         /\ r.version \in Committed
         /\ r.latest \in 0 .. r.version
         /\ r.at = resolve_snapshot(r, r.latest)
    /\ r.pc = "finish" =>
         /\ Right(r.op, r.value, r.at)
         /\ \A k \in r.fill : FillOf(r, k)

\* Captures, file rows and visible tables are those of the order in the key; listings and
\* current tables are those of the pinned snapshot; facts and catalogs, which contexts share,
\* are those of some version with the catalog version in the key.
GoodEntry(k, e) ==
    /\ k[1] \in {"capture", "files"} => k[3] \in Committed /\ e = RowsAt("data", k[3], k[3])
    /\ k[1] = "payload" =>
         /\ k[2] \in Contexts /\ k[3] \in Nat /\ pin[k[2]] \in Committed
         /\ e.at = Min2(k[3], pin[k[2]]) /\ e.rows = RowsAt("data", e.at, e.at)
    /\ k[1] = "partition" =>
         /\ k[2] \in Contexts /\ pin[k[2]] \in Committed
         /\ e.at = pin[k[2]] /\ Right("partition", e.rows, e.at)
    /\ k[1] = "visible" => k[3] \in Committed /\ Right("tables", e, k[3])
    /\ k[1] = "current" =>
         /\ k[2] \in Contexts /\ pin[k[2]] \in Committed /\ Right("tables", e, pin[k[2]])
    /\ k[1] = "facts" => \E v \in Committed : k[2] = CatalogVersion(v) /\ e = CurrentRows("table", v)
    /\ k[1] = "catalog" =>
         \E v \in Committed :
            /\ k[2] = CatalogVersion(v)
            /\ IF k[3] = "current" THEN e = CurrentRows("table", v)
               ELSE k[4] \in 0 .. v /\ e = RowsAt("table", k[4], k[4])

PinsKnown == \A c \in Contexts : pin[c] # None => pin[c] \in Committed
LeasesKnown == \A c \in Contexts : lease[c] \in Orders => lease[c] \in Committed
RequestsGood == \A w \in Workers : IsRead(request[w]) => GoodRequest(request[w])
EntriesGood == \A k \in DOMAIN cache : GoodEntry(k, cache[k])

\* The catalog version counts the commits that change tables.
CatalogCounts ==
    \A v \in Committed, w \in Committed : v <= w =>
        /\ CatalogVersion(v) <= CatalogVersion(w)
        /\ CatalogVersion(v) = CatalogVersion(w)
             => CurrentRows("table", v) = CurrentRows("table", w)

Answers ==
    PinsKnown /\ LeasesKnown /\ CatalogCounts /\ RequestsGood /\ EntriesGood /\ AnswersMatch

\* Answers is inductive until then.
AInv == "lagging" \notin met => Answers

-----------------------------------------------------------------------------
(* What later commits leave alone *)

LogGrows == log' = log \/ \E kind \in Kinds : log' = Append(log, Commit(kind))

\* Commits only append.
LEMMA CommittedKept ==
    ASSUME TypeOK, LogGrows
    PROVE  /\ Len(log) \in Nat /\ Len(log') \in Nat
           /\ Committed \subseteq Committed'
           /\ \A i \in 1 .. Len(log) : log'[i] = log[i]
<1>1. log \in Seq(Commits)
  BY Zenon DEF TypeOK
<1>2. CASE log' = log
  BY <1>1, <1>2 DEF Committed
<1>3. CASE \E kind \in Kinds : log' = Append(log, Commit(kind))
  <2>1. /\ Len(log) \in Nat /\ Len(log') = Len(log) + 1
        /\ \A i \in 1 .. Len(log) : log'[i] = log[i]
    BY <1>1, <1>3, CommitIsAppended, Zenon
  <2> QED
    BY <2>1 DEF Committed
<1> QED
  BY <1>2, <1>3, Zenon DEF LogGrows

\* What is visible at a committed order does not depend on the version it is read at.
LEMMA RowsOfVersion ==
    ASSUME TypeOK, NEW kind, NEW version \in Committed, NEW order \in 0 .. version
    PROVE  RowsAt(kind, order, version) = RowsAt(kind, order, order)
BY DEF RowsAt, Min2, TypeOK, Committed

LEMMA RowsKept ==
    ASSUME TypeOK, LogGrows, NEW kind, NEW order \in Committed
    PROVE  RowsAt(kind, order, order)' = RowsAt(kind, order, order)
<1>1. \A i \in 1 .. order : log'[i] = log[i]
  BY CommittedKept DEF Committed
<1> QED
  BY <1>1, Zenon DEF RowsAt, Min2, Committed

LEMMA CatalogKept ==
    ASSUME TypeOK, LogGrows, NEW version \in Committed
    PROVE  /\ CurrentRows("table", version)' = CurrentRows("table", version)
           /\ CatalogVersion(version)' = CatalogVersion(version)
<1>1. RowsAt("table", version, version)' = RowsAt("table", version, version)
  BY RowsKept, Zenon
<1>2. version # 0 => log'[version] = log[version]
  BY CommittedKept DEF Committed
<1> QED
  BY <1>1, <1>2, Zenon DEF CurrentRows, CatalogVersion

\* A commit leaves the tables alone or has a catalog version that no earlier one had.
LEMMA CatalogStillCounts ==
    ASSUME TypeOK, LogGrows, CatalogCounts
    PROVE  CatalogCounts'
<1>1. CASE log' = log
  BY <1>1 DEF CatalogCounts, CatalogVersion, CurrentRows, RowsAt, Committed
<1>2. CASE \E kind \in Kinds : log' = Append(log, Commit(kind))
  <2>0. PICK n : n = Len(log)
    BY Zenon
  <2>1. PICK kind \in Kinds : log' = Append(log, Commit(kind))
    BY <1>2, Zenon
  <2>2. /\ n \in Nat /\ Len(log') = n + 1 /\ log'[n + 1] = Commit(kind)
        /\ \A i \in 1 .. n : log'[i] = log[i]
    <3>1. /\ n \in Nat /\ Len(log') = n + 1 /\ log'[Len(log')] = Commit(kind)
          /\ \A i \in 1 .. n : log'[i] = log[i]
      BY <2>0, <2>1, CommitIsAppended, Zenon DEF TypeOK
    <3> QED
      BY <3>1, Zenon
  <2>3. ASSUME NEW v \in Committed
        PROVE  CatalogVersion(v) \in Nat
    <3>1. v # 0 => log[v] \in Commits
      BY <2>0, <2>2 DEF Committed, TypeOK
    <3> QED
      BY <3>1, Zenon DEF CatalogVersion, Commits
  <2>4. n \in Committed /\ Committed' = Committed \cup {n + 1}
    BY <2>0, <2>2 DEF Committed
  <2>5. CatalogVersion(n + 1)' = CatalogVersion(n) + (IF kind = "table" THEN 1 ELSE 0)
    BY <2>0, <2>2 DEF CatalogVersion, Commit
  <2>6. kind # "table" => CurrentRows("table", n + 1)' = CurrentRows("table", n)
    BY <2>0, <2>2 DEF CurrentRows, RowsAt, Min2, Commit
  <2>7. ASSUME NEW v \in Committed
        PROVE  /\ CatalogVersion(v)' = CatalogVersion(v)
               /\ CurrentRows("table", v)' = CurrentRows("table", v)
               /\ CatalogVersion(v) <= CatalogVersion(n)
               /\ CatalogVersion(v) = CatalogVersion(n)
                    => CurrentRows("table", v) = CurrentRows("table", n)
    BY <2>0, <2>2, <2>4, CatalogKept DEF CatalogCounts, Committed
  <2>8. ASSUME NEW v \in Committed
        PROVE  /\ CatalogVersion(v)' <= CatalogVersion(n + 1)'
               /\ CatalogVersion(v)' = CatalogVersion(n + 1)'
                    => CurrentRows("table", v)' = CurrentRows("table", n + 1)'
    BY <2>3, <2>4, <2>5, <2>6, <2>7
  <2>9. ASSUME NEW v \in Committed', NEW w \in Committed', v <= w
        PROVE  /\ CatalogVersion(v)' <= CatalogVersion(w)'
               /\ CatalogVersion(v)' = CatalogVersion(w)'
                    => CurrentRows("table", v)' = CurrentRows("table", w)'
    <3>1. CASE v \in Committed /\ w \in Committed
      BY <2>7, <2>9, <3>1, Zenon DEF CatalogCounts
    <3>2. CASE v \in Committed /\ w = n + 1
      BY <2>8, <3>2, Zenon
    <3>3. CASE v = n + 1
      <4>1. w = n + 1
        BY <2>0, <2>2, <2>4, <2>9, <3>3 DEF Committed
      <4>2. CatalogVersion(n + 1)' \in Nat
        BY <2>3, <2>4, <2>5
      <4> QED
        BY <3>3, <4>1, <4>2
    <3> QED
      BY <2>4, <2>9, <3>1, <3>2, <3>3, Zenon
  <2> QED
    BY <2>9, Zenon DEF CatalogCounts
<1> QED
  BY <1>1, <1>2, Zenon DEF LogGrows

\* Two versions with the same catalog version have the same tables.
LEMMA CatalogIsKnown ==
    ASSUME CatalogCounts, NEW v \in Committed, NEW w \in Committed,
           CatalogVersion(v) = CatalogVersion(w)
    PROVE  CurrentRows("table", v) = CurrentRows("table", w)
<1>1. v <= w \/ w <= v
  BY DEF Committed
<1> QED
  BY <1>1, Zenon DEF CatalogCounts

-----------------------------------------------------------------------------
(* Answers stay right *)

\* The snapshot of an entry rendered for a pinned snapshot is still pinned.
PinKept(k) ==
    /\ k[1] \in {"payload", "partition", "current"}
    /\ k[2] \in Contexts
    /\ pin[k[2]] \in Committed
    => pin'[k[2]] = pin[k[2]]

LEMMA RightKept ==
    ASSUME TypeOK, LogGrows, met \subseteq met', NEW op, NEW rows, NEW at \in Committed,
           Right(op, rows, at)
    PROVE  Right(op, rows, at)'
<1>1. RowsAt(KindRead[op], at, at)' = RowsAt(KindRead[op], at, at)
  BY RowsKept, Zenon
<1> QED
  BY <1>1, Zenon DEF Right, KindRead

LEMMA EntryKept ==
    ASSUME TypeOK, LogGrows, met \subseteq met', NEW k, NEW e, GoodEntry(k, e), PinKept(k)
    PROVE  GoodEntry(k, e)'
<1>1. Committed \subseteq Committed'
  BY CommittedKept, Zenon
<1>2. ASSUME k[1] \in {"capture", "files"}
      PROVE  k[3] \in Committed' /\ e = RowsAt("data", k[3], k[3])'
  BY <1>1, <1>2, RowsKept, Zenon DEF GoodEntry
<1>3. ASSUME k[1] = "payload"
      PROVE  /\ k[2] \in Contexts /\ k[3] \in Nat /\ pin'[k[2]] \in Committed'
             /\ e.at = Min2(k[3], pin'[k[2]]) /\ e.rows = RowsAt("data", e.at, e.at)'
  <2>1. /\ k[2] \in Contexts /\ k[3] \in Nat /\ pin[k[2]] \in Committed /\ pin'[k[2]] = pin[k[2]]
        /\ e.at = Min2(k[3], pin[k[2]]) /\ e.rows = RowsAt("data", e.at, e.at)
    BY <1>3, Zenon DEF GoodEntry, PinKept
  <2>2. e.at \in Committed
    BY <2>1 DEF Min2, Committed
  <2> QED
    BY <1>1, <2>1, <2>2, RowsKept, Zenon
<1>4. ASSUME k[1] = "partition"
      PROVE  /\ k[2] \in Contexts /\ pin'[k[2]] \in Committed'
             /\ e.at = pin'[k[2]] /\ Right("partition", e.rows, e.at)'
  BY <1>1, <1>4, RightKept, Zenon DEF GoodEntry, PinKept
<1>5. ASSUME k[1] = "visible"
      PROVE  k[3] \in Committed' /\ Right("tables", e, k[3])'
  BY <1>1, <1>5, RightKept, Zenon DEF GoodEntry
<1>6. ASSUME k[1] = "current"
      PROVE  k[2] \in Contexts /\ pin'[k[2]] \in Committed' /\ Right("tables", e, pin[k[2]])'
  <2>1. k[2] \in Contexts /\ pin[k[2]] \in Committed /\ pin'[k[2]] = pin[k[2]]
        /\ Right("tables", e, pin[k[2]])
    BY <1>6, Zenon DEF GoodEntry, PinKept
  <2>2. PICK p : p = pin[k[2]]
    BY Zenon
  <2>3. Right("tables", e, p)'
    BY <2>1, <2>2, RightKept, Zenon
  <2> QED
    BY <1>1, <2>1, <2>2, <2>3, Zenon
<1>7. ASSUME k[1] = "facts"
      PROVE  \E v \in Committed' : k[2] = CatalogVersion(v)' /\ e = CurrentRows("table", v)'
  BY <1>1, <1>7, CatalogKept, Zenon DEF GoodEntry
<1>8. ASSUME k[1] = "catalog"
      PROVE  \E v \in Committed' :
                /\ k[2] = CatalogVersion(v)'
                /\ IF k[3] = "current" THEN e = CurrentRows("table", v)'
                   ELSE k[4] \in 0 .. v /\ e = RowsAt("table", k[4], k[4])'
  <2>1. PICK v \in Committed :
                /\ k[2] = CatalogVersion(v)
                /\ IF k[3] = "current" THEN e = CurrentRows("table", v)
                   ELSE k[4] \in 0 .. v /\ e = RowsAt("table", k[4], k[4])
    BY <1>8, Zenon DEF GoodEntry
  <2>2. k[4] \in 0 .. v => k[4] \in Committed
    BY DEF Committed
  <2> QED
    BY <1>1, <2>1, <2>2, CatalogKept, RowsKept, Zenon
<1> QED
  BY <1>2, <1>3, <1>4, <1>5, <1>6, <1>7, <1>8, Zenon DEF GoodEntry

LEMMA RequestKept ==
    ASSUME TypeOK, LogGrows, met \subseteq met', NEW r, IsRead(r), GoodRequest(r)
    PROVE  GoodRequest(r)'
<1>1. Committed \subseteq Committed' /\ Len(log) \in Nat
  BY CommittedKept, Zenon
<1>2. ASSUME r.pc \in {"waiting", "building", "read", "finish"}
      PROVE  r.version \in Committed /\ r.at \in Committed
  BY <1>1, <1>2 DEF GoodRequest, IsRead, resolve_snapshot, Min2, Committed
<1>3. ASSUME r.pc = "finish"
      PROVE  Right(r.op, r.value, r.at)' /\ \A k \in r.fill : FillOf(r, k)'
  <2>1. Right(r.op, r.value, r.at)'
    BY <1>2, <1>3, RightKept, Zenon DEF GoodRequest
  <2>2. CatalogKey(r)' = CatalogKey(r) /\ FactsKey(r)' = FactsKey(r)
    BY <1>2, <1>3, CatalogKept, Zenon DEF CatalogKey, FactsKey, Scope
  <2> QED
    BY <1>3, <2>1, <2>2, Zenon DEF GoodRequest, FillOf
<1> QED
  BY <1>1, <1>2, <1>3, Zenon DEF GoodRequest, resolve_snapshot, Min2

-----------------------------------------------------------------------------
(* Steps *)

LEMMA StepKeepsAnswers ==
    ASSUME TypeOK, TypeOK', Answers, LogGrows, met \subseteq met',
           PinsKnown', LeasesKnown', AnswersMatch',
           \A w \in Workers : request'[w] = request[w]
                              \/ (IsRead(request'[w]) => GoodRequest(request[w])'),
           \A k \in DOMAIN cache' : (k \in DOMAIN cache /\ cache'[k] = cache[k] /\ PinKept(k))
                                    \/ GoodEntry(k, cache[k])'
    PROVE  Answers'
<1>1. ASSUME NEW w \in Workers, IsRead(request'[w])
      PROVE  GoodRequest(request[w])'
  <2>1. CASE request'[w] = request[w]
    <3>1. PICK r : r = request[w]
      BY Zenon
    <3>2. GoodRequest(r)'
      BY <1>1, <2>1, <3>1, RequestKept, Zenon DEF Answers, RequestsGood
    <3> QED
      BY <2>1, <3>1, <3>2, Zenon
  <2> QED
    BY <1>1, <2>1, Zenon
<1>2. ASSUME NEW k \in DOMAIN cache'
      PROVE  GoodEntry(k, cache[k])'
  <2>1. CASE k \in DOMAIN cache /\ cache'[k] = cache[k] /\ PinKept(k)
    <3>1. PICK e : e = cache[k]
      BY Zenon
    <3>2. GoodEntry(k, e)'
      BY <2>1, <3>1, EntryKept, Zenon DEF Answers, EntriesGood
    <3> QED
      BY <2>1, <3>1, <3>2, Zenon
  <2> QED
    BY <2>1, Zenon
<1>3. RequestsGood' /\ EntriesGood'
  BY <1>1, <1>2, Zenon DEF RequestsGood, EntriesGood, IsRead
<1>4. CatalogCounts'
  BY CatalogStillCounts, Zenon DEF Answers
<1> QED
  BY <1>3, <1>4, Zenon DEF Answers

\* A step of the request of one worker that neither commits nor caches.
LEMMA RequestStepKeepsAnswers ==
    ASSUME IInv, Answers, TypeOK', NEW w \in Workers, NEW q, request' = [request EXCEPT ![w] = q],
           IsRead(q) => GoodRequest(q)',
           UNCHANGED <<log, cache>>, met \subseteq met',
           \A c \in Contexts : pin[c] # None => pin'[c] = pin[c],
           PinsKnown', LeasesKnown', AnswersMatch'
    PROVE  Answers'
<1>1. \A v \in Workers : request'[v] = IF v = w THEN q ELSE request[v]
  BY Zenon DEF IInv, TypeOK
<1>2. \A v \in Workers : request'[v] = request[v] \/ (IsRead(request'[v]) => GoodRequest(request[v])')
  BY <1>1, Zenon
<1>3. \A k \in DOMAIN cache : PinKept(k)
  BY DEF PinKept, Committed, None
<1>4. LogGrows /\ TypeOK
  BY Zenon DEF LogGrows, IInv
<1> QED
  BY <1>2, <1>3, <1>4, StepKeepsAnswers, Zenon

\* A right answer leaves none wrong.
LEMMA RightAnswer ==
    ASSUME AnswersMatch, NEW w, NEW r, NEW value, Give(w, r, value), Right(r.op, value, r.at),
           met \subseteq met'
    PROVE  AnswersMatch'
BY Zenon DEF AnswersMatch, Give, Right

LEMMA VersionIsKnown ==
    ASSUME IInv, Answers, NEW c \in Contexts
    PROVE  /\ VersionFor(c) \in Committed
           /\ lease' = LeaseAfter(c) /\ log' = log => LeasesKnown'
           /\ lease' = lease /\ log' = log => LeasesKnown'
<1>1. VersionFor(c) \in Committed
  <2>1. Len(log) \in Committed
    BY DEF IInv, TypeOK, Committed
  <2> QED
    BY <2>1, Zenon DEF VersionFor, Answers, LeasesKnown
<1>2. LeaseAfter(c) = lease \/ LeaseAfter(c) = [lease EXCEPT ![c] = VersionFor(c)]
  BY Zenon DEF LeaseAfter
<1>3. ASSUME NEW version \in Committed, lease' = lease \/ lease' = [lease EXCEPT ![c] = version], log' = log
      PROVE  LeasesKnown'
  <2>1. \A d \in Contexts : lease'[d] = lease[d] \/ lease'[d] = version
    BY <1>3, Zenon DEF IInv, TypeOK
  <2> QED
    BY <1>3, <2>1, Zenon DEF Answers, LeasesKnown, Committed, Orders
<1> QED
  BY <1>1, <1>2, <1>3, Zenon

LEMMA ResolvedIsGood ==
    ASSUME NEW r, IsRead(r), r.version \in Committed, NEW latest \in 0 .. r.version
    PROVE  GoodRequest(Resolved(r, latest))
<1>1. r.version \in Int /\ latest \in Int
  BY DEF Committed
<1>2. /\ Resolved(r, latest).pc \in {"read", "waiting", "building"}
      /\ Resolved(r, latest).latest = latest
  BY <1>1, ResolvedRequest, Zenon
<1>3. /\ Resolved(r, latest).version = r.version
      /\ Resolved(r, latest).op = r.op /\ Resolved(r, latest).asked = r.asked
      /\ Resolved(r, latest).at = resolve_snapshot(r, latest)
  BY Zenon DEF Resolved, IsRead
<1>4. resolve_snapshot(Resolved(r, latest), latest) = resolve_snapshot(r, latest)
  BY <1>3, Zenon DEF resolve_snapshot
<1> QED
  BY <1>2, <1>3, <1>4, Zenon DEF GoodRequest

LEMMA BeginAnswers ==
    ASSUME IInv, TypeOK', Answers, NEW w \in Workers, NEW r, Begin(w, r),
           IsRead([r EXCEPT !.pc = "again"]),
           UNCHANGED <<log, pin, cache, met>>
    PROVE  Answers'
<1> DEFINE c == r.ctx
           version == VersionFor(c)
           listing == [[r EXCEPT !.version = version] EXCEPT !.pc = "latest"]
           other   == [[r EXCEPT !.version = version] EXCEPT !.pc = "pin"]
           known   == [r EXCEPT !.latest = pin[c], !.pc = "version"]
<1>1. c \in Contexts /\ r.op \in Ops /\ r.asked \in Nat
  BY Zenon DEF IsRead
<1>2. version \in Committed /\ LeasesKnown' /\ PinsKnown'
  <2>1. lease' = lease \/ lease' = LeaseAfter(c)
    BY Zenon DEF Begin
  <2>2. version \in Committed /\ LeasesKnown'
    BY <1>1, <2>1, VersionIsKnown, Zenon
  <2>3. PinsKnown'
    BY Zenon DEF Answers, PinsKnown, Committed
  <2> QED
    BY <2>2, <2>3, Zenon
<1> HIDE DEF version
<1>3. ASSUME NEW q, request' = [request EXCEPT ![w] = q], IsRead(q) => GoodRequest(q), AnswersMatch'
      PROVE  Answers'
  <2>1. IsRead(q) => GoodRequest(q)'
    BY <1>3, RequestKept, Zenon DEF IInv, LogGrows
  <2> QED
    BY <1>2, <1>3, <2>1, RequestStepKeepsAnswers, Zenon
<1>4. CASE /\ Listing(r.op) /\ Cached(RenderedKey(r))
           /\ LET entry == cache[RenderedKey(r)]
              IN  Give(w, [r EXCEPT !.latest = pin[c],
                                    !.at = IF pin[c] = None THEN entry.at
                                           ELSE resolve_snapshot(r, pin[c])],
                       entry.rows)
  <2> DEFINE k == RenderedKey(r)
             at == IF pin[c] = None THEN cache[k].at ELSE resolve_snapshot(r, pin[c])
             q == [r EXCEPT !.latest = pin[c], !.at = at]
  <2>1. k \in DOMAIN cache /\ Give(w, q, cache[k].rows)
    BY <1>4, Zenon DEF Cached
  <2>2. GoodEntry(k, cache[k])
    BY <2>1, Zenon DEF Answers, EntriesGood
  <2>3. Right(r.op, cache[k].rows, at)
    <3>1. CASE r.op = "files"
      <4>1. k = <<"payload", c, r.asked>>
        BY <3>1, Zenon DEF RenderedKey
      <4>2. /\ pin[c] \in Committed /\ cache[k].at = Min2(r.asked, pin[c])
            /\ cache[k].rows = RowsAt("data", cache[k].at, cache[k].at)
        BY <2>2, <4>1 DEF GoodEntry
      <4>3. at = cache[k].at
        BY <3>1, <4>2, Zenon DEF resolve_snapshot
      <4> QED
        BY <3>1, <4>2, <4>3 DEF Right, KindRead
    <3>2. CASE r.op = "partition"
      <4>1. k = <<"partition", c>>
        BY <3>2, Zenon DEF RenderedKey
      <4>2. /\ pin[c] \in Committed /\ cache[k].at = pin[c]
            /\ Right("partition", cache[k].rows, cache[k].at)
        BY <2>2, <4>1 DEF GoodEntry
      <4>3. at = cache[k].at
        BY <3>2, <4>2, Zenon DEF resolve_snapshot
      <4> QED
        BY <3>2, <4>2, <4>3, Zenon
    <3> QED
      BY <1>4, <3>1, <3>2, Zenon DEF Listing
  <2>4. q.op = r.op /\ q.at = at
    BY Zenon DEF IsRead
  <2> HIDE DEF at, q
  <2>5. AnswersMatch'
    BY <2>1, <2>3, <2>4, RightAnswer, Zenon DEF Answers
  <2>6. request' = [request EXCEPT ![w] = Idle] /\ ~ IsRead(Idle)
    BY <2>1, Zenon DEF Give, IsRead, Idle, ReadPcs
  <2> QED
    BY <1>3, <2>5, <2>6, Zenon
<1>5. ASSUME UNCHANGED wrong
      PROVE  AnswersMatch'
  BY <1>5, Zenon DEF Answers, AnswersMatch
<1>6. CASE request' = [request EXCEPT ![w] = listing] /\ UNCHANGED wrong
  <2>1. listing.pc = "latest" /\ listing.version = version
    BY Zenon DEF IsRead
  <2> HIDE DEF listing
  <2>2. GoodRequest(listing)
    BY <1>2, <2>1, Zenon DEF GoodRequest
  <2> QED
    BY <1>3, <1>5, <1>6, <2>2, Zenon
<1>7. CASE request' = [request EXCEPT ![w] = other] /\ UNCHANGED wrong
  <2>1. other.pc = "pin" /\ other.version = version
    BY Zenon DEF IsRead
  <2> HIDE DEF other
  <2>2. GoodRequest(other)
    BY <1>2, <2>1, Zenon DEF GoodRequest
  <2> QED
    BY <1>3, <1>5, <1>7, <2>2, Zenon
<1>8. CASE pin[c] # None /\ request' = [request EXCEPT ![w] = known] /\ UNCHANGED wrong
  <2>1. known.pc = "version" /\ known.latest = pin[c]
    BY Zenon DEF IsRead
  <2> HIDE DEF known
  <2>2. GoodRequest(known)
    BY <1>1, <1>8, <2>1, Zenon DEF GoodRequest, Answers, PinsKnown
  <2> QED
    BY <1>3, <1>5, <1>8, <2>2, Zenon
<1> QED
  BY <1>4, <1>6, <1>7, <1>8, Zenon DEF Begin, version

LEMMA StartAnswers ==
    ASSUME IInv, TypeOK', Answers, NEW w \in Workers, NEW c \in Contexts, NEW op \in Ops,
           NEW asked \in SnapshotIds[op], Start(w, c, op, asked)
    PROVE  Answers'
<1> DEFINE r == [pc |-> "begin", ctx |-> c, op |-> op, asked |-> asked, version |-> None,
                 latest |-> None, at |-> None, value |-> {}, fill |-> {}, retried |-> FALSE]
<1>1. asked \in Nat
  BY ReadContextAssumption, Zenon
<1>2. IsRead([r EXCEPT !.pc = "again"])
  BY <1>1 DEF IsRead, ReadPcs, None
<1>3. Begin(w, r) /\ UNCHANGED <<log, pin, cache, met>>
  BY Zenon DEF Start
<1> HIDE DEF r
<1> QED
  BY <1>2, <1>3, BeginAnswers, Zenon

LEMMA RetryAnswers ==
    ASSUME IInv, TypeOK', Answers, NEW w \in Workers, Retry(w)
    PROVE  Answers'
<1>1. IsRead(request[w])
  BY RequestKinds, Zenon DEF Retry, ReadPcs, IInv
<1>2. IsRead([request[w] EXCEPT !.pc = "again"])
  BY <1>1, Zenon DEF IsRead, ReadPcs
<1>3. Begin(w, request[w]) /\ UNCHANGED <<log, pin, cache, met>>
  BY Zenon DEF Retry
<1> QED
  BY <1>2, <1>3, BeginAnswers, Zenon

\* A request that learns the snapshot of its context and holds a version that shows it.
LEMMA ResolveAnswers ==
    ASSUME IInv, TypeOK', Answers, NEW w \in Workers, NEW r, IsRead(r), r.version \in Committed,
           NEW latest \in Committed, request' = [request EXCEPT ![w] = Resolved(r, latest)],
           met' = met \cup Lagging(r.version, latest), "lagging" \notin met',
           pin' = pin \/ (pin[r.ctx] = None /\ pin' = [pin EXCEPT ![r.ctx] = latest]),
           LeasesKnown', UNCHANGED <<log, cache, wrong>>
    PROVE  Answers'
<1>1. latest \in 0 .. r.version
  BY DEF Lagging, Committed
<1>2. latest \in Int
  BY DEF Committed
<1>3. PICK q : q = Resolved(r, latest)
  BY Zenon
<1>4. IsRead(q) /\ GoodRequest(q)
  BY <1>1, <1>2, <1>3, ResolvedRequest, ResolvedIsGood, Zenon
<1>5. GoodRequest(q)'
  BY <1>4, RequestKept, Zenon DEF IInv, LogGrows
<1>6. PinsKnown' /\ \A c \in Contexts : pin[c] # None => pin'[c] = pin[c]
  <2>1. \A c \in Contexts : pin'[c] = pin[c] \/ (c = r.ctx /\ pin[c] = None /\ pin'[c] = latest)
    BY Zenon DEF IInv, TypeOK
  <2> QED
    BY <2>1, Zenon DEF Answers, PinsKnown, Committed
<1>7. AnswersMatch'
  BY Zenon DEF Answers, AnswersMatch
<1> QED
  BY <1>3, <1>5, <1>6, <1>7, RequestStepKeepsAnswers, Zenon

LEMMA FetchVersionAnswers ==
    ASSUME IInv, TypeOK', Answers, NEW w \in Workers, FetchVersion(w), "lagging" \notin met'
    PROVE  Answers'
<1> DEFINE version == VersionFor(request[w].ctx)
           r == [request[w] EXCEPT !.version = version]
           latest == request[w].latest
<1>1. IsRead(request[w]) /\ request[w].pc = "version"
  BY RequestKinds, Zenon DEF FetchVersion, ReadPcs, IInv
<1>2. version \in Committed /\ LeasesKnown'
  BY <1>1, VersionIsKnown, Zenon DEF FetchVersion, IsRead
<1>3. latest \in Committed
  BY <1>1, Zenon DEF Answers, RequestsGood, GoodRequest
<1>4. /\ request' = [request EXCEPT ![w] = Resolved(r, latest)]
      /\ met' = met \cup Lagging(version, latest)
      /\ UNCHANGED <<log, pin, cache, wrong>>
  BY Zenon DEF FetchVersion
<1>5. version \in Int
  BY <1>2 DEF Committed
<1> HIDE DEF version
<1>6. IsRead(r) /\ r.version = version
  BY <1>1, <1>5, Zenon DEF IsRead
<1> HIDE DEF r, latest
<1> QED
  BY <1>2, <1>3, <1>4, <1>6, ResolveAnswers, Zenon

LEMMA FindSnapshotAnswers ==
    ASSUME IInv, TypeOK', Answers, NEW w \in Workers, FindSnapshot(w), "lagging" \notin met'
    PROVE  Answers'
<1> DEFINE c == request[w].ctx
<1>1. IsRead(request[w]) /\ request[w].pc = "latest" /\ c \in Contexts
  BY RequestKinds, Zenon DEF FindSnapshot, ReadPcs, IInv, IsRead
<1>2. request[w].version \in Committed
  BY <1>1, Zenon DEF Answers, RequestsGood, GoodRequest
<1>3. LeasesKnown'
  BY <1>1, VersionIsKnown, Zenon DEF FindSnapshot
<1>4. CASE pin[c] # None
  <2>1. pin[c] \in Committed
    BY <1>1, <1>4, Zenon DEF Answers, PinsKnown
  <2>2. /\ request' = [request EXCEPT ![w] = Resolved(request[w], pin[c])]
        /\ met' = met \cup Lagging(request[w].version, pin[c])
        /\ UNCHANGED <<log, pin, cache, wrong>>
    BY <1>4, Zenon DEF FindSnapshot
  <2> QED
    BY <1>1, <1>2, <1>3, <2>1, <2>2, ResolveAnswers, Zenon
<1>5. CASE pin[c] = None
  <2>0. PICK q : q = [request[w] EXCEPT !.pc = "pin"]
    BY Zenon
  <2>1. /\ request' = [request EXCEPT ![w] = q]
        /\ UNCHANGED <<log, pin, cache, wrong, met>>
    BY <1>5, <2>0, Zenon DEF FindSnapshot
  <2>2. IsRead(q) /\ q.pc = "pin" /\ q.version = request[w].version
    BY <1>1, <2>0, Zenon DEF IsRead, ReadPcs
  <2>3. GoodRequest(q)'
    BY <1>2, <2>1, <2>2, Zenon DEF GoodRequest, Committed
  <2>4. PinsKnown' /\ AnswersMatch'
    BY <2>1, Zenon DEF Answers, PinsKnown, Committed, AnswersMatch
  <2> QED
    BY <1>3, <2>1, <2>3, <2>4, RequestStepKeepsAnswers, Zenon
<1> QED
  BY <1>4, <1>5, Zenon

LEMMA PinAnswers ==
    ASSUME IInv, TypeOK', Answers, NEW w \in Workers, Pin(w), "lagging" \notin met'
    PROVE  Answers'
<1> DEFINE c == request[w].ctx
           snapshot == FirstPinned(request[w])
<1>1. IsRead(request[w]) /\ request[w].pc = "pin" /\ c \in Contexts
  BY RequestKinds, Zenon DEF Pin, ReadPcs, IInv, IsRead
<1>2. request[w].version \in Committed
  BY <1>1, Zenon DEF Answers, RequestsGood, GoodRequest
<1>3. LeasesKnown'
  BY <1>1, VersionIsKnown, Zenon DEF Pin
<1>4. snapshot \in Committed /\ (pin[c] # None => snapshot = pin[c])
  BY <1>1, <1>2, Zenon DEF FirstPinned, Answers, PinsKnown
<1>5. /\ request' = [request EXCEPT ![w] = Resolved(request[w], snapshot)]
      /\ met' = met \cup Lagging(request[w].version, snapshot)
      /\ pin' = [pin EXCEPT ![c] = snapshot]
      /\ UNCHANGED <<log, cache, wrong>>
  BY Zenon DEF Pin
<1> HIDE DEF snapshot
<1>6. pin' = pin \/ (pin[c] = None /\ pin' = [pin EXCEPT ![c] = snapshot])
  BY <1>1, <1>4, <1>5, Zenon DEF IInv, TypeOK
<1> QED
  BY <1>1, <1>2, <1>3, <1>4, <1>5, <1>6, ResolveAnswers, Zenon

LEMMA BuildCaptureAnswers ==
    ASSUME IInv, TypeOK', Answers, NEW w \in Workers, BuildCapture(w)
    PROVE  Answers'
<1> DEFINE r == request[w]
           rows == IF r.version = r.at THEN CurrentRows("data", r.version)
                   ELSE RowsAt("data", r.at, r.version)
<1>1. IsRead(r) /\ r.pc = "building"
  BY RequestKinds, Zenon DEF BuildCapture, ReadPcs, IInv
<1>2. r.version \in Committed /\ r.at \in 0 .. r.version /\ r.at \in Committed
  BY <1>1 DEF Answers, RequestsGood, GoodRequest, resolve_snapshot, Min2, IsRead, Committed
<1>3. rows = RowsAt("data", r.at, r.at)
  BY <1>2, RowsOfVersion, Zenon DEF CurrentRows, IInv
<1>4. UNCHANGED <<log, pin, lease, wrong, met>>
  BY Zenon DEF BuildCapture
<1>5. PinsKnown' /\ LeasesKnown' /\ AnswersMatch' /\ LogGrows
  BY <1>4, Zenon DEF Answers, PinsKnown, LeasesKnown, AnswersMatch, Committed, Orders, LogGrows
<1>6. PICK key, e : key = CaptureKey(r.ctx, r.at) /\ e = rows
  BY Zenon
<1>7. cache' = cache \/ cache' = With(key, e)
  BY <1>6, Zenon DEF BuildCapture
<1>8. GoodEntry(key, e)'
  <2>1. GoodEntry(key, e) /\ PinKept(key)
    BY <1>2, <1>3, <1>6, Zenon DEF GoodEntry, CaptureKey, PinKept
  <2> QED
    BY <1>4, <1>5, <2>1, EntryKept, Zenon DEF IInv
<1>9. ASSUME NEW k \in DOMAIN cache'
      PROVE  (k \in DOMAIN cache /\ cache'[k] = cache[k] /\ PinKept(k)) \/ GoodEntry(k, cache[k])'
  <2>1. PinKept(k)
    BY <1>4, Zenon DEF PinKept
  <2>2. CASE cache' = With(key, e) /\ k = key
    <3>1. cache'[k] = e
      BY <2>2, Zenon DEF With
    <3> QED
      BY <1>8, <2>2, <3>1, Zenon
  <2>3. CASE cache' = With(key, e) /\ k # key
    BY <1>9, <2>1, <2>3, Zenon DEF With
  <2> QED
    BY <1>7, <1>9, <2>1, <2>2, <2>3, Zenon
<1>10. ASSUME NEW v \in Workers
       PROVE  request'[v] = request[v] \/ (IsRead(request'[v]) => GoodRequest(request[v])')
  <2>1. \/ request'[v] = request[v]
        \/ request'[v] = Idle
        \/ v \in Flight(r.ctx, r.at) /\ request'[v] = [request[v] EXCEPT !.pc = "read"]
    BY Zenon DEF BuildCapture
  <2>2. ~ IsRead(Idle)
    BY Zenon DEF IsRead, Idle, ReadPcs
  <2>3. CASE v \in Flight(r.ctx, r.at) /\ request'[v] = [request[v] EXCEPT !.pc = "read"]
    <3>1. IsRead(request[v]) /\ request[v].pc \in {"building", "waiting"}
      BY <2>3, RequestKinds, Zenon DEF Flight, IInv, ReadPcs
    <3>2. GoodRequest(request[v])
      BY <3>1, Zenon DEF Answers, RequestsGood
    <3>3. PICK q : q = [request[v] EXCEPT !.pc = "read"]
      BY Zenon
    <3>4. /\ IsRead(q) /\ q.pc = "read" /\ q.version = request[v].version /\ q.op = request[v].op
          /\ q.asked = request[v].asked /\ q.latest = request[v].latest /\ q.at = request[v].at
      BY <3>1, <3>3, Zenon DEF IsRead, ReadPcs
    <3>5. GoodRequest(q)
      BY <3>1, <3>2, <3>4, Zenon DEF GoodRequest, resolve_snapshot
    <3>6. GoodRequest(q)'
      BY <1>4, <1>5, <3>4, <3>5, RequestKept, Zenon DEF IInv
    <3> QED
      BY <2>3, <3>3, <3>6, Zenon
  <2> QED
    BY <2>1, <2>2, <2>3, Zenon
<1> QED
  BY <1>4, <1>5, <1>9, <1>10, StepKeepsAnswers, Zenon DEF IInv

-----------------------------------------------------------------------------
(* What each operation reads *)

\* A request that reads knows a committed version that shows its snapshot.
LEMMA ReaderIsKnown ==
    ASSUME IInv, Answers, NEW w \in Workers, request[w].pc \in {"read", "finish"}
    PROVE  /\ IsRead(request[w])
           /\ GoodRequest(request[w])
           /\ request[w].version \in Committed
           /\ request[w].at \in 0 .. request[w].version
           /\ request[w].at \in Committed
<1>1. IsRead(request[w])
  BY RequestKinds, Zenon DEF ReadPcs, IInv
<1>2. GoodRequest(request[w])
  BY <1>1, Zenon DEF Answers, RequestsGood
<1> QED
  BY <1>1, <1>2 DEF GoodRequest, resolve_snapshot, Min2, IsRead, Committed

LEMMA CachedAnswers ==
    ASSUME IInv, TypeOK', Answers, NEW w \in Workers, NEW value, Give(w, request[w], value),
           Right(request[w].op, value, request[w].at),
           UNCHANGED <<log, pin, lease, cache, met>>
    PROVE  Answers'
<1>1. AnswersMatch'
  BY RightAnswer, Zenon DEF Answers
<1>2. PinsKnown' /\ LeasesKnown'
  BY Zenon DEF Answers, PinsKnown, LeasesKnown, Committed, Orders
<1>3. request' = [request EXCEPT ![w] = Idle] /\ ~ IsRead(Idle)
  BY Zenon DEF Give, IsRead, Idle, ReadPcs
<1> QED
  BY <1>1, <1>2, <1>3, RequestStepKeepsAnswers, Zenon

LEMMA ToFinishAnswers ==
    ASSUME IInv, TypeOK', Answers, NEW w \in Workers, request[w].pc = "read", NEW value, NEW fill,
           ToFinish(w, request[w], value, fill),
           Right(request[w].op, value, request[w].at) \/
             ("moved" \in met' /\ request[w].op \in {"partition", "tables"}),
           \A k \in fill : FillOf(request[w], k),
           UNCHANGED <<log, pin, lease, cache>>, met \subseteq met'
    PROVE  Answers'
<1>1. PICK r : r = request[w]
  BY Zenon
<1>2. IsRead(r) /\ GoodRequest(r) /\ r.at \in Committed /\ r.pc = "read"
  BY <1>1, ReaderIsKnown, Zenon
<1>3. LogGrows /\ TypeOK
  BY Zenon DEF LogGrows, IInv
<1>4. Right(r.op, value, r.at)'
  BY <1>1, <1>2, <1>3, RightKept, Zenon DEF Right
<1>5. \A k \in fill : FillOf(r, k)'
  BY <1>1 DEF FillOf, CatalogKey, FactsKey, CatalogVersion, CurrentRows, RowsAt, Scope
<1>6. PICK q : q = [r EXCEPT !.pc = "finish", !.value = value, !.fill = fill]
  BY Zenon
<1>7. /\ q.pc = "finish" /\ q.value = value /\ q.fill = fill
      /\ q.version = r.version /\ q.op = r.op /\ q.asked = r.asked /\ q.ctx = r.ctx
      /\ q.latest = r.latest /\ q.at = r.at
  BY <1>2, <1>6, Zenon DEF IsRead
<1>8. \A k \in fill : FillOf(q, k)'
  BY <1>5, <1>7, Zenon DEF FillOf, CatalogKey, FactsKey, Scope
<1>9. GoodRequest(q)'
  <2>1. GoodRequest(r)'
    BY <1>2, <1>3, RequestKept, Zenon
  <2> QED
    BY <1>2, <1>4, <1>7, <1>8, <2>1, Zenon DEF GoodRequest, resolve_snapshot
<1>10. request' = [request EXCEPT ![w] = q] /\ UNCHANGED wrong
  BY <1>1, <1>6, Zenon DEF ToFinish
<1>11. PinsKnown' /\ LeasesKnown' /\ AnswersMatch'
  BY <1>10, Zenon DEF Answers, PinsKnown, LeasesKnown, Committed, Orders, AnswersMatch
<1> QED
  BY <1>9, <1>10, <1>11, RequestStepKeepsAnswers, Zenon

LEMMA ReadFilesAnswers ==
    ASSUME IInv, TypeOK', Answers, NEW w \in Workers, ReadFiles(w), UNCHANGED <<log, pin, lease, cache>>
    PROVE  Answers'
<1> DEFINE r == request[w]
           key == <<"files", r.ctx, r.at>>
           value == IF Cached(key) THEN cache[key] ELSE RowsAt("data", r.at, r.version)
           fill == {key, <<"payload", r.ctx, r.asked>>}
<1>1. r.pc = "read" /\ r.op = "files" /\ ToFinish(w, r, value, fill) /\ UNCHANGED met
  BY Zenon DEF ReadFiles, Reading
<1>2. value = RowsAt("data", r.at, r.at)
  <2>1. CASE Cached(key)
    BY <2>1, Zenon DEF Cached, Answers, EntriesGood, GoodEntry
  <2>2. RowsAt("data", r.at, r.version) = RowsAt("data", r.at, r.at)
    BY <1>1, ReaderIsKnown, RowsOfVersion, Zenon DEF IInv
  <2> QED
    BY <2>1, <2>2, Zenon
<1>3. Right(r.op, value, r.at)
  BY <1>1, <1>2 DEF Right, KindRead
<1>4. \A k \in fill : FillOf(r, k)
  BY <1>1, Zenon DEF FillOf
<1> HIDE DEF value, fill
<1> QED
  BY <1>1, <1>3, <1>4, ToFinishAnswers, Zenon

LEMMA ReadPartitionAnswers ==
    ASSUME IInv, TypeOK', Answers, NEW w \in Workers, ReadPartition(w),
           UNCHANGED <<log, pin, lease, cache>>
    PROVE  Answers'
<1> DEFINE r == request[w]
           value == CurrentRows("data", r.version)
           fill == {<<"partition", r.ctx>>}
<1>1. /\ r.pc = "read" /\ r.op = "partition" /\ ToFinish(w, r, value, fill)
      /\ met' = met \cup (IF r.version # r.at THEN {"moved"} ELSE {})
  BY Zenon DEF ReadPartition, Reading
<1>2. Right(r.op, value, r.at) \/ ("moved" \in met' /\ r.op \in {"partition", "tables"})
  <2>1. CASE r.version = r.at
    BY <1>1, <2>1 DEF Right, KindRead, CurrentRows
  <2>2. CASE r.version # r.at
    BY <1>1, <2>2, Zenon
  <2> QED
    BY <2>1, <2>2, Zenon
<1>3. \A k \in fill : FillOf(r, k)
  BY <1>1, Zenon DEF FillOf
<1> HIDE DEF value, fill
<1> QED
  BY <1>1, <1>2, <1>3, ToFinishAnswers, Zenon

LEMMA ReadInlineAnswers ==
    ASSUME IInv, TypeOK', Answers, NEW w \in Workers, ReadInline(w), UNCHANGED <<log, pin, lease, cache>>
    PROVE  Answers'
<1> DEFINE r == request[w]
           key == CaptureKey(r.ctx, r.at)
<1>1. r.pc = "read" /\ r.op = "inline" /\ UNCHANGED met
  BY Zenon DEF ReadInline, Reading
<1>2. CASE Cached(key) /\ Give(w, r, cache[key])
  <2>1. GoodEntry(key, cache[key])
    BY <1>2, Zenon DEF Cached, Answers, EntriesGood
  <2>2. Right(r.op, cache[key], r.at)
    BY <1>1, <2>1 DEF GoodEntry, CaptureKey, Right, KindRead
  <2> QED
    BY <1>1, <1>2, <2>2, CachedAnswers, Zenon
<1>3. CASE Fail(w) /\ UNCHANGED <<wrong, seen>>
  <2>1. request' = [request EXCEPT ![w] = Idle] /\ ~ IsRead(Idle)
    BY <1>3, Zenon DEF Fail, IsRead, Idle, ReadPcs
  <2>2. PinsKnown' /\ LeasesKnown' /\ AnswersMatch'
    BY <1>1, <1>3, Zenon DEF Answers, PinsKnown, LeasesKnown, Committed, Orders, AnswersMatch
  <2> QED
    BY <1>1, <2>1, <2>2, RequestStepKeepsAnswers, Zenon
<1> QED
  BY <1>2, <1>3, Zenon DEF ReadInline

\* Facts and catalogs found by the catalog version are those of the version read.
LEMMA CachedCatalog ==
    ASSUME IInv, Answers, NEW w \in Workers, request[w].pc = "read"
    PROVE  /\ Cached(FactsKey(request[w])) =>
                cache[FactsKey(request[w])] = CurrentRows("table", request[w].version)
           /\ Cached(CatalogKey(request[w])) =>
                cache[CatalogKey(request[w])] = RowsAt("table", request[w].at, request[w].at)
<1> DEFINE r == request[w]
<1>1. r.version \in Committed /\ r.at \in Committed
  BY ReaderIsKnown, Zenon
<1>2. ASSUME Cached(FactsKey(r))
      PROVE  cache[FactsKey(r)] = CurrentRows("table", r.version)
  <2>1. FactsKey(r)[1] = "facts" /\ FactsKey(r)[2] = CatalogVersion(r.version)
    BY Zenon DEF FactsKey
  <2>2. \E v \in Committed : /\ CatalogVersion(r.version) = CatalogVersion(v)
                             /\ cache[FactsKey(r)] = CurrentRows("table", v)
    BY <1>2, <2>1, Zenon DEF Cached, Answers, EntriesGood, GoodEntry
  <2> QED
    BY <1>1, <2>2, CatalogIsKnown, Zenon DEF Answers
<1>3. ASSUME Cached(CatalogKey(r))
      PROVE  cache[CatalogKey(r)] = RowsAt("table", r.at, r.at)
  <2> DEFINE k == CatalogKey(r)
  <2>1. /\ k[1] = "catalog" /\ k[2] = CatalogVersion(r.version) /\ k[3] = Scope(r)
        /\ k[4] = IF Scope(r) = "current" THEN None ELSE r.at
    BY Zenon DEF CatalogKey
  <2>2. GoodEntry(k, cache[k])
    BY <1>3, Zenon DEF Cached, Answers, EntriesGood
  <2> HIDE DEF k
  <2>3. PICK v \in Committed :
            /\ CatalogVersion(r.version) = CatalogVersion(v)
            /\ IF Scope(r) = "current" THEN cache[k] = CurrentRows("table", v)
               ELSE cache[k] = RowsAt("table", k[4], k[4])
    BY <2>1, <2>2, Zenon DEF GoodEntry
  <2>4. CASE Scope(r) = "current"
    <3>1. r.version = r.at
      BY <2>4, Zenon DEF Scope
    <3>2. CurrentRows("table", v) = CurrentRows("table", r.version)
      BY <1>1, <2>3, CatalogIsKnown, Zenon DEF Answers
    <3> QED
      BY <2>3, <2>4, <3>1, <3>2, Zenon DEF CurrentRows, k
  <2>5. CASE Scope(r) # "current"
    BY <2>1, <2>3, <2>5, Zenon DEF k
  <2> QED
    BY <2>4, <2>5, Zenon
<1> QED
  BY <1>2, <1>3, Zenon

LEMMA ReadCatalogAnswers ==
    ASSUME IInv, TypeOK', Answers, NEW w \in Workers, ReadCatalog(w), UNCHANGED <<log, pin, lease, cache>>
    PROVE  Answers'
<1> DEFINE r == request[w]
           facts == IF Cached(FactsKey(r)) THEN cache[FactsKey(r)] ELSE CurrentRows("table", r.version)
           value == IF r.version = r.at THEN facts ELSE {i \in facts : i <= r.at}
           fill == {CatalogKey(r)} \cup (IF Cached(FactsKey(r)) THEN {} ELSE {FactsKey(r)})
<1>1. r.pc = "read" /\ r.op = "catalog" /\ UNCHANGED met
  BY Zenon DEF ReadCatalog, Reading
<1>2. CASE Cached(CatalogKey(r)) /\ Give(w, r, cache[CatalogKey(r)])
  <2>1. Right(r.op, cache[CatalogKey(r)], r.at)
    BY <1>1, <1>2, CachedCatalog DEF Right, KindRead
  <2> QED
    BY <1>1, <1>2, <2>1, CachedAnswers, Zenon
<1>3. CASE ToFinish(w, r, value, fill)
  <2>1. facts = CurrentRows("table", r.version)
    BY <1>1, CachedCatalog, Zenon
  <2>2. r.version \in Committed /\ r.at \in 0 .. r.version
    BY <1>1, ReaderIsKnown, Zenon
  <2>3. value = RowsAt("table", r.at, r.at)
    <3>1. r.version \in Int /\ r.at \in Int /\ r.at <= r.version
      BY <2>2 DEF Committed
    <3> HIDE DEF facts
    <3> QED
      BY <2>1, <3>1 DEF CurrentRows, RowsAt, Min2
  <2>4. Right(r.op, value, r.at)
    BY <1>1, <2>3 DEF Right, KindRead
  <2>5. \A k \in fill : FillOf(r, k)
    BY <1>1, Zenon DEF FillOf
  <2> HIDE DEF value, fill
  <2> QED
    BY <1>1, <1>3, <2>4, <2>5, ToFinishAnswers, Zenon
<1> QED
  BY <1>2, <1>3, Zenon DEF ReadCatalog

LEMMA ReadTablesAnswers ==
    ASSUME IInv, TypeOK', Answers, NEW w \in Workers, ReadTables(w), UNCHANGED <<log, pin, lease, cache>>
    PROVE  Answers'
<1> DEFINE r == request[w]
           visible == <<"visible", r.ctx, r.at>>
           current == <<"current", r.ctx>>
<1>1. r.pc = "read" /\ r.op = "tables"
  BY Zenon DEF ReadTables, Reading
<1>2. r.version \in Committed /\ r.at \in 0 .. r.version /\ IsRead(r) /\ GoodRequest(r)
  BY <1>1, ReaderIsKnown, Zenon
<1>3. CASE Cached(visible) /\ Give(w, r, cache[visible]) /\ UNCHANGED met
  <2>1. Right(r.op, cache[visible], r.at)
    BY <1>1, <1>3, Zenon DEF Cached, Answers, EntriesGood, GoodEntry
  <2> QED
    BY <1>3, <2>1, CachedAnswers, Zenon
<1>4. CASE /\ r.at = r.latest /\ Cached(current)
           /\ ToFinish(w, r, cache[current], {visible}) /\ UNCHANGED met
  <2>1. r.latest = pin[r.ctx]
    BY <1>1, <1>2 DEF GoodRequest, None, IInv, LatestIsPinned
  <2>2. Right(r.op, cache[current], r.at)
    BY <1>1, <1>4, <2>1 DEF Cached, Answers, EntriesGood, GoodEntry
  <2>3. \A k \in {visible} : FillOf(r, k)
    BY <1>1, Zenon DEF FillOf
  <2> QED
    BY <1>1, <1>4, <2>2, <2>3, ToFinishAnswers, Zenon
<1>5. CASE /\ r.at = r.latest
           /\ ToFinish(w, r, CurrentRows("table", r.version), {visible, current})
           /\ met' = met \cup (IF r.version # r.at THEN {"moved"} ELSE {})
  <2>1. Right(r.op, CurrentRows("table", r.version), r.at)
          \/ ("moved" \in met' /\ r.op \in {"partition", "tables"})
    <3>1. CASE r.version = r.at
      BY <1>1, <3>1 DEF Right, KindRead, CurrentRows
    <3>2. CASE r.version # r.at
      BY <1>1, <1>5, <3>2, Zenon
    <3> QED
      BY <3>1, <3>2, Zenon
  <2>2. \A k \in {visible, current} : FillOf(r, k)
    BY <1>1, <1>5, Zenon DEF FillOf
  <2> QED
    BY <1>1, <1>5, <2>1, <2>2, ToFinishAnswers, Zenon
<1>6. CASE ToFinish(w, r, RowsAt("table", r.at, r.version), {visible}) /\ UNCHANGED met
  <2>1. Right(r.op, RowsAt("table", r.at, r.version), r.at)
    BY <1>1, <1>2, RowsOfVersion DEF Right, KindRead, IInv
  <2>2. \A k \in {visible} : FillOf(r, k)
    BY <1>1, Zenon DEF FillOf
  <2> QED
    BY <1>1, <1>6, <2>1, <2>2, ToFinishAnswers, Zenon
<1> QED
  BY <1>3, <1>4, <1>5, <1>6, Zenon DEF ReadTables

\* What a request caches is right: its value for its snapshot, or the facts of its version.
Entry(r, k) ==
    CASE k[1] \in {"payload", "partition"} -> [at |-> r.at, rows |-> r.value]
      [] k[1] = "facts" -> CurrentRows("table", r.version)
      [] OTHER -> r.value

LEMMA FilledIsGood ==
    ASSUME IInv, Answers, NEW w \in Workers, request[w].pc = "finish", NEW k \in request[w].fill
    PROVE  GoodEntry(k, Entry(request[w], k))
<1>1. PICK r : r = request[w]
  BY Zenon
<1>2. /\ IsRead(r) /\ GoodRequest(r) /\ r.version \in Committed
      /\ r.at \in 0 .. r.version /\ r.at \in Committed /\ r.pc = "finish"
  BY <1>1, ReaderIsKnown, Zenon
<1>3. /\ Right(r.op, r.value, r.at) /\ FillOf(r, k) /\ r.ctx \in Contexts /\ r.asked \in Nat
      /\ r.at = resolve_snapshot(r, r.latest)
  BY <1>1, <1>2, Zenon DEF GoodRequest, IsRead
<1>4. r.latest = pin[r.ctx] /\ pin[r.ctx] \in Committed
  <2>1. r.latest = pin[r.ctx] /\ r.latest # None
    BY <1>1, <1>2 DEF GoodRequest, None, IInv, LatestIsPinned
  <2> QED
    BY <1>3, <2>1, Zenon DEF Answers, PinsKnown
<1>5. CASE r.op = "files"
  <2>1. r.value = RowsAt("data", r.at, r.at)
    BY <1>3, <1>5 DEF Right, KindRead
  <2>2. CASE k = <<"files", r.ctx, r.at>>
    <3>1. k[1] = "files" /\ k[3] = r.at
      BY <2>2, Zenon
    <3>2. Entry(r, k) = r.value
      BY <3>1, Zenon DEF Entry
    <3> QED
      BY <1>1, <1>2, <2>1, <3>1, <3>2, Zenon DEF GoodEntry
  <2>3. CASE k = <<"payload", r.ctx, r.asked>>
    <3>1. k[1] = "payload" /\ k[2] = r.ctx /\ k[3] = r.asked
      BY <2>3, Zenon
    <3>2. Entry(r, k).at = r.at /\ Entry(r, k).rows = r.value
      BY <3>1, Zenon DEF Entry
    <3>3. r.at = Min2(r.asked, pin[r.ctx])
      BY <1>3, <1>4, <1>5, Zenon DEF resolve_snapshot
    <3> QED
      BY <1>1, <1>3, <1>4, <2>1, <3>1, <3>2, <3>3, Zenon DEF GoodEntry
  <2> QED
    BY <1>1, <1>3, <1>5, <2>2, <2>3, Zenon DEF FillOf
<1>6. CASE r.op = "partition"
  <2>1. k = <<"partition", r.ctx>> /\ r.at = pin[r.ctx]
    BY <1>3, <1>4, <1>6, Zenon DEF FillOf, resolve_snapshot
  <2>2. k[1] = "partition" /\ k[2] = r.ctx
    BY <2>1, Zenon
  <2>3. Entry(r, k).at = r.at /\ Entry(r, k).rows = r.value
    BY <2>2, Zenon DEF Entry
  <2> QED
    BY <1>1, <1>3, <1>4, <1>6, <2>1, <2>2, <2>3, Zenon DEF GoodEntry
<1>7. CASE r.op = "catalog"
  <2>1. r.value = RowsAt("table", r.at, r.at)
    BY <1>3, <1>7 DEF Right, KindRead
  <2>2. CASE k = CatalogKey(r)
    <3>1. /\ k[1] = "catalog" /\ k[2] = CatalogVersion(r.version) /\ k[3] = Scope(r)
          /\ k[4] = IF Scope(r) = "current" THEN None ELSE r.at
      BY <2>2, Zenon DEF CatalogKey
    <3>2. Entry(r, k) = r.value
      BY <3>1, Zenon DEF Entry
    <3>3. Scope(r) = "current" => r.value = CurrentRows("table", r.version)
      BY <2>1, Zenon DEF Scope, CurrentRows
    <3> QED
      BY <1>1, <1>2, <2>1, <3>1, <3>2, <3>3, Zenon DEF GoodEntry
  <2>3. CASE k = FactsKey(r)
    <3>1. k[1] = "facts" /\ k[2] = CatalogVersion(r.version)
      BY <2>3, Zenon DEF FactsKey
    <3>2. Entry(r, k) = CurrentRows("table", r.version)
      BY <3>1, Zenon DEF Entry
    <3> QED
      BY <1>1, <1>2, <3>1, <3>2, Zenon DEF GoodEntry
  <2> QED
    BY <1>3, <1>7, <2>2, <2>3, Zenon DEF FillOf
<1>8. CASE r.op = "tables"
  <2>1. CASE k = <<"visible", r.ctx, r.at>>
    <3>1. k[1] = "visible" /\ k[3] = r.at
      BY <2>1, Zenon
    <3>2. Entry(r, k) = r.value
      BY <3>1, Zenon DEF Entry
    <3> QED
      BY <1>1, <1>2, <1>3, <1>8, <3>1, <3>2, Zenon DEF GoodEntry
  <2>2. CASE k = <<"current", r.ctx>> /\ r.at = r.latest
    <3>1. k[1] = "current" /\ k[2] = r.ctx
      BY <2>2, Zenon
    <3>2. Entry(r, k) = r.value
      BY <3>1, Zenon DEF Entry
    <3> QED
      BY <1>1, <1>3, <1>4, <1>8, <2>2, <3>1, <3>2, Zenon DEF GoodEntry
  <2> QED
    BY <1>3, <1>8, <2>1, <2>2, Zenon DEF FillOf
<1> QED
  BY <1>3, <1>5, <1>6, <1>7, <1>8, Zenon DEF FillOf

LEMMA FinishAnswers ==
    ASSUME IInv, TypeOK', Answers, NEW w \in Workers, Finish(w)
    PROVE  Answers'
<1>1. PICK r : r = request[w]
  BY Zenon
<1>2. /\ r.pc = "finish" /\ Give(w, r, r.value) /\ UNCHANGED <<log, pin, lease, met>>
      /\ cache' = [k \in DOMAIN cache \cup r.fill |-> IF k \in r.fill THEN Entry(r, k) ELSE cache[k]]
  BY <1>1, Zenon DEF Finish, Entry
<1>3. Right(r.op, r.value, r.at)
  BY <1>1, <1>2, ReaderIsKnown, Zenon DEF GoodRequest
<1>4. AnswersMatch'
  BY <1>2, <1>3, RightAnswer, Zenon DEF Answers
<1>5. PinsKnown' /\ LeasesKnown' /\ LogGrows
  BY <1>2, Zenon DEF Answers, PinsKnown, LeasesKnown, Committed, Orders, LogGrows
<1>6. ASSUME NEW k \in DOMAIN cache'
      PROVE  (k \in DOMAIN cache /\ cache'[k] = cache[k] /\ PinKept(k)) \/ GoodEntry(k, cache[k])'
  <2>1. PinKept(k)
    BY <1>2, Zenon DEF PinKept
  <2>2. CASE k \in r.fill
    <3>1. PICK e : e = Entry(r, k)
      BY Zenon
    <3>2. GoodEntry(k, e)
      BY <1>1, <1>2, <2>2, <3>1, FilledIsGood, Zenon
    <3>3. GoodEntry(k, e)'
      BY <1>2, <1>5, <2>1, <3>2, EntryKept, Zenon DEF IInv
    <3>4. cache'[k] = e
      BY <1>2, <2>2, <3>1, Zenon
    <3> QED
      BY <3>3, <3>4, Zenon
  <2>3. CASE k \notin r.fill
    BY <1>2, <1>6, <2>1, <2>3, Zenon
  <2> QED
    BY <2>2, <2>3, Zenon
<1>7. ASSUME NEW v \in Workers
      PROVE  request'[v] = request[v] \/ (IsRead(request'[v]) => GoodRequest(request[v])')
  <2>1. request'[v] = request[v] \/ request'[v] = Idle
    BY <1>2, Zenon DEF Give, IInv, TypeOK
  <2>2. ~ IsRead(Idle)
    BY Zenon DEF IsRead, Idle, ReadPcs
  <2> QED
    BY <2>1, <2>2, Zenon
<1> QED
  BY <1>2, <1>4, <1>5, <1>6, <1>7, StepKeepsAnswers, Zenon DEF IInv

-----------------------------------------------------------------------------
(* Commits, failures and what is dropped *)

\* Requests stay, end or start again; entries stay or are dropped, pinned snapshots with them.
LEMMA DroppingKeepsAnswers ==
    ASSUME IInv, TypeOK', Answers, LogGrows, UNCHANGED <<met, wrong>>,
           \A v \in Workers : \/ request'[v] = request[v]
                              \/ request'[v].pc = "again"
                              \/ ~ IsRead(request'[v]),
           \A k \in DOMAIN cache' : k \in DOMAIN cache /\ cache'[k] = cache[k] /\ PinKept(k),
           \A c \in Contexts : pin'[c] \in {pin[c], None},
           \A c \in Contexts : lease'[c] \in {lease[c], None, NoSlot}
    PROVE  Answers'
<1>1. Committed \subseteq Committed'
  BY CommittedKept, Zenon DEF IInv
<1>2. PinsKnown'
  BY <1>1, Zenon DEF Answers, PinsKnown
<1>3. LeasesKnown'
  BY <1>1, ReadContextAssumption DEF Answers, LeasesKnown, Orders, None, NoSlot
<1>4. AnswersMatch'
  BY Zenon DEF Answers, AnswersMatch
<1>5. \A v \in Workers : request'[v].pc = "again" => GoodRequest(request[v])'
  BY Zenon DEF GoodRequest
<1> QED
  BY <1>2, <1>3, <1>4, <1>5, StepKeepsAnswers, Zenon DEF IInv

LEMMA TooOldAnswers ==
    ASSUME IInv, TypeOK', Answers, NEW w \in Workers, TooOld(w)
    PROVE  Answers'
<1>1. UNCHANGED <<log, pin, cache, wrong, met>> /\ LogGrows
  BY Zenon DEF TooOld, LogGrows
<1>2. \A c \in Contexts : lease'[c] \in {lease[c], NoSlot}
  BY Zenon DEF TooOld, IInv, TypeOK
<1>3. ASSUME NEW v \in Workers
      PROVE  request'[v] = request[v] \/ request'[v].pc = "again" \/ ~ IsRead(request'[v])
  <2> DEFINE again == [request[v] EXCEPT !.pc = "again", !.version = None, !.latest = None,
                                         !.at = None, !.retried = TRUE]
  <2>1. \/ request'[v] = request[v]
        \/ request'[v] = Idle
        \/ v \in FailsWith(w) /\ request'[v] = again
    BY Zenon DEF TooOld
  <2>2. ~ IsRead(Idle)
    BY Zenon DEF IsRead, Idle, ReadPcs
  <2>3. CASE v \in FailsWith(w) /\ request'[v] = again
    <3>1. request[v].pc \in ReadPcs
      BY <2>3, Zenon DEF FailsWith, Flight, TooOld, ReadPcs
    <3>2. IsRead(request[v])
      BY <3>1, RequestKinds, Zenon DEF IInv
    <3>3. again.pc = "again"
      BY <3>2, Zenon DEF IsRead
    <3> QED
      BY <2>3, <3>3, Zenon
  <2> QED
    BY <2>1, <2>2, <2>3, Zenon
<1>4. \A k \in DOMAIN cache : PinKept(k)
  BY <1>1, Zenon DEF PinKept
<1> QED
  BY <1>1, <1>2, <1>3, <1>4, DroppingKeepsAnswers, Zenon

\* A mutation is no read request.
LEMMA MutationAnswers ==
    ASSUME IInv, TypeOK', Answers, NEW w \in Workers,
           \/ \E c \in Contexts \cup {NoContext} : StartMutation(w, c)
           \/ \E kind \in Kinds : CommitMutation(w, kind)
           \/ FailMutation(w)
    PROVE  Answers'
<1>1. LogGrows /\ UNCHANGED <<pin, lease, wrong, met>>
  BY Zenon DEF StartMutation, CommitMutation, FailMutation, LogGrows
<1>2. cache' = cache \/ cache' = Without(invalidate_runtime_read_context)
  BY Zenon DEF StartMutation, CommitMutation, FailMutation
<1>3. ASSUME NEW k \in DOMAIN cache'
      PROVE  k \in DOMAIN cache /\ cache'[k] = cache[k] /\ PinKept(k)
  BY <1>1, <1>2, <1>3, Zenon DEF PinKept, Without, Restrict
<1>4. ASSUME NEW v \in Workers
      PROVE  request'[v] = request[v] \/ ~ IsRead(request'[v])
  <2>1. CASE \E c \in Contexts \cup {NoContext} : StartMutation(w, c)
    <3>1. PICK c \in Contexts \cup {NoContext} : StartMutation(w, c)
      BY <2>1, Zenon
    <3>2. request'[v] = request[v] \/ request'[v] = [pc |-> "commit", ctx |-> c, op |-> "mutation"]
      BY <3>1, Zenon DEF StartMutation, IInv, TypeOK
    <3> QED
      BY <3>2 DEF IsRead, ReadPcs
  <2>2. CASE request[w].pc = "commit" /\ request' = [request EXCEPT ![w].pc = "leave"]
    <3>1. IsMutation(request[w])
      BY <2>2, RequestKinds, Zenon DEF IInv
    <3>2. request'[v] = request[v] \/ request'[v] = [request[w] EXCEPT !.pc = "leave"]
      BY <2>2, Zenon DEF IInv, TypeOK
    <3> QED
      BY <3>1, <3>2, Zenon DEF IsMutation, IsRead, ReadPcs
  <2> QED
    BY <2>1, <2>2, Zenon DEF CommitMutation, FailMutation
<1> QED
  BY <1>1, <1>3, <1>4, DroppingKeepsAnswers, Zenon

LEMMA EndMutationAnswers ==
    ASSUME IInv, TypeOK', Answers, NEW w \in Workers, EndMutation(w)
    PROVE  Answers'
<1>1. UNCHANGED <<log, wrong, met>> /\ LogGrows
  BY Zenon DEF EndMutation, LogGrows
<1>2. /\ \A c \in Contexts : pin'[c] \in {pin[c], None}
      /\ \A c \in Contexts : lease'[c] \in {lease[c], NoSlot}
  BY Zenon DEF EndMutation, DropLease
<1>3. ASSUME NEW k \in DOMAIN cache'
      PROVE  k \in DOMAIN cache /\ cache'[k] = cache[k] /\ PinKept(k)
  <2>1. cache' = Without(invalidate_runtime_read_context)
    BY Zenon DEF EndMutation
  <2>2. k \in DOMAIN cache /\ k \notin invalidate_runtime_read_context /\ cache'[k] = cache[k]
    BY <1>3, <2>1, Zenon DEF Without, Restrict
  <2> QED
    BY <2>2, Zenon DEF invalidate_runtime_read_context, PinKept
<1>4. \A v \in Workers : request'[v] = request[v] \/ ~ IsRead(request'[v])
  BY Zenon DEF EndMutation, IInv, TypeOK, IsRead, Idle, ReadPcs
<1> QED
  BY <1>1, <1>2, <1>3, <1>4, DroppingKeepsAnswers, Zenon

LEMMA ForgetAnswers ==
    ASSUME IInv, TypeOK', Answers, NEW c \in Contexts, Forget(c)
    PROVE  Answers'
<1>1. UNCHANGED <<log, request, wrong, met>> /\ LogGrows
  BY Zenon DEF Forget, LogGrows
<1>2. /\ \A d \in Contexts : pin'[d] = IF d = c THEN None ELSE pin[d]
      /\ \A d \in Contexts : lease'[d] \in {lease[d], NoSlot}
  BY Zenon DEF Forget, IInv, TypeOK
<1>3. ASSUME NEW k \in DOMAIN cache'
      PROVE  k \in DOMAIN cache /\ cache'[k] = cache[k] /\ PinKept(k)
  <2>1. cache' = Without({x \in DOMAIN cache : x[2] = c})
    BY Zenon DEF Forget
  <2>2. k \in DOMAIN cache /\ k[2] # c /\ cache'[k] = cache[k]
    BY <1>3, <2>1, Zenon DEF Without, Restrict
  <2> QED
    BY <1>2, <2>2, Zenon DEF PinKept
<1> QED
  BY <1>1, <1>2, <1>3, DroppingKeepsAnswers, Zenon

LEMMA OutsideAnswers ==
    ASSUME IInv, TypeOK', Answers,
           \/ \E kind \in Kinds : CommitElsewhere(kind)
           \/ \E c \in Contexts : ExpireLease(c)
           \/ UNCHANGED vars
    PROVE  Answers'
<1>1. LogGrows /\ UNCHANGED <<pin, cache, request, wrong, met>>
  BY Zenon DEF CommitElsewhere, ExpireLease, vars, LogGrows
<1>2. \A c \in Contexts : lease'[c] \in {lease[c], None}
  BY Zenon DEF CommitElsewhere, ExpireLease, vars, IInv, TypeOK
<1>3. \A k \in DOMAIN cache : PinKept(k)
  BY <1>1, Zenon DEF PinKept
<1> QED
  BY <1>1, <1>2, <1>3, DroppingKeepsAnswers, Zenon

-----------------------------------------------------------------------------

\* Situations are never forgotten.
LEMMA MetGrows == [Next]_vars => met \subseteq met'
BY ZenonT(30) DEF Next, vars, Step, Retry, FetchVersion, FindSnapshot, Pin, BuildCapture, Read,
       ReadFiles, ReadPartition, ReadCatalog, ReadTables, ReadInline, Finish, FailMutation, EndMutation, TooOld,
       Start, StartMutation, CommitMutation, CommitElsewhere, ExpireLease, EndContext,
       LoseEndContext, Forget

LEMMA NextKeepsAnswers ==
    ASSUME IInv, TypeOK', AInv, [Next]_vars
    PROVE  AInv'
<1> SUFFICES ASSUME "lagging" \notin met'
             PROVE  Answers'
  BY Zenon DEF AInv
<1>1. Answers
  BY MetGrows, Zenon DEF AInv
<1>2. CASE \E w \in Workers : Step(w) \/ TooOld(w)
  <2>1. PICK w \in Workers : Step(w) \/ TooOld(w)
    BY <1>2, Zenon
  <2>2. CASE Retry(w) \/ FetchVersion(w) \/ FindSnapshot(w) \/ Pin(w)
    BY <1>1, <2>2, RetryAnswers, FetchVersionAnswers, FindSnapshotAnswers, PinAnswers, Zenon
  <2>3. CASE Read(w)
    BY Zenon, <1>1, <2>3, ReadFilesAnswers, ReadPartitionAnswers, ReadCatalogAnswers, ReadTablesAnswers,
       ReadInlineAnswers DEF Read
  <2>4. CASE BuildCapture(w) \/ Finish(w) \/ TooOld(w)
    BY <1>1, <2>4, BuildCaptureAnswers, FinishAnswers, TooOldAnswers, Zenon
  <2>5. CASE FailMutation(w) \/ EndMutation(w)
    BY <1>1, <2>5, MutationAnswers, EndMutationAnswers, Zenon
  <2> QED
    BY <2>1, <2>2, <2>3, <2>4, <2>5, Zenon DEF Step
<1>3. CASE \E w \in Workers, c \in Contexts, op \in Ops :
              \E asked \in SnapshotIds[op] : Start(w, c, op, asked)
  BY <1>1, <1>3, StartAnswers, Zenon
<1>4. CASE \E w \in Workers, c \in Contexts \cup {NoContext} : StartMutation(w, c)
  BY <1>1, <1>4, MutationAnswers, Zenon
<1>5. CASE \E w \in Workers, kind \in Kinds : CommitMutation(w, kind)
  BY <1>1, <1>5, MutationAnswers, Zenon
<1>6. CASE \E kind \in Kinds : CommitElsewhere(kind)
  BY <1>1, <1>6, OutsideAnswers, Zenon
<1>7. CASE \E c \in Contexts : ExpireLease(c) \/ EndContext(c) \/ LoseEndContext(c)
  BY <1>1, <1>7, OutsideAnswers, ForgetAnswers, Zenon DEF EndContext, LoseEndContext
<1>8. CASE UNCHANGED vars
  BY <1>1, <1>8, OutsideAnswers, Zenon
<1> QED
  BY <1>2, <1>3, <1>4, <1>5, <1>6, <1>7, <1>8, Zenon DEF Next

LEMMA AnswersAtFirst == Init => AInv
<1> SUFFICES ASSUME Init PROVE Answers
  BY Zenon DEF AInv
<1>1. PinsKnown /\ EntriesGood /\ AnswersMatch
  BY Zenon DEF Init, PinsKnown, EntriesGood, AnswersMatch
<1>2. LeasesKnown
  BY ReadContextAssumption DEF Init, LeasesKnown, NoSlot, Orders
<1>3. RequestsGood
  BY Zenon DEF Init, RequestsGood, IsRead, Idle, ReadPcs
<1>4. CatalogCounts
  BY DEF Init, CatalogCounts, Committed, CatalogVersion
<1> QED
  BY <1>1, <1>2, <1>3, <1>4, Zenon DEF Answers

\* Until a request holds a version older than the pinned snapshot, every request is given what
\* the catalog was at its snapshot, whatever mutations, renewals and the requests of other
\* contexts leave in the caches (runtime_read_context.rs, runtime_file_listing.rs,
\* runtime_inline_snapshot); current rows only until one of them is read at a newer version.
THEOREM AnswersMatchUntilLagging == Spec => []("lagging" \notin met => AnswersMatch)
<1>1. IInv /\ IInv' /\ AInv /\ [Next]_vars => AInv'
  BY NextKeepsAnswers, Zenon DEF IInv
<1>2. AInv => ("lagging" \notin met => AnswersMatch)
  BY Zenon DEF AInv, Answers
<1> QED
  BY <1>1, <1>2, Invariant, AnswersAtFirst, PTL DEF Spec
=============================================================================
