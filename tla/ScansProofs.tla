---------------------------- MODULE ScansProofs ----------------------------
(***************************************************************************)
(* The reads of Scans implement RangeRead, for every page size, limit,     *)
(* direction, number of ranges and retries, and however other transactions *)
(* commit between the pages.                                               *)
(***************************************************************************)
EXTENDS Scans, FiniteSetTheorems, WellFoundedInduction, TLAPS

Version == [files : SUBSET Files, rows : SUBSET Int]

(* The versions a read may be answered from.                               *)
SpanOf(r, vs) == IF r.pinned THEN {r.since} ELSE r.since .. Len(vs)

(* What the cursor of a range knows between two pages.  Its items are in   *)
(* order, were stored at versions of the read, and lie before all that is  *)
(* left of the range; a key stored all along is among them or still in     *)
(* what is left, and when the scan has ended the latter means that the     *)
(* limit was reached.                                                      *)
CursorType(c, range, r) ==
    /\ c \in [start : Int, end : Int, remaining : SUBSET Int, done : BOOLEAN, items : Seq(Int)]
    /\ range[1] <= c.start
    /\ c.end <= range[2]
    /\ c.remaining = {n - Len(c.items) : n \in r.limit}
    /\ \A n \in r.limit : Len(c.items) <= n /\ (~c.done => Len(c.items) < n)

ItemsAreBehind(c, r) ==
    /\ page_is_ordered(r.direction, c.items)
    /\ \A i \in 1 .. Len(c.items) : \A k \in c.start .. c.end : keys_are_ordered(r.direction, c.items[i], k)

ItemsWereStored(c, range, r, vs) ==
    \A i \in 1 .. Len(c.items) :
        /\ range[1] <= c.items[i] /\ c.items[i] <= range[2]
        /\ \E v \in SpanOf(r, vs) : c.items[i] \in vs[v].rows

Ends(c, r) == c.done => \E n \in r.limit : Len(c.items) = n

NothingIsSkipped(c, range, r, vs) ==
    \A k \in vs[r.since].rows :
        (range[1] <= k /\ k <= range[2] /\ \A v \in SpanOf(r, vs) : k \in vs[v].rows) =>
            \/ \E i \in 1 .. Len(c.items) : c.items[i] = k
            \/ k \in c.start .. c.end /\ Ends(c, r)

CursorOk(c, range, r, vs) ==
    /\ CursorType(c, range, r)
    /\ ItemsAreBehind(c, r)
    /\ ItemsWereStored(c, range, r, vs)
    /\ NothingIsSkipped(c, range, r, vs)

(* The read being made.                                                    *)
ReadType(r, n) ==
    /\ r = [kind |-> r.kind, files |-> r.files, ranges |-> r.ranges, keys |-> r.keys, direction |-> r.direction,
            limit |-> r.limit, pinned |-> r.pinned, since |-> r.since]
    /\ r.kind # "none"
    /\ r.ranges \in Seq(Int \X Int)
    /\ r.direction \in {"Forward", "Reverse"}
    /\ r.limit \in SUBSET Nat
    /\ \A m1, m2 \in r.limit : m1 = m2
    /\ r.kind = "mapped" => Len(r.ranges) = 1 /\ r.limit = {}
    /\ r.pinned \in BOOLEAN
    /\ r.since \in 1 .. n

ValuesOk(a, r, vs) ==
    /\ a = [read |-> a.read, found |-> a.found]
    /\ a.read => \E v \in SpanOf(r, vs) : a.found = r.keys \cap vs[v].rows

CursorsOk(cs, r, vs) ==
    /\ DOMAIN cs = 1 .. Len(r.ranges)
    /\ cs \in Seq([start : Int, end : Int, remaining : SUBSET Int, done : BOOLEAN, items : Seq(Int)])
    /\ \A i \in 1 .. Len(r.ranges) : CursorOk(cs[i], r.ranges[i], r, vs)

ReadOk ==
    /\ ReadType(read, Len(versions))
    /\ CursorsOk(cursors, read, versions)
    /\ ValuesOk(values, read, versions)

JobType ==
    /\ job = [op |-> job.op, files |-> job.files, keys |-> job.keys, rows |-> job.rows, loads |-> job.loads,
              status |-> job.status]
    /\ job.loads \in Seq(Loads)
    /\ job.status \in {"none", "reading", "answered", "failed"}

StoreType ==
    /\ versions \in Seq(Version) /\ Len(versions) >= 1
    /\ context \in Int /\ context <= Len(versions)

(* The inductive invariant.                                                *)
ScansInvariant ==
    /\ StoreType
    /\ JobType
    /\ job.status \in {"none", "answered"} => read = NoRead
    /\ job.status = "reading" => ReadOk

-----------------------------------------------------------------------------
(* Sequences and smallest elements.                                        *)

(* A function on 1 .. n is a sequence of length n.                         *)
LEMMA FunctionIsSequence ==
  ASSUME NEW S, NEW n \in Nat, NEW p \in [1 .. n -> S]
  PROVE  p \in Seq(S) /\ Len(p) = n
OBVIOUS

(* What a concatenation holds.                                             *)
LEMMA Concatenation ==
  ASSUME NEW S, NEW p \in Seq(S), NEW q \in Seq(S)
  PROVE  /\ p \o q \in Seq(S)
         /\ Len(p \o q) = Len(p) + Len(q)
         /\ \A i \in 1 .. Len(p) : (p \o q)[i] = p[i]
         /\ \A i \in 1 .. Len(q) : (p \o q)[Len(p) + i] = q[i]
         /\ \A i \in 1 .. Len(p \o q) : i \notin 1 .. Len(p) => i - Len(p) \in 1 .. Len(q)
OBVIOUS

(* Positions in a concatenation.                                           *)
LEMMA Positions ==
  ASSUME NEW a \in Nat, NEW b \in Nat
  PROVE  /\ \A i \in 1 .. a : i \in 1 .. a + b
         /\ \A i \in 1 .. b : a + i \in 1 .. a + b
         /\ \A i \in 1 .. a + b - 1 : i > a =>
              /\ i - a \in 1 .. b /\ (i - a) + 1 \in 1 .. b /\ i - a < (i - a) + 1
              /\ a + (i - a) = i /\ a + ((i - a) + 1) = i + 1
OBVIOUS

(* The length of a sequence from its domain.                               *)
LEMMA LengthOf ==
  ASSUME NEW S, NEW s \in Seq(S), NEW n \in Nat, DOMAIN s = 1 .. n
  PROVE  Len(s) = n
OBVIOUS

(* An element of a store's history.                                        *)
LEMMA VersionAt ==
  ASSUME NEW vs \in Seq(Version), NEW v \in 1 .. Len(vs)
  PROVE  vs[v].files \subseteq Files /\ vs[v].rows \subseteq Int
<1>1. vs[v] \in Version
  OBVIOUS
<1> QED BY <1>1 DEF Version

(* A page is not empty and no larger than what is wanted.                  *)
LEMMA PageSizes ==
  ASSUME NEW c, NEW range, NEW r, CursorType(c, range, r), ~c.done,
         r.limit \in SUBSET Nat, \A m, n \in r.limit : m = n
  PROVE  /\ page_size(c) \in Nat \ {0}
         /\ \A n \in c.remaining : n \in Nat /\ page_size(c) <= n
         /\ c.remaining = {} => page_size(c) = PageSize
<1>1. PageSize \in Nat \ {0}
  BY ScansAssumption, Zenon
<1>2. \A n \in c.remaining : n \in Nat \ {0}
  BY DEF CursorType
<1>3. \A m, n \in c.remaining : m = n
  BY Zenon DEF CursorType
<1>4. CASE c.remaining = {}
  BY <1>1, <1>4, Zenon DEF page_size
<1>5. CASE c.remaining # {}
  <2>1. PICK n : c.remaining = {n}
    BY <1>3, <1>5, Zenon
  <2>2. n \in Nat \ {0}
    BY <1>2, <2>1, Zenon
  <2>3. \E x \in {n, PageSize} : \A y \in {n, PageSize} : x =< y
    BY <1>1, <2>2
  <2>4. Min({n, PageSize}) \in {n, PageSize} /\ Min({n, PageSize}) =< n
    BY <2>3, Zenon DEF Min
  <2>5. page_size(c) = Min({n, PageSize})
    <3>1. c.remaining \cup {PageSize} = {n, PageSize}
      BY <2>1, Zenon
    <3> QED BY <1>5, <3>1, Zenon DEF page_size
  <2> QED BY <1>1, <1>5, <2>1, <2>2, <2>4, <2>5, Zenon
<1> QED BY <1>4, <1>5, Zenon

-----------------------------------------------------------------------------
(* One page.                                                               *)

(* What scan_range_page returns, one conjunct a fact.                      *)
LEMMA PageFacts ==
  ASSUME NEW c, NEW direction, NEW v, c.start \in Int, c.end \in Int, page_size(c) \in Nat,
         NEW page \in scan_range_page(c, direction, v)
  PROVE  /\ page \in Seq(Int)
         /\ Len(page) <= page_size(c)
         /\ \A i \in 1 .. Len(page) : page[i] \in versions[v].rows /\ page[i] \in c.start .. c.end
         /\ \A i, j \in 1 .. Len(page) : i < j => keys_are_ordered(direction, page[i], page[j])
         /\ \A k \in versions[v].rows : k \in c.start .. c.end =>
              \/ \E i \in 1 .. Len(page) : page[i] = k
              \/ /\ Len(page) = page_size(c)
                 /\ \A i \in 1 .. Len(page) : keys_are_ordered(direction, page[i], k)
<1> DEFINE left == versions[v].rows \cap (c.start .. c.end)
<1>1. /\ page \in UNION {[1 .. n -> left] : n \in 0 .. page_size(c)}
      /\ \A i, j \in 1 .. Len(page) : i < j => keys_are_ordered(direction, page[i], page[j])
      /\ \A k \in left : \/ \E i \in 1 .. Len(page) : page[i] = k
                         \/ /\ Len(page) = page_size(c)
                            /\ \A i \in 1 .. Len(page) : keys_are_ordered(direction, page[i], k)
  BY Zenon DEF scan_range_page
<1>2. PICK n \in 0 .. page_size(c) : page \in [1 .. n -> left]
  BY <1>1, Zenon
<1>3. page \in Seq(left) /\ Len(page) = n
  BY <1>2, FunctionIsSequence
<1>4. \A i \in 1 .. Len(page) : page[i] \in left
  BY <1>2, <1>3, Zenon
<1>5. page \in Seq(Int)
  <2>1. left \subseteq Int
    OBVIOUS
  <2>2. page \in [1 .. n -> Int]
    BY <1>2, <2>1, Zenon
  <2> QED BY <1>2, <2>2, FunctionIsSequence
<1> QED BY <1>1, <1>2, <1>3, <1>4, <1>5

(* The page is in order, follows what was returned before and lies in what *)
(* is left of the range: no page the store returns is rejected.            *)
LEMMA PageIsAccepted ==
  ASSUME NEW c, NEW range, NEW r, NEW v, CursorType(c, range, r), ItemsAreBehind(c, r), page_size(c) \in Nat,
         NEW page \in scan_range_page(c, r.direction, v), NEW kind
  PROVE  PageIsValid(kind, c, r.direction, page)
<1>1. /\ c.start \in Int /\ c.end \in Int
      /\ c.items \in Seq(Int)
  BY Zenon DEF CursorType
<1>2. /\ page \in Seq(Int)
      /\ Len(page) <= page_size(c)
      /\ \A i \in 1 .. Len(page) : page[i] \in c.start .. c.end
      /\ \A i, j \in 1 .. Len(page) : i < j => keys_are_ordered(r.direction, page[i], page[j])
  BY <1>1, PageFacts, Zenon
<1>3. page_is_ordered(r.direction, page)
  <2> SUFFICES ASSUME NEW i \in 1 .. Len(page) - 1
               PROVE  keys_are_ordered(r.direction, page[i], page[i + 1])
    BY Zenon DEF page_is_ordered
  <2>1. i \in 1 .. Len(page) /\ i + 1 \in 1 .. Len(page) /\ i < i + 1
    BY <1>2
  <2> QED BY <1>2, <2>1, Zenon
<1>4. (page # <<>> /\ c.items # <<>>) => keys_are_ordered(r.direction, c.items[Len(c.items)], page[1])
  <2> HAVE page # <<>> /\ c.items # <<>>
  <2>1. 1 \in 1 .. Len(page) /\ Len(c.items) \in 1 .. Len(c.items)
    BY <1>1, <1>2
  <2>2. page[1] \in c.start .. c.end
    BY <1>2, <2>1, Zenon
  <2> QED BY <2>1, <2>2, Zenon DEF ItemsAreBehind
<1> QED BY <1>2, <1>3, <1>4, Zenon DEF PageIsValid, ValidPage, ValidSyncPage

(* The cursor after an empty page: nothing of the range is left.           *)
LEMMA AcceptEmptyPage ==
  ASSUME NEW c, NEW range, NEW r, NEW v \in SpanOf(r, versions), CursorOk(c, range, r, versions), ~c.done,
         page_size(c) \in Nat \ {0},
         NEW page \in scan_range_page(c, r.direction, v), page = <<>>, NEW kind
  PROVE  CursorOk(accept_page(kind, c, r.direction, page), range, r, versions)
<1> DEFINE d == [c EXCEPT !.done = TRUE]
<1>1. accept_page(kind, c, r.direction, page) = d
  BY Zenon DEF accept_page
<1>2. CursorType(c, range, r)
  BY Zenon DEF CursorOk
<1>3. d.start = c.start /\ d.end = c.end /\ d.items = c.items /\ d.done = TRUE /\ d.remaining = c.remaining
  BY <1>2, Zenon DEF CursorType
<1>4. d \in [start : Int, end : Int, remaining : SUBSET Int, done : BOOLEAN, items : Seq(Int)]
  BY <1>2, Zenon DEF CursorType
<1> HIDE DEF d
<1>5. CursorType(d, range, r)
  BY <1>2, <1>3, <1>4, Zenon DEF CursorType
<1>6. \A k \in versions[v].rows : k \notin c.start .. c.end
  <2>1. Len(page) = 0
    BY Zenon
  <2>2. c.start \in Int /\ c.end \in Int
    BY <1>2, Zenon DEF CursorType
  <2>3. \A k \in versions[v].rows : k \in c.start .. c.end =>
          (\E i \in 1 .. Len(page) : page[i] = k) \/ Len(page) = page_size(c)
    BY <2>2, PageFacts
  <2> QED BY <2>1, <2>3
<1>7. NothingIsSkipped(d, range, r, versions)
  BY <1>3, <1>6, Zenon DEF CursorOk, NothingIsSkipped
<1>8. ItemsAreBehind(d, r) /\ ItemsWereStored(d, range, r, versions)
  BY <1>3, Zenon DEF CursorOk, ItemsAreBehind, ItemsWereStored
<1> QED BY <1>1, <1>5, <1>7, <1>8, Zenon DEF CursorOk

(* The count of items after a page.                                        *)
LEMMA Count ==
  ASSUME NEW a \in Nat, NEW b \in Nat, NEW n \in Nat
  PROVE  /\ b <= n - a => a + b <= n
         /\ n - a > b => a + b < n
         /\ n - a = b => a + b = n
OBVIOUS

(* The limit after a page: never passed, not reached while the cursor goes *)
(* on, and reached when it stops after a full page.                        *)
LEMMA LimitAfterPage ==
  ASSUME NEW c, NEW range, NEW r, CursorType(c, range, r), ~c.done, NEW page \in Seq(Int),
         page_size(c) \in Nat \ {0}, Len(page) <= page_size(c),
         \A n \in c.remaining : n \in Nat /\ page_size(c) <= n,
         c.remaining = {} => page_size(c) = PageSize,
         r.limit \in SUBSET Nat, r.kind = "mapped" => r.limit = {}
  PROVE  /\ \A n \in r.limit : Len(c.items) + Len(page) <= n
         /\ Continues(r.kind, c, page) => \A n \in r.limit : Len(c.items) + Len(page) < n
         /\ (~Continues(r.kind, c, page) /\ Len(page) = page_size(c)) =>
              \E n \in r.limit : Len(c.items) + Len(page) = n
<1>1. c.remaining = {n - Len(c.items) : n \in r.limit} /\ Len(c.items) \in Nat /\ Len(page) \in Nat
  BY DEF CursorType
<1>2. \A n \in r.limit : n \in Nat /\ n - Len(c.items) \in c.remaining /\ n - Len(c.items) \in Int
  <2> TAKE n \in r.limit
  <2>1. n \in Nat /\ n - Len(c.items) \in c.remaining
    BY <1>1, Zenon
  <2> QED BY <1>1, <2>1
<1>3. \A m \in c.remaining : Len(page) <= m
  <2> TAKE m \in c.remaining
  <2>1. page_size(c) \in Nat /\ m \in Nat /\ page_size(c) <= m
    OBVIOUS
  <2> QED BY <1>1, <2>1
<1>4. \A n \in r.limit : Len(c.items) + Len(page) <= n
  <2> TAKE n \in r.limit
  <2>1. Len(page) <= n - Len(c.items) /\ n \in Nat /\ n - Len(c.items) \in Int
    BY <1>2, <1>3, Zenon
  <2> QED BY <1>1, <2>1, Count, Zenon
<1>5. ASSUME Continues(r.kind, c, page)
      PROVE  \A n \in r.limit : Len(c.items) + Len(page) < n
  <2>1. CASE r.kind = "mapped"
    BY <2>1, Zenon
  <2>2. CASE r.kind # "mapped"
    <3>1. \A m \in c.remaining : m > Len(page)
      BY <1>5, <2>2, Zenon DEF Continues, ProbeContinues, ShouldContinue
    <3> TAKE n \in r.limit
    <3>2. n - Len(c.items) > Len(page) /\ n \in Nat /\ n - Len(c.items) \in Int
      BY <1>2, <3>1, Zenon
    <3> QED BY <1>1, <3>2, Count, Zenon
  <2> QED BY <2>1, <2>2, Zenon
<1>6. ASSUME ~Continues(r.kind, c, page), Len(page) = page_size(c)
      PROVE  \E n \in r.limit : Len(c.items) + Len(page) = n
  <2>1. r.kind # "mapped"
    <3> SUFFICES ASSUME r.kind = "mapped" PROVE FALSE
      BY Zenon
    <3>1. c.remaining = {}
      BY <1>1, Zenon
    <3>2. JoinContinues(page)
      BY <1>6, <3>1, Zenon DEF JoinContinues
    <3>3. Continues(r.kind, c, page)
      BY <3>2 DEF Continues
    <3> QED BY <1>6, <3>3, Zenon
  <2>2. PICK m \in c.remaining : ~(m > Len(page))
    BY <1>6, <2>1, Zenon DEF Continues, ProbeContinues, ShouldContinue
  <2>3. PICK n \in r.limit : m = n - Len(c.items)
    BY <1>1, <2>2, Zenon
  <2>4. m \in Nat /\ n \in Nat /\ Len(page) <= m
    BY <1>3, <2>2, <2>3, Zenon
  <2>5. m = Len(page) /\ m \in Int
    BY <1>1, <2>2, <2>4
  <2> QED BY <1>1, <2>3, <2>4, <2>5, Count, Zenon
<1> QED BY <1>4, <1>5, <1>6, Zenon

(* What is left of the range after a page is what lies behind its last key.*)
LEMMA LeftAfterPage ==
  ASSUME NEW c, NEW direction \in {"Forward", "Reverse"}, c.start \in Int, c.end \in Int,
         NEW page \in Seq(Int), page # <<>>,
         \A i \in 1 .. Len(page) : page[i] \in c.start .. c.end,
         \A i, j \in 1 .. Len(page) : i < j => keys_are_ordered(direction, page[i], page[j])
  PROVE  LET start == NextStart(c, direction, page[Len(page)])
             end == NextEnd(c, direction, page[Len(page)])
         IN  /\ start \in Int /\ end \in Int
             /\ c.start <= start /\ end <= c.end
             /\ \A k \in start .. end :
                  /\ k \in c.start .. c.end
                  /\ \A i \in 1 .. Len(page) : keys_are_ordered(direction, page[i], k)
             /\ \A k \in c.start .. c.end :
                  (\A i \in 1 .. Len(page) : keys_are_ordered(direction, page[i], k)) => k \in start .. end
<1> DEFINE l == page[Len(page)]
<1>1. Len(page) \in 1 .. Len(page) /\ \A i \in 1 .. Len(page) : i < Len(page) \/ i = Len(page)
  OBVIOUS
<1>2. l = page[Len(page)]
  BY Zenon
<1>3. l \in Int /\ c.start <= l /\ l <= c.end
  BY <1>1, <1>2
<1>4. \A i \in 1 .. Len(page) : page[i] \in Int /\ (page[i] = l \/ keys_are_ordered(direction, page[i], l))
  BY <1>1, <1>2
<1> HIDE DEF l
<1>5. CASE direction = "Forward"
  <2>1. NextStart(c, direction, l) = l + 1 /\ NextEnd(c, direction, l) = c.end
    BY <1>5, Zenon DEF NextStart, NextEnd
  <2>2. \A i \in 1 .. Len(page) : page[i] <= l
    BY <1>3, <1>4, <1>5 DEF keys_are_ordered
  <2>3. \A k \in l + 1 .. c.end : \A i \in 1 .. Len(page) : page[i] < k
    BY <1>3, <1>4, <2>2
  <2>4. \A k \in c.start .. c.end : l < k => k \in l + 1 .. c.end
    BY <1>3
  <2>5. \A k \in c.start .. c.end :
          (\A i \in 1 .. Len(page) : keys_are_ordered(direction, page[i], k)) => l < k
    BY <1>1, <1>2, <1>5, Zenon DEF keys_are_ordered, l
  <2>6. \A k \in l + 1 .. c.end : \A i \in 1 .. Len(page) : keys_are_ordered(direction, page[i], k)
    BY <1>5, <2>3, Zenon DEF keys_are_ordered
  <2> QED BY <1>3, <2>1, <2>4, <2>5, <2>6 DEF l
<1>6. CASE direction = "Reverse"
  <2>1. NextStart(c, direction, l) = c.start /\ NextEnd(c, direction, l) = l - 1
    BY <1>6, Zenon DEF NextStart, NextEnd
  <2>2. \A i \in 1 .. Len(page) : page[i] >= l
    BY <1>3, <1>4, <1>6 DEF keys_are_ordered
  <2>3. \A k \in c.start .. l - 1 : \A i \in 1 .. Len(page) : page[i] > k
    BY <1>3, <1>4, <2>2
  <2>4. \A k \in c.start .. c.end : l > k => k \in c.start .. l - 1
    BY <1>3
  <2>5. \A k \in c.start .. c.end :
          (\A i \in 1 .. Len(page) : keys_are_ordered(direction, page[i], k)) => l > k
    BY <1>1, <1>2, <1>6, Zenon DEF keys_are_ordered, l
  <2>6. \A k \in c.start .. l - 1 : \A i \in 1 .. Len(page) : keys_are_ordered(direction, page[i], k)
    BY <1>6, <2>3, Zenon DEF keys_are_ordered
  <2> QED BY <1>3, <2>1, <2>4, <2>5, <2>6 DEF l
<1> QED BY <1>5, <1>6, Zenon

(* The cursor after a page with items.                                     *)
LEMMA AcceptFullPage ==
  ASSUME NEW c, NEW range, NEW r, NEW v \in SpanOf(r, versions), CursorOk(c, range, r, versions), ~c.done,
         NEW n0 \in Nat, ReadType(r, n0), range \in Int \X Int,
         NEW page \in scan_range_page(c, r.direction, v), page # <<>>
  PROVE  CursorOk(accept_page(r.kind, c, r.direction, page), range, r, versions)
<1> DEFINE start == NextStart(c, r.direction, page[Len(page)])
           end == NextEnd(c, r.direction, page[Len(page)])
           d == [start |-> start, end |-> end,
                 remaining |-> {n - Len(page) : n \in c.remaining},
                 done |-> ~Continues(r.kind, c, page),
                 items |-> c.items \o page]
<1>1. accept_page(r.kind, c, r.direction, page) = d
  BY Zenon DEF accept_page
<1>2. /\ CursorType(c, range, r) /\ ItemsAreBehind(c, r)
      /\ ItemsWereStored(c, range, r, versions) /\ NothingIsSkipped(c, range, r, versions)
  BY Zenon DEF CursorOk
<1>3. /\ r.direction \in {"Forward", "Reverse"}
      /\ r.limit \in SUBSET Nat /\ \A m1, m2 \in r.limit : m1 = m2
      /\ r.kind = "mapped" => r.limit = {}
  BY Zenon DEF ReadType
<1>4. /\ page_size(c) \in Nat \ {0}
      /\ \A n \in c.remaining : n \in Nat /\ page_size(c) <= n
      /\ c.remaining = {} => page_size(c) = PageSize
  BY <1>2, <1>3, PageSizes, Zenon
<1>5. c.start \in Int /\ c.end \in Int /\ c.items \in Seq(Int) /\ range[1] <= c.start /\ c.end <= range[2]
  BY <1>2, Zenon DEF CursorType
<1>6. /\ page \in Seq(Int)
      /\ Len(page) <= page_size(c)
      /\ \A i \in 1 .. Len(page) : page[i] \in versions[v].rows /\ page[i] \in c.start .. c.end
      /\ \A i, j \in 1 .. Len(page) : i < j => keys_are_ordered(r.direction, page[i], page[j])
      /\ \A k \in versions[v].rows : k \in c.start .. c.end =>
           \/ \E i \in 1 .. Len(page) : page[i] = k
           \/ /\ Len(page) = page_size(c)
              /\ \A i \in 1 .. Len(page) : keys_are_ordered(r.direction, page[i], k)
  BY <1>4, <1>5, PageFacts, Zenon
<1>7. /\ start \in Int /\ end \in Int
      /\ c.start <= start /\ end <= c.end
      /\ \A k \in start .. end :
           /\ k \in c.start .. c.end
           /\ \A i \in 1 .. Len(page) : keys_are_ordered(r.direction, page[i], k)
      /\ \A k \in c.start .. c.end :
           (\A i \in 1 .. Len(page) : keys_are_ordered(r.direction, page[i], k)) => k \in start .. end
  <2> HIDE DEF start, end
  <2> QED BY <1>3, <1>5, <1>6, LeftAfterPage, Zenon DEF start, end
<1>8. /\ \A n \in r.limit : Len(c.items) + Len(page) <= n
      /\ Continues(r.kind, c, page) => \A n \in r.limit : Len(c.items) + Len(page) < n
      /\ (~Continues(r.kind, c, page) /\ Len(page) = page_size(c)) =>
           \E n \in r.limit : Len(c.items) + Len(page) = n
  BY <1>2, <1>3, <1>4, <1>6, LimitAfterPage, Zenon
<1> DEFINE items == c.items \o page
<1>9. /\ items \in Seq(Int)
      /\ Len(items) = Len(c.items) + Len(page)
      /\ \A i \in 1 .. Len(c.items) : items[i] = c.items[i]
      /\ \A i \in 1 .. Len(page) : items[Len(c.items) + i] = page[i]
      /\ \A i \in 1 .. Len(items) : i \notin 1 .. Len(c.items) => i - Len(c.items) \in 1 .. Len(page)
  BY <1>5, <1>6, Concatenation, Zenon
<1>10. /\ d.start = start /\ d.end = end /\ d.items = items
       /\ d.done = ~Continues(r.kind, c, page)
       /\ d.remaining = {n - Len(page) : n \in c.remaining}
  BY Zenon
<1>11. {n - Len(page) : n \in c.remaining} = {n - Len(items) : n \in r.limit}
  <2>1. c.remaining = {n - Len(c.items) : n \in r.limit}
    BY <1>2, Zenon DEF CursorType
  <2>2. Len(page) \in Nat /\ Len(c.items) \in Nat
    BY <1>5, <1>6
  <2>3. \A n \in r.limit : n - Len(items) = (n - Len(c.items)) - Len(page)
    BY <1>3, <1>9, <2>2
  <2> HIDE DEF items
  <2> QED BY <2>1, <2>3
<1>12. d \in [start : Int, end : Int, remaining : SUBSET Int, done : BOOLEAN, items : Seq(Int)]
  <2>1. {n - Len(page) : n \in c.remaining} \in SUBSET Int
    BY <1>4, <1>6
  <2>2. Continues(r.kind, c, page) \in BOOLEAN
    BY Zenon DEF Continues, ProbeContinues, JoinContinues, ShouldContinue
  <2> HIDE DEF start, end
  <2> QED BY <1>7, <1>9, <2>1, <2>2, Zenon
<1> HIDE DEF d, items, start, end
<1>13. CursorType(d, range, r)
  <2>1. range[1] <= start /\ end <= range[2]
    BY <1>5, <1>7
  <2>2. \A n \in r.limit : Len(items) <= n /\ (~d.done => Len(items) < n)
    BY <1>8, <1>9, <1>10, Zenon
  <2>3. d.remaining = {n - Len(items) : n \in r.limit}
    BY <1>10, <1>11, Zenon
  <2> QED BY <1>10, <1>12, <2>1, <2>2, <2>3, Zenon DEF CursorType
<1>14. \A i \in 1 .. Len(items) : \A k \in start .. end : keys_are_ordered(r.direction, items[i], k)
  <2> SUFFICES ASSUME NEW i \in 1 .. Len(items), NEW k \in start .. end
               PROVE  keys_are_ordered(r.direction, items[i], k)
    BY Zenon
  <2>1. CASE i \in 1 .. Len(c.items)
    BY <1>2, <1>7, <1>9, <2>1, Zenon DEF ItemsAreBehind
  <2>2. CASE i \notin 1 .. Len(c.items)
    <3>1. i - Len(c.items) \in 1 .. Len(page)
      BY <1>9, <2>2, Zenon
    <3>2. items[Len(c.items) + (i - Len(c.items))] = page[i - Len(c.items)]
      BY <1>9, <3>1, Zenon
    <3>3. Len(c.items) + (i - Len(c.items)) = i
      BY <1>5
    <3> QED BY <1>7, <3>1, <3>2, <3>3, Zenon
  <2> QED BY <2>1, <2>2, Zenon
<1>15. page_is_ordered(r.direction, items)
  <2> SUFFICES ASSUME NEW i \in 1 .. Len(items) - 1
               PROVE  keys_are_ordered(r.direction, items[i], items[i + 1])
    BY Zenon DEF page_is_ordered
  <2>1. Len(c.items) \in Nat /\ Len(page) \in Nat
    BY <1>5, <1>6
  <2>2. CASE i < Len(c.items)
    <3>1. i \in 1 .. Len(c.items) - 1 /\ i \in 1 .. Len(c.items) /\ i + 1 \in 1 .. Len(c.items)
      BY <2>1, <2>2
    <3> QED BY <1>2, <1>9, <3>1, Zenon DEF ItemsAreBehind, page_is_ordered
  <2>3. CASE i = Len(c.items)
    <3>1. i \in 1 .. Len(c.items) /\ 1 \in 1 .. Len(page) /\ i + 1 = Len(c.items) + 1
      BY <1>9, <2>1, <2>3
    <3>2. items[i] = c.items[i] /\ items[i + 1] = page[1] /\ page[1] \in c.start .. c.end
      BY <1>6, <1>9, <3>1, Zenon
    <3> QED BY <1>2, <3>1, <3>2, Zenon DEF ItemsAreBehind
  <2>4. CASE i > Len(c.items)
    <3> DEFINE j == i - Len(c.items)
    <3>1. i \in 1 .. Len(c.items) + Len(page) - 1
      <4>1. Len(items) = Len(c.items) + Len(page)
        BY <1>9, Zenon
      <4> QED BY <4>1
    <3>2. /\ j \in 1 .. Len(page) /\ j + 1 \in 1 .. Len(page) /\ j < j + 1
          /\ Len(c.items) + j = i /\ Len(c.items) + (j + 1) = i + 1
      BY <2>1, <2>4, <3>1, Positions, Zenon
    <3> HIDE DEF j
    <3>3. items[Len(c.items) + j] = page[j] /\ items[Len(c.items) + (j + 1)] = page[j + 1]
      BY <1>9, <3>2, Zenon
    <3>4. items[i] = page[j] /\ items[i + 1] = page[j + 1]
      BY <3>2, <3>3, Zenon
    <3> QED BY <1>6, <3>2, <3>4, Zenon
  <2> QED BY <2>1, <2>2, <2>3, <2>4
<1>16. ItemsAreBehind(d, r)
  BY <1>10, <1>14, <1>15, Zenon DEF ItemsAreBehind
<1>17. ItemsWereStored(d, range, r, versions)
  <2> SUFFICES ASSUME NEW i \in 1 .. Len(items)
               PROVE  /\ range[1] <= items[i] /\ items[i] <= range[2]
                      /\ \E w \in SpanOf(r, versions) : items[i] \in versions[w].rows
    BY <1>10, Zenon DEF ItemsWereStored
  <2>1. CASE i \in 1 .. Len(c.items)
    BY <1>2, <1>9, <2>1, Zenon DEF ItemsWereStored
  <2>2. CASE i \notin 1 .. Len(c.items)
    <3>1. i - Len(c.items) \in 1 .. Len(page)
      BY <1>9, <2>2, Zenon
    <3>2. items[Len(c.items) + (i - Len(c.items))] = page[i - Len(c.items)]
      BY <1>9, <3>1, Zenon
    <3>3. Len(c.items) + (i - Len(c.items)) = i
      BY <1>5
    <3>4. items[i] \in versions[v].rows /\ items[i] \in c.start .. c.end
      BY <1>6, <3>1, <3>2, <3>3, Zenon
    <3>5. range[1] <= items[i] /\ items[i] <= range[2]
      BY <1>5, <3>4
    <3> QED BY <3>4, <3>5, Zenon
  <2> QED BY <2>1, <2>2, Zenon
<1>18. NothingIsSkipped(d, range, r, versions)
  <2> SUFFICES ASSUME NEW k \in versions[r.since].rows, range[1] <= k, k <= range[2],
                      \A w \in SpanOf(r, versions) : k \in versions[w].rows
               PROVE  (\E i \in 1 .. Len(items) : items[i] = k) \/ (k \in start .. end /\ Ends(d, r))
    BY <1>10, Zenon DEF NothingIsSkipped
  <2>1. (\E i \in 1 .. Len(c.items) : c.items[i] = k) \/ k \in c.start .. c.end
    BY <1>2, Zenon DEF NothingIsSkipped
  <2>2. CASE \E i \in 1 .. Len(c.items) : c.items[i] = k
    <3>1. PICK i \in 1 .. Len(c.items) : c.items[i] = k
      BY <2>2, Zenon
    <3>2. Len(c.items) \in Nat /\ Len(page) \in Nat
      BY <1>5, <1>6
    <3>3. i \in 1 .. Len(items)
      BY <1>9, <3>1, <3>2, Positions, Zenon
    <3> QED BY <1>9, <3>1, <3>3, Zenon
  <2>3. CASE \E i \in 1 .. Len(page) : page[i] = k
    <3>1. PICK i \in 1 .. Len(page) : page[i] = k
      BY <2>3, Zenon
    <3>2. Len(c.items) \in Nat /\ Len(page) \in Nat
      BY <1>5, <1>6
    <3>3. Len(c.items) + i \in 1 .. Len(items)
      <4>1. Len(items) = Len(c.items) + Len(page)
        BY <1>9, Zenon
      <4>2. Len(c.items) + i \in 1 .. Len(c.items) + Len(page)
        BY <3>1, <3>2, Positions, Zenon
      <4> QED BY <4>1, <4>2
    <3> QED BY <1>9, <3>1, <3>3, Zenon
  <2>4. CASE /\ k \in c.start .. c.end
             /\ Len(page) = page_size(c)
             /\ \A i \in 1 .. Len(page) : keys_are_ordered(r.direction, page[i], k)
    <3>1. k \in start .. end
      BY <1>7, <2>4, Zenon
    <3>2. Ends(d, r)
      BY <1>8, <1>9, <1>10, <2>4, Zenon DEF Ends
    <3> QED BY <3>1, <3>2, Zenon
  <2> QED BY <1>6, <2>1, <2>2, <2>3, <2>4, Zenon
<1> QED BY <1>1, <1>13, <1>16, <1>17, <1>18, Zenon DEF CursorOk

-----------------------------------------------------------------------------
(* What a cursor knows outlasts the commits of others, and holds when the  *)
(* scan starts.                                                            *)

(* The versions of a read after a commit.                                  *)
LEMMA SpanGrows ==
  ASSUME NEW vs \in Seq(Version), NEW x \in Version, NEW r, r.since \in 1 .. Len(vs)
  PROVE  /\ SpanOf(r, vs) \subseteq SpanOf(r, Append(vs, x))
         /\ SpanOf(r, vs) \subseteq 1 .. Len(vs)
         /\ \A v \in 1 .. Len(vs) : Append(vs, x)[v] = vs[v]
         /\ Len(Append(vs, x)) = Len(vs) + 1
<1>1. Len(vs) \in Nat /\ Len(Append(vs, x)) = Len(vs) + 1 /\ \A v \in 1 .. Len(vs) : Append(vs, x)[v] = vs[v]
  OBVIOUS
<1>2. r.since .. Len(vs) \subseteq r.since .. Len(vs) + 1 /\ r.since .. Len(vs) \subseteq 1 .. Len(vs)
  BY <1>1
<1> QED BY <1>1, <1>2, Zenon DEF SpanOf

(* A commit leaves what a cursor knows true.                               *)
LEMMA CursorOutlastsCommit ==
  ASSUME NEW vs \in Seq(Version), NEW x \in Version, NEW r, r.since \in 1 .. Len(vs),
         NEW c, NEW range, CursorOk(c, range, r, vs)
  PROVE  CursorOk(c, range, r, Append(vs, x))
<1> DEFINE ws == Append(vs, x)
<1>1. /\ SpanOf(r, vs) \subseteq SpanOf(r, ws) /\ SpanOf(r, vs) \subseteq 1 .. Len(vs)
      /\ \A v \in 1 .. Len(vs) : ws[v] = vs[v]
  BY SpanGrows, Zenon
<1> HIDE DEF ws
<1>2. ItemsWereStored(c, range, r, ws)
  <2> SUFFICES ASSUME NEW i \in 1 .. Len(c.items)
               PROVE  /\ range[1] <= c.items[i] /\ c.items[i] <= range[2]
                      /\ \E v \in SpanOf(r, ws) : c.items[i] \in ws[v].rows
    BY Zenon DEF ItemsWereStored
  <2>1. PICK v \in SpanOf(r, vs) : c.items[i] \in vs[v].rows
    BY Zenon DEF CursorOk, ItemsWereStored
  <2>2. v \in SpanOf(r, ws) /\ ws[v] = vs[v]
    BY <1>1, Zenon
  <2> QED BY <2>1, <2>2, Zenon DEF CursorOk, ItemsWereStored
<1>3. NothingIsSkipped(c, range, r, ws)
  <2> SUFFICES ASSUME NEW k \in ws[r.since].rows, range[1] <= k, k <= range[2],
                      \A v \in SpanOf(r, ws) : k \in ws[v].rows
               PROVE  (\E i \in 1 .. Len(c.items) : c.items[i] = k) \/ (k \in c.start .. c.end /\ Ends(c, r))
    BY Zenon DEF NothingIsSkipped
  <2>1. k \in vs[r.since].rows
    BY <1>1, Zenon
  <2>2. \A v \in SpanOf(r, vs) : k \in vs[v].rows
    <3> TAKE v \in SpanOf(r, vs)
    <3>1. v \in SpanOf(r, ws) /\ ws[v] = vs[v]
      BY <1>1, Zenon
    <3> QED BY <3>1, Zenon
  <2> QED BY <2>1, <2>2, Zenon DEF CursorOk, NothingIsSkipped
<1> QED BY <1>2, <1>3, Zenon DEF CursorOk, ws

(* A cursor that has read nothing yet.                                     *)
LEMMA CursorStarts ==
  ASSUME NEW kind, NEW range \in Int \X Int, NEW r, NEW vs, r.limit \in SUBSET Nat, \A m, n \in r.limit : m = n,
         vs[r.since].rows \subseteq Int
  PROVE  LET c == Cursor(kind, range, r.limit)
         IN  /\ CursorOk(c, range, r, vs)
             /\ c.done => r.limit = {0} \/ range[1] > range[2]
<1> DEFINE c == Cursor(kind, range, r.limit)
<1>1. range[1] \in Int /\ range[2] \in Int
  BY Zenon
<1>2. /\ c.start = range[1] /\ c.end = range[2] /\ c.remaining = r.limit /\ c.items = <<>>
      /\ c.done \in BOOLEAN
      /\ c.done => r.limit = {0} \/ range[1] > range[2]
      /\ r.limit = {0} => c.done
      /\ c = [start |-> c.start, end |-> c.end, remaining |-> c.remaining, done |-> c.done, items |-> c.items]
  <2>1. CASE Concurrent(kind)
    BY <1>1, <2>1, Zenon DEF Cursor, ScanCursor
  <2>2. CASE ~Concurrent(kind)
    BY <1>1, <2>2, Zenon DEF Cursor, SyncFdbScanCursor
  <2> QED BY <2>1, <2>2, Zenon
<1> HIDE DEF c
<1>3. Len(c.items) = 0 /\ c.items \in Seq(Int)
  BY <1>2
<1>4. CursorType(c, range, r)
  <2>1. c.remaining = {n - Len(c.items) : n \in r.limit}
    <3>1. r.limit = {n - 0 : n \in r.limit}
      OBVIOUS
    <3> QED BY <1>2, <1>3, <3>1
  <2>2. \A n \in r.limit : Len(c.items) <= n /\ (~c.done => Len(c.items) < n)
    <3> TAKE n \in r.limit
    <3>1. CASE n = 0
      <4>1. r.limit = {0}
        BY <3>1, Zenon
      <4> QED BY <1>2, <3>1, <4>1
    <3>2. CASE n # 0
      BY <1>3, <3>2
    <3> QED BY <3>1, <3>2, Zenon
  <2>3. c \in [start : Int, end : Int, remaining : SUBSET Int, done : BOOLEAN, items : Seq(Int)]
    <3>1. r.limit \in SUBSET Int
      OBVIOUS
    <3> QED BY <1>1, <1>2, <1>3, <3>1, Zenon
  <2>4. range[1] <= c.start /\ c.end <= range[2]
    BY <1>1, <1>2
  <2> QED BY <1>2, <1>3, <2>1, <2>2, <2>3, <2>4, Zenon DEF CursorType
<1>5. ItemsAreBehind(c, r) /\ ItemsWereStored(c, range, r, vs)
  BY <1>3 DEF ItemsAreBehind, ItemsWereStored, page_is_ordered
<1>6. NothingIsSkipped(c, range, r, vs)
  <2> SUFFICES ASSUME NEW k \in vs[r.since].rows, range[1] <= k, k <= range[2]
               PROVE  k \in c.start .. c.end /\ Ends(c, r)
    BY Zenon DEF NothingIsSkipped
  <2>1. k \in Int /\ ~(range[1] > range[2])
    BY <1>1
  <2>2. k \in c.start .. c.end
    BY <1>1, <1>2, <2>1
  <2>3. Ends(c, r)
    BY <1>2, <1>3, <2>1, Zenon DEF Ends
  <2> QED BY <2>2, <2>3, Zenon
<1> QED BY <1>2, <1>4, <1>5, <1>6, Zenon DEF CursorOk, c

-----------------------------------------------------------------------------
(* The reads a call is made of are well formed.                            *)

(* A set of naturals that is not empty has a least element.                *)
LEMMA LeastOf ==
  ASSUME NEW T, T \subseteq Nat, T # {}
  PROVE  \E x \in T : \A y \in T : x =< y
<1> DEFINE R == {ss \in Nat \X Nat : ss[1] < ss[2]}
<1>1. IsWellFoundedOn(R, Nat)
  BY NatLessThanWellFounded, Zenon DEF OpToRel
<1>2. \E x \in T : \A y \in T : ~(<<y, x>> \in R)
  <2> HIDE DEF R
  <2> QED BY <1>1, WFMin, Zenon
<1>3. \A x \in Nat : \A y \in Nat : <<y, x>> \in R \/ x =< y
  OBVIOUS
<1> HIDE DEF R
<1>4. \A x \in T : x \in Nat
  OBVIOUS
<1> QED BY <1>2, <1>3, <1>4, Zenon

(* The first and the last of some files are among them.                    *)
LEMMA FirstAndLastFile ==
  ASSUME NEW files \in SUBSET Files, files # {}
  PROVE  Min(files) \in files /\ Max(files) \in files
<1>1. files \subseteq Nat /\ MaxFile \in Nat /\ \A f \in files : f <= MaxFile
  BY ScansAssumption DEF Files
<1>2. \E x \in files : \A y \in files : x =< y
  BY <1>1, LeastOf, Zenon
<1>3. \E x \in files : \A y \in files : x >= y
  <2> DEFINE T == {MaxFile - f : f \in files}
  <2>1. T \subseteq Nat /\ T # {}
    <3>1. \A f \in files : MaxFile - f \in Nat
      BY <1>1
    <3> QED BY <3>1, Zenon
  <2>2. PICK n \in T : \A m \in T : n =< m
    <3> HIDE DEF T
    <3> QED BY <2>1, LeastOf, Zenon
  <2>3. PICK x \in files : n = MaxFile - x
    BY <2>2, Zenon
  <2>4. \A y \in files : MaxFile - x =< MaxFile - y
    BY <2>2, <2>3, Zenon
  <2>5. \A y \in files : x \in Nat /\ y \in Nat
    BY <1>1, Zenon
  <2>6. \A y \in files : x >= y
    BY <1>1, <2>4, <2>5
  <2> QED BY <2>6, Zenon
<1> QED BY <1>2, <1>3, Zenon DEF Min, Max

(* load_prefixes lists the files.                                          *)
LEMMA FilesListed ==
  ASSUME NEW files \in SUBSET Files
  PROVE  /\ Cardinality(files) \in Nat
         /\ (CHOOSE f \in Bijection(1 .. Cardinality(files), files) : TRUE)
              \in [1 .. Cardinality(files) -> files]
<1>1. IsFiniteSet(Files)
  <2>1. 1 \in Int /\ MaxFile \in Int
    BY ScansAssumption
  <2> QED BY <2>1, FS_Interval, Zenon DEF Files
<1>2. IsFiniteSet(files)
  BY <1>1, FS_Subset, Zenon
<1>3. Cardinality(files) \in Nat /\ ExistsBijection(1 .. Cardinality(files), files)
  BY <1>2, FS_CardinalityType, Zenon
<1>4. \E f : f \in Bijection(1 .. Cardinality(files), files)
  BY <1>3, Zenon DEF ExistsBijection
<1>5. (CHOOSE f \in Bijection(1 .. Cardinality(files), files) : TRUE)
        \in Bijection(1 .. Cardinality(files), files)
  BY <1>4, Zenon
<1> QED BY <1>3, <1>5, Zenon DEF Bijection, Injection

(* The range of some files is one of keys.                                 *)
LEMMA FileRangeType ==
  ASSUME NEW op, NEW f \in Files, NEW g \in Files
  PROVE  FileRange(op, f, g) \in Int \X Int
<1>1. f \in Int /\ g \in Int /\ Columns \in Int /\ MaxFile \in Int
  BY ScansAssumption DEF Files
<1>2. StatsRange(f, g) \in Int \X Int
  BY <1>1 DEF StatsRange, StatsKey
<1>3. PartitionRange(f, g) \in Int \X Int
  BY <1>1 DEF PartitionRange, PartitionKey
<1> QED BY <1>2, <1>3, Zenon DEF FileRange

(* The loads of whole files.                                               *)
LEMMA LoadFilesType ==
  ASSUME NEW op, NEW files \in SUBSET Files
  PROVE  LoadFiles(op, files) \in Seq(Loads)
<1>1. ASSUME files # {}
      PROVE  load_dense(op, files) \in Loads
  <2>1. Min(files) \in Files /\ Max(files) \in Files
    BY <1>1, FirstAndLastFile, Zenon
  <2> DEFINE range == FileRange(op, Min(files), Max(files))
  <2>2. range \in Int \X Int
    BY <2>1, FileRangeType, Zenon
  <2> HIDE DEF range
  <2>3. <<range>> \in Seq(Int \X Int)
    BY <2>2
  <2>4. load_dense(op, files) = [kind |-> "range", files |-> files, ranges |-> <<range>>, keys |-> {},
                                 direction |-> "Forward", limit |-> {}]
    BY DEF load_dense, scan_range, Ask, range
  <2> QED BY <2>3, <2>4 DEF Loads
<1>2. load_prefixes(op, files) \in Loads
  <2> DEFINE n == Cardinality(files)
             listed == CHOOSE f \in Bijection(1 .. n, files) : TRUE
             ranges == [i \in 1 .. n |-> FileRange(op, listed[i], listed[i])]
  <2>1. n \in Nat /\ \A i \in 1 .. n : listed[i] \in Files
    BY FilesListed, Zenon
  <2>2. \A i \in 1 .. n : FileRange(op, listed[i], listed[i]) \in Int \X Int
    BY <2>1, FileRangeType, Zenon
  <2>3. ranges \in [1 .. n -> Int \X Int]
    BY <2>2, Zenon
  <2>4. ranges \in Seq(Int \X Int)
    <3> HIDE DEF ranges, n
    <3> QED BY <2>1, <2>3, FunctionIsSequence, Zenon
  <2>5. load_prefixes(op, files) = [kind |-> "prefixes", files |-> files, ranges |-> ranges, keys |-> {},
                                    direction |-> "Forward", limit |-> {}]
    <3>1. load_prefixes(op, files) = [scan_prefixes(ranges, "Forward", {}) EXCEPT !.files = files]
      BY Zenon DEF load_prefixes
    <3> HIDE DEF ranges
    <3> QED BY <3>1, Zenon DEF scan_prefixes, Ask
  <2> HIDE DEF ranges
  <2> QED BY <2>4, <2>5 DEF Loads
<1>3. CASE files = {}
  BY <1>3 DEF LoadFiles
<1>4. CASE files # {} /\ Dense(op, files)
  <2>1. LoadFiles(op, files) = <<load_dense(op, files)>>
    BY <1>4, Zenon DEF LoadFiles
  <2> QED BY <1>1, <1>4, <2>1
<1>5. CASE files # {} /\ ~Dense(op, files)
  <2>1. LoadFiles(op, files) = <<load_prefixes(op, files)>>
    BY <1>5, Zenon DEF LoadFiles
  <2> QED BY <1>2, <2>1
<1> QED BY <1>3, <1>4, <1>5, Zenon

(* Point reads of keys.                                                    *)
LEMMA BatchGetType ==
  ASSUME NEW keys \in SUBSET Int
  PROVE  <<batch_get(keys)>> \in Seq(Loads)
<1>1. batch_get(keys) = [kind |-> "values", files |-> {}, ranges |-> <<>>, keys |-> keys,
                         direction |-> "Forward", limit |-> {}]
  BY Zenon DEF batch_get, Ask
<1>2. batch_get(keys) \in Loads
  <2>1. <<>> \in Seq(Int \X Int)
    OBVIOUS
  <2> QED BY <1>1, <2>1 DEF Loads
<1> QED BY <1>2

(* The loads of the statistics of some columns.                            *)
LEMMA MissingType ==
  ASSUME NEW missing, \A k \in missing : \E f \in Files : \E c \in 1 .. Columns : k = StatsKey(f, c)
  PROVE  load_missing_file_column_stats_for_data_file_columns(missing).loads \in Seq(Loads)
<1>1. missing \subseteq Int
  <2>1. \A f \in Files : \A c \in 1 .. Columns : StatsKey(f, c) \in Int
    BY ScansAssumption DEF StatsKey, Files
  <2> QED BY <2>1, Zenon
<1>2. \A k \in missing : FileOf(k) \in Files
  <2> TAKE k \in missing
  <2>1. \E f \in Files : \E c \in 1 .. Columns : k = StatsKey(f, c)
    BY Zenon
  <2> QED BY <2>1, Zenon DEF FileOf
<1> DEFINE few == Cardinality(missing) < FullFiles * FullColumns
           missing_files == {FileOf(k) : k \in missing}
           whole == IF few THEN {} ELSE missing_files \cap DOMAIN cache.file
           full == IF few THEN {}
                   ELSE {f \in missing_files \ whole : Cardinality(KeysOfFile(missing, f)) >= FullColumns}
           loaded == IF Cardinality(full) >= FullFiles /\ Dense("columns", full) THEN full ELSE {}
           exact == {k \in missing : FileOf(k) \notin whole \cup loaded}
<1>3. load_missing_file_column_stats_for_data_file_columns(missing).loads
        = LoadFiles("columns", loaded) \o load_exact_missing_file_column_stats(exact)
  BY DEF load_missing_file_column_stats_for_data_file_columns
<1>4. loaded \in SUBSET Files
  <2>1. missing_files \subseteq Files
    BY <1>2
  <2> QED BY <2>1
<1>5. exact \in SUBSET Int
  BY <1>1, Zenon
<1> HIDE DEF loaded, exact
<1>6. load_exact_missing_file_column_stats(exact) \in Seq(Loads)
  <2>1. CASE exact = {}
    BY <2>1 DEF load_exact_missing_file_column_stats
  <2>2. CASE exact # {}
    <3>1. load_exact_missing_file_column_stats(exact) = <<batch_get(exact)>>
      BY <2>2 DEF load_exact_missing_file_column_stats
    <3>2. <<batch_get(exact)>> \in Seq(Loads)
      BY <1>5, BatchGetType
    <3> QED BY <3>1, <3>2
  <2> QED BY <2>1, <2>2
<1> QED BY <1>3, <1>4, <1>6, LoadFilesType, Concatenation

-----------------------------------------------------------------------------
(* The steps of a read as steps of RangeRead.                              *)

Same == StoredRows' = StoredRows /\ WhatIsRead' = WhatIsRead /\ WhatIsAnswered' = WhatIsAnswered

(* The store that RangeRead sees.                                          *)
LEMMA StoredRowsFacts ==
  ASSUME versions \in Seq(Version)
  PROVE  /\ Len(StoredRows) = Len(versions)
         /\ \A v \in 1 .. Len(versions) : StoredRows[v] = versions[v].rows /\ StoredRows[v] \subseteq Int
<1>1. Len(versions) \in Nat /\ \A v \in 1 .. Len(versions) : versions[v] \in Version
  OBVIOUS
<1>2. \A v \in 1 .. Len(versions) : versions[v].rows \in SUBSET Int
  BY <1>1, Zenon DEF Version
<1>3. StoredRows \in [1 .. Len(versions) -> SUBSET Int]
  BY <1>2, Zenon DEF StoredRows
<1>4. Len(StoredRows) = Len(versions)
  BY <1>1, <1>3, FunctionIsSequence, Zenon
<1> QED BY <1>2, <1>4, Zenon DEF StoredRows

(* What RangeRead promises of a range is what its cursor knows at the end. *)
LEMMA FinishedCursorIsRegular ==
  ASSUME versions \in Seq(Version), NEW r, r.since \in 1 .. Len(versions), r.limit \in SUBSET Nat,
         NEW c, NEW range, CursorOk(c, range, r, versions), c.done,
         NEW a, a.since = r.since, a.limit = r.limit, a.direction = r.direction,
         r.direction \in {"Forward", "Reverse"}
  PROVE  Reads!Regular(a, range, c.items, SpanOf(r, versions))
<1>1. /\ SpanOf(r, versions) \subseteq 1 .. Len(versions)
  BY DEF SpanOf
<1>2. \A v \in 1 .. Len(versions) : StoredRows[v] = versions[v].rows
  BY StoredRowsFacts, Zenon
<1>3. c.items \in Seq(Int) /\ \A n \in r.limit : Len(c.items) <= n
  BY Zenon DEF CursorOk, CursorType
<1>4. \A x \in Int, y \in Int : keys_are_ordered(r.direction, x, y) <=> Reads!Before(r.direction, x, y)
  BY Zenon DEF keys_are_ordered, Reads!Before
<1>5. Reads!WithinLimit(a.limit, c.items)
  BY <1>3, Zenon DEF Reads!WithinLimit
<1>6. \A i \in 1 .. Len(c.items) - 1 : Reads!Before(a.direction, c.items[i], c.items[i + 1])
  <2> TAKE i \in 1 .. Len(c.items) - 1
  <2>1. c.items[i] \in Int /\ c.items[i + 1] \in Int
    BY <1>3
  <2>2. keys_are_ordered(r.direction, c.items[i], c.items[i + 1])
    BY Zenon DEF CursorOk, ItemsAreBehind, page_is_ordered
  <2> QED BY <1>4, <2>1, <2>2, Zenon
<1>7. \A i \in 1 .. Len(c.items) :
        Reads!Inside(range, c.items[i]) /\ \E v \in SpanOf(r, versions) : c.items[i] \in StoredRows[v]
  <2> TAKE i \in 1 .. Len(c.items)
  <2>1. PICK v \in SpanOf(r, versions) : c.items[i] \in versions[v].rows
    BY Zenon DEF CursorOk, ItemsWereStored
  <2>2. c.items[i] \in StoredRows[v]
    BY <1>1, <1>2, <2>1, Zenon
  <2>3. Reads!Inside(range, c.items[i])
    BY Zenon DEF CursorOk, ItemsWereStored, Reads!Inside
  <2> QED BY <2>2, <2>3, Zenon
<1>8. ASSUME NEW k \in StoredRows[a.since], Reads!Inside(range, k),
             \A v \in SpanOf(r, versions) : k \in StoredRows[v]
      PROVE  \/ \E i \in 1 .. Len(c.items) : c.items[i] = k
             \/ /\ Reads!Reached(a.limit, c.items)
                /\ \A i \in 1 .. Len(c.items) : Reads!Before(a.direction, c.items[i], k)
  <2>1. k \in versions[r.since].rows /\ \A v \in SpanOf(r, versions) : k \in versions[v].rows
    BY <1>1, <1>2, <1>8, Zenon
  <2>2. k \in Int
    BY <1>2, <2>1, StoredRowsFacts, Zenon
  <2>3. \/ \E i \in 1 .. Len(c.items) : c.items[i] = k
        \/ k \in c.start .. c.end /\ Ends(c, r)
    BY <1>8, <2>1, Zenon DEF CursorOk, NothingIsSkipped, Reads!Inside
  <2>4. ASSUME k \in c.start .. c.end, Ends(c, r)
        PROVE  /\ Reads!Reached(a.limit, c.items)
               /\ \A i \in 1 .. Len(c.items) : Reads!Before(a.direction, c.items[i], k)
    <3>1. Reads!Reached(a.limit, c.items)
      BY <2>4, Zenon DEF Ends, Reads!Reached
    <3>2. ASSUME NEW i \in 1 .. Len(c.items)
          PROVE  Reads!Before(a.direction, c.items[i], k)
      <4>1. keys_are_ordered(r.direction, c.items[i], k)
        BY <2>4, Zenon DEF CursorOk, ItemsAreBehind
      <4>2. c.items[i] \in Int
        BY <1>3
      <4> QED BY <1>4, <2>2, <4>1, <4>2, Zenon
    <3> QED BY <3>1, <3>2, Zenon
  <2> QED BY <2>3, <2>4, Zenon
<1> QED BY <1>5, <1>6, <1>7, <1>8, Zenon DEF Reads!Regular

(* The answer of a read whose cursors have all ended and whose values have *)
(* been read is one that RangeRead allows.                                 *)
LEMMA CompleteIsAllowed ==
  ASSUME versions \in Seq(Version), UNCHANGED versions, ReadOk', Complete'
  PROVE  WhatIsAnswered'.state = "answered" /\ Reads!Allowed(WhatIsRead', WhatIsAnswered')
<1> DEFINE a == WhatIsAnswered'
           w == WhatIsRead'
           n == Len(read'.ranges)
<1>1. /\ ReadType(read', Len(versions)) /\ CursorsOk(cursors', read', versions)
      /\ ValuesOk(values', read', versions)
  BY Zenon DEF ReadOk
<1>2. read' # NoRead
  BY <1>1 DEF ReadType, NoRead
<1>3. values'.read /\ \A i \in 1 .. Len(cursors') : cursors'[i].done
  BY Zenon DEF Complete
<1>4. a = [state |-> "answered", items |-> [i \in 1 .. Len(cursors') |-> cursors'[i].items], values |-> values'.found]
  BY <1>2, Zenon DEF WhatIsAnswered
<1>5. /\ w.ranges = read'.ranges /\ w.keys = read'.keys /\ w.direction = read'.direction
      /\ w.limit = read'.limit /\ w.pinned = read'.pinned /\ w.since = read'.since
  BY Zenon DEF WhatIsRead
<1>6. n \in Nat /\ Len(cursors') = n
  <2>1. read'.ranges \in Seq(Int \X Int)
    BY <1>1, Zenon DEF ReadType
  <2>2. DOMAIN cursors' = 1 .. n
    BY <1>1, Zenon DEF CursorsOk
  <2>3. cursors' \in Seq([start : Int, end : Int, remaining : SUBSET Int, done : BOOLEAN, items : Seq(Int)])
    BY <1>1, Zenon DEF CursorsOk
  <2> QED BY <2>1, <2>2, <2>3
<1>7. Len(a.items) = Len(w.ranges) /\ \A i \in 1 .. n : a.items[i] = cursors'[i].items
  <2>1. a.items = [i \in 1 .. n |-> cursors'[i].items]
    BY <1>4, <1>6, Zenon
  <2>2. [i \in 1 .. n |-> cursors'[i].items] \in [1 .. n -> {cursors'[i].items : i \in 1 .. n}]
    BY Zenon
  <2>3. Len(a.items) = n
    <3> HIDE DEF a, n
    <3> QED BY <1>6, <2>1, <2>2, FunctionIsSequence
  <2> HIDE DEF a
  <2> QED BY <1>5, <2>1, <2>3, Zenon
<1>8. Reads!Span(w) = SpanOf(read', versions)
  <2>1. Len(StoredRows) = Len(versions)
    BY StoredRowsFacts, Zenon
  <2> HIDE DEF w
  <2> QED BY <1>5, <2>1, Zenon DEF Reads!Span, SpanOf
<1>9. /\ read'.since \in 1 .. Len(versions) /\ read'.limit \in SUBSET Nat
      /\ read'.direction \in {"Forward", "Reverse"}
  BY <1>1, Zenon DEF ReadType
<1> HIDE DEF a, w
<1>10. ASSUME NEW i \in 1 .. n
       PROVE  Reads!Regular(w, w.ranges[i], a.items[i], Reads!Span(w))
  <2>1. CursorOk(cursors'[i], read'.ranges[i], read', versions) /\ cursors'[i].done
    BY <1>1, <1>3, <1>6, Zenon DEF CursorsOk
  <2>2. Reads!Regular(w, read'.ranges[i], cursors'[i].items, SpanOf(read', versions))
    BY <1>5, <1>9, <2>1, FinishedCursorIsRegular, Zenon
  <2> QED BY <1>5, <1>7, <1>8, <2>2, Zenon
<1>11. \E v \in Reads!Span(w) : a.values = w.keys \cap StoredRows[v]
  <2>1. PICK v \in SpanOf(read', versions) : values'.found = read'.keys \cap versions[v].rows
    BY <1>1, <1>3, Zenon DEF ValuesOk
  <2>2. v \in 1 .. Len(versions)
    BY <1>9, <2>1 DEF SpanOf
  <2>3. StoredRows[v] = versions[v].rows
    BY <2>2, StoredRowsFacts, Zenon
  <2>4. a.values = values'.found
    BY <1>4, Zenon
  <2> QED BY <1>5, <1>8, <2>1, <2>3, <2>4, Zenon
<1>12. Reads!Allowed(w, a)
  BY <1>5, <1>7, <1>10, <1>11, Zenon DEF Reads!Allowed
<1>13. a.state = "answered"
  BY <1>4, Zenon
<1> QED BY <1>12, <1>13, Zenon DEF a, w

(* A read that starts: its cursors know what they must, and RangeRead      *)
(* takes the step that begins a read, answered at once when there is       *)
(* nothing to read.                                                        *)
LEMMA ReadStarts ==
  ASSUME StoreType, NEW load \in Loads, StartRead(load), UNCHANGED versions, job'.status = "reading",
         WhatIsAnswered.state # "pending"
  PROVE  ReadOk' /\ StoreType' /\ Reads!Begin
<1> DEFINE n == Len(load.ranges)
<1>1. /\ load.kind # "none" /\ load.ranges \in Seq(Int \X Int) /\ load.direction \in {"Forward", "Reverse"}
      /\ load.limit \in SUBSET Nat /\ \A m1, m2 \in load.limit : m1 = m2
      /\ load.kind = "mapped" => Len(load.ranges) = 1 /\ load.limit = {}
  BY Zenon DEF Loads
<1>2. /\ versions \in Seq(Version) /\ Len(versions) \in Nat /\ Len(versions) >= 1
      /\ context \in Int /\ context <= Len(versions)
  BY DEF StoreType
<1>3. /\ read' = [kind |-> load.kind, files |-> load.files, ranges |-> load.ranges, keys |-> load.keys,
                  direction |-> load.direction, limit |-> load.limit,
                  pinned |-> with_read_version(load.kind), since |-> fetch_read_version]
      /\ cursors' = [i \in 1 .. n |-> Cursor(load.kind, load.ranges[i], load.limit)]
      /\ values' = [read |-> load.keys = {}, found |-> {}]
      /\ context' = BeginsLease
  BY Zenon DEF StartRead
<1>4. /\ read'.kind = load.kind /\ read'.files = load.files /\ read'.ranges = load.ranges
      /\ read'.keys = load.keys /\ read'.direction = load.direction /\ read'.limit = load.limit
      /\ read'.pinned = with_read_version(load.kind) /\ read'.since = fetch_read_version
  BY <1>3, Zenon
<1>5. fetch_read_version \in 1 .. Len(versions)
  BY <1>2 DEF fetch_read_version
<1>6. with_read_version(load.kind) \in BOOLEAN /\ (~with_read_version(load.kind) => fetch_read_version = Len(versions))
  BY <1>2 DEF with_read_version, fetch_read_version
<1>7. StoreType'
  <2>1. context' \in Int /\ context' <= Len(versions)
    BY <1>2, <1>3 DEF BeginsLease
  <2> QED BY <1>2, <2>1, Zenon DEF StoreType
<1>8. ReadType(read', Len(versions))
  BY <1>1, <1>3, <1>4, <1>5, <1>6, Zenon DEF ReadType
<1>9. n \in Nat
  BY <1>1
<1>10. /\ versions[read'.since].rows \subseteq Int
       /\ read'.since \in SpanOf(read', versions)
  <2>1. read'.since \in 1 .. Len(versions)
    BY <1>4, <1>5, Zenon
  <2>2. versions[read'.since] \in Version
    BY <1>2, <2>1
  <2>3. read'.since \in read'.since .. Len(versions)
    BY <1>2, <2>1
  <2> QED BY <2>2, <2>3, Zenon DEF Version, SpanOf
<1>11. ASSUME NEW i \in 1 .. n
       PROVE  /\ CursorOk(cursors'[i], load.ranges[i], read', versions)
              /\ cursors'[i].done => load.limit = {0} \/ load.ranges[i][1] > load.ranges[i][2]
  <2>1. load.ranges[i] \in Int \X Int
    BY <1>1
  <2>2. cursors'[i] = Cursor(load.kind, load.ranges[i], read'.limit)
    BY <1>3, <1>4
  <2> DEFINE r == read'
  <2>3. r.limit \in SUBSET Nat /\ (\A m1, m2 \in r.limit : m1 = m2) /\ versions[r.since].rows \subseteq Int
    BY <1>1, <1>4, <1>10, Zenon
  <2>4. /\ CursorOk(Cursor(load.kind, load.ranges[i], r.limit), load.ranges[i], r, versions)
        /\ Cursor(load.kind, load.ranges[i], r.limit).done => r.limit = {0} \/ load.ranges[i][1] > load.ranges[i][2]
    <3> HIDE DEF r
    <3> QED BY <2>1, <2>3, CursorStarts, Zenon
  <2> QED BY <1>4, <2>2, <2>4, Zenon
<1>12. CursorsOk(cursors', read', versions)
  <2> DEFINE S == [start : Int, end : Int, remaining : SUBSET Int, done : BOOLEAN, items : Seq(Int)]
  <2>1. \A i \in 1 .. n : cursors'[i] \in S
    BY <1>11, Zenon DEF CursorOk, CursorType
  <2> HIDE DEF S
  <2>2. cursors' \in [1 .. n -> S]
    BY <1>3, <2>1, Zenon
  <2>3. cursors' \in Seq(S) /\ DOMAIN cursors' = 1 .. n
    BY <1>9, <2>2, FunctionIsSequence, Zenon
  <2> QED BY <1>4, <1>11, <2>3, Zenon DEF CursorsOk, S
<1>13. ValuesOk(values', read', versions)
  <2>1. values'.read = (load.keys = {}) /\ values'.found = {} /\ values' = [read |-> values'.read, found |-> values'.found]
    BY <1>3, Zenon
  <2>2. load.keys = {} => {} = read'.keys \cap versions[read'.since].rows
    BY <1>4, Zenon
  <2> QED BY <1>10, <2>1, <2>2, Zenon DEF ValuesOk
<1>14. ReadOk'
  BY <1>8, <1>12, <1>13, Zenon DEF ReadOk
<1>15. Reads!Begin
  <2>1. /\ WhatIsRead'.since = fetch_read_version /\ WhatIsRead'.pinned = with_read_version(load.kind)
        /\ WhatIsRead'.keys = load.keys /\ WhatIsRead'.limit = load.limit /\ WhatIsRead'.ranges = load.ranges
    BY <1>4, Zenon DEF WhatIsRead
  <2>2. StoredRows' = StoredRows /\ Len(StoredRows) = Len(versions)
    BY <1>2, StoredRowsFacts, Zenon DEF StoredRows
  <2>3. read' # NoRead /\ Reading'
    BY <1>1, <1>4 DEF NoRead, Reading
  <2>4. CASE ~Complete'
    <3>1. WhatIsAnswered' = Reads!Blank("pending")
      BY <2>3, <2>4, Zenon DEF WhatIsAnswered, Reads!Blank
    <3> QED BY <1>5, <1>6, <2>1, <2>2, <3>1, Zenon DEF Reads!Begin
  <2>5. CASE Complete'
    <3>1. WhatIsAnswered'.state = "answered" /\ Reads!Allowed(WhatIsRead', WhatIsAnswered')
      BY <1>2, <1>14, <2>5, CompleteIsAllowed, Zenon
    <3>2. load.keys = {}
      BY <1>3, <2>5, Zenon DEF Complete
    <3>3. \A i \in 1 .. n : cursors'[i].done
      <4>1. Len(cursors') = n
        <5> DEFINE S == [start : Int, end : Int, remaining : SUBSET Int, done : BOOLEAN, items : Seq(Int)]
                   cs == cursors'
        <5>1. cs \in Seq(S) /\ DOMAIN cs = 1 .. n
          BY <1>4, <1>12, Zenon DEF CursorsOk
        <5> HIDE DEF S, cs
        <5>2. Len(cs) = n
          BY <1>9, <5>1, LengthOf, Zenon
        <5> QED BY <5>2, Zenon DEF cs
      <4> QED BY <2>5, <4>1, Zenon DEF Complete
    <3>4. Reads!NothingAsked(WhatIsRead')
      BY <1>11, <2>1, <3>2, <3>3, Zenon DEF Reads!NothingAsked
    <3> QED BY <1>5, <1>6, <2>1, <2>2, <3>1, <3>4, Zenon DEF Reads!Begin
  <2> QED BY <2>4, <2>5, Zenon
<1> QED BY <1>7, <1>14, <1>15, Zenon

(* A page or the values have come: RangeRead sees nothing or the answer.   *)
LEMMA ReadGoesOn ==
  ASSUME ScansInvariant, Reading, ~Complete, UNCHANGED <<versions, context, job, read>>,
         CursorsOk(cursors', read, versions), ValuesOk(values', read, versions)
  PROVE  ScansInvariant' /\ (Reads!Answer \/ Same)
<1>1. ReadOk /\ versions \in Seq(Version)
  BY Zenon DEF ScansInvariant, Reading, StoreType
<1>2. ReadOk'
  BY <1>1, Zenon DEF ReadOk
<1>3. ScansInvariant'
  BY <1>2, Zenon DEF ScansInvariant, StoreType, JobType, Reading
<1>4. read # NoRead /\ Reading'
  BY <1>1 DEF ReadOk, ReadType, NoRead, Reading
<1>5. WhatIsAnswered = [state |-> "pending", items |-> <<>>, values |-> {}]
  BY <1>4, Zenon DEF WhatIsAnswered
<1>6. StoredRows' = StoredRows /\ WhatIsRead' = WhatIsRead
  BY Zenon DEF StoredRows, WhatIsRead
<1>7. CASE ~Complete'
  <2>1. WhatIsAnswered' = [state |-> "pending", items |-> <<>>, values |-> {}]
    BY <1>4, <1>7, Zenon DEF WhatIsAnswered
  <2> QED BY <1>3, <1>5, <1>6, <2>1, Zenon DEF Same
<1>8. CASE Complete'
  <2>1. WhatIsAnswered'.state = "answered" /\ Reads!Allowed(WhatIsRead', WhatIsAnswered')
    BY <1>1, <1>2, <1>8, CompleteIsAllowed, Zenon
  <2>2. WhatIsAnswered.state = "pending"
    BY <1>5, Zenon
  <2>3. Reads!Answer
    BY <1>6, <2>1, <2>2, Zenon DEF Reads!Answer
  <2> QED BY <1>3, <2>3, Zenon
<1> QED BY <1>7, <1>8, Zenon

(* The read fails.                                                         *)
LEMMA ReadFails ==
  ASSUME ScansInvariant, Reading, ~Complete, Failed, UNCHANGED <<versions, context, read>>
  PROVE  ScansInvariant' /\ Reads!Fail
<1>1. ReadOk
  BY Zenon DEF ScansInvariant, Reading
<1>2. read # NoRead
  BY <1>1 DEF ReadOk, ReadType, NoRead
<1>3. /\ job'.op = job.op /\ job'.files = job.files /\ job'.keys = job.keys /\ job'.rows = job.rows
      /\ job'.loads = job.loads /\ job'.status = "failed"
      /\ job' = [op |-> job.op, files |-> job.files, keys |-> job.keys, rows |-> job.rows, loads |-> job.loads,
                 status |-> "failed"]
  BY Zenon DEF ScansInvariant, JobType, Failed
<1>4. ScansInvariant'
  BY <1>3, Zenon DEF ScansInvariant, StoreType, JobType
<1>5. WhatIsAnswered.state = "pending"
  BY <1>2, Zenon DEF WhatIsAnswered
<1>6. WhatIsAnswered' = Reads!Blank("failed")
  BY <1>2, <1>3, Zenon DEF WhatIsAnswered, Complete, Reading, Reads!Blank
<1>7. StoredRows' = StoredRows /\ WhatIsRead' = WhatIsRead
  BY Zenon DEF StoredRows, WhatIsRead
<1>8. Reads!Fail
  BY <1>5, <1>6, <1>7, Zenon DEF Reads!Fail
<1> QED BY <1>4, <1>8, Zenon

-----------------------------------------------------------------------------
(* Every step of Scans keeps the invariant and is a step of RangeRead or   *)
(* does not show.                                                          *)

(* A call starts, with its first read or with an answer from the caches.   *)
LEMMA CallStarts ==
  ASSUME ScansInvariant, UNCHANGED versions, NEW op, NEW files, NEW keys, NEW rows, NEW loads \in Seq(Loads),
         Start(op, files, keys, rows, loads)
  PROVE  ScansInvariant' /\ (Reads!Begin \/ Same)
<1>1. job = NoJob /\ job.status = "none" /\ read = NoRead
  BY Zenon DEF Start, NoJob, ScansInvariant
<1>2. /\ job' = [op |-> op, files |-> files, keys |-> keys, rows |-> rows,
                 loads |-> IF loads = <<>> THEN <<>> ELSE Tail(loads),
                 status |-> IF loads = <<>> THEN "answered" ELSE "reading"]
  BY Zenon DEF Start
<1>3. StoreType
  BY Zenon DEF ScansInvariant
<1>4. CASE loads = <<>>
  <2>1. /\ job' = [op |-> op, files |-> files, keys |-> keys, rows |-> rows, loads |-> <<>>, status |-> "answered"]
        /\ read' = NoRead /\ context' = context
    BY <1>2, <1>4, Zenon DEF Start, Idle
  <2>2. ScansInvariant'
    BY <1>3, <2>1 DEF ScansInvariant, StoreType, JobType
  <2>3. Same
    BY <1>1, <2>1, Zenon DEF Same, StoredRows, WhatIsRead, WhatIsAnswered
  <2> QED BY <2>2, <2>3, Zenon
<1>5. CASE loads # <<>>
  <2>1. /\ job' = [op |-> op, files |-> files, keys |-> keys, rows |-> rows, loads |-> Tail(loads), status |-> "reading"]
        /\ StartRead(Head(loads))
    BY <1>2, <1>5, Zenon DEF Start
  <2>2. Head(loads) \in Loads /\ Tail(loads) \in Seq(Loads)
    BY <1>5
  <2>3. WhatIsAnswered.state = "none"
    BY <1>1, Zenon DEF WhatIsAnswered
  <2>4. ReadOk' /\ StoreType' /\ Reads!Begin
    BY <1>3, <2>1, <2>2, <2>3, ReadStarts, Zenon
  <2>5. ScansInvariant'
    BY <2>1, <2>2, <2>4, Zenon DEF ScansInvariant, JobType
  <2> QED BY <2>4, <2>5, Zenon
<1> QED BY <1>4, <1>5, Zenon

(* One page of a range.                                                    *)
LEMMA ReadPageStep ==
  ASSUME ScansInvariant, NEW i \in 1 .. Len(cursors), ReadPage(i)
  PROVE  ScansInvariant' /\ (Reads!Answer \/ Same)
<1>1. Reading /\ ~cursors[i].done
  BY Zenon DEF ReadPage, WantsPage
<1>2. /\ ReadType(read, Len(versions)) /\ CursorsOk(cursors, read, versions) /\ ValuesOk(values, read, versions)
      /\ versions \in Seq(Version) /\ Len(versions) \in Nat /\ Len(versions) >= 1
  BY <1>1 DEF ScansInvariant, StoreType, ReadOk, Reading
<1>3. PICK page \in scan_range_page(cursors[i], read.direction, ReadVersion) :
         IF PageIsValid(read.kind, cursors[i], read.direction, page)
         THEN /\ cursors' = [cursors EXCEPT ![i] = accept_page(read.kind, @, read.direction, page)]
              /\ UNCHANGED job
         ELSE job' = [job EXCEPT !.status = "rejected"]
  BY Zenon DEF ReadPage
<1>4. read.since \in 1 .. Len(versions) /\ ReadVersion \in SpanOf(read, versions)
  BY <1>2 DEF ReadType, ReadVersion, SpanOf
<1>5. /\ Len(cursors) = Len(read.ranges) /\ i \in 1 .. Len(read.ranges)
      /\ CursorOk(cursors[i], read.ranges[i], read, versions)
  <2>1. Len(read.ranges) \in Nat
    BY <1>2 DEF ReadType
  <2>2. Len(cursors) = Len(read.ranges)
    BY <1>2, <2>1 DEF CursorsOk
  <2> QED BY <1>2, <2>2, Zenon DEF CursorsOk
<1>6. page_size(cursors[i]) \in Nat \ {0}
  BY <1>1, <1>2, <1>5, PageSizes, Zenon DEF CursorOk, ReadType
<1>7. PageIsValid(read.kind, cursors[i], read.direction, page)
  BY <1>5, <1>6, PageIsAccepted, Zenon DEF CursorOk
<1> DEFINE c == accept_page(read.kind, cursors[i], read.direction, page)
<1>8. CursorOk(c, read.ranges[i], read, versions)
  <2>1. CASE page = <<>>
    BY <1>1, <1>4, <1>5, <1>6, <2>1, AcceptEmptyPage, Zenon
  <2>2. CASE page # <<>>
    <3>1. read.ranges[i] \in Int \X Int
      BY <1>2, <1>5 DEF ReadType
    <3> QED BY <1>1, <1>2, <1>4, <1>5, <2>2, <3>1, AcceptFullPage, Zenon
  <2> QED BY <2>1, <2>2, Zenon
<1>9. c \in [start : Int, end : Int, remaining : SUBSET Int, done : BOOLEAN, items : Seq(Int)]
  BY <1>8, Zenon DEF CursorOk, CursorType
<1>10. cursors' = [cursors EXCEPT ![i] = c] /\ UNCHANGED job
  BY <1>3, <1>7, Zenon
<1> HIDE DEF c
<1>11. CursorsOk(cursors', read, versions)
  <2> DEFINE S == [start : Int, end : Int, remaining : SUBSET Int, done : BOOLEAN, items : Seq(Int)]
  <2>1. cursors \in Seq(S) /\ DOMAIN cursors = 1 .. Len(read.ranges)
    BY <1>2, Zenon DEF CursorsOk
  <2>2. c \in S
    BY <1>9, Zenon
  <2> HIDE DEF S
  <2>3. cursors' \in Seq(S) /\ DOMAIN cursors' = 1 .. Len(read.ranges)
    BY <1>10, <2>1, <2>2
  <2>4. ASSUME NEW j \in 1 .. Len(read.ranges)
        PROVE  CursorOk(cursors'[j], read.ranges[j], read, versions)
    <3>1. CASE j = i
      BY <1>8, <1>10, <2>1, <3>1, Zenon
    <3>2. CASE j # i
      <4>1. cursors'[j] = cursors[j]
        BY <1>10, <2>1, <3>2, Zenon
      <4> QED BY <1>2, <4>1, Zenon DEF CursorsOk
    <3> QED BY <3>1, <3>2, Zenon
  <2> QED BY <2>3, <2>4, Zenon DEF CursorsOk, S
<1>12. ~Complete
  BY <1>1, Zenon DEF Complete
<1>13. UNCHANGED <<versions, context, job, read>> /\ values' = values
  BY <1>10, Zenon DEF ReadPage
<1>14. ValuesOk(values', read, versions)
  BY <1>2, <1>13, Zenon
<1> QED BY <1>1, <1>11, <1>12, <1>13, <1>14, ReadGoesOn, Zenon

(* A retry of a page, or the end of the retries.                           *)
LEMMA RetryPageStep ==
  ASSUME ScansInvariant, NEW i \in 1 .. Len(cursors), RetryPage(i)
  PROVE  ScansInvariant' /\ (Reads!Next \/ Same)
<1>1. Reading /\ ~Complete
  BY Zenon DEF RetryPage, WantsPage, Complete
<1>2. UNCHANGED <<versions, context, read, cursors, values>> /\ (Failed \/ UNCHANGED job)
  BY Zenon DEF RetryPage
<1>3. CASE Failed
  BY <1>1, <1>2, <1>3, ReadFails, Zenon DEF Reads!Next
<1>4. CASE UNCHANGED job
  <2>1. CursorsOk(cursors', read, versions) /\ ValuesOk(values', read, versions)
    BY <1>1, <1>2, Zenon DEF ScansInvariant, ReadOk, Reading
  <2> QED BY <1>1, <1>2, <1>4, <2>1, ReadGoesOn, Zenon DEF Reads!Next
<1> QED BY <1>2, <1>3, <1>4, Zenon

(* An index join starts again.                                             *)
LEMMA RetryJoinStep ==
  ASSUME ScansInvariant, RetryJoin
  PROVE  ScansInvariant' /\ (Reads!Next \/ Same)
<1>1. Reading /\ read.kind = "mapped" /\ ~cursors[1].done
  BY Zenon DEF RetryJoin, WantsPage
<1>2. /\ ReadType(read, Len(versions)) /\ CursorsOk(cursors, read, versions) /\ ValuesOk(values, read, versions)
      /\ versions \in Seq(Version) /\ Len(versions) \in Nat
  BY <1>1 DEF ScansInvariant, StoreType, ReadOk, Reading
<1>3. Len(read.ranges) = 1 /\ read.ranges \in Seq(Int \X Int)
  BY <1>1, <1>2, Zenon DEF ReadType
<1>4. Len(cursors) = 1
  BY <1>2, <1>3 DEF CursorsOk
<1>5. ~Complete
  BY <1>1, <1>4 DEF Complete
<1>6. UNCHANGED <<versions, context, read, values>>
  BY Zenon DEF RetryJoin
<1>7. CASE Failed
  BY <1>1, <1>5, <1>6, <1>7, ReadFails, Zenon DEF Reads!Next
<1>8. CASE cursors' = <<Cursor(read.kind, read.ranges[1], read.limit)>> /\ UNCHANGED job
  <2> DEFINE c == Cursor(read.kind, read.ranges[1], read.limit)
             S == [start : Int, end : Int, remaining : SUBSET Int, done : BOOLEAN, items : Seq(Int)]
  <2>1. read.since \in 1 .. Len(versions) /\ read.limit \in SUBSET Nat /\ \A m, n \in read.limit : m = n
    BY <1>2, Zenon DEF ReadType
  <2>2. versions[read.since].rows \subseteq Int
    BY <1>2, <2>1, VersionAt, Zenon
  <2>3. read.ranges[1] \in Int \X Int
    BY <1>3
  <2>4. CursorOk(c, read.ranges[1], read, versions)
    BY <2>1, <2>2, <2>3, CursorStarts, Zenon
  <2>5. c \in S
    BY <2>4, Zenon DEF CursorOk, CursorType
  <2> HIDE DEF c, S
  <2>6. cursors' = <<c>>
    BY <1>8, Zenon DEF c
  <2>7. cursors' \in Seq(S) /\ DOMAIN cursors' = 1 .. 1 /\ cursors'[1] = c
    BY <2>5, <2>6
  <2>8. CursorsOk(cursors', read, versions)
    <3>1. \A j \in 1 .. Len(read.ranges) : j = 1
      BY <1>3
    <3> QED BY <1>3, <2>4, <2>7, <3>1, Zenon DEF CursorsOk, S
  <2> QED BY <1>1, <1>2, <1>5, <1>6, <1>8, <2>8, ReadGoesOn, Zenon DEF Reads!Next
<1> QED BY <1>7, <1>8, Zenon DEF RetryJoin

(* The point reads.                                                        *)
LEMMA ValuesStep ==
  ASSUME ScansInvariant, ReadValues \/ RetryValues
  PROVE  ScansInvariant' /\ (Reads!Next \/ Same)
<1>1. Reading /\ ~values.read /\ ~Complete
  BY Zenon DEF ReadValues, RetryValues, Complete
<1>2. /\ ReadType(read, Len(versions)) /\ CursorsOk(cursors, read, versions) /\ ValuesOk(values, read, versions)
      /\ Len(versions) \in Nat /\ Len(versions) >= 1
  BY <1>1 DEF ScansInvariant, StoreType, ReadOk, Reading
<1>3. UNCHANGED <<versions, context, read, cursors>>
  BY Zenon DEF ReadValues, RetryValues
<1>4. CASE RetryValues /\ Failed
  BY <1>1, <1>3, <1>4, ReadFails, Zenon DEF Reads!Next
<1>5. CASE RetryValues /\ UNCHANGED job
  <2>1. values' = values
    BY <1>5, Zenon DEF RetryValues
  <2> QED BY <1>1, <1>2, <1>3, <1>5, <2>1, ReadGoesOn, Zenon DEF Reads!Next
<1>6. CASE ReadValues
  <2>1. values' = [read |-> TRUE, found |-> read.keys \cap versions[ReadVersion].rows] /\ UNCHANGED job
    BY <1>6, Zenon DEF ReadValues
  <2>2. ReadVersion \in SpanOf(read, versions)
    BY <1>2 DEF ReadType, ReadVersion, SpanOf
  <2>3. values'.read = TRUE /\ values'.found = read.keys \cap versions[ReadVersion].rows
        /\ values' = [read |-> values'.read, found |-> values'.found]
    BY <2>1, Zenon
  <2>4. ValuesOk(values', read, versions)
    BY <2>2, <2>3, Zenon DEF ValuesOk
  <2> QED BY <1>1, <1>2, <1>3, <2>1, <2>4, ReadGoesOn, Zenon DEF Reads!Next
<1> QED BY <1>4, <1>5, <1>6, Zenon DEF RetryValues

(* The call gives up.                                                      *)
LEMMA GiveUpStep ==
  ASSUME ScansInvariant, GiveUp
  PROVE  ScansInvariant' /\ Reads!Next
<1>1. Reading /\ ~Complete /\ Failed /\ UNCHANGED <<versions, context, read>>
  BY Zenon DEF GiveUp, WantsPage, Complete
<1> QED BY <1>1, ReadFails, Zenon DEF Reads!Next

(* A read is complete and the call goes on with the next, or is answered.  *)
LEMMA FinishReadStep ==
  ASSUME ScansInvariant, FinishRead
  PROVE  ScansInvariant' /\ Reads!Next
<1>1. Complete /\ Reading /\ StoreType /\ versions' = versions
  BY Zenon DEF FinishRead, Complete, ScansInvariant
<1>2. ReadOk
  BY <1>1, Zenon DEF ScansInvariant, Reading
<1>3. WhatIsAnswered.state = "answered"
  <2>1. read # NoRead
    BY <1>2 DEF ReadOk, ReadType, NoRead
  <2> QED BY <1>1, <2>1, Zenon DEF WhatIsAnswered
<1>4. /\ job.loads \in Seq(Loads)
      /\ job = [op |-> job.op, files |-> job.files, keys |-> job.keys, rows |-> job.rows, loads |-> job.loads,
                status |-> job.status]
  BY Zenon DEF ScansInvariant, JobType
<1>5. CASE job.loads = <<>>
  <2>1. PICK rows : job' = [job EXCEPT !.status = "answered", !.rows = rows]
    BY <1>5, Zenon DEF FinishRead
  <2>2. read' = NoRead /\ context' = context
    BY <1>5, Zenon DEF FinishRead, Idle
  <2>3. /\ job' = [op |-> job'.op, files |-> job'.files, keys |-> job'.keys, rows |-> job'.rows,
                   loads |-> job'.loads, status |-> job'.status]
        /\ job'.loads = job.loads /\ job'.status = "answered"
    BY <1>4, <2>1, Zenon
  <2>4. ScansInvariant'
    BY <1>1, <1>4, <2>2, <2>3, Zenon DEF ScansInvariant, JobType, StoreType
  <2>5. WhatIsRead' = Reads!Nothing /\ WhatIsAnswered' = Reads!Blank("none") /\ StoredRows' = StoredRows
    BY <1>1, <2>2, Zenon DEF WhatIsRead, WhatIsAnswered, StoredRows, NoRead, Reads!Nothing, Reads!Blank
  <2>6. Reads!End
    BY <1>3, <2>5, Zenon DEF Reads!End
  <2> QED BY <2>4, <2>6, Zenon DEF Reads!Next
<1>6. CASE job.loads # <<>>
  <2>1. PICK rows : job' = [job EXCEPT !.rows = rows, !.loads = Tail(@)]
    BY <1>6, Zenon DEF FinishRead
  <2>2. StartRead(Head(job.loads))
    BY <1>6, Zenon DEF FinishRead
  <2>3. /\ job' = [op |-> job'.op, files |-> job'.files, keys |-> job'.keys, rows |-> job'.rows,
                   loads |-> job'.loads, status |-> job'.status]
        /\ job'.loads = Tail(job.loads) /\ job'.status = "reading"
    BY <1>1, <1>4, <2>1, Zenon DEF Reading
  <2>4. Head(job.loads) \in Loads /\ Tail(job.loads) \in Seq(Loads)
    BY <1>4, <1>6
  <2>5. ReadOk' /\ StoreType' /\ Reads!Begin
    BY <1>1, <1>3, <2>2, <2>3, <2>4, ReadStarts, Zenon
  <2>6. ScansInvariant'
    BY <2>3, <2>4, <2>5, Zenon DEF ScansInvariant, JobType
  <2> QED BY <2>5, <2>6, Zenon DEF Reads!Next
<1> QED BY <1>5, <1>6, Zenon

(* The caller takes what the call returned.                                *)
LEMMA ReturnStep ==
  ASSUME ScansInvariant, Return
  PROVE  ScansInvariant' /\ (Reads!Next \/ Same)
<1>1. /\ ~Reading /\ job' = NoJob /\ read' = NoRead /\ UNCHANGED <<versions, context>>
  BY Zenon DEF Return, Idle
<1>2. ScansInvariant'
  BY <1>1 DEF ScansInvariant, StoreType, JobType, NoJob
<1>3. WhatIsRead' = Reads!Nothing /\ WhatIsAnswered' = Reads!Blank("none") /\ StoredRows' = StoredRows
  BY <1>1, Zenon DEF WhatIsRead, WhatIsAnswered, StoredRows, NoRead, Reads!Nothing, Reads!Blank
<1>4. WhatIsAnswered.state # "pending"
  <2>1. job.status # "pending"
    BY Zenon DEF ScansInvariant, JobType
  <2> QED BY <1>1, <2>1, Zenon DEF WhatIsAnswered, Complete
<1>5. Reads!End
  BY <1>3, <1>4, Zenon DEF Reads!End
<1> QED BY <1>2, <1>5, Zenon DEF Reads!Next

(* Another transaction commits.                                            *)
LEMMA CommitStep ==
  ASSUME ScansInvariant, NEW x \in Version, versions' = Append(versions, x),
         UNCHANGED <<context, job, read, cursors, values>>
  PROVE  ScansInvariant' /\ Reads!Write
<1>1. /\ versions \in Seq(Version) /\ Len(versions) \in Nat /\ Len(versions) >= 1
      /\ context \in Int /\ context <= Len(versions)
  BY DEF ScansInvariant, StoreType
<1>2. /\ versions' \in Seq(Version) /\ Len(versions') = Len(versions) + 1
      /\ \A v \in 1 .. Len(versions) : versions'[v] = versions[v]
  BY <1>1
<1>3. StoreType'
  BY <1>1, <1>2 DEF StoreType
<1>4. ASSUME Reading
      PROVE  ReadOk'
  <2>1. ReadType(read, Len(versions)) /\ CursorsOk(cursors, read, versions) /\ ValuesOk(values, read, versions)
    BY <1>4, Zenon DEF ScansInvariant, ReadOk, Reading
  <2>2. read.since \in 1 .. Len(versions) /\ read.since \in 1 .. Len(versions')
    BY <1>1, <1>2, <2>1 DEF ReadType
  <2>3. ReadType(read, Len(versions'))
    BY <2>1, <2>2, Zenon DEF ReadType
  <2>4. CursorsOk(cursors, read, versions')
    <3>1. \A i \in 1 .. Len(read.ranges) : CursorOk(cursors[i], read.ranges[i], read, versions')
      BY <1>1, <2>1, <2>2, CursorOutlastsCommit, Zenon DEF CursorsOk
    <3> QED BY <2>1, <3>1, Zenon DEF CursorsOk
  <2>5. ValuesOk(values, read, versions')
    <3>1. SpanOf(read, versions) \subseteq SpanOf(read, versions') /\ SpanOf(read, versions) \subseteq 1 .. Len(versions)
      BY <1>1, <2>2, SpanGrows, Zenon
    <3>2. ASSUME values.read
          PROVE  \E v \in SpanOf(read, versions') : values.found = read.keys \cap versions'[v].rows
      <4>1. PICK v \in SpanOf(read, versions) : values.found = read.keys \cap versions[v].rows
        BY <2>1, <3>2, Zenon DEF ValuesOk
      <4>2. v \in SpanOf(read, versions') /\ versions'[v] = versions[v]
        BY <1>2, <3>1, Zenon
      <4> QED BY <4>1, <4>2, Zenon
    <3> QED BY <2>1, <3>2, Zenon DEF ValuesOk
  <2> QED BY <2>3, <2>4, <2>5, Zenon DEF ReadOk
<1>5. ScansInvariant'
  BY <1>3, <1>4, Zenon DEF ScansInvariant, JobType, Reading
<1>6. WhatIsRead' = WhatIsRead /\ WhatIsAnswered' = WhatIsAnswered
  BY Zenon DEF WhatIsRead, WhatIsAnswered, Complete, Reading
<1>7. /\ Len(StoredRows') = Len(StoredRows) + 1
      /\ \A v \in 1 .. Len(StoredRows) : StoredRows'[v] = StoredRows[v]
  <2>1. Len(StoredRows) = Len(versions) /\ \A v \in 1 .. Len(versions) : StoredRows[v] = versions[v].rows
    BY <1>1, StoredRowsFacts, Zenon
  <2>2. StoredRows' = [v \in 1 .. Len(versions') |-> versions'[v].rows]
    BY Zenon DEF StoredRows
  <2>3. \A v \in 1 .. Len(versions') : versions'[v].rows \in SUBSET Int
    <3> DEFINE ws == versions'
    <3>1. ws \in Seq(Version)
      BY <1>2, Zenon
    <3> HIDE DEF ws
    <3>2. \A v \in 1 .. Len(ws) : ws[v].rows \subseteq Int
      BY <3>1, VersionAt, Zenon
    <3> QED BY <3>2, Zenon DEF ws
  <2>4. StoredRows' \in [1 .. Len(versions') -> SUBSET Int] /\ Len(versions') \in Nat
    BY <1>1, <1>2, <2>2, <2>3
  <2>5. Len(StoredRows') = Len(versions')
    BY <2>4, FunctionIsSequence, Zenon
  <2>6. \A v \in 1 .. Len(versions) : v \in 1 .. Len(versions') /\ StoredRows'[v] = versions'[v].rows
    BY <1>1, <1>2, <2>2
  <2> QED BY <1>2, <2>1, <2>5, <2>6, Zenon
<1>8. Reads!Write
  BY <1>6, <1>7, Zenon DEF Reads!Write
<1> QED BY <1>5, <1>8, Zenon

(* The commits of the model.                                               *)
LEMMA FileStep ==
  ASSUME ScansInvariant, NEW f \in Files,
         (\E shape \in Shapes : AddFile(f, shape)) \/ (\E here \in BOOLEAN : RemoveFile(f, here))
  PROVE  ScansInvariant' /\ Reads!Next
<1>1. Latest \in Version
  BY DEF ScansInvariant, StoreType, Latest
<1>2. Latest.files \subseteq Files /\ Latest.rows \subseteq Int
  BY <1>1, Zenon DEF Version
<1>3. CASE \E shape \in Shapes : AddFile(f, shape)
  <2>1. PICK shape \in Shapes : AddFile(f, shape)
    BY <1>3, Zenon
  <2>2. RowsOf(f, shape) \subseteq Int
    <3>1. f \in Int /\ Columns \in Int /\ MaxFile \in Int /\ shape.columns \subseteq Int
      BY ScansAssumption DEF Files
    <3>2. PartitionKey(f) \in Int /\ \A c \in shape.columns : StatsKey(f, c) \in Int
      BY <3>1 DEF PartitionKey, StatsKey
    <3> QED BY <3>2, Zenon DEF RowsOf
  <2> DEFINE x == [files |-> Latest.files \cup {f}, rows |-> Latest.rows \cup RowsOf(f, shape)]
  <2>3. x \in Version
    BY <1>2, <2>2, Zenon DEF Version
  <2>4. versions' = Append(versions, x) /\ UNCHANGED <<context, job, read, cursors, values>>
    BY <2>1, Zenon DEF AddFile
  <2> HIDE DEF x
  <2> QED BY <2>3, <2>4, CommitStep, Zenon DEF Reads!Next
<1>4. CASE \E here \in BOOLEAN : RemoveFile(f, here)
  <2>1. PICK here \in BOOLEAN : RemoveFile(f, here)
    BY <1>4, Zenon
  <2> DEFINE x == [files |-> Latest.files \ {f}, rows |-> Latest.rows \ FileRows(f)]
  <2>2. x \in Version
    BY <1>2, Zenon DEF Version
  <2>3. versions' = Append(versions, x) /\ UNCHANGED <<context, job, read, cursors, values>>
    BY <2>1, Zenon DEF RemoveFile
  <2> HIDE DEF x
  <2> QED BY <2>2, <2>3, CommitStep, Zenon DEF Reads!Next
<1> QED BY <1>3, <1>4, Zenon

(* The loads of the four calls that list files' rows are well formed.      *)
LEMMA ListStep ==
  ASSUME ScansInvariant, NEW files \in SUBSET Files,
         \/ list_file_column_stats_for_data_file_ids(files)
         \/ \E columns \in ColumnSets : list_file_column_stats_for_data_file_columns(files, columns)
         \/ list_file_partition_values_for_data_files(files)
         \/ list_file_partition_values_for_data_files_and_keys(files)
  PROVE  ScansInvariant' /\ (Reads!Begin \/ Same)
<1>1. ASSUME NEW op, ListFileRows(op, files)
      PROVE  ScansInvariant' /\ (Reads!Begin \/ Same)
  <2> DEFINE cached == files \cap DOMAIN FileCache(op)
             loads == LoadFiles(op, files \ cached)
  <2>1. /\ Start(op, files, {}, UNION {FileCache(op)[f] : f \in cached}, loads)
        /\ versions' = versions
    BY <1>1, Zenon DEF ListFileRows
  <2>2. files \ cached \in SUBSET Files
    BY Zenon
  <2>3. loads \in Seq(Loads)
    BY <2>2, LoadFilesType, Zenon
  <2> HIDE DEF loads, cached
  <2> QED BY <2>1, <2>3, CallStarts, Zenon
<1>2. ASSUME NEW columns \in ColumnSets, list_file_column_stats_for_data_file_columns(files, columns)
      PROVE  ScansInvariant' /\ (Reads!Begin \/ Same)
  <2> DEFINE asked == {StatsKey(f, c) : f \in files, c \in columns}
             missing == load_missing_file_column_stats_for_data_file_columns(asked \ cache.row)
  <2>1. /\ Start("columns", files, asked, (asked \cap cache.row) \cup missing.cached, missing.loads)
        /\ versions' = versions
    BY <1>2 DEF list_file_column_stats_for_data_file_columns
  <2>2. columns \in SUBSET (1 .. Columns)
    BY ScansAssumption
  <2>3. \A k \in asked : \E f \in Files : \E c \in 1 .. Columns : k = StatsKey(f, c)
    BY <2>2
  <2> HIDE DEF asked
  <2>4. \A k \in asked \ cache.row : \E f \in Files : \E c \in 1 .. Columns : k = StatsKey(f, c)
    BY <2>3, Zenon
  <2>5. missing.loads \in Seq(Loads)
    BY <2>4, MissingType, Zenon
  <2> HIDE DEF missing
  <2> QED BY <2>1, <2>5, CallStarts, Zenon
<1>3. ASSUME list_file_partition_values_for_data_files_and_keys(files)
      PROVE  ScansInvariant' /\ (Reads!Begin \/ Same)
  <2> DEFINE cached == files \cap DOMAIN FileCache("partitions")
             exact == {PartitionKey(f) : f \in files \ cached}
             loads == IF exact = {} THEN <<>> ELSE <<batch_get(exact)>>
  <2>1. /\ Start("partitions", files, {}, UNION {FileCache("partitions")[f] : f \in cached}, loads)
        /\ versions' = versions
    BY <1>3, Zenon DEF list_file_partition_values_for_data_files_and_keys
  <2>2. exact \in SUBSET Int
    <3>1. \A f \in Files : PartitionKey(f) \in Int
      BY ScansAssumption DEF Files, PartitionKey
    <3> QED BY <3>1, Zenon
  <2>3. loads \in Seq(Loads)
    <3> HIDE DEF exact
    <3>1. <<batch_get(exact)>> \in Seq(Loads)
      BY <2>2, BatchGetType, Zenon
    <3>2. <<>> \in Seq(Loads)
      OBVIOUS
    <3> QED BY <3>1, <3>2, Zenon
  <2> HIDE DEF loads, cached
  <2> QED BY <2>1, <2>3, CallStarts, Zenon
<1> QED BY <1>1, <1>2, <1>3, Zenon
     DEF list_file_column_stats_for_data_file_ids, list_file_partition_values_for_data_files

(* What does not touch a read.                                             *)
LEMMA QuietStep ==
  ASSUME ScansInvariant, Evict \/ SwitchContext \/ UNCHANGED vars
  PROVE  ScansInvariant' /\ Same
<1>1. UNCHANGED <<versions, job, read, cursors, values>>
  BY Zenon DEF Evict, SwitchContext, vars
<1>2. StoreType'
  <2>1. context' = context \/ context' \in {0, -1}
    BY Zenon DEF Evict, SwitchContext, vars
  <2> QED BY <1>1, <2>1 DEF ScansInvariant, StoreType
<1>3. ScansInvariant'
  BY <1>1, <1>2, Zenon DEF ScansInvariant, JobType, ReadOk
<1>4. Same
  BY <1>1, Zenon DEF Same, StoredRows, WhatIsRead, WhatIsAnswered, Complete, Reading
<1> QED BY <1>3, <1>4, Zenon

(* Every step.                                                             *)
LEMMA ScansStep ==
  ASSUME ScansInvariant, [Next]_vars
  PROVE  ScansInvariant' /\ (Reads!Next \/ Same)
<1>1. ASSUME NEW ask \in Asks, Scan(ask)
      PROVE  ScansInvariant' /\ (Reads!Next \/ Same)
  <2>1. ask \in Loads
    BY ScansAssumption, Zenon
  <2>2. <<ask>> \in Seq(Loads)
    BY <2>1
  <2>3. Start("scan", {}, {}, {}, <<ask>>) /\ UNCHANGED versions
    BY <1>1, Zenon DEF Scan
  <2> QED BY <2>2, <2>3, CallStarts, Zenon DEF Reads!Next
<1>2. ASSUME NEW files \in SUBSET Listed \ {{}},
             \/ list_file_column_stats_for_data_file_ids(files)
             \/ \E columns \in ColumnSets : list_file_column_stats_for_data_file_columns(files, columns)
             \/ list_file_partition_values_for_data_files(files)
             \/ list_file_partition_values_for_data_files_and_keys(files)
      PROVE  ScansInvariant' /\ (Reads!Next \/ Same)
  <2>1. versions \in Seq(Version) /\ fetch_read_version \in 1 .. Len(versions)
    BY DEF ScansInvariant, StoreType, fetch_read_version
  <2>2. Listed \subseteq Files
    BY <2>1, VersionAt, Zenon DEF Listed
  <2>3. files \in SUBSET Files
    BY <2>2, Zenon
  <2> QED BY <1>2, <2>3, ListStep, Zenon DEF Reads!Next
<1>3. ASSUME NEW i \in 1 .. Len(cursors), ReadPage(i) \/ RetryPage(i)
      PROVE  ScansInvariant' /\ (Reads!Next \/ Same)
  BY <1>3, ReadPageStep, RetryPageStep, Zenon DEF Reads!Next
<1>4. CASE RetryJoin \/ ReadValues \/ RetryValues \/ FinishRead \/ GiveUp \/ Return
  BY <1>4, RetryJoinStep, ValuesStep, FinishReadStep, GiveUpStep, ReturnStep, Zenon
<1>5. ASSUME NEW f \in Files,
             (\E shape \in Shapes : AddFile(f, shape)) \/ (\E here \in BOOLEAN : RemoveFile(f, here))
      PROVE  ScansInvariant' /\ (Reads!Next \/ Same)
  BY <1>5, FileStep, Zenon
<1>6. CASE Evict \/ SwitchContext \/ UNCHANGED vars
  BY <1>6, QuietStep, Zenon
<1>7. ASSUME NEW ask \in Asks, RefuseScan(ask)
      PROVE  ScansInvariant' /\ (Reads!Next \/ Same)
  <2>1. /\ job = NoJob /\ UNCHANGED <<versions, context, read, cursors, values>>
        /\ job' = [NoJob EXCEPT !.op = "scan", !.status = "failed"]
    BY <1>7, Zenon DEF RefuseScan
  <2>2. read = NoRead /\ read' = NoRead
    BY <2>1, Zenon DEF ScansInvariant, NoJob
  <2>3. JobType' /\ job'.status = "failed"
    <3>1. job' = [op |-> "scan", files |-> {}, keys |-> {}, rows |-> {}, loads |-> <<>>, status |-> "failed"]
      BY <2>1, Zenon DEF NoJob
    <3>2. <<>> \in Seq(Loads)
      OBVIOUS
    <3> QED BY <3>1, <3>2, Zenon DEF JobType
  <2>4. StoreType'
    BY <2>1, Zenon DEF ScansInvariant, StoreType
  <2>5. ScansInvariant'
    BY <2>2, <2>3, <2>4, Zenon DEF ScansInvariant
  <2>6. Same
    BY <2>1, <2>2, Zenon DEF Same, StoredRows, WhatIsRead, WhatIsAnswered
  <2> QED BY <2>5, <2>6, Zenon
<1> QED BY <1>1, <1>2, <1>3, <1>4, <1>5, <1>6, <1>7, Zenon DEF Next, Attempt

(* The first state.                                                        *)
LEMMA ScansInit ==
  ASSUME Init
  PROVE  ScansInvariant /\ Reads!Init
<1>1. PICK files \in SUBSET Files : \E shape \in [files -> Shapes] :
        versions = <<[files |-> files, rows |-> UNION {RowsOf(f, shape[f]) : f \in files}]>>
  BY Zenon DEF Init
<1>2. PICK shape \in [files -> Shapes] :
        versions = <<[files |-> files, rows |-> UNION {RowsOf(f, shape[f]) : f \in files}]>>
  BY <1>1, Zenon
<1> DEFINE rows == UNION {RowsOf(f, shape[f]) : f \in files}
<1>3. \A f \in files : RowsOf(f, shape[f]) \subseteq Int
  <2> TAKE f \in files
  <2>1. f \in Int /\ Columns \in Int /\ MaxFile \in Int /\ shape[f].columns \subseteq Int
    BY ScansAssumption DEF Files
  <2>2. PartitionKey(f) \in Int /\ \A c \in shape[f].columns : StatsKey(f, c) \in Int
    BY <2>1 DEF PartitionKey, StatsKey
  <2> QED BY <2>2, Zenon DEF RowsOf
<1>4. rows \in SUBSET Int
  BY <1>3, Zenon
<1> HIDE DEF rows
<1>5. versions = <<[files |-> files, rows |-> rows]>>
  BY <1>2, Zenon DEF rows
<1>6. versions \in Seq(Version) /\ Len(versions) = 1
  BY <1>4, <1>5 DEF Version
<1>7. context = -1 /\ job = NoJob /\ read = NoRead
  BY Zenon DEF Init
<1>8. ScansInvariant
  BY <1>6, <1>7 DEF ScansInvariant, StoreType, JobType, NoJob
<1>9. Len(StoredRows) = 1
  BY <1>6, StoredRowsFacts, Zenon
<1>10. WhatIsRead = Reads!Nothing /\ WhatIsAnswered = Reads!Blank("none")
  BY <1>7, Zenon DEF WhatIsRead, WhatIsAnswered, NoRead, Reads!Nothing, Reads!Blank
<1> QED BY <1>8, <1>9, <1>10, Zenon DEF Reads!Init

(* Each read of the store, whatever its pages, continuations and retries,  *)
(* is one read of RangeRead: SyncFdbScanCursor, ScanCursor, the batch get, *)
(* the read set and the index join return each range in order, without a   *)
(* key that was not stored while they ran and with every key that was      *)
(* stored all along up to the limit, and from one version when it is fixed.*)
THEOREM ReadsAreRangeReadsHolds == Spec => ReadsAreRangeReads
<1>1. Init => ScansInvariant /\ Reads!Init
  BY ScansInit, Zenon
<1>2. ScansInvariant /\ [Next]_vars => ScansInvariant'
  BY ScansStep, Zenon
<1>3. ScansInvariant /\ [Next]_vars => [Reads!Next]_(Reads!vars)
  BY ScansStep, Zenon DEF Same, Reads!vars
<1> QED BY <1>1, <1>2, <1>3, PTL DEF Spec, ReadsAreRangeReads, Reads!Spec

=============================================================================
