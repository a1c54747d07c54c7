----------------------------- MODULE RangeRead -----------------------------
(***************************************************************************)
(* What a read of the key-value store promises its caller, whatever pages  *)
(* and retries it takes.  A read asks for some ranges and some single keys *)
(* and gets one answer, or fails.  A pinned read is answered from the      *)
(* store as it was at one version.  A read that is not pinned is answered  *)
(* page by page while others write: each range comes back in order, holds  *)
(* no key that was never there while it ran, and misses none that was      *)
(* there all along.                                                        *)
(***************************************************************************)
EXTENDS Integers, Sequences

VARIABLES
    versions,   \* the stored keys at each version, oldest first
    read,       \* the read being made: ranges, keys, direction, limit, pinned, since
    answer      \* its state and, once answered, the items of each range and the keys found

vars == <<versions, read, answer>>

Nothing == [ranges |-> <<>>, keys |-> {}, direction |-> "Forward", limit |-> {}, pinned |-> FALSE, since |-> 1]
Blank(state) == [state |-> state, items |-> <<>>, values |-> {}]

Before(direction, a, b) == IF direction = "Forward" THEN a < b ELSE b < a
Inside(range, k) == range[1] <= k /\ k <= range[2]

(* At most "limit" items, and as many as that only when more is not owed.  *)
WithinLimit(limit, items) == \A n \in limit : Len(items) <= n
Reached(limit, items) == \E n \in limit : Len(items) = n

(* The items are in the direction's order, each of them was stored at one  *)
(* of the versions, and a key stored at all of them is missing only when   *)
(* the limit was reached before it.                                        *)
Regular(r, range, items, span) ==
    /\ WithinLimit(r.limit, items)
    /\ \A i \in 1 .. Len(items) - 1 : Before(r.direction, items[i], items[i + 1])
    /\ \A i \in 1 .. Len(items) : Inside(range, items[i]) /\ \E v \in span : items[i] \in versions[v]
    /\ \A k \in versions[r.since] :
         (Inside(range, k) /\ \A v \in span : k \in versions[v]) =>
            \/ \E i \in 1 .. Len(items) : items[i] = k
            \/ Reached(r.limit, items) /\ \A i \in 1 .. Len(items) : Before(r.direction, items[i], k)

(* For a pinned read the span is one version, which makes each range exact.*)
Span(r) == IF r.pinned THEN {r.since} ELSE r.since .. Len(versions)

Allowed(r, a) ==
    /\ Len(a.items) = Len(r.ranges)
    /\ \A i \in 1 .. Len(r.ranges) : Regular(r, r.ranges[i], a.items[i], Span(r))
    /\ \E v \in Span(r) : a.values = r.keys \cap versions[v]

-----------------------------------------------------------------------------

Init ==
    /\ Len(versions) = 1
    /\ read = Nothing
    /\ answer = Blank("none")

(* Another transaction of any client commits.                              *)
Write ==
    /\ Len(versions') = Len(versions) + 1
    /\ \A v \in 1 .. Len(versions) : versions'[v] = versions[v]
    /\ UNCHANGED <<read, answer>>

NothingAsked(r) ==
    /\ r.keys = {}
    /\ r.limit = {0} \/ \A i \in 1 .. Len(r.ranges) : r.ranges[i][1] > r.ranges[i][2]

(* A read starts, with nothing of an earlier one left.  A pinned one may   *)
(* be given a version leased before.  Nothing asked is answered at once.   *)
Begin ==
    /\ answer.state # "pending"
    /\ read'.since \in 1 .. Len(versions)
    /\ ~read'.pinned => read'.since = Len(versions)
    /\ \/ answer' = Blank("pending")
       \/ NothingAsked(read') /\ answer'.state = "answered" /\ Allowed(read', answer')
    /\ UNCHANGED versions

Answer ==
    /\ answer.state = "pending"
    /\ answer'.state = "answered"
    /\ Allowed(read, answer')
    /\ UNCHANGED <<versions, read>>

Fail ==
    /\ answer.state = "pending"
    /\ answer' = Blank("failed")
    /\ UNCHANGED <<versions, read>>

(* The caller has taken the answer.                                        *)
End ==
    /\ answer.state # "pending"
    /\ read' = Nothing
    /\ answer' = Blank("none")
    /\ UNCHANGED versions

Next == Write \/ Begin \/ Answer \/ Fail \/ End

Spec == Init /\ [][Next]_vars

=============================================================================
