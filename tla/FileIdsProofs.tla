---------------------------- MODULE FileIdsProofs ----------------------------
(***************************************************************************)
(* Proofs about the reservation of file ids, for any number of writers,    *)
(* any id width and any retry budget.                                      *)
(***************************************************************************)
EXTENDS FileIds, TLAPS

\* Every id a writer holds is at or below the watermark.
HeldBelowWatermark == \A w \in Writers : \A i \in granted[w] : i <= maxFileId

\* A transaction that has read the watermark asks for at least one id, its range
\* fits, and unless it is doomed its read is still the value of the key.
OpenReadIsCurrent ==
    \A w \in Writers :
        /\ phase[w] # "idle" => count[w] >= 1
        /\ phase[w] = "open" => LastId(current[w], count[w]) <= MaxU64
        /\ phase[w] = "open" /\ ~stale[w] => current[w] = maxFileId

\* The inductive strengthening of ReservedOnce.
IInv == TypeOK /\ HeldBelowWatermark /\ OpenReadIsCurrent /\ ReservedOnce

\* What the arithmetic of a reservation yields: a range that fits starts above the
\* watermark it was computed from, or it is the saturated id alone.
LEMMA RangeLemma ==
    ASSUME NEW c \in Ids \cup {Absent}, NEW n \in Nat, n >= 1, LastId(c, n) <= MaxU64
    PROVE  /\ LastId(c, n) \in Ids
           /\ LastId(c, n) >= c
           /\ FirstId(c) .. LastId(c, n) \subseteq Ids
           /\ \A i \in FirstId(c) .. LastId(c, n) :
                 i <= LastId(c, n) /\ (i > c \/ i = MaxU64)
  BY FileIdsAssumption DEF FirstId, LastId, Ids, Absent

\* The initial state satisfies the inductive invariant.
LEMMA InitInv == Init => IInv
  BY FileIdsAssumption
  DEF Init, IInv, TypeOK, HeldBelowWatermark, OpenReadIsCurrent, ReservedOnce, Ids, Absent

\* Every step of the protocol preserves the inductive invariant.
LEMMA NextInv == IInv /\ [Next]_vars => IInv'
<1> SUFFICES ASSUME IInv, [Next]_vars PROVE IInv'
  BY Zenon
<1> USE FileIdsAssumption
<1>a. ASSUME NEW w \in Writers, NEW n \in 1 .. MaxProposed, Propose(w, n) PROVE IInv'
  BY <1>a DEF Propose, IInv, TypeOK, HeldBelowWatermark, OpenReadIsCurrent, ReservedOnce
<1>b. ASSUME NEW w \in Writers, ReadWatermark(w) PROVE IInv'
  <2>1. TypeOK'
    BY <1>b, Zenon DEF ReadWatermark, IInv, TypeOK
  <2>2. OpenReadIsCurrent'
    <3> SUFFICES ASSUME NEW v \in Writers
                 PROVE  /\ phase'[v] # "idle" => count'[v] >= 1
                        /\ phase'[v] = "open" => LastId(current'[v], count'[v]) <= MaxU64
                        /\ phase'[v] = "open" /\ ~stale'[v] => current'[v] = maxFileId'
      BY Zenon DEF OpenReadIsCurrent
    <3>1. CASE v = w
      <4>1. current'[w] = maxFileId /\ count'[w] = count[w] /\ maxFileId' = maxFileId
        BY <1>b, Zenon DEF ReadWatermark, IInv, TypeOK
      <4>2. phase'[w] = IF LastId(maxFileId, count[w]) > MaxU64 THEN "idle" ELSE "open"
        BY <1>b, Zenon DEF ReadWatermark, IInv, TypeOK
      <4>3. LastId(maxFileId, count[w]) \in Int
        BY DEF IInv, TypeOK, LastId, FirstId, Ids, Absent
      <4>4. count[w] >= 1
        BY <1>b, Zenon DEF ReadWatermark, IInv, OpenReadIsCurrent
      <4> QED BY <3>1, <4>1, <4>2, <4>3, <4>4
    <3>2. CASE v # w
      <4>1. /\ phase'[v] = phase[v] /\ count'[v] = count[v] /\ current'[v] = current[v]
            /\ stale'[v] = stale[v] /\ maxFileId' = maxFileId
        BY <3>2, <1>b, Zenon DEF ReadWatermark, IInv, TypeOK
      <4> QED BY <4>1, Zenon DEF IInv, OpenReadIsCurrent
    <3> QED BY <3>1, <3>2, Zenon
  <2>3. HeldBelowWatermark' /\ ReservedOnce'
    BY <1>b, Zenon DEF ReadWatermark, IInv, HeldBelowWatermark, ReservedOnce
  <2> QED BY <2>1, <2>2, <2>3, Zenon DEF IInv
<1>c. ASSUME NEW w \in Writers, phase[w] = "open", ~stale[w],
             SetWatermark(LastId(current[w], count[w])),
             phase' = [phase EXCEPT ![w] = "idle"],
             UNCHANGED <<count, attempt, current>>,
             \/ granted' = [granted EXCEPT ![w] = @ \cup ReservedRange(w)]
             \/ granted' = granted
      PROVE  IInv'
  <2>1. /\ current[w] = maxFileId /\ count[w] \in Nat /\ count[w] >= 1
        /\ maxFileId \in Ids \cup {Absent}
        /\ LastId(maxFileId, count[w]) <= MaxU64
    BY <1>c DEF IInv, TypeOK, OpenReadIsCurrent
  <2>2. /\ maxFileId' = LastId(maxFileId, count[w])
        /\ maxFileId' \in Ids /\ maxFileId' >= maxFileId
        /\ ReservedRange(w) \subseteq Ids
        /\ \A i \in ReservedRange(w) : i <= maxFileId' /\ (i > maxFileId \/ i = MaxU64)
    BY <1>c, <2>1, RangeLemma, Zenon DEF SetWatermark, ReservedRange
  <2>3. TypeOK'
    BY <1>c, <2>2, Zenon DEF SetWatermark, IInv, TypeOK
  <2>4. HeldBelowWatermark'
    <3> SUFFICES ASSUME NEW v \in Writers, NEW i \in granted'[v] PROVE i <= maxFileId'
      BY Zenon DEF HeldBelowWatermark
    <3>1. i \in granted[v] \/ i \in ReservedRange(w)
      BY <1>c, Zenon DEF IInv, TypeOK
    <3>2. CASE i \in granted[v]
      <4>1. i <= maxFileId /\ i \in Int
        BY <3>2 DEF IInv, TypeOK, HeldBelowWatermark, Ids
      <4> QED BY <4>1, <2>1, <2>2 DEF Ids, Absent
    <3> QED BY <3>1, <3>2, <2>2, Zenon
  <2>5. OpenReadIsCurrent'
    <3> SUFFICES ASSUME NEW v \in Writers
                 PROVE  /\ phase'[v] # "idle" => count'[v] >= 1
                        /\ phase'[v] = "open" => LastId(current'[v], count'[v]) <= MaxU64
                        /\ phase'[v] = "open" /\ ~stale'[v] => current'[v] = maxFileId'
      BY Zenon DEF OpenReadIsCurrent
    <3>1. /\ phase'[v] = IF v = w THEN "idle" ELSE phase[v]
          /\ count'[v] = count[v] /\ current'[v] = current[v]
          /\ stale'[v] = (stale[v] \/ phase[v] = "open")
      BY <1>c, Zenon DEF IInv, TypeOK, SetWatermark
    <3> QED BY <3>1, Zenon DEF IInv, OpenReadIsCurrent
  <2>6. ReservedOnce'
    <3> SUFFICES ASSUME NEW u \in Writers, NEW v \in Writers, u # v,
                        NEW i \in granted'[u] \cap granted'[v]
                 PROVE  i = MaxU64
      BY Zenon DEF ReservedOnce
    <3>1. \/ i \in granted[u] /\ i \in granted[v]
          \/ i \in ReservedRange(w) /\ (i \in granted[u] \/ i \in granted[v])
      BY <1>c DEF IInv, TypeOK
    <3>2. CASE i \in granted[u] /\ i \in granted[v]
      BY <3>2 DEF IInv, ReservedOnce
    <3>3. CASE i \in ReservedRange(w) /\ (i \in granted[u] \/ i \in granted[v])
      <4>1. i <= maxFileId /\ i \in Int
        BY <3>3 DEF IInv, TypeOK, HeldBelowWatermark, Ids
      <4> QED BY <3>3, <4>1, <2>1, <2>2 DEF Ids, Absent
    <3> QED BY <3>1, <3>2, <3>3, Zenon
  <2> QED BY <2>3, <2>4, <2>5, <2>6, Zenon DEF IInv
<1>d. ASSUME NEW w \in Writers, Commit(w) PROVE IInv'
  BY <1>c, <1>d, Zenon DEF Commit
<1>e. ASSUME NEW w \in Writers, LoseReply(w) PROVE IInv'
  BY <1>c, <1>e, Zenon DEF LoseReply
<1>f. ASSUME NEW w \in Writers, RetryReservation(w) PROVE IInv'
  BY <1>f DEF RetryReservation, IInv, TypeOK, HeldBelowWatermark, OpenReadIsCurrent, ReservedOnce
<1>g. ASSUME NEW w \in Writers, FailReservation(w) PROVE IInv'
  BY <1>g, Zenon DEF FailReservation, IInv, TypeOK, HeldBelowWatermark, OpenReadIsCurrent, ReservedOnce
<1>h. ASSUME NEW candidate \in Ids, ObserveMax(candidate) PROVE IInv'
  <2>1. maxFileId' \in Ids /\ maxFileId' >= maxFileId /\ maxFileId \in Int
    BY <1>h DEF ObserveMax, SetWatermark, IInv, TypeOK, Ids, Absent
  <2>2. TypeOK'
    BY <1>h, <2>1, Zenon DEF ObserveMax, SetWatermark, IInv, TypeOK
  <2>3. HeldBelowWatermark'
    BY <1>h, <2>1 DEF ObserveMax, IInv, TypeOK, HeldBelowWatermark, Ids
  <2>4. OpenReadIsCurrent' /\ ReservedOnce'
    BY <1>h, Zenon DEF ObserveMax, SetWatermark, IInv, TypeOK, OpenReadIsCurrent, ReservedOnce
  <2> QED BY <2>2, <2>3, <2>4, Zenon DEF IInv
<1>i. CASE UNCHANGED vars
  BY <1>i, Zenon DEF vars, IInv, TypeOK, HeldBelowWatermark, OpenReadIsCurrent, ReservedOnce
<1> QED
  BY <1>a, <1>b, <1>d, <1>e, <1>f, <1>g, <1>h, <1>i, Zenon DEF Next, Step

\* The inductive invariant holds in every reachable state.
LEMMA Invariance == Spec => []IInv
<1>1. Init /\ [][Next]_vars => []IInv
  BY InitInv, NextInv, PTL
<1> QED BY <1>1, PTL DEF Spec

\* Type correctness of the reservation protocol (reserve_file_id_range): the
\* watermark and every reserved id fit into 64 bits.
THEOREM TypeCorrect == Spec => []TypeOK
  BY Invariance, PTL DEF IInv

\* reserve_mutation_file_ids never hands one id to two writers, except for the
\* saturated last id, for any number of writers, conflicts and lost replies.
THEOREM ReservedOnceHolds == Spec => []ReservedOnce
  BY Invariance, PTL DEF IInv

\* The plain set of the watermark never undoes a ByteMax of another commit.
THEOREM WatermarkMonotone == Spec => WatermarkNeverFalls
<1>1. IInv /\ [Next]_vars => [maxFileId' >= maxFileId]_vars
  <2> SUFFICES ASSUME IInv, Next PROVE maxFileId' >= maxFileId
    BY Zenon
  <2> USE FileIdsAssumption
  <2>1. maxFileId \in Int
    BY DEF IInv, TypeOK, Ids, Absent
  <2>2. ASSUME NEW w \in Writers, phase[w] = "open", ~stale[w],
               SetWatermark(LastId(current[w], count[w]))
        PROVE  maxFileId' >= maxFileId
    <3>1. /\ current[w] = maxFileId /\ count[w] \in Nat /\ count[w] >= 1
          /\ maxFileId \in Ids \cup {Absent}
          /\ LastId(maxFileId, count[w]) <= MaxU64
      BY <2>2 DEF IInv, TypeOK, OpenReadIsCurrent
    <3> QED BY <2>2, <3>1, RangeLemma, Zenon DEF SetWatermark
  <2>3. ASSUME NEW candidate \in Ids, ObserveMax(candidate) PROVE maxFileId' >= maxFileId
    BY <2>1, <2>3 DEF ObserveMax, SetWatermark, Ids
  <2> QED
    BY <2>1, <2>2, <2>3
    DEF Next, Step, Propose, ReadWatermark, Commit, RetryReservation, LoseReply, FailReservation
<1>2. [][Next]_vars /\ []IInv => WatermarkNeverFalls
  BY <1>1, PTL DEF WatermarkNeverFalls
<1> QED BY <1>2, Invariance, PTL DEF Spec

\* The optimistic reservation transactions implement the atomic allocator: every
\* step grants a set of ids nobody holds (save the saturated one) or grants nothing.
THEOREM ImplementsAllocator == Spec => AllocatorSpec
<1>1. Init => Allocator!Init
  BY Zenon DEF Init, Allocator!Init
<1>2. IInv /\ [Next]_vars => [Allocator!Next]_granted
  <2> SUFFICES ASSUME IInv, Next PROVE Allocator!Next \/ granted' = granted
    BY Zenon DEF vars
  <2> USE FileIdsAssumption
  <2>1. ASSUME NEW w \in Writers, Commit(w) PROVE Allocator!Grant(w)
    <3>1. /\ current[w] = maxFileId /\ count[w] \in Nat /\ count[w] >= 1
          /\ maxFileId \in Ids \cup {Absent}
          /\ LastId(maxFileId, count[w]) <= MaxU64
      BY <2>1 DEF Commit, IInv, TypeOK, OpenReadIsCurrent
    <3>2. /\ ReservedRange(w) \subseteq Ids
          /\ \A i \in ReservedRange(w) : i > maxFileId \/ i = MaxU64
      BY <3>1, RangeLemma, Zenon DEF ReservedRange
    <3>3. FirstId(current[w]) \in ReservedRange(w)
      BY <3>1 DEF ReservedRange, FirstId, LastId, Ids, Absent
    <3>4. ReservedRange(w) \subseteq Allocator!Ids \ (Allocator!Held \ {MaxU64})
      <4> SUFFICES ASSUME NEW i \in ReservedRange(w), i \in Allocator!Held
                   PROVE  i = MaxU64
        BY <3>2, Zenon DEF Allocator!Ids, Ids
      <4>1. PICK v \in Writers : i \in granted[v]
        BY Zenon DEF Allocator!Held
      <4>2. i <= maxFileId /\ i \in Int
        BY <4>1 DEF IInv, TypeOK, HeldBelowWatermark, Ids
      <4> QED BY <3>1, <3>2, <4>2 DEF Ids, Absent
    <3> QED BY <2>1, <3>3, <3>4, Zenon DEF Commit, Allocator!Grant
  <2> QED
    BY <2>1, Zenon DEF Next, Step, Propose, ReadWatermark, RetryReservation, LoseReply, FailReservation,
                ObserveMax, Allocator!Next
<1>3. Init /\ [][Next]_vars /\ []IInv => Allocator!Spec
  BY <1>1, <1>2, PTL DEF Allocator!Spec
<1> QED BY <1>3, Invariance, PTL DEF Spec, AllocatorSpec
=============================================================================
