-------------------------- MODULE ReadContextProofs --------------------------
(***************************************************************************)
(* For any number of contexts, workers, leases and commits: a context is   *)
(* answered for one snapshot that includes its own commits, and a worker   *)
(* that waits for a capture waits for a worker that builds it.             *)
(***************************************************************************)
EXTENDS ReadContext, TLAPS

-----------------------------------------------------------------------------
(* The inductive invariant *)

ReadPcs == {"latest", "version", "pin", "waiting", "building", "read", "finish", "again"}

\* The fields of a read request; what it has read and what it will cache do not matter.
IsRead(r) ==
    /\ DOMAIN r = {"pc", "ctx", "op", "asked", "version", "latest", "at", "value", "fill", "retried"}
    /\ r.pc \in ReadPcs
    /\ r.ctx \in Contexts
    /\ r.op \in Ops
    /\ r.asked \in Nat /\ r.version \in Int /\ r.latest \in Int /\ r.at \in Int

IsMutation(r) ==
    /\ DOMAIN r = {"pc", "ctx", "op"}
    /\ r.pc \in {"commit", "leave"}
    /\ r.op = "mutation"

Commits == [kind : Kinds, catalog : Nat]

TypeOK ==
    /\ log \in Seq(Commits)
    /\ pin \in [Contexts -> Int]
    /\ lease \in [Contexts -> Int]
    /\ own \in [Contexts -> Nat]
    /\ seen \in [Contexts -> SUBSET Int]
    /\ DOMAIN request = Workers
    /\ \A w \in Workers : request[w] = Idle \/ IsRead(request[w]) \/ IsMutation(request[w])

\* While a mutation runs, its context has no other request.
MutationAlone ==
    \A v, w \in Workers :
        /\ IsMutation(request[w]) /\ request[v].pc # "idle"
        /\ request[v].ctx = request[w].ctx
        => v = w

\* A request knows no other latest snapshot than the pinned one, and no answer was
\* given for another.
LatestIsPinned ==
    /\ \A w \in Workers : IsRead(request[w]) /\ request[w].latest # None =>
          request[w].latest = pin[request[w].ctx]
    /\ \A c \in Contexts : seen[c] \subseteq {pin[c]} \ {None}

\* No mutation of the context is running.
Settled(c) == \A w \in InContext(c) : request[w].op # "mutation"

\* What a settled context may pin, has leased or has pinned includes its commits.
VersionsHaveOwn ==
    /\ \A c \in Contexts : own[c] <= Len(log)
    /\ \A c \in Contexts : Settled(c) =>
          /\ pin[c] # None => pin[c] >= own[c]
          /\ lease[c] \in Orders => lease[c] >= own[c]
    /\ \A w \in Workers : IsRead(request[w]) /\ request[w].pc \in {"latest", "pin"} =>
          request[w].version >= own[request[w].ctx]

\* WaitersHaveBuilder, without flights.
BuildersExist ==
    \A w \in Workers : request[w].pc = "waiting" =>
        \E v \in Workers : /\ request[v].pc = "building"
                           /\ request[v].ctx = request[w].ctx /\ request[v].at = request[w].at

IInv == TypeOK /\ MutationAlone /\ LatestIsPinned /\ VersionsHaveOwn /\ BuildersExist

-----------------------------------------------------------------------------
(* Steps of one read request *)

\* What the steps of a read request have in common: w's request in context c becomes q.
ReadStep(w, c, q) ==
    /\ request' = [request EXCEPT ![w] = q]
    /\ \/ request[w] = Idle /\ Settled(c)
       \/ IsRead(request[w]) /\ request[w].ctx = c /\ request[w].pc \notin {"building", "waiting"}
    /\ \/ q = Idle
       \/ /\ IsRead(q) /\ q.ctx = c
          /\ q.latest # None => q.latest = pin'[c]
          /\ q.pc \in {"latest", "pin"} => q.version >= own[c]
          /\ q.pc = "waiting" => Flight(c, q.at) # {}
    /\ \/ pin' = pin
       \/ pin[c] = None /\ \E p \in Int : p >= own[c] /\ pin' = [pin EXCEPT ![c] = p]
    /\ \/ lease' = lease
       \/ \E v \in Int : v >= own[c] /\ lease' = [lease EXCEPT ![c] = v]
    /\ \/ seen' = seen
       \/ pin[c] # None /\ seen' = [seen EXCEPT ![c] = @ \cup {pin[c]}]
    /\ UNCHANGED <<log, own>>

LEMMA RequestKinds ==
    ASSUME TypeOK, NEW w \in Workers
    PROVE  /\ request[w].pc = "idle" <=> request[w] = Idle
           /\ request[w].pc \in ReadPcs <=> IsRead(request[w])
           /\ request[w].pc \in {"commit", "leave"} <=> IsMutation(request[w])
           /\ IsRead(request[w]) => request[w].op # "mutation"
<1>1. "mutation" \notin Ops
  BY ReadContextAssumption, Zenon DEF KindRead
<1> QED
  BY <1>1 DEF TypeOK, IsRead, IsMutation, Idle, ReadPcs

LEMMA ReadStepPreserves ==
    ASSUME IInv, NEW w \in Workers, NEW c \in Contexts, NEW q, ReadStep(w, c, q)
    PROVE  IInv'
<1>1. \A v \in Workers : request'[v] = IF v = w THEN q ELSE request[v]
  BY Zenon DEF ReadStep, IInv, TypeOK
<1>2. TypeOK'
  <2>2. DOMAIN request' = Workers
    BY Zenon DEF ReadStep, IInv, TypeOK
  <2>3. \A v \in Workers : request'[v] = Idle \/ IsRead(request'[v]) \/ IsMutation(request'[v])
    BY <1>1, Zenon DEF ReadStep, IInv, TypeOK
  <2>4. pin' \in [Contexts -> Int] /\ lease' \in [Contexts -> Int]
    BY Zenon DEF ReadStep, IInv, TypeOK
  <2>5. seen' \in [Contexts -> SUBSET Int]
    <3>1. pin[c] \in Int /\ seen[c] \cup {pin[c]} \in SUBSET Int
      BY Zenon DEF IInv, TypeOK
    <3> QED
      BY <3>1, ZenonT(30) DEF ReadStep, IInv, TypeOK
  <2> QED
    BY <2>2, <2>3, <2>4, <2>5, Zenon DEF ReadStep, IInv, TypeOK, IsRead, IsMutation
<1>3. MutationAlone'
  <2>2. ~ IsMutation(q)
    BY DEF ReadStep, IsRead, IsMutation, Idle
  <2>3. ASSUME NEW v \in Workers, IsMutation(request[v]), v # w
        PROVE  request[v].ctx # c
    <3>1. CASE request[w] = Idle /\ Settled(c)
      BY <2>3, <3>1, Zenon DEF Settled, InContext, IsMutation
    <3>2. CASE IsRead(request[w]) /\ request[w].ctx = c
      BY <2>3, <3>2, Zenon DEF IInv, MutationAlone, IsRead, ReadPcs
    <3> QED
      BY <3>1, <3>2, Zenon DEF ReadStep
  <2>4. q.pc = "idle" \/ q.ctx = c
    BY DEF ReadStep, Idle
  <2>5. ASSUME NEW v \in Workers, NEW x \in Workers,
               IsMutation(request'[x]), request'[v].pc # "idle", request'[v].ctx = request'[x].ctx
        PROVE  v = x
    <3>1. x # w /\ request'[x] = request[x]
      BY <1>1, <2>2, <2>5, Zenon
    <3>2. CASE v = w
      BY <1>1, <2>3, <2>4, <2>5, <3>1, <3>2, Zenon
    <3>3. CASE v # w
      BY <1>1, <2>5, <3>1, <3>3, Zenon DEF IInv, MutationAlone
    <3> QED
      BY <3>2, <3>3, Zenon
  <2> QED
    BY <2>5, Zenon DEF MutationAlone, IsMutation
<1>4. LatestIsPinned'
  <2>2. \A d \in Contexts : d # c \/ pin[c] # None => pin'[d] = pin[d]
    BY Zenon DEF ReadStep, IInv, TypeOK
  <2>3. ASSUME NEW v \in Workers, IsRead(request'[v]), request'[v].latest # None
        PROVE  request'[v].latest = pin'[request'[v].ctx]
    <3>1. CASE v = w
      BY <1>1, <2>3, <3>1 DEF ReadStep, IsRead, Idle
    <3>2. CASE v # w
      BY <1>1, <2>2, <2>3, <3>2 DEF IInv, LatestIsPinned, IsRead
    <3> QED
      BY <3>1, <3>2, Zenon
  <2>4. ASSUME NEW d \in Contexts
        PROVE  seen'[d] \subseteq {pin'[d]} \ {None}
    <3>1. seen[d] \subseteq {pin[d]} \ {None}
      BY Zenon DEF IInv, LatestIsPinned
    <3>2. CASE seen' = seen
      BY <2>2, <3>1, <3>2, Zenon
    <3>3. CASE pin[c] # None /\ seen' = [seen EXCEPT ![c] = @ \cup {pin[c]}]
      <4>1. seen'[d] = IF d = c THEN seen[c] \cup {pin[c]} ELSE seen[d]
        BY <3>3, Zenon DEF IInv, TypeOK
      <4> QED
        BY <2>2, <3>1, <3>3, <4>1, Zenon
    <3> QED
      BY <3>2, <3>3, Zenon DEF ReadStep
  <2> QED
    BY <2>3, <2>4, Zenon DEF LatestIsPinned, IsRead
<1>5. \A d \in Contexts : Settled(d)' => Settled(d)
  <2>2. request[w].pc = "idle" \/ request[w].op # "mutation"
    BY RequestKinds, Zenon DEF ReadStep, IInv
  <2> QED
    BY <1>1, <2>2, Zenon DEF Settled, InContext
<1>6. VersionsHaveOwn'
  <2>2. ASSUME NEW d \in Contexts, Settled(d)'
        PROVE  /\ pin'[d] # None => pin'[d] >= own'[d]
               /\ lease'[d] \in Orders => lease'[d] >= own'[d]
    <3>1. Settled(d)
      BY <2>2, <1>5, Zenon
    <3>2. /\ pin[d] # None => pin[d] >= own[d]
          /\ lease[d] \in Orders => lease[d] >= own[d]
      BY <3>1, Zenon DEF IInv, VersionsHaveOwn
    <3> QED
      BY <3>2, Zenon DEF ReadStep, IInv, TypeOK
  <2>3. ASSUME NEW v \in Workers, IsRead(request'[v]), request'[v].pc \in {"latest", "pin"}
        PROVE  request'[v].version >= own'[request'[v].ctx]
    <3>1. CASE v = w
      BY <1>1, <2>3, <3>1 DEF ReadStep, Idle
    <3>2. CASE v # w
      BY <1>1, <2>3, <3>2, Zenon DEF ReadStep, IInv, VersionsHaveOwn
    <3> QED
      BY <3>1, <3>2, Zenon
  <2>4. \A d \in Contexts : own'[d] <= Len(log')
    BY Zenon DEF ReadStep, IInv, VersionsHaveOwn
  <2> QED
    BY <2>2, <2>3, <2>4, Zenon DEF VersionsHaveOwn, IsRead, Orders
<1>7. BuildersExist'
  <2>2. request[w].pc \notin {"building", "waiting"}
    BY DEF ReadStep, Idle
  <2>3. ASSUME NEW d, NEW order, Flight(d, order) # {}
        PROVE  \E b \in Workers :
                  request[b].pc = "building" /\ request[b].ctx = d /\ request[b].at = order
    BY <2>3 DEF Flight, IInv, BuildersExist
  <2>4. ASSUME NEW v \in Workers, request'[v].pc = "waiting"
        PROVE  Flight(request'[v].ctx, request'[v].at) # {}
    <3>1. CASE v = w
      BY <1>1, <2>4, <3>1 DEF ReadStep, Idle
    <3>2. CASE v # w
      BY <1>1, <2>4, <3>2, Zenon DEF Flight
    <3> QED
      BY <3>1, <3>2, Zenon
  <2>5. ASSUME NEW v \in Workers, request'[v].pc = "waiting"
        PROVE  \E b \in Workers : /\ request'[b].pc = "building"
                                  /\ request'[b].ctx = request'[v].ctx /\ request'[b].at = request'[v].at
    <3>1. PICK b \in Workers : /\ request[b].pc = "building"
                               /\ request[b].ctx = request'[v].ctx /\ request[b].at = request'[v].at
      BY <2>3, <2>4, <2>5
    <3> QED
      BY <1>1, <2>2, <3>1, Zenon
  <2> QED
    BY <2>5, Zenon DEF BuildersExist
<1> QED
  BY <1>2, <1>3, <1>4, <1>6, <1>7, Zenon DEF IInv

-----------------------------------------------------------------------------
(* The actions that are such steps *)

\* A version chosen for a settled context includes its commits.
LEMMA VersionForHasOwn ==
    ASSUME IInv, NEW c \in Contexts, Settled(c)
    PROVE  /\ VersionFor(c) \in Int
           /\ VersionFor(c) >= own[c]
           /\ \/ LeaseAfter(c) = lease
              \/ LeaseAfter(c) = [lease EXCEPT ![c] = VersionFor(c)]
<1>1. Len(log) \in Nat /\ own[c] <= Len(log) /\ lease[c] \in Int
  BY DEF IInv, TypeOK, VersionsHaveOwn
<1>2. lease[c] \in Orders => lease[c] >= own[c]
  BY Zenon DEF IInv, VersionsHaveOwn
<1> QED
  BY <1>1, <1>2 DEF VersionFor, LeaseAfter, IInv, TypeOK

\* A context in which a read runs is settled.
LEMMA ReaderIsSettled ==
    ASSUME IInv, NEW w \in Workers, IsRead(request[w])
    PROVE  request[w].ctx \in Contexts /\ Settled(request[w].ctx)
<1>1. request[w].ctx \in Contexts /\ request[w].pc # "idle"
  BY Zenon DEF IsRead, ReadPcs
<1>2. ASSUME NEW v \in Workers, request[v].pc # "idle", request[v].ctx = request[w].ctx,
             request[v].op = "mutation"
      PROVE  FALSE
  <2>1. IsMutation(request[v])
    BY <1>2, RequestKinds, Zenon DEF IInv, TypeOK
  <2>2. v = w
    BY <1>1, <1>2, <2>1, Zenon DEF IInv, MutationAlone
  <2> QED
    BY <2>1, <2>2, Zenon DEF IsRead, IsMutation, ReadPcs
<1> QED
  BY <1>1, <1>2, Zenon DEF Settled, InContext

\* What a request becomes once it knows the snapshot of its context.
LEMMA ResolvedRequest ==
    ASSUME NEW r, IsRead(r), NEW latest \in Int
    PROVE  /\ IsRead(Resolved(r, latest))
           /\ Resolved(r, latest).ctx = r.ctx
           /\ Resolved(r, latest).latest = latest
           /\ Resolved(r, latest).pc \in {"read", "waiting", "building"}
           /\ Resolved(r, latest).pc = "waiting" => Flight(r.ctx, Resolved(r, latest).at) # {}
<1>1. resolve_snapshot(r, latest) \in Int
  BY DEF resolve_snapshot, Min2, IsRead
<1>2. NeedsCapture(r, latest) => resolve_snapshot(r, latest) = latest
  BY DEF NeedsCapture, resolve_snapshot, Min2, IsRead
<1> DEFINE pcNow == IF ~NeedsCapture(r, latest) THEN "read"
                    ELSE IF Flight(r.ctx, latest) # {} THEN "waiting"
                    ELSE "building"
<1>3. pcNow \in {"read", "waiting", "building"}
  BY Zenon
<1>4. Resolved(r, latest) =
        [r EXCEPT !.latest = latest, !.at = resolve_snapshot(r, latest), !.pc = pcNow]
  BY Zenon DEF Resolved
<1>5. pcNow = "waiting" => NeedsCapture(r, latest) /\ Flight(r.ctx, latest) # {}
  BY Zenon
<1> HIDE DEF pcNow
<1> QED
  BY <1>1, <1>2, <1>3, <1>4, <1>5, Zenon DEF IsRead, ReadPcs

\* An answer is the end of a request, for the pinned snapshot or for an unknown one.
LEMMA GiveStep ==
    ASSUME IInv, NEW w \in Workers, NEW c \in Contexts, NEW r, NEW value, Give(w, r, value),
           \/ request[w] = Idle /\ Settled(c)
           \/ IsRead(request[w]) /\ request[w].ctx = c /\ request[w].pc \notin {"building", "waiting"},
           r.ctx = c, r.latest # None => r.latest = pin[c],
           UNCHANGED <<log, pin, lease, own>>
    PROVE  ReadStep(w, c, Idle)
<1>1. \/ seen' = seen
      \/ pin[c] # None /\ seen' = [seen EXCEPT ![c] = @ \cup {pin[c]}]
  <2>1. CASE r.latest = None
    BY <2>1, Zenon DEF Give, IInv, TypeOK
  <2>2. CASE r.latest # None
    BY <2>2, Zenon DEF Give, IInv, TypeOK
  <2> QED
    BY <2>1, <2>2, Zenon
<1> QED
  BY <1>1, Zenon DEF ReadStep, Give

\* The first step of a request, and of one that is repeated.
LEMMA BeginStep ==
    ASSUME IInv, NEW w \in Workers, NEW c \in Contexts, NEW r, Begin(w, r),
           \/ request[w] = Idle
           \/ IsRead(request[w]) /\ request[w].ctx = c /\ request[w].pc = "again",
           Settled(c), r.ctx = c, IsRead([r EXCEPT !.pc = "again"]),
           r.latest # None => r.latest = pin[c],
           UNCHANGED <<log, pin, own>>
    PROVE  \E q : ReadStep(w, c, q)
<1> DEFINE version == VersionFor(c)
           listing == [[r EXCEPT !.version = version] EXCEPT !.pc = "latest"]
           other   == [[r EXCEPT !.version = version] EXCEPT !.pc = "pin"]
           known   == [r EXCEPT !.latest = pin[c], !.pc = "version"]
<1>1. /\ version \in Int /\ version >= own[c]
      /\ LeaseAfter(c) = lease \/ LeaseAfter(c) = [lease EXCEPT ![c] = version]
  BY VersionForHasOwn, Zenon
<1>2. pin[c] \in Int
  BY Zenon DEF IInv, TypeOK
<1> HIDE DEF version
<1>3. CASE \E value, at : Give(w, [r EXCEPT !.latest = pin[c], !.at = at], value) /\ UNCHANGED lease
  <2>1. PICK value, at : Give(w, [r EXCEPT !.latest = pin[c], !.at = at], value) /\ UNCHANGED lease
    BY <1>3, Zenon
  <2>2. /\ [r EXCEPT !.latest = pin[c], !.at = at].ctx = c
        /\ [r EXCEPT !.latest = pin[c], !.at = at].latest = pin[c]
    BY Zenon DEF IsRead
  <2> QED
    BY <2>1, <2>2, GiveStep, Zenon
<1>4. CASE /\ request' = [request EXCEPT ![w] = listing] /\ UNCHANGED <<wrong, seen>>
           /\ lease' = LeaseAfter(c)
  <2>1. /\ IsRead(listing) /\ listing.ctx = c /\ listing.latest = r.latest
        /\ listing.version = version /\ listing.pc = "latest"
    BY <1>1, Zenon DEF IsRead, ReadPcs
  <2> HIDE DEF listing
  <2>2. ReadStep(w, c, listing)
    BY <1>1, <1>4, <2>1, Zenon DEF ReadStep
  <2> QED
    BY <2>2, Zenon
<1>5. CASE /\ request' = [request EXCEPT ![w] = known] /\ UNCHANGED <<wrong, seen>>
           /\ UNCHANGED lease
  <2>1. /\ IsRead(known) /\ known.ctx = c /\ known.latest = pin[c] /\ known.pc = "version"
    BY <1>2, Zenon DEF IsRead, ReadPcs
  <2> HIDE DEF known
  <2>2. ReadStep(w, c, known)
    BY <1>5, <2>1, Zenon DEF ReadStep
  <2> QED
    BY <2>2, Zenon
<1>6. CASE /\ request' = [request EXCEPT ![w] = other] /\ UNCHANGED <<wrong, seen>>
           /\ lease' = LeaseAfter(c)
  <2>1. /\ IsRead(other) /\ other.ctx = c /\ other.latest = r.latest
        /\ other.version = version /\ other.pc = "pin"
    BY <1>1, Zenon DEF IsRead, ReadPcs
  <2> HIDE DEF other
  <2>2. ReadStep(w, c, other)
    BY <1>1, <1>6, <2>1, Zenon DEF ReadStep
  <2> QED
    BY <2>2, Zenon
<1> QED
  BY <1>3, <1>4, <1>5, <1>6, Zenon DEF Begin, version

LEMMA StartStep ==
    ASSUME IInv, NEW w \in Workers, NEW c \in Contexts, NEW op \in Ops,
           NEW asked \in SnapshotIds[op], Start(w, c, op, asked)
    PROVE  \E q : ReadStep(w, c, q)
<1> DEFINE r == [pc |-> "begin", ctx |-> c, op |-> op, asked |-> asked, version |-> None,
                 latest |-> None, at |-> None, value |-> {}, fill |-> {}, retried |-> FALSE]
<1>1. asked \in Nat
  BY ReadContextAssumption, Zenon
<1>2. /\ IsRead([r EXCEPT !.pc = "again"]) /\ r.ctx = c /\ r.latest = None
  BY <1>1 DEF IsRead, ReadPcs, None
<1>3. Begin(w, r) /\ UNCHANGED <<log, pin, own>>
  BY Zenon DEF Start
<1>4. request[w] = Idle /\ Settled(c)
  BY RequestKinds, Zenon DEF Start, Settled, IInv
<1> HIDE DEF r
<1> QED
  BY <1>2, <1>3, <1>4, BeginStep, Zenon

\* Reads end with an answer, with a failure, or go on to fill the caches.
LEMMA ReadAnswerStep ==
    ASSUME IInv, NEW w \in Workers, IsRead(request[w]), request[w].pc \in {"read", "finish"},
           \/ \E value : Give(w, request[w], value)
           \/ \E value, fill : ToFinish(w, request[w], value, fill)
           \/ Fail(w) /\ UNCHANGED <<wrong, seen>>,
           UNCHANGED <<log, pin, lease, own>>
    PROVE  \E c \in Contexts : \E q : ReadStep(w, c, q)
<1> DEFINE c == request[w].ctx
           r == request[w]
<1>1. c \in Contexts
  BY Zenon DEF IsRead
<1>2. r.latest # None => r.latest = pin[c]
  BY Zenon DEF IInv, LatestIsPinned
<1>3. CASE \E value : Give(w, r, value)
  <2>1. ReadStep(w, c, Idle)
    BY <1>1, <1>2, <1>3, GiveStep, Zenon
  <2> QED
    BY <1>1, <2>1, Zenon
<1>4. CASE \E value, fill : ToFinish(w, r, value, fill)
  <2>1. PICK value, fill : ToFinish(w, r, value, fill)
    BY <1>4, Zenon
  <2> DEFINE q == [r EXCEPT !.pc = "finish", !.value = value, !.fill = fill]
  <2>2. /\ IsRead(q) /\ q.ctx = c /\ q.latest = r.latest /\ q.pc = "finish"
    BY Zenon DEF IsRead, ReadPcs
  <2>3. request' = [request EXCEPT ![w] = q] /\ UNCHANGED seen
    BY <2>1, Zenon DEF ToFinish
  <2> HIDE DEF q
  <2>4. ReadStep(w, c, q)
    BY <1>2, <2>2, <2>3, Zenon DEF ReadStep
  <2> QED
    BY <1>1, <2>4, Zenon
<1>5. CASE Fail(w) /\ UNCHANGED <<wrong, seen>>
  <2>1. ReadStep(w, c, Idle)
    BY <1>5, Zenon DEF ReadStep, Fail
  <2> QED
    BY <1>1, <2>1, Zenon
<1> QED
  BY <1>3, <1>4, <1>5, Zenon

\* One case for each action of a request that neither builds a capture nor is too old.
LEMMA ReadActionStep ==
    ASSUME IInv, NEW w \in Workers,
           Retry(w) \/ FetchVersion(w) \/ FindSnapshot(w) \/ Pin(w) \/ Read(w) \/ Finish(w)
    PROVE  \E c \in Contexts : \E q : ReadStep(w, c, q)
<1>1. CASE Retry(w)
  <2> USE <1>1
  <2>1. IsRead(request[w]) /\ request[w].pc = "again"
    BY RequestKinds, Zenon DEF Retry, ReadPcs, IInv
  <2>2. request[w].ctx \in Contexts /\ Settled(request[w].ctx)
    BY <2>1, ReaderIsSettled, Zenon
  <2>3. IsRead([request[w] EXCEPT !.pc = "again"])
    BY <2>1, Zenon DEF IsRead, ReadPcs
  <2>4. request[w].latest # None => request[w].latest = pin[request[w].ctx]
    BY <2>1, Zenon DEF IInv, LatestIsPinned
  <2>5. Begin(w, request[w]) /\ UNCHANGED <<log, pin, own>>
    BY Zenon DEF Retry
  <2> QED
    BY <2>1, <2>2, <2>3, <2>4, <2>5, BeginStep, Zenon
<1>2. CASE FetchVersion(w)
  <2> USE <1>2
  <2> DEFINE c == request[w].ctx
             r == [request[w] EXCEPT !.version = VersionFor(c)]
             q == Resolved(r, request[w].latest)
  <2>1. IsRead(request[w]) /\ request[w].pc = "version"
    BY RequestKinds, Zenon DEF FetchVersion, ReadPcs, IInv
  <2>2. c \in Contexts /\ Settled(c)
    BY <2>1, ReaderIsSettled, Zenon
  <2>3. /\ VersionFor(c) \in Int /\ VersionFor(c) >= own[c]
        /\ LeaseAfter(c) = lease \/ LeaseAfter(c) = [lease EXCEPT ![c] = VersionFor(c)]
    BY <2>2, VersionForHasOwn, Zenon
  <2>4. IsRead(r) /\ r.ctx = c /\ request[w].latest \in Int
    BY <2>1, <2>3, Zenon DEF IsRead
  <2>5. request[w].latest # None => request[w].latest = pin[c]
    BY <2>1, Zenon DEF IInv, LatestIsPinned
  <2>6. /\ request' = [request EXCEPT ![w] = q] /\ lease' = LeaseAfter(c)
        /\ UNCHANGED <<log, pin, seen, own>>
    BY Zenon DEF FetchVersion
  <2> HIDE DEF r
  <2>7. /\ IsRead(q) /\ q.ctx = c /\ q.latest = request[w].latest
        /\ q.pc \in {"read", "waiting", "building"}
        /\ q.pc = "waiting" => Flight(c, q.at) # {}
    BY <2>4, ResolvedRequest, Zenon
  <2> HIDE DEF q
  <2>8. ReadStep(w, c, q)
    BY <2>1, <2>3, <2>5, <2>6, <2>7, Zenon DEF ReadStep
  <2> QED
    BY <2>2, <2>8, Zenon
<1>3. CASE FindSnapshot(w)
  <2> USE <1>3
  <2> DEFINE c == request[w].ctx
             r == request[w]
             later == [r EXCEPT !.pc = "pin"]
  <2>1. IsRead(r) /\ r.pc = "latest"
    BY RequestKinds, Zenon DEF FindSnapshot, ReadPcs, IInv
  <2>2. c \in Contexts /\ pin[c] \in Int
    BY <2>1, Zenon DEF IsRead, IInv, TypeOK
  <2>3. UNCHANGED <<log, pin, lease, seen, own>>
    BY Zenon DEF FindSnapshot
  <2>4. CASE request' = [request EXCEPT ![w] = Resolved(r, pin[c])]
    <3> DEFINE q == Resolved(r, pin[c])
    <3>1. /\ IsRead(q) /\ q.ctx = c /\ q.latest = pin[c]
          /\ q.pc \in {"read", "waiting", "building"}
          /\ q.pc = "waiting" => Flight(c, q.at) # {}
      BY <2>1, <2>2, ResolvedRequest, Zenon
    <3>2. request' = [request EXCEPT ![w] = q]
      BY <2>4, Zenon
    <3> HIDE DEF q
    <3>3. ReadStep(w, c, q)
      BY <2>1, <2>3, <3>1, <3>2, Zenon DEF ReadStep
    <3> QED
      BY <2>2, <3>3, Zenon
  <2>5. CASE request' = [request EXCEPT ![w].pc = "pin"]
    <3>1. request' = [request EXCEPT ![w] = later]
      BY <2>5, Zenon
    <3>2. /\ IsRead(later) /\ later.ctx = c /\ later.latest = r.latest
          /\ later.version = r.version /\ later.pc = "pin"
      BY <2>1, Zenon DEF IsRead, ReadPcs
    <3>3. /\ r.latest # None => r.latest = pin[c]
          /\ r.version >= own[c]
      BY <2>1, Zenon DEF IInv, LatestIsPinned, VersionsHaveOwn
    <3> HIDE DEF later
    <3>4. ReadStep(w, c, later)
      BY <2>1, <2>3, <3>1, <3>2, <3>3, Zenon DEF ReadStep
    <3> QED
      BY <2>2, <3>4, Zenon
  <2> QED
    BY <2>4, <2>5, Zenon DEF FindSnapshot
<1>4. CASE Pin(w)
  <2> USE <1>4
  <2> DEFINE c == request[w].ctx
             r == request[w]
             q == Resolved(r, FirstPinned(r))
  <2>1. IsRead(r) /\ r.pc = "pin"
    BY RequestKinds, Zenon DEF Pin, ReadPcs, IInv
  <2>2. c \in Contexts /\ pin[c] \in Int /\ own[c] \in Nat
    BY <2>1, Zenon DEF IsRead, IInv, TypeOK
  <2>3. r.version \in Int /\ r.version >= own[c]
    BY <2>1, Zenon DEF IsRead, IInv, VersionsHaveOwn
  <2>4. FirstPinned(r) \in Int
    BY <2>2, <2>3, Zenon DEF FirstPinned
  <2>5. /\ pin' = [pin EXCEPT ![c] = FirstPinned(r)]
        /\ request' = [request EXCEPT ![w] = q]
        /\ UNCHANGED <<log, lease, seen, own>>
    BY Zenon DEF Pin
  <2>6. pin'[c] = FirstPinned(r)
    BY <2>2, <2>5, Zenon DEF IInv, TypeOK
  <2>7. \/ pin' = pin
        \/ pin[c] = None /\ \E p \in Int : p >= own[c] /\ pin' = [pin EXCEPT ![c] = p]
    BY <2>2, <2>3, <2>5, Zenon DEF FirstPinned, IInv, TypeOK
  <2>8. /\ IsRead(q) /\ q.ctx = c /\ q.latest = FirstPinned(r)
        /\ q.pc \in {"read", "waiting", "building"}
        /\ q.pc = "waiting" => Flight(c, q.at) # {}
    BY <2>1, <2>4, ResolvedRequest, Zenon
  <2> HIDE DEF q
  <2>9. ReadStep(w, c, q)
    BY <2>1, <2>5, <2>6, <2>7, <2>8, Zenon DEF ReadStep
  <2> QED
    BY <2>2, <2>9, Zenon
<1>5. CASE Read(w) \/ Finish(w)
  <2> USE <1>5
  <2>1. request[w].pc \in {"read", "finish"} /\ UNCHANGED <<log, pin, lease, own>>
    BY Zenon DEF Read, Finish, ReadFiles, ReadPartition, ReadCatalog, ReadTables, ReadInline, Reading
  <2>2. IsRead(request[w])
    BY <2>1, RequestKinds, Zenon DEF ReadPcs, IInv
  <2>3. \/ \E value : Give(w, request[w], value)
        \/ \E value, fill : ToFinish(w, request[w], value, fill)
        \/ Fail(w) /\ UNCHANGED <<wrong, seen>>
    <3>1. CASE ReadFiles(w) \/ ReadPartition(w)
      BY <3>1, Zenon DEF ReadFiles, ReadPartition
    <3>2. CASE ReadCatalog(w)
      BY <3>2, Zenon DEF ReadCatalog
    <3>3. CASE ReadTables(w)
      BY <3>3, Zenon DEF ReadTables
    <3>4. CASE ReadInline(w)
      BY <3>4, Zenon DEF ReadInline
    <3>5. CASE Finish(w)
      BY <3>5, Zenon DEF Finish
    <3> QED
      BY <3>1, <3>2, <3>3, <3>4, <3>5, Zenon DEF Read
  <2> QED
    BY <2>1, <2>2, <2>3, ReadAnswerStep, Zenon
<1> QED
  BY <1>1, <1>2, <1>3, <1>4, <1>5, Zenon

-----------------------------------------------------------------------------
(* Steps that take several requests on: a capture is built, a version is too old *)

\* The reads F go on or end; if one of them builds a capture, they are all that need it.
LeaveStep(F) ==
    /\ \A v \in F : v \in Workers /\ IsRead(request[v])
    /\ DOMAIN request' = Workers
    /\ \A v \in Workers \ F : request'[v] = request[v]
    /\ \A v \in F :
          \/ request'[v] = Idle
          \/ /\ IsRead(request'[v]) /\ request'[v].ctx = request[v].ctx
             /\ request'[v].pc \in {"read", "again"}
             /\ request'[v].latest \in {request[v].latest, None}
    /\ \/ \A v \in F : request[v].pc # "building"
       \/ \E c, order : F = Flight(c, order)
    /\ \/ lease' = lease
       \/ \E c \in Contexts : lease' = [lease EXCEPT ![c] = NoSlot]
    /\ UNCHANGED <<log, pin, seen, own>>

LEMMA LeaveStepPreserves ==
    ASSUME IInv, NEW F, LeaveStep(F)
    PROVE  IInv'
<1>1. ASSUME NEW v \in Workers
      PROVE  \/ request'[v] = request[v]
             \/ request'[v] = Idle /\ IsRead(request[v])
             \/ /\ IsRead(request'[v]) /\ IsRead(request[v])
                /\ request'[v].ctx = request[v].ctx
                /\ request'[v].pc \in {"read", "again"}
                /\ request'[v].latest \in {request[v].latest, None}
  BY Zenon DEF LeaveStep
<1>2. TypeOK'
  <2>1. \A v \in Workers : request'[v] = Idle \/ IsRead(request'[v]) \/ IsMutation(request'[v])
    BY <1>1, Zenon DEF IInv, TypeOK
  <2>2. lease' \in [Contexts -> Int]
    BY DEF LeaveStep, IInv, TypeOK, NoSlot
  <2> QED
    BY <2>1, <2>2, Zenon DEF LeaveStep, IInv, TypeOK, IsRead, IsMutation
<1>3. MutationAlone'
  <2>1. ASSUME NEW v \in Workers, NEW x \in Workers,
               IsMutation(request'[x]), request'[v].pc # "idle", request'[v].ctx = request'[x].ctx
        PROVE  v = x
    <3>1. request'[x] = request[x]
      BY <1>1, <2>1 DEF IsMutation, IsRead, ReadPcs, Idle
    <3>2. request[v].pc # "idle" /\ request[v].ctx = request'[v].ctx
      BY <1>1, <2>1 DEF IsRead, ReadPcs, Idle
    <3> QED
      BY <2>1, <3>1, <3>2, Zenon DEF IInv, MutationAlone
  <2> QED
    BY <2>1, Zenon DEF MutationAlone, IsMutation
<1>4. LatestIsPinned'
  <2>1. ASSUME NEW v \in Workers, IsRead(request'[v]), request'[v].latest # None
        PROVE  request'[v].latest = pin[request'[v].ctx]
    BY <1>1, <2>1 DEF IInv, LatestIsPinned, IsRead, ReadPcs, Idle
  <2> QED
    BY <2>1, Zenon DEF LatestIsPinned, LeaveStep, IInv, IsRead
<1>5. VersionsHaveOwn'
  <2>1. ASSUME NEW d \in Contexts, Settled(d)'
        PROVE  Settled(d)
    <3>1. ASSUME NEW v \in Workers, request[v].pc # "idle", request[v].ctx = d,
                 request[v].op = "mutation"
          PROVE  FALSE
      <4>1. ~ IsRead(request[v])
        BY <3>1, RequestKinds, Zenon DEF IInv
      <4>2. request'[v] = request[v]
        BY <1>1, <4>1, Zenon
      <4> QED
        BY <2>1, <3>1, <4>2, Zenon DEF Settled, InContext
    <3> QED
      BY <3>1, Zenon DEF Settled, InContext
  <2>2. ASSUME NEW d \in Contexts, Settled(d)'
        PROVE  /\ pin[d] # None => pin[d] >= own[d]
               /\ lease'[d] \in Orders => lease'[d] >= own[d]
    <3>1. Settled(d)
      BY <2>1, <2>2, Zenon
    <3>2. /\ pin[d] # None => pin[d] >= own[d]
          /\ lease[d] \in Orders => lease[d] >= own[d]
      BY <3>1, Zenon DEF IInv, VersionsHaveOwn
    <3>3. lease'[d] \in {lease[d], NoSlot}
      BY Zenon DEF LeaveStep, IInv, TypeOK
    <3> QED
      BY <3>2, <3>3 DEF NoSlot, Orders
  <2>3. ASSUME NEW v \in Workers, IsRead(request'[v]), request'[v].pc \in {"latest", "pin"}
        PROVE  request'[v].version >= own[request'[v].ctx]
    BY <1>1, <2>3 DEF IInv, VersionsHaveOwn, Idle
  <2> QED
    BY <2>2, <2>3, Zenon DEF VersionsHaveOwn, LeaveStep, IInv, IsRead, Orders
<1>6. BuildersExist'
  <2>1. ASSUME NEW v \in Workers, request'[v].pc = "waiting"
        PROVE  \E b \in Workers : /\ request'[b].pc = "building"
                                  /\ request'[b].ctx = request'[v].ctx /\ request'[b].at = request'[v].at
    <3>1. v \notin F /\ request'[v] = request[v]
      BY <2>1 DEF LeaveStep, Idle
    <3>2. PICK b \in Workers : /\ request[b].pc = "building"
                               /\ request[b].ctx = request[v].ctx /\ request[b].at = request[v].at
      BY <2>1, <3>1, Zenon DEF IInv, BuildersExist
    <3>3. b \notin F
      BY <2>1, <3>1, <3>2 DEF LeaveStep, Flight
    <3> QED
      BY <3>1, <3>2, <3>3, Zenon DEF LeaveStep
  <2> QED
    BY <2>1, Zenon DEF BuildersExist
<1> QED
  BY <1>2, <1>3, <1>4, <1>5, <1>6, Zenon DEF IInv

LEMMA BuildCaptureStep ==
    ASSUME IInv, NEW w \in Workers, BuildCapture(w)
    PROVE  IInv'
<1> DEFINE F == Flight(request[w].ctx, request[w].at)
<1>1. \A v \in F : v \in Workers /\ IsRead(request[v])
  BY RequestKinds, Zenon DEF Flight, ReadPcs, IInv
<1>2. \/ request' = [v \in Workers |-> IF v \in F THEN [request[v] EXCEPT !.pc = "read"] ELSE request[v]]
      \/ request' = [v \in Workers |-> IF v \in F THEN Idle ELSE request[v]]
  BY Zenon DEF BuildCapture
<1>3. ASSUME NEW v \in F
      PROVE  /\ IsRead([request[v] EXCEPT !.pc = "read"])
             /\ [request[v] EXCEPT !.pc = "read"].ctx = request[v].ctx
             /\ [request[v] EXCEPT !.pc = "read"].pc = "read"
             /\ [request[v] EXCEPT !.pc = "read"].latest = request[v].latest
  BY <1>1, Zenon DEF IsRead, ReadPcs
<1>4. UNCHANGED <<log, pin, lease, seen, own>>
  BY Zenon DEF BuildCapture
<1>5. \E c, order : F = Flight(c, order)
  BY Zenon
<1> HIDE DEF F
<1>6. LeaveStep(F)
  BY <1>1, <1>2, <1>3, <1>4, <1>5, Zenon DEF LeaveStep
<1> QED
  BY <1>6, LeaveStepPreserves, Zenon

LEMMA TooOldStep ==
    ASSUME IInv, NEW w \in Workers, TooOld(w)
    PROVE  IInv'
<1> DEFINE F == FailsWith(w)
           again(q) == [q EXCEPT !.pc = "again", !.version = None, !.latest = None, !.at = None,
                                 !.retried = TRUE]
<1>1. IsRead(request[w])
  BY RequestKinds, Zenon DEF TooOld, ReadPcs, IInv
<1>2. \A v \in F : v \in Workers /\ IsRead(request[v])
  BY <1>1, RequestKinds, Zenon DEF FailsWith, Flight, ReadPcs, IInv
<1>3. /\ request' = [v \in Workers |-> IF v \notin F THEN request[v]
                                       ELSE IF request[v].retried THEN Idle ELSE again(request[v])]
      /\ lease' = [lease EXCEPT ![request[w].ctx] = NoSlot]
      /\ UNCHANGED <<log, pin, seen, own>>
  BY Zenon DEF TooOld
<1>4. \A v \in F : /\ IsRead(again(request[v])) /\ again(request[v]).ctx = request[v].ctx
                   /\ again(request[v]).pc = "again" /\ again(request[v]).latest = None
  BY <1>2 DEF IsRead, ReadPcs, None
<1>5. \/ \A v \in F : request[v].pc # "building"
      \/ \E c, order : F = Flight(c, order)
  BY Zenon DEF FailsWith
<1>6. request[w].ctx \in Contexts
  BY <1>1, Zenon DEF IsRead
<1> HIDE DEF F, again
<1>7. LeaveStep(F)
  BY <1>2, <1>3, <1>4, <1>5, <1>6, Zenon DEF LeaveStep
<1> QED
  BY <1>7, LeaveStepPreserves, Zenon

-----------------------------------------------------------------------------
(* Mutations *)

\* Commits only append.
LEMMA CommitIsAppended ==
    ASSUME log \in Seq(Commits), NEW kind \in Kinds, log' = Append(log, Commit(kind))
    PROVE  /\ log' \in Seq(Commits)
           /\ Len(log) \in Nat /\ Len(log') = Len(log) + 1
           /\ \A i \in 1 .. Len(log) : log'[i] = log[i]
           /\ log'[Len(log')] = Commit(kind)
<1>1. CatalogVersion(Len(log)) \in Nat
  <2>1. Len(log) \in Nat /\ (Len(log) # 0 => log[Len(log)] \in Commits)
    OBVIOUS
  <2> QED
    BY <2>1, Zenon DEF CatalogVersion, Commits
<1>2. PICK commit \in Commits : commit = Commit(kind)
  BY <1>1 DEF Commit, Commits
<1> QED
  BY <1>2

\* The steps of a mutation up to its end: the request of w is the mutation m.
MutationStep(w, m) ==
    /\ request' = [request EXCEPT ![w] = m]
    /\ IsMutation(m)
    /\ \/ request[w] = Idle /\ InContext(m.ctx) = {}
       \/ IsMutation(request[w]) /\ request[w].ctx = m.ctx
    /\ \/ UNCHANGED <<log, own>>
       \/ /\ log' \in Seq(Commits) /\ Len(log') > Len(log)
          /\ own' = [c \in Contexts |-> IF c = m.ctx THEN Len(log') ELSE own[c]]
    /\ UNCHANGED <<pin, lease, seen>>

LEMMA MutationStepPreserves ==
    ASSUME IInv, NEW w \in Workers, NEW m, MutationStep(w, m)
    PROVE  IInv'
<1>1. \A v \in Workers : request'[v] = IF v = w THEN m ELSE request[v]
  BY Zenon DEF MutationStep, IInv, TypeOK
<1>2. /\ IsMutation(m) /\ ~ IsRead(m) /\ m.pc \notin {"idle", "waiting", "building"}
      /\ m.op = "mutation"
  BY Zenon DEF MutationStep, IsMutation, IsRead, ReadPcs
<1>3. request[w].pc \notin {"waiting", "building"}
  BY DEF MutationStep, IsMutation, Idle
<1>4. ASSUME NEW v \in Workers, v # w, request[v].pc # "idle"
      PROVE  request[v].ctx # m.ctx
  <2>1. CASE InContext(m.ctx) = {}
    BY <1>4, <2>1, Zenon DEF InContext
  <2>2. CASE IsMutation(request[w]) /\ request[w].ctx = m.ctx
    BY <1>4, <2>2, Zenon DEF IInv, MutationAlone
  <2> QED
    BY <2>1, <2>2, Zenon DEF MutationStep
<1>5. /\ Len(log) \in Nat /\ Len(log') \in Nat /\ Len(log) <= Len(log')
      /\ \A d \in Contexts : own'[d] = own[d] \/ (d = m.ctx /\ own'[d] = Len(log'))
  BY DEF MutationStep, IInv, TypeOK
<1>6. TypeOK'
  <2>1. \A v \in Workers : request'[v] = Idle \/ IsRead(request'[v]) \/ IsMutation(request'[v])
    BY <1>1, <1>2, Zenon DEF IInv, TypeOK
  <2>2. log' \in Seq(Commits) /\ own' \in [Contexts -> Nat] /\ DOMAIN request' = Workers
    BY <1>5, Zenon DEF MutationStep, IInv, TypeOK
  <2> QED
    BY <2>1, <2>2, Zenon DEF MutationStep, IInv, TypeOK, IsRead, IsMutation
<1>7. MutationAlone'
  <2>1. ASSUME NEW v \in Workers, NEW x \in Workers,
               IsMutation(request'[x]), request'[v].pc # "idle", request'[v].ctx = request'[x].ctx
        PROVE  v = x
    <3>1. CASE x = w
      BY <1>1, <1>4, <2>1, <3>1, Zenon
    <3>2. CASE x # w
      <4>1. request'[x] = request[x] /\ request[x].pc # "idle"
        BY <1>1, <2>1, <3>2, Zenon DEF IsMutation
      <4>2. v # w
        BY <1>1, <1>4, <2>1, <3>2, <4>1, Zenon
      <4> QED
        BY <1>1, <2>1, <4>1, <4>2, Zenon DEF IInv, MutationAlone
    <3> QED
      BY <3>1, <3>2, Zenon
  <2> QED
    BY <2>1, Zenon DEF MutationAlone, IsMutation
<1>8. ASSUME NEW v \in Workers, IsRead(request'[v])
      PROVE  request'[v] = request[v] /\ request[v].ctx # m.ctx /\ request[v].ctx \in Contexts
  <2>1. v # w /\ request'[v] = request[v]
    BY <1>1, <1>2, <1>8, Zenon
  <2>2. request[v].pc # "idle" /\ request[v].ctx \in Contexts
    BY <1>8, <2>1, Zenon DEF IsRead, ReadPcs
  <2> QED
    BY <1>4, <2>1, <2>2, Zenon
<1>9. LatestIsPinned'
  <2>1. ASSUME NEW v \in Workers, IsRead(request'[v]), request'[v].latest # None
        PROVE  request'[v].latest = pin[request'[v].ctx]
    BY <1>8, <2>1, Zenon DEF IInv, LatestIsPinned
  <2> QED
    BY <2>1, Zenon DEF LatestIsPinned, MutationStep, IInv, IsRead
<1>10. VersionsHaveOwn'
  <2>1. ASSUME NEW d \in Contexts, Settled(d)'
        PROVE  d # m.ctx /\ Settled(d)
    BY <1>1, <1>2, <1>4, <2>1 DEF Settled, InContext, MutationStep, IsMutation, Idle
  <2>2. ASSUME NEW d \in Contexts, Settled(d)'
        PROVE  /\ pin[d] # None => pin[d] >= own'[d]
               /\ lease[d] \in Orders => lease[d] >= own'[d]
    BY <1>5, <2>1, <2>2, Zenon DEF IInv, VersionsHaveOwn
  <2>3. ASSUME NEW v \in Workers, IsRead(request'[v]), request'[v].pc \in {"latest", "pin"}
        PROVE  request'[v].version >= own'[request'[v].ctx]
    BY <1>5, <1>8, <2>3 DEF IInv, VersionsHaveOwn
  <2>4. \A d \in Contexts : own'[d] <= Len(log')
    <3>1. \A d \in Contexts : own[d] \in Nat /\ own[d] <= Len(log)
      BY Zenon DEF IInv, TypeOK, VersionsHaveOwn
    <3> QED
      BY <1>5, <3>1
  <2> QED
    BY <2>2, <2>3, <2>4, Zenon DEF VersionsHaveOwn, MutationStep, IsRead, Orders
<1>11. BuildersExist'
  BY <1>1, <1>2, <1>3 DEF IInv, BuildersExist
<1> QED
  BY <1>6, <1>7, <1>9, <1>10, <1>11, Zenon DEF IInv

LEMMA StartMutationStep ==
    ASSUME IInv, NEW w \in Workers, NEW c \in Contexts \cup {NoContext}, StartMutation(w, c)
    PROVE  IInv'
<1> DEFINE m == [pc |-> "commit", ctx |-> c, op |-> "mutation"]
<1>1. IsMutation(m) /\ m.ctx = c
  BY Zenon DEF IsMutation
<1>2. request[w] = Idle
  BY RequestKinds, Zenon DEF StartMutation, IInv
<1>3. request' = [request EXCEPT ![w] = m] /\ InContext(c) = {} /\ UNCHANGED <<log, pin, lease, seen, own>>
  BY Zenon DEF StartMutation
<1> HIDE DEF m
<1>4. MutationStep(w, m)
  BY <1>1, <1>2, <1>3, Zenon DEF MutationStep
<1> QED
  BY <1>4, MutationStepPreserves, Zenon

LEMMA CommitMutationStep ==
    ASSUME IInv, NEW w \in Workers, FailMutation(w) \/ \E kind \in Kinds : CommitMutation(w, kind)
    PROVE  IInv'
<1> DEFINE m == [request[w] EXCEPT !.pc = "leave"]
<1>1. IsMutation(request[w])
  BY RequestKinds, Zenon DEF FailMutation, CommitMutation, IInv
<1>2. IsMutation(m) /\ m.ctx = request[w].ctx
  BY <1>1, Zenon DEF IsMutation
<1>3. request' = [request EXCEPT ![w] = m] /\ UNCHANGED <<pin, lease, seen>>
  BY Zenon DEF FailMutation, CommitMutation
<1>4. \/ UNCHANGED <<log, own>>
      \/ /\ log' \in Seq(Commits) /\ Len(log') > Len(log)
         /\ own' = [c \in Contexts |-> IF c = m.ctx THEN Len(log') ELSE own[c]]
  <2>1. CASE FailMutation(w)
    BY <2>1, Zenon DEF FailMutation
  <2>2. CASE \E kind \in Kinds : CommitMutation(w, kind)
    <3>1. PICK kind \in Kinds : CommitMutation(w, kind)
      BY <2>2, Zenon
    <3>2. log \in Seq(Commits) /\ log' = Append(log, Commit(kind))
      BY <3>1, Zenon DEF CommitMutation, IInv, TypeOK
    <3>3. log' \in Seq(Commits) /\ Len(log') > Len(log)
      BY <3>2, CommitIsAppended
    <3> QED
      BY <1>2, <3>1, <3>3, Zenon DEF CommitMutation
  <2> QED
    BY <2>1, <2>2, Zenon
<1> HIDE DEF m
<1>5. MutationStep(w, m)
  BY <1>1, <1>2, <1>3, <1>4, Zenon DEF MutationStep
<1> QED
  BY <1>5, MutationStepPreserves, Zenon

\* Steps after which some contexts D, where no read runs, know no snapshot any more.
LEMMA ForgetPreserves ==
    ASSUME IInv, NEW D,
           \A v \in Workers : request'[v] = request[v]
                              \/ (request'[v] = Idle /\ IsMutation(request[v]) /\ request[v].ctx \in D),
           DOMAIN request' = Workers,
           \A v \in Workers : IsRead(request[v]) => request[v].ctx \notin D,
           pin' = [d \in Contexts |-> IF d \in D THEN None ELSE pin[d]],
           lease' = [d \in Contexts |-> IF d \in D THEN NoSlot ELSE lease[d]],
           seen' = [d \in Contexts |-> IF d \in D THEN {} ELSE seen[d]],
           own' = own \/ own' = [d \in Contexts |-> IF d \in D THEN 0 ELSE own[d]],
           UNCHANGED log
    PROVE  IInv'
<1>1. ASSUME NEW v \in Workers, request'[v] # Idle
      PROVE  request'[v] = request[v]
  BY <1>1, Zenon
<1>2. ASSUME NEW v \in Workers, IsRead(request[v])
      PROVE  request[v].ctx \in Contexts \ D
  BY <1>2, Zenon DEF IsRead
<1>3. ASSUME NEW v \in Workers, IsRead(request'[v])
      PROVE  request'[v] = request[v] /\ request[v].ctx \in Contexts \ D
  BY <1>1, <1>2, <1>3 DEF IsRead, ReadPcs, Idle
<1>4. \A d \in Contexts : own'[d] \in Nat /\ own'[d] <= own[d]
                          /\ own[d] \in Nat /\ (d \notin D => own'[d] = own[d])
  BY DEF IInv, TypeOK
<1>5. TypeOK'
  <2>1. \A v \in Workers : request'[v] = Idle \/ IsRead(request'[v]) \/ IsMutation(request'[v])
    BY <1>1, Zenon DEF IInv, TypeOK
  <2>2. pin' \in [Contexts -> Int] /\ lease' \in [Contexts -> Int]
    BY DEF IInv, TypeOK, None, NoSlot
  <2>3. seen' \in [Contexts -> SUBSET Int]
    <3>1. \A d \in Contexts : (IF d \in D THEN {} ELSE seen[d]) \in SUBSET Int
      BY Zenon DEF IInv, TypeOK
    <3> QED
      BY <3>1, Zenon
  <2>4. own' \in [Contexts -> Nat]
    <3>1. own \in [Contexts -> Nat]
      BY Zenon DEF IInv, TypeOK
    <3>2. CASE own' = [d \in Contexts |-> IF d \in D THEN 0 ELSE own[d]]
      <4>1. \A d \in Contexts : (IF d \in D THEN 0 ELSE own[d]) \in Nat
        BY <3>1, Zenon
      <4> QED
        BY <3>2, <4>1, Zenon
    <3> QED
      BY <3>1, <3>2, Zenon
  <2> QED
    BY <2>1, <2>2, <2>3, <2>4, Zenon DEF IInv, TypeOK, IsRead, IsMutation
<1>6. MutationAlone'
  <2>1. ASSUME NEW v \in Workers, NEW x \in Workers,
               IsMutation(request'[x]), request'[v].pc # "idle", request'[v].ctx = request'[x].ctx
        PROVE  v = x
    <3>1. request'[x] # Idle /\ request'[v] # Idle
      BY <2>1 DEF IsMutation, Idle
    <3> QED
      BY <1>1, <2>1, <3>1 DEF IInv, MutationAlone
  <2> QED
    BY <2>1, Zenon DEF MutationAlone, IsMutation
<1>7. LatestIsPinned'
  <2>1. ASSUME NEW v \in Workers, IsRead(request'[v]), request'[v].latest # None
        PROVE  request'[v].latest = pin'[request'[v].ctx]
    BY <1>3, <2>1, Zenon DEF IInv, LatestIsPinned
  <2>2. ASSUME NEW d \in Contexts
        PROVE  seen'[d] \subseteq {pin'[d]} \ {None}
    <3>1. seen[d] \subseteq {pin[d]} \ {None}
      BY Zenon DEF IInv, LatestIsPinned
    <3>2. \/ seen'[d] = {}
          \/ seen'[d] = seen[d] /\ pin'[d] = pin[d]
      BY Zenon
    <3> QED
      BY <3>1, <3>2, Zenon
  <2> QED
    BY <2>1, <2>2, Zenon DEF LatestIsPinned, IsRead
<1>8. VersionsHaveOwn'
  <2>1. ASSUME NEW d \in Contexts, Settled(d)', d \notin D
        PROVE  Settled(d)
    <3>1. ASSUME NEW v \in Workers, request[v].pc # "idle", request[v].ctx = d
          PROVE  request[v].op # "mutation"
      <4>1. request'[v] = request[v]
        BY <2>1, <3>1, Zenon
      <4> QED
        BY <2>1, <3>1, <4>1, Zenon DEF Settled, InContext
    <3> QED
      BY <3>1, Zenon DEF Settled, InContext
  <2>2. ASSUME NEW d \in Contexts, Settled(d)'
        PROVE  /\ pin'[d] # None => pin'[d] >= own'[d]
               /\ lease'[d] \in Orders => lease'[d] >= own'[d]
    <3>1. CASE d \in D
      BY <3>1 DEF Orders, NoSlot
    <3>2. CASE d \notin D
      BY <1>4, <2>1, <2>2, <3>2, Zenon DEF IInv, VersionsHaveOwn
    <3> QED
      BY <3>1, <3>2, Zenon
  <2>3. ASSUME NEW v \in Workers, IsRead(request'[v]), request'[v].pc \in {"latest", "pin"}
        PROVE  request'[v].version >= own'[request'[v].ctx]
    BY <1>3, <1>4, <2>3 DEF IInv, VersionsHaveOwn
  <2>4. \A d \in Contexts : own'[d] <= Len(log')
    <3>1. Len(log) \in Nat /\ \A d \in Contexts : own[d] <= Len(log)
      BY DEF IInv, TypeOK, VersionsHaveOwn
    <3> QED
      BY <1>4, <3>1
  <2> QED
    BY <2>2, <2>3, <2>4, Zenon DEF VersionsHaveOwn, IsRead, Orders
<1>9. BuildersExist'
  <2>1. ASSUME NEW v \in Workers, request[v].pc = "building" \/ request'[v].pc = "waiting"
        PROVE  request'[v] = request[v]
    BY <2>1 DEF IsMutation, Idle
  <2> QED
    BY <2>1 DEF IInv, BuildersExist
<1> QED
  BY <1>5, <1>6, <1>7, <1>8, <1>9, Zenon DEF IInv

LEMMA EndMutationStep ==
    ASSUME IInv, NEW w \in Workers, EndMutation(w)
    PROVE  IInv'
<1> DEFINE D == {request[w].ctx}
<1>1. IsMutation(request[w])
  BY RequestKinds, Zenon DEF EndMutation, IInv
<1>2. \A v \in Workers : IsRead(request[v]) => request[v].ctx \notin D
  BY <1>1, Zenon DEF IInv, MutationAlone, IsRead, IsMutation, ReadPcs
<1>3. /\ request' = [request EXCEPT ![w] = Idle]
      /\ pin' = [d \in Contexts |-> IF d \in D THEN None ELSE pin[d]]
      /\ lease' = [d \in Contexts |-> IF d \in D THEN NoSlot ELSE lease[d]]
      /\ seen' = [d \in Contexts |-> IF d \in D THEN {} ELSE seen[d]]
      /\ UNCHANGED <<log, own>>
  BY Zenon DEF EndMutation, DropLease
<1>4. /\ DOMAIN request' = Workers
      /\ \A v \in Workers : request'[v] = request[v]
                            \/ (request'[v] = Idle /\ IsMutation(request[v]) /\ request[v].ctx \in D)
  BY <1>1, <1>3, Zenon DEF IInv, TypeOK
<1> HIDE DEF D
<1> QED
  BY <1>2, <1>3, <1>4, ForgetPreserves, Zenon

LEMMA ForgetStep ==
    ASSUME IInv, NEW c \in Contexts, Forget(c)
    PROVE  IInv'
<1> DEFINE D == {c}
<1>1. /\ pin' = [d \in Contexts |-> IF d \in D THEN None ELSE pin[d]]
      /\ lease' = [d \in Contexts |-> IF d \in D THEN NoSlot ELSE lease[d]]
      /\ seen' = [d \in Contexts |-> IF d \in D THEN {} ELSE seen[d]]
      /\ own' = [d \in Contexts |-> IF d \in D THEN 0 ELSE own[d]]
      /\ UNCHANGED <<log, request>>
  BY Zenon DEF Forget, IInv, TypeOK
<1>2. \A v \in Workers : IsRead(request[v]) => request[v].ctx \notin D
  BY Zenon DEF Forget, InContext, IsRead, ReadPcs
<1>3. DOMAIN request' = Workers /\ \A v \in Workers : request'[v] = request[v]
  BY <1>1, Zenon DEF IInv, TypeOK
<1> HIDE DEF D
<1> QED
  BY <1>1, <1>2, <1>3, ForgetPreserves, Zenon

\* Requests, pins and answers that stay keep what is said of them alone.
LEMMA OnlyVersions ==
    ASSUME IInv, UNCHANGED <<pin, request, seen>>, TypeOK', VersionsHaveOwn'
    PROVE  IInv'
<1>1. MutationAlone'
  BY Zenon DEF IInv, MutationAlone, IsMutation
<1>2. LatestIsPinned'
  BY Zenon DEF IInv, LatestIsPinned, IsRead
<1>3. BuildersExist'
  BY Zenon DEF IInv, BuildersExist
<1> QED
  BY <1>1, <1>2, <1>3, Zenon DEF IInv

LEMMA OutsideStep ==
    ASSUME IInv, \/ \E kind \in Kinds : CommitElsewhere(kind)
                 \/ \E c \in Contexts : ExpireLease(c)
    PROVE  IInv'
<1>1. UNCHANGED <<pin, request, seen, own>>
  BY Zenon DEF CommitElsewhere, ExpireLease
<1>2. log' \in Seq(Commits) /\ Len(log) \in Nat /\ Len(log') \in Nat /\ Len(log') >= Len(log)
  <2>1. log \in Seq(Commits)
    BY Zenon DEF IInv, TypeOK
  <2>2. log' = log \/ \E kind \in Kinds : log' = Append(log, Commit(kind))
    BY Zenon DEF CommitElsewhere, ExpireLease
  <2> QED
    BY <2>1, <2>2, CommitIsAppended
<1>3. lease' \in [Contexts -> Int] /\ \A d \in Contexts : lease'[d] \in {lease[d], None}
  BY DEF CommitElsewhere, ExpireLease, IInv, TypeOK, None
<1>4. TypeOK'
  BY <1>1, <1>2, <1>3, Zenon DEF IInv, TypeOK, IsRead, IsMutation
<1>5. VersionsHaveOwn'
  <2>1. \A d \in Contexts : own'[d] <= Len(log')
    <3>1. \A d \in Contexts : own[d] \in Nat /\ own[d] <= Len(log)
      BY Zenon DEF IInv, TypeOK, VersionsHaveOwn
    <3> QED
      BY <1>1, <1>2, <3>1
  <2>2. ASSUME NEW d \in Contexts, Settled(d)
        PROVE  lease'[d] \in Orders => lease'[d] >= own[d]
    BY <1>3, <2>2 DEF IInv, VersionsHaveOwn, Orders, None
  <2> QED
    BY <1>1, <2>1, <2>2, Zenon DEF IInv, VersionsHaveOwn, Settled, InContext, IsRead, Orders
<1> QED
  BY <1>1, <1>4, <1>5, OnlyVersions, Zenon

-----------------------------------------------------------------------------
(* The theorems *)

\* The invariant is inductive: one case for each action.
LEMMA NextPreserves ==
    ASSUME IInv, [Next]_vars
    PROVE  IInv'
<1>1. CASE \E w \in Workers : Step(w) \/ TooOld(w)
  <2>1. PICK w \in Workers : Step(w) \/ TooOld(w)
    BY <1>1, Zenon
  <2>2. CASE Retry(w) \/ FetchVersion(w) \/ FindSnapshot(w) \/ Pin(w) \/ Read(w) \/ Finish(w)
    BY <2>2, ReadActionStep, ReadStepPreserves, Zenon
  <2>3. CASE BuildCapture(w) \/ TooOld(w)
    BY <2>3, BuildCaptureStep, TooOldStep, Zenon
  <2>4. CASE FailMutation(w) \/ EndMutation(w)
    BY <2>4, CommitMutationStep, EndMutationStep, Zenon
  <2> QED
    BY <2>1, <2>2, <2>3, <2>4, Zenon DEF Step
<1>2. CASE \E w \in Workers, c \in Contexts, op \in Ops :
              \E asked \in SnapshotIds[op] : Start(w, c, op, asked)
  BY <1>2, StartStep, ReadStepPreserves, Zenon
<1>3. CASE \E w \in Workers, c \in Contexts \cup {NoContext} : StartMutation(w, c)
  BY <1>3, StartMutationStep, Zenon
<1>4. CASE \E w \in Workers, kind \in Kinds : CommitMutation(w, kind)
  BY <1>4, CommitMutationStep, Zenon
<1>5. CASE \E kind \in Kinds : CommitElsewhere(kind)
  BY <1>5, OutsideStep, Zenon
<1>6. CASE \E c \in Contexts : ExpireLease(c) \/ EndContext(c) \/ LoseEndContext(c)
  BY <1>6, OutsideStep, ForgetStep, Zenon DEF EndContext, LoseEndContext
<1>7. CASE UNCHANGED vars
  <2>1. UNCHANGED <<log, pin, lease, request, seen, own>>
    BY <1>7, Zenon DEF vars
  <2>2. TypeOK'
    BY <2>1, Zenon DEF IInv, TypeOK, IsRead, IsMutation
  <2>3. VersionsHaveOwn'
    BY <2>1, Zenon DEF IInv, VersionsHaveOwn, Settled, InContext, IsRead, Orders
  <2> QED
    BY <2>1, <2>2, <2>3, OnlyVersions, Zenon
<1> QED
  BY <1>1, <1>2, <1>3, <1>4, <1>5, <1>6, <1>7, Zenon DEF Next

LEMMA InitHolds == Init => IInv
<1> SUFFICES ASSUME Init PROVE IInv
  BY Zenon
<1>1. \A w \in Workers : request[w] = Idle
  BY Zenon DEF Init
<1>2. TypeOK
  BY <1>1 DEF Init, TypeOK, None, NoSlot
<1>3. MutationAlone /\ LatestIsPinned /\ BuildersExist
  BY <1>1, Zenon DEF Init, MutationAlone, LatestIsPinned, BuildersExist, Idle, IsMutation, IsRead, ReadPcs
<1>4. VersionsHaveOwn
  BY <1>1 DEF Init, VersionsHaveOwn, Idle, IsRead, ReadPcs, None, NoSlot, Orders
<1> QED
  BY <1>2, <1>3, <1>4, Zenon DEF IInv

LEMMA Invariant == Spec => []IInv
<1>1. IInv /\ [Next]_vars => IInv'
  BY NextPreserves, Zenon
<1> QED
  BY <1>1, InitHolds, PTL DEF Spec

\* Every request of a context since its last mutation is answered for the pinned snapshot,
\* which includes what the context committed itself (pin_snapshot, fetch_version and the
\* guard of runtime_ffi.rs), for any number of contexts, workers, leases and captures.
THEOREM ReadsOneSnapshotWithOwnCommits == Spec => []OneSnapshotWithOwnCommits
<1>1. IInv => OneSnapshotWithOwnCommits
  BY Zenon DEF IInv, LatestIsPinned, VersionsHaveOwn, Settled, OneSnapshotWithOwnCommits
<1> QED
  BY <1>1, Invariant, PTL

\* A worker that waits for the capture of its context is never left without the worker that
\* builds it (the flights of runtime_inline_snapshot), whatever fails or is repeated.
THEOREM WaitersAreNotLeft == Spec => []WaitersHaveBuilder
<1>1. IInv => WaitersHaveBuilder
  BY Zenon DEF IInv, BuildersExist, WaitersHaveBuilder, Flight
<1> QED
  BY <1>1, Invariant, PTL

=============================================================================
