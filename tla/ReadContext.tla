---------------------------- MODULE ReadContext ----------------------------
(***************************************************************************)
(* How the read requests of one transaction see one snapshot               *)
(* (store.rs, runtime_read_versions.rs, runtime_read_context.rs,           *)
(* runtime_file_listing.rs, runtime_inline_snapshot/, runtime_ffi.rs).     *)
(*                                                                         *)
(* A transaction of the client has a read context.  Its first request pins *)
(* the latest snapshot; later requests, possibly on several threads, are   *)
(* answered for the pinned snapshot.  The physical read version behind     *)
(* them is only leased: it is renewed when it ages, so a request may read  *)
(* a key space newer than the pinned snapshot.  Answers are cached under   *)
(* various keys, and every mutation of the process drops some of them.     *)
(*                                                                         *)
(* The catalog is reduced to its log of commits, each of which changes the *)
(* tables or else their data: files and inline rows.  An order is an index *)
(* into the log and so is a physical read version; what a reader is given  *)
(* is the set of commits of one kind it reflects.                          *)
(***************************************************************************)
EXTENDS Integers, Sequences, FiniteSets, Functions

CONSTANTS
    Contexts, Workers,
    Ops,            \* read operations in play, a subset of DOMAIN KindRead
    MaxCommits,     \* bound: length of the log
    SnapshotIds,    \* the snapshots clients ask each operation for
    MaxRequests,    \* bound: requests started
    MaxLeases,      \* MAX_QUERY_READ_VERSIONS
    CaptureBudget,  \* MAX_CAPTURE_CACHE_BYTES, in captures
    Tolerated       \* situations under which the properties are claimed

Situations == {"lagging", "moved"}

\* The read operations and the kind of commit each of them reports: the files
\* of a table, the current files of a partition, the catalog of schemas and
\* tables, the tables a statistics request lists, and inline rows.
KindRead == [files |-> "data", partition |-> "data", inline |-> "data",
             catalog |-> "table", tables |-> "table"]
Kinds == {"data", "table"}

ASSUME ReadContextAssumption ==
    /\ Ops \subseteq DOMAIN KindRead
    /\ MaxCommits \in Nat
    /\ SnapshotIds \in [Ops -> SUBSET Nat]
    /\ MaxRequests \in Nat
    /\ MaxLeases \in Nat
    /\ CaptureBudget \in Nat
    /\ Tolerated \subseteq Situations

VARIABLES
    log,        \* the commits, in order
    pin,        \* RUNTIME_READ_CONTEXT_SNAPSHOT_CACHES
    lease,      \* QUERY_VERSIONS
    cache,      \* the process-wide caches, by cache name and key
    request,    \* what each worker is doing
    wrong,      \* operations that once gave rows of another snapshot
    seen,       \* snapshots a context was answered for since its last mutation
    own,        \* the last order a context committed itself
    lost,       \* captures and leases of contexts whose end was lost
    started,    \* requests so far
    met

vars == <<log, pin, lease, cache, request, wrong, seen, own, lost, started, met>>

Orders == 0 .. MaxCommits
None == -1
NoSlot == -2
Idle == [pc |-> "idle"]
NoContext == "none"

Min2(a, b) == IF a < b THEN a ELSE b

\* The commits of a kind visible at an order, in the key space of a version.
RowsAt(kind, order, version) == {i \in 1 .. Min2(order, version) : log[i].kind = kind}
CurrentRows(kind, version) == RowsAt(kind, version, version)

\* catalog_snapshot_version_key at a version.
CatalogVersion(version) == IF version = 0 THEN 0 ELSE log[version].catalog

\* What a commit writes: stage_next_catalog_snapshot_version, if it changes tables.
Commit(kind) ==
    [kind |-> kind, catalog |-> CatalogVersion(Len(log)) + (IF kind = "table" THEN 1 ELSE 0)]

Init ==
    /\ log = <<>>
    /\ pin = [c \in Contexts |-> None]
    /\ lease = [c \in Contexts |-> NoSlot]
    /\ cache = [k \in {} |-> {}]
    /\ request = [w \in Workers |-> Idle]
    /\ wrong = {}
    /\ seen = [c \in Contexts |-> {}]
    /\ own = [c \in Contexts |-> 0]
    /\ started = 0
    /\ lost = [captures |-> 0, leases |-> 0]
    /\ met = {}

-----------------------------------------------------------------------------
\* Caches.

Cached(key) == key \in DOMAIN cache
With(key, value) == [k \in DOMAIN cache \cup {key} |-> IF k = key THEN value ELSE cache[k]]
Without(keys) == Restrict(cache, DOMAIN cache \ keys)

\* What a mutation drops: the rendered listings and the rows of the tables, of
\* every context.  The file rows and captures of contexts stay, and so does the
\* rendered catalog, whose key holds the catalog version.
invalidate_runtime_read_context ==
    {k \in DOMAIN cache : k[1] \in {"payload", "partition", "current", "visible"}}

\* The rendered catalog is shared by contexts; a historical one names its order.
Scope(r) == IF r.version = r.at THEN "current" ELSE "history"
FactsKey(r) == <<"facts", CatalogVersion(r.version), Scope(r)>>
\* Bug variant: a historical catalog does not name its order.
UnorderedCatalogKey(r) == <<"catalog", CatalogVersion(r.version), Scope(r), None>>
CatalogKey(r) ==
    <<"catalog", CatalogVersion(r.version), Scope(r),
      IF Scope(r) = "current" THEN None ELSE r.at>>

-----------------------------------------------------------------------------
\* Requests.

InContext(c) == {w \in Workers : request[w].pc # "idle" /\ request[w].ctx = c}

Give(w, r, value) ==
    /\ wrong' = wrong \cup (IF value = RowsAt(KindRead[r.op], r.at, r.at) THEN {} ELSE {r.op})
    /\ seen' = [seen EXCEPT ![r.ctx] = IF r.latest = None THEN @ ELSE @ \cup {r.latest}]
    /\ request' = [request EXCEPT ![w] = Idle]

Fail(w) == request' = [request EXCEPT ![w] = Idle]

\* fetch_version: the lease of the context if it is fresh, a new read version
\* otherwise, which is leased if the registry has a slot for it.
VersionFor(c) == IF lease[c] \in Orders THEN lease[c] ELSE Len(log)
LeaseAfter(c) ==
    IF \/ lease[c] # NoSlot
       \/ Cardinality({d \in Contexts : lease[d] # NoSlot}) + lost.leases < MaxLeases
    THEN [lease EXCEPT ![c] = VersionFor(c)]
    ELSE lease

\* Inline rows are captured once per context and snapshot, by one worker; the
\* others wait for it.  A request for an older snapshot captures nothing.
CaptureKey(c, order) == <<"capture", c, order>>
Flight(c, order) ==
    {w \in Workers : /\ request[w].pc \in {"building", "waiting"}
                     /\ request[w].ctx = c /\ request[w].at = order}
NeedsCapture(r, latest) ==
    /\ r.op = "partition" \/ (r.op \in {"files", "inline"} /\ r.asked >= latest)
    /\ ~Cached(CaptureKey(r.ctx, latest))

\* The snapshot a request is answered for: the pinned one or an older one.
resolve_snapshot(r, latest) == IF r.op = "partition" THEN latest ELSE Min2(r.asked, latest)

Resolved(r, latest) ==
    [r EXCEPT !.latest = latest,
              !.at = resolve_snapshot(r, latest),
              !.pc = IF ~NeedsCapture(r, latest) THEN "read"
                     ELSE IF Flight(r.ctx, latest) # {} THEN "waiting"
                     ELSE "building"]

Lagging(version, latest) == IF version < latest THEN {"lagging"} ELSE {}

\* A listing rendered before for the same requested snapshot is given again.
\* Otherwise listings choose their read version before they look for the
\* snapshot, the other operations after they found it pinned.
Listing(op) == op \in {"files", "partition"}
RenderedKey(r) == IF r.op = "files" THEN <<"payload", r.ctx, r.asked>> ELSE <<"partition", r.ctx>>

Begin(w, r) ==
    LET pinned == pin[r.ctx]
        versioned == [r EXCEPT !.version = VersionFor(r.ctx)]
        go(next) == request' = [request EXCEPT ![w] = next] /\ UNCHANGED <<wrong, seen>>
    IN  \/ /\ Listing(r.op) /\ Cached(RenderedKey(r))
           /\ LET entry == cache[RenderedKey(r)]
              IN  Give(w, [r EXCEPT !.latest = pinned,
                                    !.at = IF pinned = None THEN entry.at
                                           ELSE resolve_snapshot(r, pinned)],
                       entry.rows)
           /\ UNCHANGED lease
        \/ /\ Listing(r.op) /\ ~Cached(RenderedKey(r))
           /\ go([versioned EXCEPT !.pc = "latest"])
           /\ lease' = LeaseAfter(r.ctx)
        \/ /\ ~Listing(r.op) /\ pinned # None
           /\ go([r EXCEPT !.latest = pinned, !.pc = "version"])
           /\ UNCHANGED lease
        \/ /\ ~Listing(r.op) /\ pinned = None
           /\ go([versioned EXCEPT !.pc = "pin"])
           /\ lease' = LeaseAfter(r.ctx)

Start(w, c, op, asked) ==
    /\ request[w].pc = "idle"
    /\ started < MaxRequests
    /\ started' = started + 1
    /\ \A v \in InContext(c) : request[v].op # "mutation"
    /\ Begin(w, [pc |-> "begin", ctx |-> c, op |-> op, asked |-> asked, version |-> None,
                 latest |-> None, at |-> None, value |-> {}, fill |-> {}, retried |-> FALSE])
    /\ UNCHANGED <<log, pin, cache, own, lost, met>>

FetchVersion(w) ==
    LET r == request[w]
        version == VersionFor(r.ctx)
    IN  /\ r.pc = "version"
        /\ lease' = LeaseAfter(r.ctx)
        /\ request' = [request EXCEPT ![w] = Resolved([r EXCEPT !.version = version], r.latest)]
        /\ met' = met \cup Lagging(version, r.latest)
        /\ UNCHANGED <<log, pin, cache, wrong, seen, own, lost, started>>

\* find_cached_snapshot: a request of the context has pinned one, or else the
\* latest snapshot at the request's read version is fetched to be pinned.
FindSnapshot(w) ==
    LET r == request[w]
        pinned == pin[r.ctx]
    IN  /\ r.pc = "latest"
        /\ IF pinned # None
           THEN /\ request' = [request EXCEPT ![w] = Resolved(r, pinned)]
                /\ met' = met \cup Lagging(r.version, pinned)
           ELSE /\ request' = [request EXCEPT ![w].pc = "pin"]
                /\ UNCHANGED met
        /\ UNCHANGED <<log, pin, lease, cache, wrong, seen, own, lost, started>>

FirstPinned(r) == IF pin[r.ctx] = None THEN r.version ELSE pin[r.ctx]
Pin(w) ==
    LET r == request[w]
        snapshot == FirstPinned(r)
    IN  /\ r.pc = "pin"
        /\ pin' = [pin EXCEPT ![r.ctx] = snapshot]
        /\ request' = [request EXCEPT ![w] = Resolved(r, snapshot)]
        /\ met' = met \cup Lagging(r.version, snapshot)
        /\ UNCHANGED <<log, lease, cache, wrong, seen, own, lost, started>>

\* Captures are pinned in their cache: one that does not fit evicts nothing.
HeldCaptures == Cardinality({k \in DOMAIN cache : k[1] = "capture"}) + lost.captures

CaptureFits == HeldCaptures < CaptureBudget

\* The current rows if the version still shows the snapshot, the history of
\* the rows otherwise.  A capture that does not fit fails every request that
\* waits for it.
BuildCapture(w) ==
    LET r == request[w]
        rows == IF r.version = r.at THEN CurrentRows("data", r.version)
                ELSE RowsAt("data", r.at, r.version)
    IN  /\ r.pc = "building"
        /\ IF Cached(CaptureKey(r.ctx, r.at)) \/ CaptureFits
           THEN /\ cache' = IF Cached(CaptureKey(r.ctx, r.at)) THEN cache
                            ELSE With(CaptureKey(r.ctx, r.at), rows)
                /\ request' = [v \in Workers |->
                       IF v \in Flight(r.ctx, r.at) THEN [request[v] EXCEPT !.pc = "read"] ELSE request[v]]
           ELSE /\ request' = [v \in Workers |-> IF v \in Flight(r.ctx, r.at) THEN Idle ELSE request[v]]
                /\ UNCHANGED cache
        /\ UNCHANGED <<log, pin, lease, wrong, seen, own, lost, started, met>>

-----------------------------------------------------------------------------
\* What each operation reads.

ToFinish(w, r, value, fill) ==
    /\ request' = [request EXCEPT ![w] = [r EXCEPT !.pc = "finish", !.value = value, !.fill = fill]]
    /\ UNCHANGED <<wrong, seen>>

Reading(w, op) == request[w].pc = "read" /\ request[w].op = op

\* Files visible at the snapshot, from their history.
ReadFiles(w) ==
    LET r == request[w]
        key == <<"files", r.ctx, r.at>>
    IN  /\ Reading(w, "files")
        /\ ToFinish(w, r, IF Cached(key) THEN cache[key] ELSE RowsAt("data", r.at, r.version),
                    {key, <<"payload", r.ctx, r.asked>>})
        /\ UNCHANGED met

\* Files of a partition, from the index of current files.
ReadPartition(w) ==
    LET r == request[w]
    IN  /\ Reading(w, "partition")
        /\ ToFinish(w, r, CurrentRows("data", r.version), {<<"partition", r.ctx>>})
        /\ met' = met \cup (IF r.version # r.at THEN {"moved"} ELSE {})

\* The catalog payload: a rendered one, or one rendered from facts that were
\* loaded at this catalog version, whichever request did so.
ReadCatalog(w) ==
    LET r == request[w]
        facts == IF Cached(FactsKey(r)) THEN cache[FactsKey(r)] ELSE CurrentRows("table", r.version)
    IN  /\ Reading(w, "catalog")
        /\ IF Cached(CatalogKey(r)) THEN Give(w, r, cache[CatalogKey(r)])
           ELSE ToFinish(w, r,
                         IF r.version = r.at THEN facts ELSE {i \in facts : i <= r.at},
                         {CatalogKey(r)} \cup (IF Cached(FactsKey(r)) THEN {} ELSE {FactsKey(r)}))
        /\ UNCHANGED met

\* list_tables_at: the current rows if the snapshot is the context's latest.
ReadTables(w) ==
    LET r == request[w]
        visible == <<"visible", r.ctx, r.at>>
        current == <<"current", r.ctx>>
    IN  /\ Reading(w, "tables")
        /\ CASE Cached(visible) ->
                  Give(w, r, cache[visible]) /\ UNCHANGED met
             [] ~Cached(visible) /\ r.at = r.latest /\ Cached(current) ->
                  ToFinish(w, r, cache[current], {visible}) /\ UNCHANGED met
             [] ~Cached(visible) /\ r.at = r.latest /\ ~Cached(current) ->
                  /\ ToFinish(w, r, CurrentRows("table", r.version), {visible, current})
                  /\ met' = met \cup (IF r.version # r.at THEN {"moved"} ELSE {})
             [] OTHER ->
                  ToFinish(w, r, RowsAt("table", r.at, r.version), {visible}) /\ UNCHANGED met

\* The captured rows; an older snapshot has no current rows to report.
ReadInline(w) ==
    LET r == request[w]
    IN  /\ Reading(w, "inline")
        /\ IF r.at = r.latest /\ Cached(CaptureKey(r.ctx, r.at)) THEN Give(w, r, cache[CaptureKey(r.ctx, r.at)])
           ELSE Fail(w) /\ UNCHANGED <<wrong, seen>>
        /\ UNCHANGED met

Read(w) ==
    /\ \/ ReadFiles(w)
       \/ ReadPartition(w)
       \/ ReadCatalog(w)
       \/ ReadTables(w)
       \/ ReadInline(w)
    /\ UNCHANGED <<log, pin, lease, cache, own, lost, started>>

\* The caches are filled after the reads, when a mutation may have passed.
Finish(w) ==
    LET r == request[w]
        entry(k) ==
            CASE k[1] \in {"payload", "partition"} -> [at |-> r.at, rows |-> r.value]
              [] k[1] = "facts" -> CurrentRows("table", r.version)
              [] OTHER -> r.value
    IN  /\ r.pc = "finish"
        /\ cache' = [k \in DOMAIN cache \cup r.fill |-> IF k \in r.fill THEN entry(k) ELSE cache[k]]
        /\ Give(w, r, r.value)
        /\ UNCHANGED <<log, pin, lease, own, lost, started, met>>

\* A failed capture fails the requests that wait for it.
\* Bug variant: a failed build is not told to those who wait.
FailsAlone(w) == {w}
FailsWith(w) == IF request[w].pc = "building" THEN Flight(request[w].ctx, request[w].at) ELSE {w}

\* The read version became too old for the database (error 1007).  The lease is
\* dropped and the read is repeated once, for the snapshot already pinned.
TooOld(w) ==
    LET r == request[w]
        failed == FailsWith(w)
        again(q) == [q EXCEPT !.pc = "again", !.version = None, !.latest = None, !.at = None,
                              !.retried = TRUE]
    IN  /\ r.pc \in {"latest", "pin", "building", "read"}
        /\ r.version < Len(log)
        /\ lease' = [lease EXCEPT ![r.ctx] = NoSlot]
        /\ request' = [v \in Workers |->
               IF v \notin failed THEN request[v]
               ELSE IF request[v].retried THEN Idle ELSE again(request[v])]
        /\ UNCHANGED <<log, pin, cache, wrong, seen, own, lost, started, met>>

Retry(w) ==
    /\ request[w].pc = "again"
    /\ Begin(w, request[w])
    /\ UNCHANGED <<log, pin, cache, own, lost, started, met>>

-----------------------------------------------------------------------------
\* Mutations.  They read outside the context; around them the caches of the
\* catalog are dropped, and afterwards the pin and the lease of the caller, if
\* it has a context.

StartMutation(w, c) ==
    /\ request[w].pc = "idle"
    /\ started < MaxRequests
    /\ started' = started + 1
    /\ InContext(c) = {}
    /\ request' = [request EXCEPT ![w] = [pc |-> "commit", ctx |-> c, op |-> "mutation"]]
    /\ cache' = Without(invalidate_runtime_read_context)
    /\ UNCHANGED <<log, pin, lease, wrong, seen, own, lost, met>>

CommitMutation(w, kind) ==
    /\ request[w].pc = "commit"
    /\ Len(log) < MaxCommits
    /\ log' = Append(log, Commit(kind))
    /\ own' = [c \in Contexts |-> IF c = request[w].ctx THEN Len(log') ELSE own[c]]
    /\ request' = [request EXCEPT ![w].pc = "leave"]
    /\ UNCHANGED <<pin, lease, cache, wrong, seen, lost, started, met>>

FailMutation(w) ==
    /\ request[w].pc = "commit"
    /\ request' = [request EXCEPT ![w].pc = "leave"]
    /\ UNCHANGED <<log, pin, lease, cache, wrong, seen, own, lost, started, met>>

\* Bug variant: the leased version survives the mutation.
KeepLeases(c) == lease
DropLease(c) == [d \in Contexts |-> IF d = c THEN NoSlot ELSE lease[d]]

\* The guard of the request is dropped.
EndMutation(w) ==
    LET c == request[w].ctx
    IN  /\ request[w].pc = "leave"
        /\ cache' = Without(invalidate_runtime_read_context)
        /\ pin' = [d \in Contexts |-> IF d = c THEN None ELSE pin[d]]
        /\ lease' = DropLease(c)
        /\ seen' = [d \in Contexts |-> IF d = c THEN {} ELSE seen[d]]
        /\ request' = [request EXCEPT ![w] = Idle]
        /\ UNCHANGED <<log, wrong, own, lost, started, met>>

\* Another process commits; nothing here hears of it.
CommitElsewhere(kind) ==
    /\ Len(log) < MaxCommits
    /\ log' = Append(log, Commit(kind))
    /\ UNCHANGED <<pin, lease, cache, request, wrong, seen, own, lost, started, met>>

\* QUERY_READ_VERSION_MAX_AGE has passed.
ExpireLease(c) ==
    /\ lease[c] \in Orders
    /\ lease' = [lease EXCEPT ![c] = None]
    /\ UNCHANGED <<log, pin, cache, request, wrong, seen, own, lost, started, met>>

\* EndRuntimeReadContext, which the client sends once and does not repeat.
\* Ids are not reused: from here on c stands for the next context, and what the
\* caches still hold under the old id is out of reach.
Forget(c) ==
    /\ InContext(c) = {}
    /\ pin' = [pin EXCEPT ![c] = None]
    /\ lease' = [lease EXCEPT ![c] = NoSlot]
    /\ seen' = [seen EXCEPT ![c] = {}]
    /\ own' = [own EXCEPT ![c] = 0]
    /\ cache' = Without({k \in DOMAIN cache : k[2] = c})
    /\ UNCHANGED <<log, request, wrong, started, met>>

EndContext(c) == Forget(c) /\ UNCHANGED lost

\* The request fails, and its error is ignored: the leased version and the
\* pinned captures stay behind.
LoseEndContext(c) ==
    /\ Forget(c)
    /\ lost' = [captures |-> lost.captures + Cardinality({o \in Orders : Cached(CaptureKey(c, o))}),
                leases |-> lost.leases + (IF lease[c] = NoSlot THEN 0 ELSE 1)]

Step(w) ==
    \/ Retry(w) \/ FetchVersion(w) \/ FindSnapshot(w) \/ Pin(w)
    \/ BuildCapture(w) \/ Read(w) \/ Finish(w)
    \/ FailMutation(w) \/ EndMutation(w)

Next ==
    \/ \E w \in Workers : Step(w) \/ TooOld(w)
    \/ \E w \in Workers, c \in Contexts, op \in Ops :
           \E asked \in SnapshotIds[op] : Start(w, c, op, asked)
    \/ \E w \in Workers, c \in Contexts \cup {NoContext} : StartMutation(w, c)
    \/ \E w \in Workers, kind \in Kinds : CommitMutation(w, kind)
    \/ \E kind \in Kinds : CommitElsewhere(kind)
    \/ \E c \in Contexts : ExpireLease(c) \/ EndContext(c) \/ LoseEndContext(c)

Spec == Init /\ [][Next]_vars

Regular == met \subseteq Tolerated

-----------------------------------------------------------------------------

\* What a request is given is what the catalog was at the snapshot it is answered
\* for, whatever the read version behind it, whichever requests filled the
\* caches, and however mutations and renewals interleave.  Reads of current rows
\* (listings by partition, list_tables_at for the latest snapshot) have it as
\* long as none of them used a version newer than the pinned snapshot.
AnswersMatch ==
    wrong \subseteq IF "moved" \in met THEN {"partition", "tables"} ELSE {}

\* All requests of a context since its last mutation are answered for one snapshot, the
\* pinned one, and it includes what the context has committed itself, although leased
\* versions and cached rows are older (pin_snapshot, fetch_version, the drop of the guard).
OneSnapshotWithOwnCommits ==
    \A c \in Contexts :
        /\ seen[c] \subseteq {pin[c]}
        /\ pin[c] # None /\ (\A w \in InContext(c) : request[w].op # "mutation") => pin[c] >= own[c]

\* A worker that waits for a capture waits for one that another worker of the
\* same context is building: no failure leaves it behind.
WaitersHaveBuilder ==
    \A w \in Workers : request[w].pc = "waiting" =>
        \E v \in Flight(request[w].ctx, request[w].at) : request[v].pc = "building"
=============================================================================
