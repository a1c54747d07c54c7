------------------------------- MODULE FileIds -------------------------------
(***************************************************************************)
(* Reservation of file ids (fdb_file_ids.rs).  Every commit attempt of a   *)
(* data mutation first reserves one id per file it proposes, in a small    *)
(* FoundationDB transaction of its own over the watermark key              *)
(* conflict_max_file_id: read it, write the last id of the range, commit.  *)
(* Other commits raise the same key blindly with a ByteMax mutation.       *)
(*                                                                         *)
(* FoundationDB transactions are optimistic.  An open transaction is       *)
(* doomed as soon as another one commits a write to a key it has read;     *)
(* the flag `stale` of a call records exactly that.                        *)
(***************************************************************************)
EXTENDS Integers

CONSTANTS
    Writers,            \* concurrent callers
    MaxU64,             \* largest value of an unsigned 64-bit id
    MaxProposed,        \* bound: files one mutation proposes
    MAX_FILE_ID_RESERVATION_RETRIES

ASSUME FileIdsAssumption ==
    /\ MaxU64 \in Nat
    /\ MaxProposed \in Nat \ {0}
    /\ MAX_FILE_ID_RESERVATION_RETRIES \in Nat

VARIABLES
    maxFileId,  \* value of conflict_max_file_id; Absent while never written
    phase,      \* where each writer is in reserve_file_id_range
    count,      \* number of ids the call asks for
    attempt,    \* index of the retry loop
    current,    \* the watermark the open transaction read
    stale,      \* the watermark was written since that read
    granted     \* every id a successful call returned to the writer

vars == <<maxFileId, phase, count, attempt, current, stale, granted>>

Absent == -1
Ids == 0 .. MaxU64

\* Bug variant: the watermark itself is handed out again.
FirstIdReused(c) == IF c = Absent THEN 0 ELSE c

\* first = current.map_or(0, |value| value.saturating_add(1))
FirstId(c) == IF c = MaxU64 THEN MaxU64 ELSE c + 1
LastId(c, n) == FirstId(c) + n - 1

Init ==
    /\ maxFileId = Absent
    /\ phase = [w \in Writers |-> "idle"]
    /\ count = [w \in Writers |-> 0]
    /\ attempt = [w \in Writers |-> 0]
    /\ current = [w \in Writers |-> Absent]
    /\ stale = [w \in Writers |-> FALSE]
    /\ granted = [w \in Writers |-> {}]

\* A mutation without files returns before any reservation, so n >= 1.
Propose(w, n) ==
    /\ phase[w] = "idle"
    /\ phase' = [phase EXCEPT ![w] = "begin"]
    /\ count' = [count EXCEPT ![w] = n]
    /\ attempt' = [attempt EXCEPT ![w] = 0]
    /\ UNCHANGED <<maxFileId, current, stale, granted>>

\* create_transaction, then the conflicting read of the watermark.  A range
\* that does not fit into 64 bits is an error: nothing was written.
ReadWatermark(w) ==
    /\ phase[w] = "begin"
    /\ current' = [current EXCEPT ![w] = maxFileId]
    /\ stale' = [stale EXCEPT ![w] = FALSE]
    /\ phase' = [phase EXCEPT ![w] =
                    IF LastId(maxFileId, count[w]) > MaxU64 THEN "idle" ELSE "open"]
    /\ UNCHANGED <<maxFileId, count, attempt, granted>>

\* What any committed write of the watermark does to the open transactions.
SetWatermark(value) ==
    /\ maxFileId' = value
    /\ stale' = [v \in Writers |-> stale[v] \/ phase[v] = "open"]

ReservedRange(w) == FirstId(current[w]) .. LastId(current[w], count[w])

Commit(w) ==
    /\ phase[w] = "open"
    /\ ~stale[w]
    /\ SetWatermark(LastId(current[w], count[w]))
    /\ granted' = [granted EXCEPT ![w] = @ \cup ReservedRange(w)]
    /\ phase' = [phase EXCEPT ![w] = "idle"]
    /\ UNCHANGED <<count, attempt, current>>

\* Bug variant: the attempt index is not advanced.
RetryReservationForever(w) ==
    /\ phase[w] = "open"
    /\ phase' = [phase EXCEPT ![w] = "begin"]
    /\ UNCHANGED <<maxFileId, count, attempt, current, stale, granted>>

\* A failure after which nothing was written: a conflict (certain when stale)
\* or another retryable error.  The loop runs again while it has attempts.
RetryReservation(w) ==
    /\ phase[w] = "open"
    /\ IF attempt[w] < MAX_FILE_ID_RESERVATION_RETRIES
       THEN /\ phase' = [phase EXCEPT ![w] = "begin"]
            /\ attempt' = [attempt EXCEPT ![w] = @ + 1]
       ELSE /\ phase' = [phase EXCEPT ![w] = "idle"]
            /\ UNCHANGED attempt
    /\ UNCHANGED <<maxFileId, count, current, stale, granted>>

\* commit_unknown_result after the write took effect.  The class is not in
\* the retry arm: the call returns the error and the ids are never used.
LoseReply(w) ==
    /\ phase[w] = "open"
    /\ ~stale[w]
    /\ SetWatermark(LastId(current[w], count[w]))
    /\ phase' = [phase EXCEPT ![w] = "idle"]
    /\ UNCHANGED <<count, attempt, current, granted>>

\* commit_unknown_result without effect, a non-retryable error, or a failed read.
FailReservation(w) ==
    /\ phase[w] \in {"begin", "open"}
    /\ phase' = [phase EXCEPT ![w] = "idle"]
    /\ UNCHANGED <<maxFileId, count, attempt, current, stale, granted>>

\* Commits of mutations, appends, inline rows and flushes stage ByteMax of a
\* file id or of a snapshot sequence: no read, so they never conflict.
ObserveMax(candidate) ==
    /\ SetWatermark(IF candidate > maxFileId THEN candidate ELSE maxFileId)
    /\ UNCHANGED <<phase, count, attempt, current, granted>>

Step(w) ==
    ReadWatermark(w) \/ Commit(w) \/ RetryReservation(w) \/ LoseReply(w) \/ FailReservation(w)

Next ==
    \/ \E w \in Writers : Step(w) \/ \E n \in 1 .. MaxProposed : Propose(w, n)
    \/ \E candidate \in Ids : ObserveMax(candidate)

\* A call runs on its caller's thread and its FoundationDB futures resolve, so
\* a started call keeps taking steps; nothing forces a new call or a commit.
Fairness == \A w \in Writers : WF_vars(Step(w))

Spec == Init /\ [][Next]_vars /\ Fairness

-----------------------------------------------------------------------------
\* Every variable stays in its type: in particular the watermark never leaves
\* the 64-bit range although LastId adds to it.
TypeOK ==
    /\ maxFileId \in Ids \cup {Absent}
    /\ phase \in [Writers -> {"idle", "begin", "open"}]
    /\ count \in [Writers -> 0 .. MaxProposed]
    /\ attempt \in [Writers -> 0 .. MAX_FILE_ID_RESERVATION_RETRIES]
    /\ current \in [Writers -> Ids \cup {Absent}]
    /\ stale \in [Writers -> BOOLEAN]
    /\ granted \in [Writers -> SUBSET Ids]

\* No id is handed to two writers, whatever conflicts, lost replies and blind
\* watermark writes interleave with the reservation; the saturated id MaxU64
\* (value.saturating_add(1)) is the only one that can repeat.
ReservedOnce ==
    \A v, w \in Writers : v # w => granted[v] \cap granted[w] \subseteq {MaxU64}

\* The watermark never falls: reserve_file_id_range writes it with a plain set,
\* and a set computed from a stale read would undo somebody's ByteMax.
WatermarkNeverFalls == [][maxFileId' >= maxFileId]_vars

\* Every call returns: the retry loop is bounded by its attempt counter.
ReservationReturns == \A w \in Writers : phase[w] = "begin" ~> phase[w] = "idle"

\* The reservation protocol implements the allocator: a step hands out ids
\* nobody holds, or hands out nothing.
Allocator == INSTANCE FileIdAllocator WITH Writers <- Writers, MaxU64 <- MaxU64, granted <- granted
AllocatorSpec == Allocator!Spec
=============================================================================
