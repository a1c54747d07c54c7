----------------------------- MODULE MC_Inline ------------------------------
EXTENDS Inline, TLC

CONSTANTS MaxRacingOrder   \* clients overlap, and storage changes, up to this snapshot

Symmetry == Permutations(Clients)

Busy == {c \in Clients : op[c].pc # "idle"}

\* Snapshots have expired, the table has data files of other rows, or a delete is
\* about to join a published snapshot.
StorageChanges ==
    \/ db.expired # {}
    \/ \E f \in db.files : f.rows = {}
    \/ \E c \in Busy : op[c].pc = "delete prepared" /\ op[c].target # NoOrder

\* Clients overlap while storage does not change and take turns otherwise.
Bounded ==
    /\ WithinWindows
    /\ StorageChanges => Cardinality(Busy) <= 1
    /\ StorageChanges \/ Cardinality(Busy) > 1 => LatestOrder(db) <= MaxRacingOrder
=============================================================================
