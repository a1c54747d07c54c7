--------------------------- MODULE FileIdAllocator ---------------------------
(***************************************************************************)
(* What the catalog promises about file ids: a writer that asks for ids    *)
(* receives a set of ids nobody holds yet.  Data files and delete files    *)
(* draw from one id space.  The largest 64-bit id is the one exception:    *)
(* the implementation adds one to the watermark with saturation, so once   *)
(* the space is used up that single id can be handed out again.            *)
(***************************************************************************)
EXTENDS Naturals

CONSTANTS
    Writers,    \* the callers of reserve_mutation_file_ids
    MaxU64      \* the largest id

VARIABLE
    granted     \* granted[w]: every id a successful call returned to w

Ids == 0 .. MaxU64

Init == granted = [w \in Writers |-> {}]

Held == UNION {granted[w] : w \in Writers}

Grant(w) ==
    \E ids \in SUBSET (Ids \ (Held \ {MaxU64})) :
        /\ ids # {}
        /\ granted' = [granted EXCEPT ![w] = @ \cup ids]

Next == \E w \in Writers : Grant(w)

Spec == Init /\ [][Next]_granted
=============================================================================
