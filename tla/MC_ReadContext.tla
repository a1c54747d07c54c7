--------------------------- MODULE MC_ReadContext ---------------------------
EXTENDS ReadContext, TLC

\* Snapshot 0 is the first one; the bound on commits stands for the latest.
AskedFor == [op \in Ops |-> IF op \in {"files", "catalog"} THEN {0, MaxCommits} ELSE {MaxCommits}]

Symmetry == Permutations(Workers)
=============================================================================
