-------------------------- MODULE MC_DataMutation --------------------------
EXTENDS DataMutation, TLC

\* Requests differ only by name.
Symmetry == Permutations(Writers)
=============================================================================
