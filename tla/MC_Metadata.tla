---------------------------- MODULE MC_Metadata ----------------------------
EXTENDS Metadata

\* Requests differ only by name.
Symmetry == Permutations(Clients)
=============================================================================
