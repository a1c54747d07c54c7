---------------------------- MODULE MC_ChangeFeed ----------------------------
EXTENDS ChangeFeed

\* An append adds one file or two.
FilePairs == {<<1>>, <<1, 1>>}

\* Requests differ only by name.
Symmetry == Permutations(Jobs)

Busy == {j \in Jobs : job[j].pc # "idle"}

\* Two requests under way, a retry, a change of the table or its drop.
Racing ==
    \/ Cardinality(Busy) > 1
    \/ \E j \in Busy : job[j].retries > 0 \/ job[j].kind = "drop_table"
    \/ table # [altered |-> 1, dropped |-> NoOrder]

\* Races are those of files without partitions.
Bounded ==
    Regular /\ (Racing => \A i \in FileIds : dataFiles[i].partition = NoPartition)
=============================================================================
