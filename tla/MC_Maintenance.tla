--------------------------- MODULE MC_Maintenance ---------------------------
EXTENDS Maintenance

Shapes == {<<1>>, <<2>>, <<1, 2>>}

\* A table has partitions or has none.  One with partitions has three rows, for two files of
\* different sizes, and one without them a longer history and crashes.
PartitionsInUse == {dataFiles[i].partition : i \in {i \in FileIds : IsRow(dataFiles[i])}}
Bounded ==
    /\ Regular
    /\ \/ PartitionsInUse \subseteq {NoPartition} /\ nextRowId <= 2
       \/ NoPartition \notin PartitionsInUse /\ latestOrder <= 4 /\ crashes = 0
=============================================================================
