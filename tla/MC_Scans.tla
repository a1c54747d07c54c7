------------------------------ MODULE MC_Scans ------------------------------
(* Two files with up to two statistics rows and one partition value each:  *)
(* six keys, pages of two.                                                 *)
EXTENDS Scans

AllKeys == <<1, 6>>

SomeAsks ==
    {scan_range(AllKeys, direction, limit) : direction \in {"Forward", "Reverse"}, limit \in {{}, {3}}}
    \cup {scan_range(AllKeys, "Forward", {0}), scan_range(<<5, 2>>, "Forward", {}), get(3), batch_get({2, 5}),
          scan_range_pages(AllKeys, "Forward", {2}), scan_range_pages(AllKeys, "Reverse", {}),
          scan_index_rows(AllKeys), read_set({2, 5}, <<<<1, 4>>, <<5, 6>>>>, "Forward", {}),
          scan_prefixes(<<<<1, 2>>, <<3, 6>>>>, "Reverse", {2})}

(* A plain scan neither reads nor fills the caches, and the caches of      *)
(* partition values and of statistics do not meet: one kind of call at a   *)
(* time finds all there is to find.                                        *)
StatsCached == cache.row # {} \/ cache.file # NoEntries
PartitionsCached == cache.partitions # NoEntries \/ cache.leased # NoEntries
CallsApart ==
    /\ job.op = "scan" => ~StatsCached /\ ~PartitionsCached
    /\ job.op = "partitions" \/ PartitionsCached => ~StatsCached
    /\ job.op \in {"ids", "columns"} => ~PartitionsCached

SomeColumns == {{1}, {1, 2}}
SomeShapes == {[columns |-> {1, 2}, partition |-> TRUE], [columns |-> {2}, partition |-> FALSE]}

=============================================================================
