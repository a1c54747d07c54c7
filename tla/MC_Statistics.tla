----------------------------- MODULE MC_Statistics -----------------------------
(***************************************************************************)
(* Statistics for two values of the column.  Files hold one or two rows:   *)
(* a value, a NULL, a value beside one that has no order; with statistics  *)
(* or without, with row ids known or not, partitioned by the column or by  *)
(* another one or not.                                                     *)
(***************************************************************************)
EXTENDS Statistics

Holding(nulls, values) ==
    [nulls |-> nulls, others |-> Cardinality(values), values |-> values]

File(rows, stats, known, by, partition) ==
    [rows |-> rows, stats |-> stats, known |-> known, by |-> by, partition |-> partition]

SomeAppends == {File(Holding(0, {1}), TRUE, TRUE, "column", {1}),
                File(Holding(0, {2}), TRUE, TRUE, "none", {}),
                File(Holding(1, {}), TRUE, FALSE, "column", {Hive}),
                File(Holding(0, {1}), TRUE, TRUE, "other", {2}),
                File(Holding(1, {2}), FALSE, FALSE, "none", {}),
                File(Holding(1, {2, Opaque}), TRUE, TRUE, "none", {})}

SomeInserts == {Holding(0, {1}), Holding(1, {}), Holding(1, {2})}

SomeDefaults == {{}, {1}}
================================================================================
