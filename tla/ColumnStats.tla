------------------------------ MODULE ColumnStats ------------------------------
(***************************************************************************)
(* The arithmetic of column statistics: when the bounds of a stored file   *)
(* row can be trusted, how a global summary absorbs a file row or the      *)
(* summary of an inline table, and how the row of a merged file is derived *)
(* from the rows of its sources.                                           *)
(*                                                                         *)
(* The values of a column are integers, or Opaque: a value of the column   *)
(* that has no place in the order (or that is too long to be kept as a     *)
(* bound).  An optional value is a set of at most one element, so that     *)
(* "take the smaller of the two, if any" is Lowest of a union.             *)
(***************************************************************************)
EXTENDS Integers, FiniteSets

CONSTANT Opaque

Lowest(S)  == {x \in S : \A y \in S : x <= y}
Highest(S) == {x \in S : \A y \in S : x >= y}

(***************************************************************************)
(* What a file or an inline table holds of the column: how many NULL rows, *)
(* how many others, and the values of the others.                          *)
(***************************************************************************)
NoRows == [nulls |-> 0, others |-> 0, values |-> {}]

Together(a, b) == [nulls  |-> a.nulls + b.nulls,
                   others |-> a.others + b.others,
                   values |-> a.values \cup b.values]

RecordCount(rows) == rows.nulls + rows.others

(***************************************************************************)
(* The bounds kept by who sees the rows themselves: none when one of the   *)
(* values has no place in the order.                                       *)
(***************************************************************************)
BoundsOf(rows) ==
    IF Opaque \in rows.values
    THEN [min |-> {}, max |-> {}]
    ELSE [min |-> Lowest(rows.values), max |-> Highest(rows.values)]

(***************************************************************************)
(* The row the client registers with a file it has written: value_count is *)
(* the number of values that are not NULL.                                 *)
(***************************************************************************)
ClientRow(rows) == [count |-> {rows.others},
                    nulls |-> rows.nulls,
                    min   |-> BoundsOf(rows).min,
                    max   |-> BoundsOf(rows).max]

--------------------------------------------------------------------------------
(* typed_scalar.rs: bounds out of order, only one of the two, missing       *)
(* though some value may exist, or present though every value is NULL.      *)
typed_extrema_are_invalid(row) ==
    LET ordered == /\ (row.min = {}) = (row.max = {})
                   /\ \A lo \in row.min, hi \in row.max : lo <= hi
        all_values_are_known_null == \E n \in row.count : n <= row.nulls
        bounds_are_missing == row.min = {} /\ row.max = {}
    IN  ~ordered \/ bounds_are_missing # all_values_are_known_null

(* GlobalColumnStats, and MirrorColumnStats without has_contains_null.      *)
NewStats == [has_contains_null |-> FALSE, contains_null |-> FALSE,
             min |-> {}, max |-> {}, invalid_extrema |-> FALSE]

clear_extrema(s) == [s EXCEPT !.min = {}, !.max = {}]

invalidate_extrema(s) == [clear_extrema(s) EXCEPT !.invalid_extrema = TRUE]

Extend(s, bounds) == [s EXCEPT !.min = Lowest(@ \cup bounds.min),
                               !.max = Highest(@ \cup bounds.max)]

MergeIgnoresInvalid(s, row) ==
    Extend([s EXCEPT !.has_contains_null = TRUE,
                     !.contains_null = @ \/ row.nulls > 0], row)

merge_file(s, row) ==
    LET seen == [s EXCEPT !.has_contains_null = TRUE,
                          !.contains_null = @ \/ row.nulls > 0]
    IN  IF typed_extrema_are_invalid(row) THEN invalidate_extrema(seen)
        ELSE IF s.invalid_extrema THEN seen
        ELSE Extend(seen, row)

(* An inline table's line about the column: whether it has NULLs, whether   *)
(* it is known to have other values, and its bounds.  A table with values   *)
(* and no bounds spoils the bounds for good; a table with no values at all  *)
(* only clears what has been gathered so far.                               *)
merge_inline(s, line) ==
    LET seen == [s EXCEPT !.has_contains_null = TRUE,
                          !.contains_null = @ \/ line.contains_null]
    IN  CASE (line.min = {}) # (line.max = {}) -> invalidate_extrema(seen)
          [] line.min = {} /\ line.max = {} ->
               IF line.has_non_null_values THEN invalidate_extrema(seen)
                                           ELSE clear_extrema(seen)
          [] OTHER -> IF s.invalid_extrema THEN seen
                      ELSE IF \E lo \in line.min, hi \in line.max : lo > hi
                      THEN invalidate_extrema(seen)
                      ELSE Extend(seen, line)

mark_unknown(s) ==
    invalidate_extrema([s EXCEPT !.has_contains_null = TRUE, !.contains_null = TRUE])

(* MirrorColumnStats::merge                                                 *)
MirrorMerge(s, row) ==
    LET seen == [s EXCEPT !.contains_null = @ \/ row.nulls > 0]
    IN  IF s.invalid_extrema THEN seen
        ELSE IF typed_extrema_are_invalid(row) THEN invalidate_extrema(seen)
        ELSE Extend(seen, row)

--------------------------------------------------------------------------------
(* LiveColumnStats after every row of an inline table; a table that holds   *)
(* no row says nothing of its columns.                                      *)
ConservativeLine(rows) ==
    IF RecordCount(rows) = 0 THEN {}
    ELSE {[contains_null       |-> rows.nulls > 0,
           has_non_null_values |-> rows.nulls = 0,
           min |-> BoundsOf(rows).min, max |-> BoundsOf(rows).max]}

(* append_aggregate_to: every column of the layout has a line.              *)
AggregateLine(rows) ==
    {[contains_null       |-> rows.nulls > 0,
      has_non_null_values |-> rows.others > 0,
      min |-> BoundsOf(rows).min, max |-> BoundsOf(rows).max]}

(* The line merged for a layout that lacks the column: its initial default, *)
(* or nothing known when the column came with the table.                    *)
DefaultLine(default, is_unknown) ==
    [contains_null       |-> is_unknown \/ default = {},
     has_non_null_values |-> is_unknown \/ default # {},
     min |-> IF is_unknown THEN {} ELSE default,
     max |-> IF is_unknown THEN {} ELSE default]

--------------------------------------------------------------------------------
(* merge_stat_extrema: no bounds as soon as one source's are not to be      *)
(* trusted.                                                                 *)

merge_stat_extrema(rows) ==
    IF \E r \in rows : typed_extrema_are_invalid(r)
    THEN [min |-> {}, max |-> {}]
    ELSE [min |-> Lowest(UNION {r.min : r \in rows}),
          max |-> Highest(UNION {r.max : r \in rows})]
================================================================================
