----------------------------- MODULE FileListing -----------------------------
(***************************************************************************)
(* Which data files, delete files and rows a listing answers for one       *)
(* snapshot order of one table (data_file_store, runtime_file_listing.rs). *)
(*                                                                         *)
(* A merged file keeps its sources' rows together with the order each row  *)
(* was inserted at.  It begins where its first source begins, and its      *)
(* max_partial_order is the newest insertion it contains, so it answers    *)
(* for older snapshots too: the client filters its rows by order, and the  *)
(* listing leaves out the source files it covers.                          *)
(***************************************************************************)
EXTENDS Integers, FiniteSets, FiniteSetsExt

NoOrder == 0
NoPartition == 0

NoDataFile ==
    [begin |-> NoOrder, end |-> NoOrder, max_partial |-> NoOrder, row_id_start |-> 0,
     row_id_start_known |-> FALSE, origin |-> <<>>, partition |-> NoPartition]

RowsOf(f) == DOMAIN f.origin
record_count(f) == Cardinality(RowsOf(f))
row_id_end(f) == f.row_id_start + record_count(f)

\* Written and not ended: the file has a current_data_file_key.
Current(f) == f.begin # NoOrder /\ f.end = NoOrder

\* ValidityWindow::is_visible_at
IsVisibleAt(row, order) ==
    /\ row.begin # NoOrder
    /\ row.begin <= order
    /\ row.end = NoOrder \/ order < row.end

-----------------------------------------------------------------------------
(* Duplicate suppression *)

IsBackfilledReplacementFile(f) ==
    f.max_partial # NoOrder /\ f.max_partial # f.begin

CoversRowIdRange(self, f) ==
    /\ self.row_id_start_known /\ f.row_id_start_known
    /\ self.row_id_start <= f.row_id_start
    /\ row_id_end(f) <= row_id_end(self)

PartitionPathsAreKnownAndDifferent(self, f) ==
    NoPartition \notin {self.partition, f.partition} /\ self.partition # f.partition

SameNonEmptyKey(self, f) ==
    self.partition # NoPartition /\ self.partition = f.partition

\* DataFileCoverage::covers
Covers(self, f) ==
    /\ record_count(f) # 0
    /\ f.begin <= self.max_partial
    /\ \/ /\ CoversRowIdRange(self, f)
          /\ ~ PartitionPathsAreKnownAndDifferent(self, f)
       \/ /\ ~ CoversRowIdRange(self, f)
          /\ ~ (self.row_id_start_known /\ f.row_id_start_known)
          /\ record_count(self) > record_count(f)
          /\ self.begin <= f.begin
          /\ SameNonEmptyKey(self, f)

WithoutBackfilledSourceDuplicates(files, ids) ==
    {i \in ids : \A r \in ids \ {i} :
        ~ (IsBackfilledReplacementFile(files[r]) /\ Covers(files[r], files[i]))}

\* The begin index up to `order`, and the current files it does not hold yet.
ListDataFilesAt(files, order) ==
    WithoutBackfilledSourceDuplicates(files,
        {i \in DOMAIN files : IsVisibleAt(files[i], order)})

-----------------------------------------------------------------------------
(* Deletions of a listed file *)

\* The newest entry of the file's delete timeline at or before `order`; the row it
\* names answers only if it is visible.  `timeline` holds (order, delete file id).
LoadDeleteFileAt(timeline, delete_files, order) ==
    LET past == {e \in timeline : e[1] <= order}
        newest == CHOOSE e \in past : \A other \in past : other[1] <= e[1]
    IN  IF past # {} /\ IsVisibleAt(delete_files[newest[2]], order)
        THEN {newest[2]} ELSE {}

\* Rows removed by the attached delete file and by inline deletions, which are
\* (data file id, row id, order).
DeletedRowsAt(timeline, delete_files, inline_deletions, i, order) ==
    UNION {delete_files[d].rows : d \in LoadDeleteFileAt(timeline[i], delete_files, order)}
        \cup {x[2] : x \in {y \in inline_deletions : y[1] = i /\ y[3] <= order}}

\* snapshot_filter_max is set when the file holds rows newer than the snapshot.
RowsUpTo(f, order) ==
    IF f.max_partial > order THEN {r \in RowsOf(f) : f.origin[r] <= order} ELSE RowsOf(f)
=============================================================================
