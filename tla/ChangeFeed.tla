----------------------------- MODULE ChangeFeed -----------------------------
(***************************************************************************)
(* The insertion and deletion feeds of a table between two snapshots       *)
(* (runtime_change_feed.rs, delete_change_feed.rs), over the files that    *)
(* appends, deletes and compactions leave behind (Compaction).             *)
(*                                                                         *)
(* Both ends of the range belong to it.  A feed answers with files; which  *)
(* rows the client reports from them follows from the filters and the      *)
(* delete files that come with each entry.                                 *)
(***************************************************************************)
EXTENDS Compaction

Ranges == {<<s, e>> \in (1 .. latestOrder) \X (1 .. latestOrder) : s <= e}

-----------------------------------------------------------------------------
(* Insertions *)

\* insertion_file_overlaps_window: from the first insertion a file holds to the last.
OverlapsWindow(f, start, end) ==
    /\ f.begin # NoOrder
    /\ f.begin <= end
    /\ Max({f.begin, f.max_partial}) >= start

\* Files begun inside the range of insertions that a current merged file holds are taken
\* for its sources.
WithoutCompactedSources(ids) ==
    {i \in ids : ~ \E m \in ids \ {i} :
        /\ Current(dataFiles[m]) /\ dataFiles[m].max_partial # NoOrder
        /\ dataFiles[i].begin \in dataFiles[m].begin .. dataFiles[m].max_partial}

\* The begin index up to the end of the range, and every merged file.
InsertionFiles(start, end) ==
    WithoutCompactedSources({i \in FileIds : OverlapsWindow(dataFiles[i], start, end)})

\* Bug variant: a merged file is reported whole.
AllRows(f, start, end) == RowsOf(f)

\* snapshot_filter_min and snapshot_filter_max cut a file that reaches out of the range.
InsertedRows(f, start, end) ==
    {r \in RowsOf(f) : /\ f.begin < start => f.origin[r] >= start
                       /\ f.max_partial > end => f.origin[r] <= end}

-----------------------------------------------------------------------------
(* Deletions, as (row, order of the deletion) *)

\* load_previous_delete_file_before: the rows of the last delete file entered earlier.
PreviouslyDeleted(i, order) ==
    LET earlier == {e \in deleteTimeline[i] : e[1] < order}
        last == CHOOSE e \in earlier : \A other \in earlier : other[1] <= e[1]
    IN  IF earlier = {} THEN {} ELSE deleteFiles[last[2]].rows

\* list_order_delete_file_changes_between
DeleteChangesOf(i, start, end) ==
    {c \in deleteFileChanges : c[1] \in start .. end /\ deleteFiles[c[2]].data_file = i}

\* Bug variant: a delete file reports all its rows, those of the file it replaced too.
WholeDeleteFiles(i, start, end) ==
    UNION {{<<r, c[1]>> : r \in deleteFiles[c[2]].rows} : c \in DeleteChangesOf(i, start, end)}

\* list_partial_delete_scan_files
PartialDeletions(i, start, end) ==
    UNION {{<<r, c[1]>> : r \in deleteFiles[c[2]].rows \ PreviouslyDeleted(i, c[1])} :
        c \in DeleteChangesOf(i, start, end)}

\* merge_inline_file_deletion_scans: a file removed in the range takes the inline
\* deletions of its whole life, and those from before the range only hide rows.
InlineDeletions(i, start, end) ==
    {<<x[2], x[3]>> : x \in {y \in InlineDeletionsOf(i) : y[3] \in start .. end}}

\* list_full_delete_scan_files: the file's removal deletes the rows it still had.
FullDeletions(i, start, end) ==
    UNION {{<<r, c[1]>> : r \in RowsOf(dataFiles[i]) \ (PreviouslyDeleted(i, c[1])
                                   \cup {x[2] : x \in InlineDeletionsOf(i)})} :
        c \in {x \in dataFileChanges : x[1] \in start .. end /\ x[2] = "removed" /\ x[3] = i}}

DeletionFeed(start, end) ==
    UNION {PartialDeletions(i, start, end) \cup InlineDeletions(i, start, end)
             \cup FullDeletions(i, start, end) : i \in FileIds}

-----------------------------------------------------------------------------
(* Properties *)

\* Orders at which files were removed and no row was deleted: a compaction or a table drop.
ReorganizedAt ==
    {c[1] : c \in {x \in dataFileChanges : x[2] = "removed"}} \ {deleted[r] : r \in RowIds}

\* Every merged file is still current, and holds all files begun in its range of insertions.
MergedFilesAreWhole ==
    \A m \in FileIds : dataFiles[m].max_partial # NoOrder =>
        /\ Current(dataFiles[m])
        /\ \A i \in FileIds : dataFiles[i].begin \in dataFiles[m].begin .. dataFiles[m].max_partial
              => RowsOf(dataFiles[i]) \subseteq RowsOf(dataFiles[m])

\* Between any two snapshots the insertion feed reports each row that was inserted there,
\* from one file, and no other row: compactions neither hide nor repeat an insertion
\* (insertion_files, without_compacted_sources).  It does so while merged files are whole,
\* and where no file begins with a rewrite or with a merge of files of one commit.
InsertionFeedAgrees ==
    Regular /\ MergedFilesAreWhole =>
        LET begun == {dataFiles[i].begin : i \in FileIds} \cap ReorganizedAt
        IN  \A range \in Ranges : begun \cap (range[1] .. range[2]) = {} =>
                LET files == InsertionFiles(range[1], range[2])
                    reported == [i \in files |-> InsertedRows(dataFiles[i], range[1], range[2])]
                IN  \A r \in RowIds :
                        Cardinality({i \in files : r \in reported[i]})
                            = IF inserted[r] \in range[1] .. range[2] THEN 1 ELSE 0

\* Between any two snapshots without a compaction or a table drop the deletion feed
\* reports each row that was deleted there with the order of its deletion, and no other row,
\* whatever compactions came before or after (list_table_deletion_scan_files).
DeletionFeedAgrees ==
    Regular =>
        LET reorganized == ReorganizedAt
        IN  \A range \in Ranges : reorganized \cap (range[1] .. range[2]) = {} =>
                DeletionFeed(range[1], range[2])
                    = {<<r, deleted[r]>> : r \in {x \in RowIds : deleted[x] \in range[1] .. range[2]}}
=============================================================================
