------------------------------- MODULE Catalog -------------------------------
(***************************************************************************)
(* The persisted state of one catalog, by key family, and what the staging *)
(* functions write to it.  A commit of FoundationDB gives every row it     *)
(* writes one new order (the versionstamp), so orders are the positions    *)
(* 1, 2, ... of the commits and 0 stands for an absent order.              *)
(***************************************************************************)
EXTENDS Integers

CONSTANTS
    Tables,     \* table ids
    Rows,       \* the row deletions that are told apart
    MaxFileId   \* bound: file ids are 0 .. MaxFileId

ASSUME CatalogAssumption == MaxFileId \in Nat

VARIABLES
    latestOrder,        \* order of the newest snapshot row
    dataFiles,          \* data_file_key: id -> row
    currentDataFiles,   \* ids that have a current_data_file_key
    deleteFiles,        \* delete_file_key: id -> row
    currentDeleteFile,  \* current_delete_file_key: data file id -> delete file id
    currentTables,      \* current_table_row_key: table -> row
    tableNextRowId,     \* table_next_row_id_key
    maxFileId,          \* conflict_max_file_id_key, raised by reservations
    inlineRows,         \* begin orders of a table's payload chunks not yet flushed
    flushFence          \* the inline flush fence key of a table: flushes so far

catalogVars ==
    <<latestOrder, dataFiles, currentDataFiles, deleteFiles, currentDeleteFile,
      currentTables, tableNextRowId, maxFileId, inlineRows, flushFence>>

NoOrder == 0
NoFile == -1
FileIdSet == 0 .. MaxFileId

\* ValidityWindow is begin/end; a row that was never written has no begin.
DataFileRow ==
    [table : Tables, begin : Nat, end : Nat, row_id_start : Nat, record_count : Nat,
     partition : Nat]
\* `partial` is max_partial_order; `rows` are the deletions the file contains.
DeleteFileRow ==
    [data_file : FileIdSet, begin : Nat, end : Nat, partial : Nat, rows : SUBSET Rows]
\* Versions of the column list and of the partition spec; columns = 0: no row.
TableRow == [columns : Nat, partition : Nat]

Exists(row) == row.begin # NoOrder
Open(row) == Exists(row) /\ row.end = NoOrder
TableExists(t) == currentTables[t].columns # 0

\* [start .. start + count) of two files intersect (reject_row_id_overlap).
Overlaps(a, b) ==
    /\ a.table = b.table
    /\ a.row_id_start < b.row_id_start + b.record_count
    /\ b.row_id_start < a.row_id_start + a.record_count

Maximum(a, b) == IF a >= b THEN a ELSE b

-----------------------------------------------------------------------------
\* stage_data_file_without_watermark: the row and its current entry.
StageDataFile(files, id, row) == [files EXCEPT ![id] = row]

\* stage_expired_data_file: the end order is stamped into every dropped row.
StageExpired(files, ids, order) ==
    [f \in FileIdSet |-> IF f \in ids THEN [files[f] EXCEPT !.end = order] ELSE files[f]]

\* stage_close_current_delete_file: ends the row the current pointer names.
StageCloseDelete(files, old, order) ==
    IF old = NoFile THEN files ELSE [files EXCEPT ![old].end = order]

\* stage_delete_file_without_watermark: a replacement inherits the begin order of
\* the file it closes and carries the commit's order as its max_partial_order.
StageDeleteFile(files, old, id, target, rows, order) ==
    [StageCloseDelete(files, old, order) EXCEPT ![id] =
        [data_file |-> target,
         begin     |-> IF old = NoFile THEN order ELSE files[old].begin,
         end       |-> NoOrder,
         partial   |-> IF old = NoFile THEN NoOrder ELSE order,
         rows      |-> rows]]

-----------------------------------------------------------------------------
CatalogTypeOK ==
    /\ latestOrder \in Nat
    /\ dataFiles \in [FileIdSet -> DataFileRow]
    /\ currentDataFiles \in SUBSET FileIdSet
    /\ deleteFiles \in [FileIdSet -> DeleteFileRow]
    /\ currentDeleteFile \in [FileIdSet -> FileIdSet \cup {NoFile}]
    /\ currentTables \in [Tables -> TableRow]
    /\ tableNextRowId \in [Tables -> Nat]
    /\ maxFileId \in FileIdSet \cup {NoFile}
    /\ inlineRows \in [Tables -> SUBSET Nat]
    /\ flushFence \in [Tables -> Nat]
=============================================================================
