---------------------------- MODULE Maintenance ----------------------------
(***************************************************************************)
(* Expiring snapshots and cleaning up the files no snapshot needs          *)
(* (maintenance.rs, fdb_cleanup.rs, runtime_cleanup.rs), beside the        *)
(* commits of Compaction.                                                  *)
(*                                                                         *)
(* A client lists old files, deletes them from storage, lists again and    *)
(* asks for their rows to be removed.  The server removes one row per      *)
(* transaction, data files first.  Either side may stop between any two    *)
(* steps.  A removed row keeps its id in use: its begin order is cleared   *)
(* and nothing else can tell it from a row that was never written.         *)
(***************************************************************************)
EXTENDS ChangeFeed

CONSTANTS
    CleanupModes,   \* what a client asks for: all old files, or the scheduled ones only
    MaxCrashes      \* bound: cleanups that stop half way

ASSUME MaintenanceAssumption ==
    /\ CleanupModes \subseteq {"all", "scheduled"}
    /\ MaxCrashes \in Nat

VARIABLES
    retained,                     \* snapshot_timestamp_key: orders of the snapshots listed
    missingData, missingDeletes,  \* files deleted from storage
    cleaner,                      \* the cleanup in progress
    crashes,
    unanswered,                   \* history: data files that cleanup takes for replaced by a file
                                  \* that does not answer for their snapshots
    abandoned                     \* history: delete files of data files a mutation dropped

history == <<unanswered, abandoned>>
cleanupVars == <<retained, missingData, missingDeletes, cleaner, crashes, history>>
maintenanceVars == <<vars, cleanupVars>>

NoCleanup == [pc |-> "idle", data |-> {}, deletes |-> {}, snapshots |-> {}, row |-> NoFile]

MaintenanceInit ==
    /\ Init
    /\ retained = {latestOrder}
    /\ missingData = {} /\ missingDeletes = {}
    /\ cleaner = NoCleanup
    /\ crashes = 0
    /\ unanswered = {} /\ abandoned = {}

IsRow(row) == row.begin # NoOrder
RemovedDataFile == [NoDataFile EXCEPT !.end = 1]
RemovedDeleteFile(d) == [deleteFiles[d] EXCEPT !.begin = NoOrder, !.rows = {}]

-----------------------------------------------------------------------------
(* Which files are old *)

\* Bug variant: every ended row is taken for unreachable.
IsEnded(row, snapshots) == IsRow(row) /\ row.end # NoOrder

\* row_is_unreachable
IsUnreachable(row, snapshots) ==
    /\ IsRow(row) /\ row.end # NoOrder
    /\ ~ \E s \in snapshots : IsVisibleAt(row, s)

\* has_covering_data_file: any row, ended or not, that begins early enough and spans the
\* row ids, or is a larger file of the same partition.
HasCoveringDataFile(i, order) ==
    \E c \in FileIds \ {i} :
        /\ IsRow(dataFiles[c]) /\ dataFiles[c].begin <= order
        /\ \/ record_count(dataFiles[i]) # 0 /\ CoversRowIdRange(dataFiles[c], dataFiles[i])
           \/ /\ record_count(dataFiles[c]) > record_count(dataFiles[i])
              /\ SameNonEmptyKey(dataFiles[c], dataFiles[i])

\* scheduled_data_file_is_safe_for_physical_cleanup: the sources of a merge always are.
ScheduledDataFileIsSafe(i) ==
    /\ IsRow(dataFiles[i]) /\ dataFiles[i].end # NoOrder
    /\ \/ scheduled[i] = CompactionReplacement
       \/ /\ scheduled[i] = UnreachableOnly
          /\ \A s \in retained : IsVisibleAt(dataFiles[i], s) => HasCoveringDataFile(i, s)

\* Bug variant: the end index is not read.
ScheduledDataFiles(mode) == {i \in FileIds : ScheduledDataFileIsSafe(i)}

\* list_old_data_files_for_cleanup: the schedule, and for all files the end index too.
OldDataFiles(mode) ==
    {i \in FileIds :
        \/ ScheduledDataFileIsSafe(i)
        \/ mode = "all" /\ IsUnreachable(dataFiles[i], retained)}

\* delete_file_answers_any_retained_snapshot: by its validity, which starts with the first
\* delete file of the chain it replaced.
DeleteFileIsSafe(d, snapshots) == IsUnreachable(deleteFiles[d], snapshots)

\* delete_file_cleanup_is_allowed
DeleteFileCleanupIsAllowed(d, snapshots) ==
    \/ DeleteFileIsSafe(d, snapshots)
    \/ /\ IsRow(deleteFiles[d]) /\ deleteFiles[d].end # NoOrder
       /\ scheduled[deleteFiles[d].data_file] = CompactionReplacement

\* list_old_delete_files_for_cleanup
OldDeleteFiles == {d \in FileIds : DeleteFileCleanupIsAllowed(d, retained)}

\* cleanup_delete_files: what a client is told to delete must be safe.
DeletableDeleteFiles(mode) ==
    {d \in OldDeleteFiles : /\ DeleteFileIsSafe(d, retained)
                            /\ mode = "all" \/ d \in scheduledDeletes}

-----------------------------------------------------------------------------
(* Snapshots *)

\* The data files that a step drops: only mutations schedule files so.
Dropping == {i \in FileIds : scheduled[i] # UnreachableOnly /\ scheduled'[i] = UnreachableOnly}

\* The sources of a merge whose replacement begins with the merge, as that of files of one
\* commit does.
MergedLate ==
    {i \in FileIds :
        /\ scheduled[i] # CompactionReplacement /\ scheduled'[i] = CompactionReplacement
        /\ \E c \in UnusedIds :
              /\ dataFiles'[c].begin = latestOrder'
              /\ RowsOf(dataFiles[i]) \subseteq RowsOf(dataFiles'[c])}

\* Each commit of the catalog adds its snapshot.
CatalogStep ==
    /\ Next
    /\ retained' = retained \cup {latestOrder'}
    /\ abandoned' = abandoned \cup ({currentDeleteFile[i] : i \in Dropping} \ {NoFile})
    /\ unanswered' = unanswered \cup MergedLate
    /\ UNCHANGED <<missingData, missingDeletes, cleaner, crashes>>

\* expire_snapshots refuses the newest one.
ExpireSnapshot(s) ==
    /\ s \in retained \ {latestOrder}
    /\ retained' = retained \ {s}
    /\ UNCHANGED <<vars, missingData, missingDeletes, cleaner, crashes, history>>

-----------------------------------------------------------------------------
(* The client's side of a cleanup *)

\* ListOldFilesForCleanup, a read at one version
ListOldFiles(mode) ==
    /\ cleaner.pc = "idle"
    /\ OldDataFiles(mode) \cup DeletableDeleteFiles(mode) # {}
    /\ cleaner' = [NoCleanup EXCEPT !.pc = "listed", !.data = OldDataFiles(mode),
                                    !.deletes = DeletableDeleteFiles(mode)]
    /\ unanswered' = unanswered \cup
          {i \in OldDataFiles(mode) : /\ scheduled[i] = UnreachableOnly
                                     /\ ~ IsUnreachable(dataFiles[i], retained)}
    /\ UNCHANGED <<vars, retained, missingData, missingDeletes, crashes, abandoned>>

DeleteFromStorage ==
    /\ cleaner.pc = "listed"
    /\ missingData' = missingData \cup cleaner.data
    /\ missingDeletes' = missingDeletes \cup cleaner.deletes
    /\ cleaner' = [cleaner EXCEPT !.pc = "deleted"]
    /\ UNCHANGED <<vars, retained, crashes, history>>

\* RemoveFilesScheduledForCleanup lists all old files again and asks for those it deleted.
RequestRemoval ==
    /\ cleaner.pc = "deleted"
    /\ cleaner' = [cleaner EXCEPT !.pc = "requested",
                        !.data = @ \cap OldDataFiles("all"),
                        !.deletes = @ \cap DeletableDeleteFiles("all")]
    /\ UNCHANGED <<vars, retained, missingData, missingDeletes, crashes, history>>

-----------------------------------------------------------------------------
(* RemoveCleanupFiles, on the server *)

\* The first read of remove_old_data_files_checked and of remove_old_delete_files_checked:
\* each row found later is judged by these snapshots.
ReadSnapshots ==
    /\ \/ cleaner.pc = "requested"
       \/ cleaner.pc = "data" /\ cleaner.data = {}
    /\ cleaner' = [cleaner EXCEPT !.snapshots = retained,
                        !.pc = IF @ = "requested" THEN "data rows" ELSE "delete rows"]
    /\ UNCHANGED <<vars, retained, missingData, missingDeletes, crashes, history>>

ListDataRows ==
    /\ cleaner.pc = "data rows"
    /\ cleaner' = [cleaner EXCEPT !.pc = "data", !.data = @ \cap OldDataFiles("all")]
    /\ UNCHANGED <<vars, retained, missingData, missingDeletes, crashes, history>>

RemoveRowOf(i) ==
    IF IsUnreachable(dataFiles[i], cleaner.snapshots)
    THEN dataFiles' = [dataFiles EXCEPT ![i] = RemovedDataFile]
    ELSE UNCHANGED dataFiles

\* remove_data_file_metadata, when no snapshot sees the file; blind clears.
RemoveDataFile(i) ==
    /\ cleaner.pc = "data" /\ i \in cleaner.data
    /\ RemoveRowOf(i)
    /\ cleaner' = [cleaner EXCEPT !.data = @ \ {i}, !.row = i,
                        !.pc = IF scheduled[i] = NotScheduled THEN "data" ELSE "unschedule"]
    /\ UNCHANGED <<latestOrder, deleteFiles, deleteTimeline, currentDeleteFile,
                   inlineFileDeletions, dataFileChanges, deleteFileChanges, table, scheduled,
                   scheduledDeletes, nextRowId, inserted, deleted, job, met,
                   retained, missingData, missingDeletes, crashes, history>>

\* clear_scheduled_data_file_cleanup, a transaction of its own
ClearScheduledDataFile ==
    /\ cleaner.pc = "unschedule"
    /\ scheduled' = Scheduled({cleaner.row}, NotScheduled)
    /\ cleaner' = [cleaner EXCEPT !.pc = "data", !.row = NoFile]
    /\ UNCHANGED <<latestOrder, dataFiles, deleteFiles, deleteTimeline, currentDeleteFile,
                   inlineFileDeletions, dataFileChanges, deleteFileChanges, table,
                   scheduledDeletes, nextRowId, inserted, deleted, job, met,
                   retained, missingData, missingDeletes, crashes, history>>

ListDeleteRows ==
    /\ cleaner.pc = "delete rows"
    /\ cleaner' = [cleaner EXCEPT !.pc = "deletes", !.deletes = @ \cap OldDeleteFiles]
    /\ UNCHANGED <<vars, retained, missingData, missingDeletes, crashes, history>>

\* remove_delete_file_metadata clears the timeline entry under the row's begin order; a row
\* that the snapshots read first still need is left alone.
RemoveDeleteFile(d) ==
    LET row == deleteFiles[d]
        allowed == DeleteFileCleanupIsAllowed(d, cleaner.snapshots)
    IN  /\ cleaner.pc = "deletes" /\ d \in cleaner.deletes
        /\ deleteFiles' = [deleteFiles EXCEPT ![d] = IF allowed THEN RemovedDeleteFile(d) ELSE @]
        /\ deleteTimeline' =
              [deleteTimeline EXCEPT ![row.data_file] =
                  @ \ (IF allowed THEN {<<row.begin, d>>} ELSE {})]
        /\ cleaner' = [cleaner EXCEPT !.deletes = @ \ {d}, !.row = d,
                          !.pc = IF allowed /\ d \in scheduledDeletes
                                 THEN "unschedule delete" ELSE "deletes"]
        /\ UNCHANGED <<latestOrder, dataFiles, currentDeleteFile, inlineFileDeletions,
                       dataFileChanges, deleteFileChanges, table, scheduled, scheduledDeletes,
                       nextRowId, inserted, deleted, job, met,
                       retained, missingData, missingDeletes, crashes, history>>

\* clear_scheduled_delete_file_cleanup
ClearScheduledDeleteFile ==
    /\ cleaner.pc = "unschedule delete"
    /\ scheduledDeletes' = scheduledDeletes \ {cleaner.row}
    /\ cleaner' = [cleaner EXCEPT !.pc = "deletes", !.row = NoFile]
    /\ UNCHANGED <<latestOrder, dataFiles, deleteFiles, deleteTimeline, currentDeleteFile,
                   inlineFileDeletions, dataFileChanges, deleteFileChanges, table, scheduled,
                   nextRowId, inserted, deleted, job, met,
                   retained, missingData, missingDeletes, crashes, history>>

FinishCleanup ==
    /\ cleaner.pc = "deletes" /\ cleaner.deletes = {}
    /\ cleaner' = NoCleanup
    /\ UNCHANGED <<vars, retained, missingData, missingDeletes, crashes, history>>

\* The client or the server stops; the next cleanup starts from a new listing.
Crash ==
    /\ cleaner.pc # "idle" /\ crashes < MaxCrashes
    /\ crashes' = crashes + 1
    /\ cleaner' = NoCleanup
    /\ UNCHANGED <<vars, retained, missingData, missingDeletes, history>>

-----------------------------------------------------------------------------
RemovalStep ==
    \/ DeleteFromStorage
    \/ RequestRemoval
    \/ ReadSnapshots
    \/ ListDataRows
    \/ \E i \in FileIds : RemoveDataFile(i)
    \/ ClearScheduledDataFile
    \/ ListDeleteRows
    \/ \E d \in FileIds : RemoveDeleteFile(d)
    \/ ClearScheduledDeleteFile
    \/ FinishCleanup

MaintenanceNext ==
    \/ CatalogStep
    \/ \E s \in retained : ExpireSnapshot(s)
    \/ \E mode \in CleanupModes : ListOldFiles(mode)
    \/ RemovalStep
    \/ Crash

MaintenanceSpec == MaintenanceInit /\ [][MaintenanceNext]_maintenanceVars

\* Cleanups of all old files keep being run, and one that does not stop half way ends.
CleanupSpec ==
    /\ MaintenanceSpec
    /\ WF_maintenanceVars(ListOldFiles("all"))
    /\ WF_maintenanceVars(RemovalStep)

-----------------------------------------------------------------------------
(* Properties *)

\* A reader of a retained snapshot gets each row that is live there from exactly one listed
\* file, and that file and its delete file are still in storage: what cleanup deletes or
\* forgets is never needed again (scheduled_data_file_is_safe_for_physical_cleanup,
\* row_is_unreachable, delete_file_is_safe_for_physical_cleanup).  Excepted are two kinds of
\* files, which are deleted while a retained snapshot reads them: files that a mutation dropped
\* and has_covering_data_file holds for covered, as it takes the ended source of a rewrite, or
\* any larger file of the partition, for one that has their rows; and the sources of a merge
\* of files of one commit, whose replacement does not answer for the snapshots before it.
RetainedSnapshotsAreReadable ==
    Regular => \A s \in retained : TableIsCurrent \/ s < table.dropped =>
        LET listed == ListDataFilesAt(dataFiles, s)
        IN  /\ \A r \in RowIds :
                  Cardinality({i \in listed : r \in RowsReadFrom(i, s)})
                      = IF LiveAt(r, s) THEN 1 ELSE 0
            /\ \A i \in listed : RowsReadFrom(i, s) # {} =>
                  /\ i \notin missingData \/ i \in unanswered
                  /\ LoadDeleteFileAt(deleteTimeline[i], deleteFiles, s) \cap missingDeletes = {}

\* A delete file whose data file row is gone is itself listed for removal, so the error
\* "delete file references missing data file" that fails every listing of known files goes
\* away with the next cleanup (list_known_files_for_orphan_cleanup).  Excepted are the delete
\* files of data files that a mutation dropped: it does not end them, so no cleanup lists them
\* and the error stays.
DanglingDeleteFilesAreCleanable ==
    Regular => \A d \in FileIds \ abandoned :
        IsRow(deleteFiles[d]) /\ ~ IsRow(dataFiles[deleteFiles[d].data_file])
            => d \in OldDeleteFiles

\* A data file or delete file that no retained snapshot sees any more loses its row in the
\* end, whatever cleanups stopped half way and whether it was scheduled or not.
OldFilesAreRemoved ==
    \A i \in FileIds :
        /\ IsUnreachable(dataFiles[i], retained) ~> ~ IsRow(dataFiles[i])
        /\ DeleteFileIsSafe(i, retained) ~> ~ IsRow(deleteFiles[i])
=============================================================================
