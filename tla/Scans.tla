------------------------------- MODULE Scans -------------------------------
(***************************************************************************)
(* How a client reads ranges and keys of the store: range scans in pages   *)
(* of one transaction each, with a budget of retries; prefixes scanned at  *)
(* once under one budget; point reads; the join of an index with its rows; *)
(* and the statistics and partition values of data files, which are read   *)
(* through the process's caches.  Other transactions commit between any    *)
(* two pages.                                                              *)
(*                                                                         *)
(* A key is a natural number: the statistics row of column c of file f is  *)
(* StatsKey(f, c), its partition value PartitionKey(f).  A version of the  *)
(* store is the set of files and the set of keys stored at it.  A file's   *)
(* rows are written with the file and removed with it, and a file id is    *)
(* used once.                                                              *)
(***************************************************************************)
EXTENDS Integers, Sequences, FiniteSets, FiniteSetsExt, TLC

CONSTANTS
    MaxFile,       \* files are 1 .. MaxFile
    Columns,       \* the columns that may have statistics: 1 .. Columns
    Shapes,        \* what a file may be written with: columns and a partition value or none
    ColumnSets,    \* the columns asked for together
    Asks,          \* the plain reads made: kind, ranges, keys, direction, limit
    PageSize,      \* items of one page
    Retries,       \* retries of one budget
    Window,        \* versions after which the store no longer answers at an older one
    FullFiles,     \* FULL_FILE_STATS_LOAD_MIN_FILES
    FullColumns,   \* FULL_FILE_STATS_LOAD_MIN_COLUMNS
    DenseFiles,    \* DENSE_FILE_COLUMN_STATS_SCAN_MIN_FILES and the partition values' one
    DenseGap,      \* DENSE_FILE_COLUMN_STATS_SCAN_MAX_GAP_FACTOR and the partition values' one
    MaxChanges     \* bound: commits of other transactions and entries the caches drop

VARIABLES
    versions,   \* Seq of [files, rows]
    context,    \* -1: no read context; 0: one without a version; else its leased version
    cache,      \* the process's caches: statistics rows, whole files, partition values
    job,        \* the call being made
    read,       \* the part of it being read now, with the version it reads at
    cursors,    \* one scan cursor for each range of it
    values,     \* the point reads of it: asked, then found
    budget      \* retries left: 0 for the point reads, i for the i-th range

vars == <<versions, context, cache, job, read, cursors, values, budget>>

Files == 1 .. MaxFile
StatsKey(f, c) == (f - 1) * Columns + c
PartitionKey(f) == MaxFile * Columns + f
StatsRange(f, g) == <<StatsKey(f, 1), StatsKey(g, Columns)>>
PartitionRange(f, g) == <<PartitionKey(f), PartitionKey(g)>>
FileRange(op, f, g) == IF op = "partitions" THEN PartitionRange(f, g) ELSE StatsRange(f, g)
Latest == versions[Len(versions)]

RowsOf(f, shape) ==
    {StatsKey(f, c) : c \in shape.columns} \cup IF shape.partition THEN {PartitionKey(f)} ELSE {}

(* The rows a file was written with.                                       *)
FileRows(f) ==
    LET v == CHOOSE v \in 1 .. Len(versions) : f \in versions[v].files
    IN  versions[v].rows \cap ({StatsKey(f, c) : c \in 1 .. Columns} \cup {PartitionKey(f)})

NoRead == [kind |-> "none", files |-> {}, ranges |-> <<>>, keys |-> {}, direction |-> "Forward",
           limit |-> {}, pinned |-> FALSE, since |-> 1]
NoJob == [op |-> "none", files |-> {}, keys |-> {}, rows |-> {}, loads |-> <<>>, status |-> "none"]
NoEntries == [f \in {} |-> {}]
NoCache == [row |-> {}, file |-> NoEntries, partitions |-> NoEntries, leased |-> NoEntries, evicted |-> 0]

-----------------------------------------------------------------------------
(* The cursor of one range, and its budget of retries.  Plain scans use    *)
(* the blocking cursor, the reads that run several scans at once the other;*)
(* they differ in what they check.                                         *)

Concurrent(kind) == kind \in {"prefixes", "read_set"}

SyncFdbScanCursor(range, limit) ==
    [start |-> range[1], end |-> range[2], remaining |-> limit,
     done |-> limit = {0} \/ range[1] > range[2], items |-> <<>>]

ScanCursor(range, limit) ==
    [start |-> range[1], end |-> range[2], remaining |-> limit, done |-> limit = {0}, items |-> <<>>]

Cursor(kind, range, limit) ==
    IF Concurrent(kind) THEN ScanCursor(range, limit) ELSE SyncFdbScanCursor(range, limit)

SyncFdbScanBudget == Retries
ScanBudget == Retries
Budget(kind) == IF Concurrent(kind) THEN ScanBudget ELSE SyncFdbScanBudget

page_size(c) == IF c.remaining = {} THEN PageSize ELSE Min(c.remaining \cup {PageSize})

keys_are_ordered(direction, a, b) == IF direction = "Forward" THEN a < b ELSE a > b

page_is_ordered(direction, page) ==
    \A i \in 1 .. Len(page) - 1 : keys_are_ordered(direction, page[i], page[i + 1])

(* What a transaction at version v returns for the cursor, a set of one:   *)
(* the first page_size keys of what is left of the range, in the direction *)
(* asked.  A key is left out only behind a full page.                      *)
scan_range_page(c, direction, v) ==
    LET left == versions[v].rows \cap (c.start .. c.end)
    IN  {page \in UNION {[1 .. n -> left] : n \in 0 .. page_size(c)} :
            /\ \A i, j \in 1 .. Len(page) : i < j => keys_are_ordered(direction, page[i], page[j])
            /\ \A k \in left : \/ \E i \in 1 .. Len(page) : page[i] = k
                             \/ /\ Len(page) = page_size(c)
                                /\ \A i \in 1 .. Len(page) : keys_are_ordered(direction, page[i], k)}

(* The page must be of the size and in the order asked, and behind what    *)
(* was returned before; the blocking cursor also wants it inside what is   *)
(* left of the range.                                                      *)
ValidPage(c, direction, page) ==
    /\ Len(page) <= page_size(c)
    /\ page_is_ordered(direction, page)
    /\ (page # <<>> /\ c.items # <<>>) => keys_are_ordered(direction, c.items[Len(c.items)], page[1])

ValidSyncPage(c, direction, page) ==
    /\ ValidPage(c, direction, page)
    /\ \A i \in 1 .. Len(page) : page[i] \in c.start .. c.end

PageIsValid(kind, c, direction, page) ==
    IF Concurrent(kind) THEN ValidPage(c, direction, page) ELSE ValidSyncPage(c, direction, page)

(* A short page ends a range scan.  scan_range_pages goes on after any     *)
(* page until one is empty or its probe is used up.  An index join, which  *)
(* has no limit, goes on after a full one.                                 *)
ShouldContinue(c, page) == Len(page) = page_size(c) /\ \A n \in c.remaining : n > Len(page)
ProbeContinues(c, page) == \A n \in c.remaining : n > Len(page)
JoinContinues(page) == Len(page) = PageSize

Continues(kind, c, page) ==
    CASE kind = "pages" -> ProbeContinues(c, page)
      [] kind = "mapped" -> JoinContinues(page)
      [] OTHER -> ShouldContinue(c, page)

NextEnd(c, direction, last) == IF direction = "Reverse" THEN last - 1 ELSE c.end

(* Mutant: the next page starts after as many keys as the page held,       *)
(* instead of after its last key.                                          *)
StartPlusPage(c, direction, last) == IF direction = "Forward" THEN c.start + page_size(c) ELSE c.start

NextStart(c, direction, last) == IF direction = "Forward" THEN last + 1 ELSE c.start

accept_page(kind, c, direction, page) ==
    IF page = <<>> THEN [c EXCEPT !.done = TRUE]
    ELSE [start |-> NextStart(c, direction, page[Len(page)]),
          end |-> NextEnd(c, direction, page[Len(page)]),
          remaining |-> {n - Len(page) : n \in c.remaining},
          done |-> ~Continues(kind, c, page),
          items |-> c.items \o page]

-----------------------------------------------------------------------------
(* Starting a read.                                                        *)

(* with_read_version: reads that use several transactions for one answer   *)
(* fix the version first.  In a read context every transaction gets the    *)
(* version the context leased.                                             *)
with_read_version(kind) == context # -1 \/ kind \in {"prefixes", "read_set", "mapped"}
fetch_read_version == IF context > 0 THEN context ELSE Len(versions)
BeginsLease == IF context = 0 THEN Len(versions) ELSE context

Idle ==
    /\ read' = NoRead
    /\ cursors' = <<>>
    /\ values' = [read |-> TRUE, found |-> {}]
    /\ budget' = [i \in {0} |-> Retries]

StartRead(load) ==
    /\ read' = [kind |-> load.kind, files |-> load.files, ranges |-> load.ranges, keys |-> load.keys,
                direction |-> load.direction, limit |-> load.limit,
                pinned |-> with_read_version(load.kind), since |-> fetch_read_version]
    /\ cursors' = [i \in 1 .. Len(load.ranges) |-> Cursor(load.kind, load.ranges[i], load.limit)]
    /\ values' = [read |-> load.keys = {}, found |-> {}]
    /\ budget' = [i \in 0 .. Len(load.ranges) |-> Budget(load.kind)]
    /\ context' = BeginsLease

Start(op, files, keys, rows, loads) ==
    /\ job = NoJob
    /\ job' = [op |-> op, files |-> files, keys |-> keys, rows |-> rows,
               loads |-> IF loads = <<>> THEN <<>> ELSE Tail(loads),
               status |-> IF loads = <<>> THEN "answered" ELSE "reading"]
    /\ IF loads = <<>>
       THEN Idle /\ UNCHANGED context
       ELSE StartRead(Head(loads))

(* The reads of the store.  The probe of scan_range_pages asks for one     *)
(* item more than its caller allows.                                       *)
Ask(kind, ranges, keys, direction, limit) ==
    [kind |-> kind, files |-> {}, ranges |-> ranges, keys |-> keys, direction |-> direction, limit |-> limit]

get(key) == Ask("values", <<>>, {key}, "Forward", {})
batch_get(keys) == Ask("values", <<>>, keys, "Forward", {})
scan_range(range, direction, limit) == Ask("range", <<range>>, {}, direction, limit)
scan_prefixes(ranges, direction, limit) == Ask("prefixes", ranges, {}, direction, limit)
read_set(keys, ranges, direction, limit) == Ask("read_set", ranges, keys, direction, limit)
scan_index_rows(range) == Ask("mapped", <<range>>, {}, "Forward", {})
scan_range_pages(range, direction, max_items) == Ask("pages", <<range>>, {}, direction, {n + 1 : n \in max_items})

(* What a read may be asked for: one limit or none, and for an index join  *)
(* one range and no limit.                                                 *)
Loads ==
    {load \in [kind : {"values", "range", "prefixes", "read_set", "mapped", "pages"}, files : SUBSET Files,
               ranges : Seq(Int \X Int), keys : SUBSET Int,
               direction : {"Forward", "Reverse"}, limit : SUBSET Nat] :
        /\ \A m, n \in load.limit : m = n
        /\ load.kind = "mapped" => Len(load.ranges) = 1 /\ load.limit = {}}

(* A page holds an item, shapes and columns asked for name columns there   *)
(* are, and callers ask only for what a read may be asked for.             *)
ASSUME ScansAssumption ==
    /\ MaxFile \in Nat
    /\ Columns \in Nat
    /\ PageSize \in Nat \ {0}
    /\ Shapes \subseteq [columns : SUBSET (1 .. Columns), partition : BOOLEAN]
    /\ ColumnSets \subseteq (SUBSET (1 .. Columns)) \ {{}}
    /\ Asks \subseteq Loads

(* A plain scan of a range that ends before it starts is refused;          *)
(* scan_range_pages answers nothing for it.                                *)
StartPrecedesEnd(ask) == ask.kind = "range" => ask.ranges[1][1] <= ask.ranges[1][2] + 1

RefuseScan(ask) ==
    /\ job = NoJob
    /\ ~StartPrecedesEnd(ask)
    /\ job' = [NoJob EXCEPT !.op = "scan", !.status = "failed"]
    /\ UNCHANGED <<versions, context, cache, read, cursors, values, budget>>

Scan(ask) ==
    /\ StartPrecedesEnd(ask)
    /\ Start("scan", {}, {}, {}, <<ask>>)
    /\ UNCHANGED <<versions, cache>>

-----------------------------------------------------------------------------
(* The statistics and partition values of data files, through the caches.  *)

Close(files) == Max(files) - Min(files) + 1 <= Cardinality(files) * DenseGap
dense_file_column_stats_scan_is_worthwhile(files) == Cardinality(files) >= DenseFiles /\ Close(files)
dense_partition_value_scan_is_worthwhile(files) == Cardinality(files) >= DenseFiles /\ Close(files)
Dense(op, files) ==
    IF op = "partitions" THEN dense_partition_value_scan_is_worthwhile(files)
    ELSE dense_file_column_stats_scan_is_worthwhile(files)

(* One range over all the files, of which the rows of other files are      *)
(* dropped, or one prefix for each.                                        *)
load_dense(op, files) == [scan_range(FileRange(op, Min(files), Max(files)), "Forward", {}) EXCEPT !.files = files]

load_prefixes(op, files) ==
    LET listed == CHOOSE f \in Bijection(1 .. Cardinality(files), files) : TRUE
        ranges == [i \in 1 .. Cardinality(files) |-> FileRange(op, listed[i], listed[i])]
    IN  [scan_prefixes(ranges, "Forward", {}) EXCEPT !.files = files]

LoadFiles(op, files) ==
    IF files = {} THEN <<>>
    ELSE IF Dense(op, files) THEN <<load_dense(op, files)>> ELSE <<load_prefixes(op, files)>>

load_exact_missing_file_column_stats(keys) == IF keys = {} THEN <<>> ELSE <<batch_get(keys)>>

(* The partition values a read context has read are cached for it alone.   *)
FileCache(op) == IF op # "partitions" THEN cache.file ELSE IF context = -1 THEN cache.partitions ELSE cache.leased

ListFileRows(op, files) ==
    LET cached == files \cap DOMAIN FileCache(op)
    IN  /\ Start(op, files, {}, UNION {FileCache(op)[f] : f \in cached}, LoadFiles(op, files \ cached))
        /\ UNCHANGED <<versions, cache>>

list_file_column_stats_for_data_file_ids(files) == ListFileRows("ids", files)
list_file_partition_values_for_data_files(files) == ListFileRows("partitions", files)

FileOf(key) == CHOOSE f \in Files : \E c \in 1 .. Columns : key = StatsKey(f, c)
KeysOfFile(keys, f) == {k \in keys : FileOf(k) = f}

(* What is read for the rows of some columns that are not cached.  Few are *)
(* read one by one.  Of many, those of a file cached as a whole come from  *)
(* there; the files with many missing columns are loaded as a whole when   *)
(* they are many and close together; the rest is read one by one.          *)
load_missing_file_column_stats_for_data_file_columns(missing) ==
    LET few == Cardinality(missing) < FullFiles * FullColumns
        missing_files == {FileOf(k) : k \in missing}
        whole == IF few THEN {} ELSE missing_files \cap DOMAIN cache.file
        full == IF few THEN {}
                ELSE {f \in missing_files \ whole : Cardinality(KeysOfFile(missing, f)) >= FullColumns}
        loaded == IF Cardinality(full) >= FullFiles /\ Dense("columns", full) THEN full ELSE {}
        exact == {k \in missing : FileOf(k) \notin whole \cup loaded}
    IN  [cached |-> UNION {cache.file[f] \cap KeysOfFile(missing, f) : f \in whole},
         loads |-> LoadFiles("columns", loaded) \o load_exact_missing_file_column_stats(exact)]

(* For no columns the code makes the call above instead.                   *)
list_file_column_stats_for_data_file_columns(files, columns) ==
    LET asked == {StatsKey(f, c) : f \in files, c \in columns}
        missing == load_missing_file_column_stats_for_data_file_columns(asked \ cache.row)
    IN  /\ Start("columns", files, asked, (asked \cap cache.row) \cup missing.cached, missing.loads)
        /\ cache' = [cache EXCEPT !.row = @ \cup missing.cached]
        /\ UNCHANGED versions

(* The partition values of some keys: what is missing is read by itself    *)
(* and not cached.                                                         *)
list_file_partition_values_for_data_files_and_keys(files) ==
    LET cached == files \cap DOMAIN FileCache("partitions")
        exact == {PartitionKey(f) : f \in files \ cached}
    IN  /\ Start("partitions", files, {}, UNION {FileCache("partitions")[f] : f \in cached},
                 IF exact = {} THEN <<>> ELSE <<batch_get(exact)>>)
        /\ UNCHANGED <<versions, cache>>

RowsOfFile(op, rows, f) == rows \cap (FileRange(op, f, f)[1] .. FileRange(op, f, f)[2])

(* Mutant: a row read by itself makes the file count as cached.            *)
CachePartFiles(found) ==
    LET files == read.files \cup {f \in Files : RowsOfFile(job.op, read.keys, f) # {}}
        entries == [f \in files |-> RowsOfFile(job.op, found, f)]
    IN  IF job.op = "partitions" /\ context = -1 THEN [cache EXCEPT !.partitions = entries @@ @]
        ELSE IF job.op = "partitions" THEN [cache EXCEPT !.leased = entries @@ @]
        ELSE [cache EXCEPT !.file = entries @@ @, !.row = @ \cup found]

(* A file loaded as a whole is cached as a whole, and each statistics row  *)
(* also by itself; a row read by itself is cached by itself only.          *)
CacheLoaded(found) ==
    LET entries == [f \in read.files |-> RowsOfFile(job.op, found, f)]
    IN  IF job.op = "partitions" /\ context = -1 THEN [cache EXCEPT !.partitions = entries @@ @]
        ELSE IF job.op = "partitions" THEN [cache EXCEPT !.leased = entries @@ @]
        ELSE [cache EXCEPT !.file = entries @@ @, !.row = @ \cup found]

-----------------------------------------------------------------------------
(* Reading.                                                                *)

(* The version a transaction made now reads at.  The store answers at old  *)
(* versions for a while only.                                              *)
ReadVersion == IF read.pinned THEN read.since ELSE Len(versions)
Answers == Len(versions) - ReadVersion <= Window

Reading == job.status = "reading"
Failed == job' = [job EXCEPT !.status = "failed"]
WantsPage(i) == Reading /\ ~cursors[i].done

(* One page of the i-th range.  A page that breaks the cursor's rules ends *)
(* the call with an error.  The next page of scan_range_pages has a budget *)
(* of its own.                                                             *)
ReadPage(i) ==
    /\ WantsPage(i)
    /\ Answers
    /\ \E page \in scan_range_page(cursors[i], read.direction, ReadVersion) :
         IF PageIsValid(read.kind, cursors[i], read.direction, page)
         THEN /\ cursors' = [cursors EXCEPT ![i] = accept_page(read.kind, @, read.direction, page)]
              /\ budget' = IF read.kind = "pages" THEN [budget EXCEPT ![i] = SyncFdbScanBudget] ELSE budget
              /\ UNCHANGED job
         ELSE /\ job' = [job EXCEPT !.status = "rejected"]
              /\ UNCHANGED <<cursors, budget>>
    /\ UNCHANGED <<versions, context, cache, read, values>>

(* The prefixes scanned at once share one budget.                          *)
BudgetOf(i) == IF read.kind = "prefixes" THEN 1 ELSE i

(* Mutant: a retry that costs nothing.                                     *)
FreeRetry(i) == budget' = budget

record_retryable_failure(i) == budget' = [budget EXCEPT ![BudgetOf(i)] = @ - 1]

(* An attempt ends with a retryable error.  The page is read again; with   *)
(* no retry left the call fails.                                           *)
RetryPage(i) ==
    /\ WantsPage(i) /\ read.kind # "mapped"
    /\ IF budget[BudgetOf(i)] = 0 THEN Failed /\ UNCHANGED budget
       ELSE record_retryable_failure(i) /\ UNCHANGED job
    /\ UNCHANGED <<versions, context, cache, read, cursors, values>>

(* An index join starts again from its first page.                         *)
RetryJoin ==
    /\ read.kind = "mapped" /\ WantsPage(1)
    /\ IF budget[1] = 0 THEN Failed /\ UNCHANGED <<budget, cursors>>
       ELSE /\ record_retryable_failure(1)
            /\ cursors' = <<Cursor(read.kind, read.ranges[1], read.limit)>>
            /\ UNCHANGED job
    /\ UNCHANGED <<versions, context, cache, read, values>>

(* The point reads: all keys in one transaction, retried as a whole.       *)
ReadValues ==
    /\ Reading /\ ~values.read
    /\ Answers
    /\ values' = [read |-> TRUE, found |-> read.keys \cap versions[ReadVersion].rows]
    /\ UNCHANGED <<versions, context, cache, job, read, cursors, budget>>

RetryValues ==
    /\ Reading /\ ~values.read
    /\ IF budget[0] = 0 THEN Failed /\ UNCHANGED budget ELSE record_retryable_failure(0) /\ UNCHANGED job
    /\ UNCHANGED <<versions, context, cache, read, cursors, values>>

(* The deadline of the budget has passed when an attempt begins, or the    *)
(* error cannot be retried.                                                *)
GiveUp ==
    /\ \/ \E i \in 1 .. Len(cursors) : WantsPage(i)
       \/ Reading /\ ~values.read
    /\ Failed
    /\ UNCHANGED <<versions, context, cache, read, cursors, values, budget>>

Complete == Reading /\ values.read /\ \A i \in 1 .. Len(cursors) : cursors[i].done
Found == values.found \cup UNION {Range(cursors[i].items) : i \in 1 .. Len(cursors)}

(* What was read goes into the caches and the answer: of a range over      *)
(* several files the rows of those asked for only.                         *)
FinishRead ==
    LET found == IF read.files = {} THEN Found
                 ELSE UNION {RowsOfFile(job.op, Found, f) : f \in read.files}
        rows == job.rows \cup IF job.op = "columns" THEN found \cap job.keys ELSE found
    IN  /\ Complete
        /\ cache' = IF job.op = "scan" THEN cache ELSE CacheLoaded(found)
        /\ IF job.loads = <<>>
           THEN /\ job' = [job EXCEPT !.status = "answered", !.rows = rows]
                /\ Idle
                /\ UNCHANGED context
           ELSE /\ job' = [job EXCEPT !.rows = rows, !.loads = Tail(@)]
                /\ StartRead(Head(job.loads))
        /\ UNCHANGED versions

-----------------------------------------------------------------------------
(* The rest of the world, and the caller taking its answer before any of   *)
(* it matters.                                                             *)

Return ==
    /\ job # NoJob /\ ~Reading
    /\ job' = NoJob
    /\ Idle
    /\ UNCHANGED <<versions, context, cache>>

Taken == job = NoJob \/ Reading
Changes == Len(versions) - 1 + cache.evicted

(* A mutation commits a file with its rows.                                *)
AddFile(f, shape) ==
    /\ Taken
    /\ Changes < MaxChanges
    /\ \A v \in 1 .. Len(versions) : f \notin versions[v].files
    /\ versions' = Append(versions,
         [files |-> Latest.files \cup {f}, rows |-> Latest.rows \cup RowsOf(f, shape)])
    /\ UNCHANGED <<context, cache, job, read, cursors, values, budget>>

Without(entries, f) == [g \in DOMAIN entries \ {f} |-> entries[g]]

(* Cleanup removes an expired file with all its rows, and this process's   *)
(* cache entries for it when this process does the cleanup.                *)
RemoveFile(f, here) ==
    /\ Taken
    /\ Changes < MaxChanges
    /\ f \in Latest.files
    /\ versions' = Append(versions, [files |-> Latest.files \ {f}, rows |-> Latest.rows \ FileRows(f)])
    /\ cache' = IF here THEN [cache EXCEPT !.row = @ \ FileRows(f), !.file = Without(@, f), !.partitions = Without(@, f)]
                ELSE cache
    /\ UNCHANGED <<context, job, read, cursors, values, budget>>

(* The caches are bounded and drop entries.                                *)
Evict ==
    /\ Taken
    /\ Changes < MaxChanges
    /\ \/ \E k \in cache.row : cache' = [cache EXCEPT !.evicted = @ + 1, !.row = @ \ {k}]
       \/ \E f \in DOMAIN cache.file : cache' = [cache EXCEPT !.evicted = @ + 1, !.file = Without(@, f)]
       \/ \E f \in DOMAIN cache.partitions : cache' = [cache EXCEPT !.evicted = @ + 1, !.partitions = Without(@, f)]
       \/ \E f \in DOMAIN cache.leased : cache' = [cache EXCEPT !.evicted = @ + 1, !.leased = Without(@, f)]
    /\ UNCHANGED <<versions, context, job, read, cursors, values, budget>>

(* A read context begins or ends between two calls; no other has its name. *)
SwitchContext ==
    /\ job = NoJob
    /\ context' = IF context = -1 THEN 0 ELSE -1
    /\ cache' = [cache EXCEPT !.leased = NoEntries]
    /\ UNCHANGED <<versions, job, read, cursors, values, budget>>

-----------------------------------------------------------------------------

(* Some files have been written before.                                    *)
Init ==
    /\ \E files \in SUBSET Files : \E shape \in [files -> Shapes] :
         versions = <<[files |-> files, rows |-> UNION {RowsOf(f, shape[f]) : f \in files}]>>
    /\ context = -1
    /\ cache = NoCache
    /\ job = NoJob
    /\ read = NoRead
    /\ cursors = <<>>
    /\ values = [read |-> TRUE, found |-> {}]
    /\ budget = [i \in {0} |-> Retries]

(* A caller asks for files it has listed at the version it reads.          *)
Listed == versions[fetch_read_version].files

Attempt ==
    \/ \E i \in 1 .. Len(cursors) : ReadPage(i) \/ RetryPage(i)
    \/ RetryJoin
    \/ ReadValues
    \/ RetryValues
    \/ FinishRead

Next ==
    \/ \E ask \in Asks : Scan(ask) \/ RefuseScan(ask)
    \/ \E files \in SUBSET Listed \ {{}} :
         \/ list_file_column_stats_for_data_file_ids(files)
         \/ \E columns \in ColumnSets : list_file_column_stats_for_data_file_columns(files, columns)
         \/ list_file_partition_values_for_data_files(files)
         \/ list_file_partition_values_for_data_files_and_keys(files)
    \/ Attempt
    \/ GiveUp
    \/ \E f \in Files : \E shape \in Shapes : AddFile(f, shape)
    \/ \E f \in Files, here \in BOOLEAN : RemoveFile(f, here)
    \/ Return
    \/ Evict
    \/ SwitchContext

(* A call runs until it returns: every attempt of it ends, with a page or  *)
(* an error, by the timeout set on its transaction.  That the deadline of  *)
(* the whole call passes is not counted on.                                *)
Spec == Init /\ [][Next]_vars /\ WF_vars(Attempt)

-----------------------------------------------------------------------------

(* A read of the store as its caller sees it.                              *)
StoredRows == [v \in 1 .. Len(versions) |-> versions[v].rows]

WhatIsRead ==
    [ranges |-> read.ranges, keys |-> read.keys, direction |-> read.direction,
     limit |-> read.limit, pinned |-> read.pinned, since |-> read.since]

WhatIsAnswered ==
    IF read = NoRead THEN [state |-> "none", items |-> <<>>, values |-> {}]
    ELSE IF Complete
    THEN [state |-> "answered", items |-> [i \in 1 .. Len(cursors) |-> cursors[i].items],
          values |-> values.found]
    ELSE [state |-> IF Reading THEN "pending" ELSE job.status, items |-> <<>>, values |-> {}]

Reads == INSTANCE RangeRead WITH
    versions <- StoredRows, read <- WhatIsRead, answer <- WhatIsAnswered

(* Pages, continuations and retries do not show: each read of the store    *)
(* is one read of RangeRead.  Scans that fix their version (the prefixes,  *)
(* the read set, the index join and everything in a read context) answer   *)
(* for one version although each page is a transaction of its own and a    *)
(* retry may come versions later; the others never skip, repeat or         *)
(* misplace a key at a page boundary.                                      *)
ReadsAreRangeReads == Reads!Spec

(* Statistics and partition values asked of files that are still stored    *)
(* are those the files were written with, whichever of them came from the  *)
(* caches: a file that is cached as a whole is whole, and no later load,   *)
(* eviction or partial load makes a row disappear from an answer           *)
(* (list_file_column_stats_for_data_file_columns and its loads).           *)
AnswersStoredRows ==
    (job.status = "answered" /\ job.op # "scan") =>
        \A f \in job.files \cap Latest.files :
            LET asked == CASE job.op = "ids" -> {StatsKey(f, c) : c \in 1 .. Columns}
                           [] job.op = "partitions" -> {PartitionKey(f)}
                           [] OTHER -> job.keys
            IN  job.rows \cap FileRows(f) = asked \cap FileRows(f)

(* Every call returns: a scan whose attempts keep failing, or whose pinned *)
(* version has become too old to read, runs out of retries.                *)
ReadsEnd == Reading ~> ~Reading

=============================================================================
