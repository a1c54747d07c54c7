------------------------------ MODULE Statistics -------------------------------
(***************************************************************************)
(* What the catalog tells of one column of one table: the statistics rows  *)
(* registered with data files, the rows derived for merged and rewritten   *)
(* files, the global summary of files and inline tables that a client      *)
(* prunes with, the process-wide cache of the files' part of that summary, *)
(* the list of columns that hold only NULL, and the files that remain      *)
(* after pruning by partition value.                                       *)
(*                                                                         *)
(* Commits change the store.  A reader pins a version of it and is         *)
(* answered from that version later, through the cache, while commits go   *)
(* on.  Orders are commit numbers.                                         *)
(***************************************************************************)
EXTENDS ColumnStats, Sequences, FiniteSetsExt

CONSTANTS
    Appends,     \* the files clients write: [rows, stats, known, by, partition]
    Inserts,     \* the rows clients insert inline
    Defaults,    \* the initial defaults of the column: sets of at most one value
    Values,      \* the integer values of the column
    Hive,        \* the partition value of NULL
    MaxCommits,  \* bound on the commits
    MaxLayouts   \* bound on the schema versions of the table

(* What a table may be partitioned by: the column, or another one.          *)
PartitionKeys == {"none", "column", "other"}

(* A file counts its NULLs and its other rows.  A partition is that of one  *)
(* value; if it is one of the column, the file holds no other value.        *)
ASSUME StatisticsAssumption ==
    /\ MaxCommits \in Nat
    /\ MaxLayouts \in Nat \ {0}
    /\ \A rows \in Inserts \cup {a.rows : a \in Appends} :
         rows \in [nulls : Nat, others : Nat, values : SUBSET rows.values]
    /\ \A a \in Appends :
         \/ a.by = "none" /\ a.partition = {}
         \/ /\ a.by \in {"column", "other"}
            /\ \E v \in a.partition :
                 a.partition = {v} /\ (a.by = "column" => a.rows.values \subseteq {v})

VARIABLES
    store,   \* the table's rows in the catalog, as of now
    view,    \* the version a reader has pinned: {} or {a store}
    cache,   \* FILE_STATS_AGGREGATES: {} or {the entry used last}
    answer   \* what the reader was told of its version: {} or {a summary}

vars == <<store, view, cache, answer>>

Comparisons == {"Equal", "GreaterThan", "GreaterThanOrEqual", "LessThan", "LessThanOrEqual"}

--------------------------------------------------------------------------------
(* A data file: what it holds of the column, whether it was written with    *)
(* the column, its statistics row, partition value (`by' which column) and  *)
(* partition lookup, row id start, the orders it lives between, the last    *)
(* order of the rows merged into it, and whether rows of it are deleted.    *)
(* `guessed' records that its row was derived from a source that has values *)
(* and no row, or a row not to be trusted.                                  *)
Files(s) == DOMAIN s.files

(* A listing also leaves out the sources that a merged file covers.         *)
VisibleAt(s, order) == {f \in Files(s) : /\ s.files[f].begin <= order
                                         /\ \A e \in s.files[f].end : order < e}

Current(s) == {f \in Files(s) : s.files[f].end = {}}

(* Listings come in the order of the file ids.                              *)
InOrder(S) == SelectSeq([i \in 1..MaxCommits |-> i], LAMBDA i : i \in S)

HasColumn(s) == s.since > 0

(* The rows of a source as a reader sees them: a source without the column  *)
(* reads as its initial default.                                            *)
Filled(s, rows, has) ==
    IF has THEN rows
    ELSE IF s.default = {} THEN [NoRows EXCEPT !.nulls = RecordCount(rows)]
    ELSE [nulls |-> 0, others |-> RecordCount(rows),
          values |-> IF RecordCount(rows) = 0 THEN {} ELSE s.default]

FileRows(s, f) == Filled(s, s.files[f].rows, s.files[f].has)

(* A stored row whose missing bounds are read as "every value is NULL"      *)
(* though its file holds values: value_count is the count of the values     *)
(* that are not NULL, and is compared with the count of NULLs.              *)
Misread(s, f) ==
    /\ FileRows(s, f).others > 0
    /\ \E r \in s.files[f].stats : ~typed_extrema_are_invalid(r) /\ r.min = {}

Trusted(s, f) == ~Misread(s, f) /\ ~s.files[f].guessed

LayoutHas(s, l) == HasColumn(s) /\ s.since <= l

InlineRows(s, l) == Filled(s, s.inline[l], LayoutHas(s, l))

Layouts(s) == 1..s.layout

Init ==
    /\ \E with_table \in BOOLEAN :
         store = [files |-> <<>>, inline |-> [l \in 1..MaxLayouts |-> NoRows],
                  layout |-> 1, since |-> IF with_table THEN 1 ELSE 0,
                  default |-> {}, birth |-> 0, key |-> "none",
                  version |-> 0, next_row_id |-> 0,
                  inline_next |-> [l \in 1..MaxLayouts |-> 0],
                  used |-> 0, rewrite |-> FALSE, commits |-> 0]
    /\ view = {}
    /\ cache = {}
    /\ answer = {}

--------------------------------------------------------------------------------
(* Global statistics of a version of the table.                             *)
(* GlobalStatsFileRow of every file of the version, in listing order.       *)
fetch_stats_file_rows(s) ==
    LET ids == InOrder(Current(s))
    IN  [i \in DOMAIN ids |-> [data_file_id  |-> ids[i],
                               record_count  |-> RecordCount(s.files[ids[i]].rows),
                               row_id_start  |-> s.files[ids[i]].start,
                               has_deletions |-> s.files[ids[i]].deletions]]

(* FileStatsColumnIdentity of the table's columns: their number changes     *)
(* with the layout.                                                         *)
Columns(s) == [layout |-> s.layout, since |-> s.since, default |-> s.default]

(* GlobalTableStats::accumulate_file on the next row id.                    *)
accumulate_file(next, row) ==
    IF row.row_id_start = {} THEN next + row.record_count
    ELSE Max({next} \cup {n + row.record_count : n \in row.row_id_start})

(* The summary of a column, begun when there is none.                       *)
stats_for_column(stats) == IF stats = {} THEN NewStats ELSE CHOOSE x \in stats : TRUE

(* The column's summary over the statistics rows of the listed files: none  *)
(* when no file has a row.                                                  *)
FileColumnStats(s, files) ==
    LET stored(i) == s.files[files[i].data_file_id].stats
        after[i \in 0..Len(files)] ==
          IF i = 0 THEN {}
          ELSE IF stored(i) = {} \/ ~HasColumn(s) THEN after[i - 1]
          ELSE {merge_file(stats_for_column(after[i - 1]), CHOOSE r \in stored(i) : TRUE)}
    IN  after[Len(files)]

(* finish_file_coverage: some live file has no row for the column.          *)
MissingInFiles(s, files) == \E i \in DOMAIN files : s.files[files[i].data_file_id].stats = {}

SumRecords(files) == MapThenSumSet(LAMBDA i : files[i].record_count, DOMAIN files)

FilesNextRowId(files) ==
    LET after[i \in 0..Len(files)] ==
          IF i = 0 THEN 0 ELSE accumulate_file(after[i - 1], files[i])
    IN  after[Len(files)]

fetch_file_stats_reduction(s, files) ==
    [columns |-> Columns(s), files |-> files,
     record_count |-> SumRecords(files),
     next_row_id  |-> FilesNextRowId(files),
     column       |-> FileColumnStats(s, files),
     missing      |-> MissingInFiles(s, files),
     unknown_row_count |-> SumRecords(SelectSeq(files, LAMBDA row : row.row_id_start = {}))]

(* stats_for_allocator and include_allocated_rows                           *)
stats_for_allocator(aggregate, allocated) ==
    Max({aggregate.next_row_id, allocated + aggregate.unknown_row_count})

matches(aggregate, s, files) ==
    aggregate.columns = Columns(s) /\ aggregate.files = files

(* fetch_file_stats_aggregate: the entry under the table's statistics       *)
(* version, if it was made of the same files and columns.                   *)
fetch_file_stats_aggregate(s) ==
    LET files == fetch_stats_file_rows(s)
        hits  == {e.aggregate : e \in {x \in cache : /\ x.version = s.version
                                                     /\ matches(x.aggregate, s, files)}}
    IN  IF hits # {} THEN CHOOSE a \in hits : TRUE ELSE fetch_file_stats_reduction(s, files)

(* can_recompute_exact_inline_stats                                         *)
can_recompute_exact_inline_stats(s, files) ==
    s.rewrite /\ \A i \in DOMAIN files : ~files[i].has_deletions

(* accumulate_inline_payload: the layout's line about the column, then the  *)
(* default for a layout that has rows and lacks the column.                 *)
accumulate_inline_payload(s, exact, column, l) ==
    LET rows == s.inline[l]
        line == CASE LayoutHas(s, l) /\ exact  -> AggregateLine(rows)
                  [] LayoutHas(s, l) /\ ~exact -> ConservativeLine(rows)
                  [] HasColumn(s) /\ ~LayoutHas(s, l) /\ RecordCount(rows) > 0 ->
                       {DefaultLine(s.default, s.since = 1)}
                  [] OTHER -> {}
    IN  IF line = {} THEN column
        ELSE {merge_inline(stats_for_column(column), CHOOSE x \in line : TRUE)}

(* inline_table_stats and inline_aggregate_next_row_id: each inline table's *)
(* own watermark also raises the next row id.                               *)

NextRowId(s, aggregate) ==
    Max({stats_for_allocator(aggregate, s.next_row_id)}
          \cup {s.inline_next[l] : l \in Layouts(s)})

(* The inline tables of every layout in turn, from what the files told.     *)
InlineColumnStats(s, exact, column) ==
    LET after[l \in 0..s.layout] ==
          IF l = 0 THEN column ELSE accumulate_inline_payload(s, exact, after[l - 1], l)
    IN  after[s.layout]

InlineRecords(s) == MapThenSumSet(LAMBDA l : RecordCount(s.inline[l]), Layouts(s))

(* fetch_global_table_stats and append_to: the files' part, then each       *)
(* inline table in turn, then a column some file has no row for is unknown. *)
StraddlingStats(s, aggregate) ==
    LET exact  == can_recompute_exact_inline_stats(s, fetch_stats_file_rows(s))
        column == InlineColumnStats(store, exact, aggregate.column)
    IN  [record_count |-> aggregate.record_count + InlineRecords(store),
         next_row_id  |-> NextRowId(s, aggregate),
         column       |-> IF aggregate.missing THEN {mark_unknown(c) : c \in column}
                                               ELSE column]

fetch_global_table_stats(s, aggregate) ==
    LET exact  == can_recompute_exact_inline_stats(s, fetch_stats_file_rows(s))
        column == InlineColumnStats(s, exact, aggregate.column)
    IN  [record_count |-> aggregate.record_count + InlineRecords(s),
         next_row_id  |-> NextRowId(s, aggregate),
         column       |-> IF aggregate.missing THEN {mark_unknown(c) : c \in column}
                                               ELSE column]

--------------------------------------------------------------------------------
(* Commits.  Each is one catalog transaction; the latest snapshot is a      *)
(* rewrite only right after one.                                            *)
Commit(s) ==
    /\ store.commits < MaxCommits
    /\ store' = [s EXCEPT !.commits = store.commits + 1]
    /\ UNCHANGED <<view, cache, answer>>

Order == store.commits + 1

(* A client numbers its rows from the next row id it was last told.         *)
FreeRowId(s) == NextRowId(s, fetch_file_stats_reduction(s, fetch_stats_file_rows(s)))

(* The transaction's files go in with their partition values and lookups    *)
(* and their statistics rows; a row stamps the table's statistics version,  *)
(* a file of known row ids raises the table's next row id.  `used' records  *)
(* the row ids given so far.                                                *)
WithFile(s, file) ==
    [s EXCEPT !.files = Append(@, file),
              !.version = IF file.stats = {} THEN @ ELSE Order,
              !.next_row_id = Max({@} \cup {n + RecordCount(file.rows) : n \in file.start}),
              !.used = Max({@} \cup {n + RecordCount(file.rows) : n \in file.start}),
              !.rewrite = FALSE]

NewFile(rows, stats, start, by, partition) ==
    [rows |-> rows, has |-> HasColumn(store), stats |-> stats, start |-> start,
     by |-> by, partition |-> partition, lookup |-> partition # {}, begin |-> Order, last |-> Order,
     end |-> {}, deletions |-> FALSE, guessed |-> FALSE]

StatsOption(rows, registered) ==
    IF registered /\ HasColumn(store) THEN {ClientRow(rows)} ELSE {}

AppendFile(a) ==
    /\ a.by \in {"none", store.key}
    /\ Commit(WithFile(store,
         NewFile(a.rows, StatsOption(a.rows, a.stats),
                 IF a.known THEN {FreeRowId(store)} ELSE {}, a.by, a.partition)))

InsertInline(rows) ==
    LET next == FreeRowId(store) + RecordCount(rows)
    IN  Commit([store EXCEPT !.inline[store.layout] = Together(@, rows),
                             !.inline_next[store.layout] = next,
                             !.used = next,
                             !.rewrite = FALSE])

DeleteInline(l) ==
    /\ RecordCount(store.inline[l]) > 0
    /\ Commit([store EXCEPT !.inline[l] = NoRows, !.rewrite = FALSE])

(* A flush writes the rows of an inline table to a file of the present      *)
(* layout, in one transaction.                                              *)
FlushInline(l, registered) ==
    LET rows == InlineRows(store, l)
    IN  /\ RecordCount(rows) > 0
        /\ Commit([WithFile(store, NewFile(rows, StatsOption(rows, registered), {}, "none", {}))
                     EXCEPT !.inline[l] = NoRows])

DeleteFromFile(f) ==
    /\ f \in Current(store) /\ ~store.files[f].deletions
    /\ Commit([store EXCEPT !.files[f].deletions = TRUE, !.rewrite = FALSE])

(* An expired file keeps its partition values; its lookups are cleared.     *)
Expired(s, f, order) == [s EXCEPT !.files[f].end = {order}, !.files[f].lookup = FALSE]

ExpireFile(f) ==
    /\ f \in Current(store)
    /\ Commit([Expired(store, f, Order) EXCEPT !.rewrite = FALSE])

AddColumn(default) ==
    /\ ~HasColumn(store) /\ store.layout < MaxLayouts
    /\ Commit([store EXCEPT !.layout = @ + 1, !.since = store.layout + 1,
                            !.default = default, !.birth = Order, !.rewrite = FALSE])

(* Any other change of the table's columns starts a new inline table.       *)
ChangeLayout ==
    /\ store.layout < MaxLayouts
    /\ Commit([store EXCEPT !.layout = @ + 1, !.rewrite = FALSE])

(* A table is partitioned, partitioned by another column, or no longer: the *)
(* files keep the partition values they were written with.                  *)
SetPartition(by) ==
    /\ by # store.key
    /\ by = "column" => HasColumn(store)
    /\ Commit([store EXCEPT !.key = by, !.rewrite = FALSE])

(* merge_stats_for_replacement: a source without a row counts as NULLs, and *)
(* the row's value count is the record count of the new file.               *)
merge_stats_for_replacement(sources, rows) ==
    LET stats   == UNION {store.files[f].stats : f \in sources}
        missing == {f \in sources : store.files[f].stats = {}}
        nulls   == MapThenSumSet(LAMBDA f : (CHOOSE r \in store.files[f].stats : TRUE).nulls,
                                 sources \ missing)
                   + MapThenSumSet(LAMBDA f : RecordCount(store.files[f].rows), missing)
    IN  IF stats = {} THEN {}
        ELSE {[count |-> {RecordCount(rows)}, nulls |-> nulls,
               min |-> merge_stat_extrema(stats).min, max |-> merge_stat_extrema(stats).max]}

(* Row ids of two files that lie side by side.                              *)
source_row_ranges_are_contiguous(a, b) ==
    \E m \in a.start, n \in b.start :
        \/ RecordCount(a.rows) = 0 \/ RecordCount(b.rows) = 0
        \/ m + RecordCount(a.rows) = n
        \/ n + RecordCount(b.rows) = m

derive_merge_replacement_row_ids(a, b) ==
    IF source_row_ranges_are_contiguous(a, b) THEN Lowest(a.start \cup b.start) ELSE {}

(* Two files of one partition, in the order they began, become one that     *)
(* begins with the first and is as old as the newest row of either; the     *)
(* client sends its row, or it is derived.                                  *)
MergeAdjacent(f, g, provided) ==
    LET a     == store.files[f]
        b     == store.files[g]
        rows  == Together(FileRows(store, f), FileRows(store, g))
        stats == IF provided THEN StatsOption(rows, TRUE)
                 ELSE merge_stats_for_replacement({f, g}, rows)
        file  == [NewFile(rows, stats, derive_merge_replacement_row_ids(a, b), a.by, a.partition)
                    EXCEPT !.begin = a.begin, !.last = Max({a.last, b.last}),
                           !.guessed = /\ ~provided /\ stats # {}
                                       /\ \E x \in {f, g} :
                                            \/ ~Trusted(store, x)
                                            \/ /\ store.files[x].stats = {}
                                               /\ FileRows(store, x).others > 0]
    IN  /\ {f, g} \subseteq Current(store) /\ a.begin < b.begin
        /\ a.by = b.by /\ a.partition = b.partition
        /\ ~a.deletions /\ ~b.deletions
        /\ Commit(WithFile(Expired(Expired(store, f, Order), g, Order), file))

(* derive_single_source_rewrite_stats: the source's row, with the record    *)
(* count of the new file.                                                   *)
derive_single_source_rewrite_stats(f, rows) ==
    {[r EXCEPT !.count = {RecordCount(rows)}] : r \in store.files[f].stats}

(* A file with deletions is rewritten without the deleted rows.             *)
Remainders(rows) == {r \in {[rows EXCEPT !.nulls = 0],
                            [rows EXCEPT !.others = 0, !.values = {}]} :
                       r # rows /\ RecordCount(r) > 0}

(* derive_unknown_rewrite_replacement_row_ids: the last row ids of the      *)
(* source; one without row ids is refused.                                  *)
RewriteStart(file, rows) ==
    {n + RecordCount(file.rows) - RecordCount(rows) : n \in file.start}

RewriteDelete(f, rows, provided) ==
    LET stats == IF provided THEN StatsOption(rows, TRUE)
                 ELSE derive_single_source_rewrite_stats(f, rows)
        old   == store.files[f]
    IN  /\ f \in Current(store) /\ old.deletions /\ old.start # {}
        /\ Commit([WithFile(Expired(store, f, Order),
                            [NewFile(rows, stats, RewriteStart(old, rows), old.by, old.partition)
                               EXCEPT !.guessed = ~provided /\ ~Trusted(store, f)])
                     EXCEPT !.rewrite = TRUE])

--------------------------------------------------------------------------------
(* A reader's version stays as it is while commits go on.                    *)
PinVersion ==
    /\ view' = {store}
    /\ answer' = {}
    /\ UNCHANGED <<store, cache>>

GlobalStats ==
    /\ answer = {}
    /\ \E s \in view :
         LET aggregate == fetch_file_stats_aggregate(s)
         IN  /\ answer' = {fetch_global_table_stats(s, aggregate)}
             /\ cache' = {[version |-> s.version, aggregate |-> aggregate]}
    /\ UNCHANGED <<store, view>>

--------------------------------------------------------------------------------
(* find_file_columns_with_possible_values: what is known of a file without  *)
(* reading it.  A column is born with a table row; a file is as old as the  *)
(* last of the rows merged into it.                                         *)
AbsentMeansNull(s, f) ==
    LET file == s.files[f]
        file_end == Max({file.last, file.begin})
    IN  /\ RecordCount(file.rows) > 0
        /\ IF file.stats = {} THEN file_end >= s.birth
           ELSE \E r \in file.stats : r.count # {0}

find_file_columns_with_possible_values(s, f) ==
    LET file == s.files[f]
        file_end == Max({file.last, file.begin})
        has_nonnull_initial == s.default # {}
    IN  /\ RecordCount(file.rows) > 0
        /\ \/ has_nonnull_initial /\ file_end < s.birth
           \/ IF file.stats = {} THEN has_nonnull_initial \/ file_end >= s.birth
              ELSE \E r \in file.stats : r.count # {0}

find_inline_columns_with_possible_values(s, l) ==
    /\ RecordCount(s.inline[l]) > 0
    /\ IF LayoutHas(s, l) THEN s.inline[l].others > 0
       ELSE s.since = 1 \/ s.default # {}

(* list_null_only_columns, of the one column                                *)
list_null_only_columns(s) ==
    /\ HasColumn(s)
    /\ \A f \in Current(s) : ~find_file_columns_with_possible_values(s, f)
    /\ \A l \in Layouts(s) : ~find_inline_columns_with_possible_values(s, l)

--------------------------------------------------------------------------------
(* Partition pruning.  A lookup entry lives as long as its file is current, *)
(* and a file without one is taken for unpartitioned.  The key of an entry  *)
(* has the place of the column among the partition keys, not which column   *)
(* it was: values of an earlier partitioning are found like the others.     *)
partition_value_lookup_ids(s, value) ==
    {f \in Files(s) : s.files[f].lookup /\ s.files[f].partition = {value}}

partitioned_data_file_ids(s) == {f \in Files(s) : s.files[f].lookup}

MatchedOnly(s, value, f) == f \in partition_value_lookup_ids(s, value)

PartitionScanFilter(s, value, f) ==
    f \in partition_value_lookup_ids(s, value) \/ f \notin partitioned_data_file_ids(s)

compare_partition_order(v, comparison, boundary) ==
    CASE comparison = "Equal"              -> v = boundary
      [] comparison = "GreaterThan"        -> v > boundary
      [] comparison = "GreaterThanOrEqual" -> v >= boundary
      [] comparison = "LessThan"           -> v < boundary
      [] comparison = "LessThanOrEqual"    -> v <= boundary

(* A value that has no place in the order always matches; NULL never does.  *)
partition_value_matches(v, comparison, boundary) ==
    /\ v # Hive
    /\ v = Opaque \/ compare_partition_order(v, comparison, boundary)

matching_partition_values(s, comparison, boundary) ==
    {v \in UNION {s.files[f].partition : f \in partitioned_data_file_ids(s)} :
       partition_value_matches(v, comparison, boundary)}

(* The pruned listing at an order: nothing when no stored value matches,    *)
(* the files of each matching value and the unpartitioned ones otherwise.   *)
partition_prune_files_at(s, order, comparison, boundary) ==
    {f \in VisibleAt(s, order) :
       \E v \in matching_partition_values(s, comparison, boundary) :
         PartitionScanFilter(s, v, f)}

--------------------------------------------------------------------------------
(* recompute_table_column_stats: the mirror's bounds, from the rows of the  *)
(* current files.                                                           *)
recompute_table_column_stats(s) ==
    LET ids == InOrder(Current(s))
        after[i \in 0..Len(ids)] ==
          IF i = 0 THEN NewStats
          ELSE IF s.files[ids[i]].stats = {} THEN after[i - 1]
          ELSE MirrorMerge(after[i - 1], CHOOSE r \in s.files[ids[i]].stats : TRUE)
    IN  after[Len(ids)]

--------------------------------------------------------------------------------
Next ==
    \/ \E a \in Appends : AppendFile(a)
    \/ \E rows \in Inserts : InsertInline(rows)
    \/ \E l \in Layouts(store) : \/ DeleteInline(l)
                                 \/ \E registered \in BOOLEAN : FlushInline(l, registered)
    \/ \E f \in Files(store) : DeleteFromFile(f) \/ ExpireFile(f)
    \/ \E default \in Defaults : AddColumn(default)
    \/ ChangeLayout
    \/ \E by \in PartitionKeys : SetPartition(by)
    \/ \E f, g \in Files(store), provided \in BOOLEAN : MergeAdjacent(f, g, provided)
    \/ \E f \in Files(store), provided \in BOOLEAN :
         \E rows \in Remainders(FileRows(store, f)) : RewriteDelete(f, rows, provided)
    \/ PinVersion
    \/ GlobalStats

Spec == Init /\ [][Next]_vars

--------------------------------------------------------------------------------
(* The rows of a version, and what bounds must do for them.                 *)
RowsOf(s) == {FileRows(s, f) : f \in Current(s)} \cup {InlineRows(s, l) : l \in Layouts(s)}

Covers(min, max, rows) ==
    /\ min # {} => rows.values \subseteq {v \in Values : \A lo \in min : lo <= v}
    /\ max # {} => rows.values \subseteq {v \in Values : \A hi \in max : v <= hi}

(* An inline table that clears the bounds gathered before it, followed by   *)
(* one that sets new ones.                                                  *)
LineOf(s, l) == accumulate_inline_payload(
                  s, can_recompute_exact_inline_stats(s, fetch_stats_file_rows(s)), {}, l)

ClearedBounds(s) ==
    \E l, m \in Layouts(s) :
      /\ l < m
      /\ \E c \in LineOf(s, l) : c.min = {} /\ ~c.invalid_extrema
      /\ \E c \in LineOf(s, m) : c.min # {}

(* The bounds a client prunes with hold for every row of the version it     *)
(* reads, files and inline tables of all layouts, and a summary without     *)
(* NULLs means there are none: unless a statistics row is one that cannot   *)
(* be trusted, or an inline table without values has cleared the bounds     *)
(* gathered before it (global_stats_model.rs, merge_inline).                *)
GlobalBoundsCoverRows ==
    \A s \in view, a \in answer :
      (~ClearedBounds(s) /\ \A f \in Current(s) : Trusted(s, f)) =>
        \A c \in a.column : \A rows \in RowsOf(s) :
          /\ Covers(c.min, c.max, rows)
          /\ c.contains_null \/ rows.nulls = 0

(* The record count counts every row of the pinned version once, also while *)
(* flushes move rows from inline tables to files, and the next row id is    *)
(* past every row id the table has given by then, to files or to inline     *)
(* rows of any layout, still there or not: both parts of                    *)
(* fetch_global_table_stats read one version.                               *)
AnswerIsOfOneVersion ==
    \A s \in view, a \in answer :
      /\ a.record_count = MapThenSumSet(LAMBDA f : RecordCount(s.files[f].rows), Current(s))
                            + InlineRecords(s)
      /\ a.next_row_id >= s.used

(* A statistics row, the client's or the one derived for a merged or        *)
(* rewritten file, never has bounds that leave out a value of its file      *)
(* (fdb_compaction.rs, merge_stats_for_replacement).                        *)
FileStatsCoverRows ==
    \A f \in Current(store) : Trusted(store, f) =>
      \A r \in store.files[f].stats : Covers(r.min, r.max, FileRows(store, f))

(* The mirror's bounds hold for the current files when each has a row       *)
(* (runtime_metadata_ops/file_stats.rs, recompute_table_column_stats).      *)
MirrorCoversFiles ==
    (HasColumn(store) /\ \A f \in Current(store) : store.files[f].stats # {} /\ Trusted(store, f))
      => LET mirror == recompute_table_column_stats(store)
         IN  \A f \in Current(store) :
               /\ Covers(mirror.min, mirror.max, FileRows(store, f))
               /\ mirror.contains_null \/ FileRows(store, f).nulls = 0

(* No bound the catalog keeps, derives or tells leaves out a stored value.  *)
BoundsCoverRows == GlobalBoundsCoverRows /\ FileStatsCoverRows /\ MirrorCoversFiles

(* A column is listed as holding only NULL when no row of the table has a   *)
(* value of it, initial defaults of older files and layouts included        *)
(* (runtime_column_values.rs).                                              *)
NullOnlyIsProven ==
    list_null_only_columns(store) => \A rows \in RowsOf(store) : rows.others = 0

(* A lookup value of another column than the one that is compared.          *)
Foreign(s, f) == s.files[f].lookup /\ s.files[f].by = "other"

(* At every order, a file with a row that satisfies the comparison is in    *)
(* the pruned listing, though the lookups only know of current files        *)
(* (runtime_file_listing.rs, the prune payloads).  There are two ways to    *)
(* lose one: no stored partition value matches, when the whole listing is   *)
(* empty; and the file has a lookup value from a time the table was         *)
(* partitioned by another column, which is compared in its place and does   *)
(* not match (file_partitions.rs, partition_lookup_key).                    *)
PruneKeepsMatchingFiles ==
    \A order \in 0..store.commits, comparison \in Comparisons, boundary \in Values :
      \A f \in VisibleAt(store, order) :
        LET matching == matching_partition_values(store, comparison, boundary)
        IN  (\E v \in FileRows(store, f).values : partition_value_matches(v, comparison, boundary))
              => \/ f \in partition_prune_files_at(store, order, comparison, boundary)
                 \/ matching = {}
                 \/ Foreign(store, f) /\ store.files[f].partition \intersect matching = {}
================================================================================
