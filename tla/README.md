# aux-ducklake catalog: TLA+ models and proofs

The repository keeps a DuckLake catalog in FoundationDB.  The crate
`src/crates/ducklake-catalog` (paths below are relative to its `src/`) holds the catalog
rows, the commit paths, the reads and the maintenance operations; a patched DuckLake
extension calls them through a C ABI.  The other crates are drivers, benchmarks and
offline tools.

The catalog runs inside the client process.  Nothing coordinates two clients but
FoundationDB: a transaction reads at one version, declares read-conflict keys, and fails
if one of these keys was written since.  Most of what can go wrong here follows from one
fact: a handler usually reads *outside* the transaction that writes, so that a check
protects the commit only if its keys are read again, or declared, inside it.

## The system

| part | state | operations | code |
|---|---|---|---|
| File ids | watermark `conflict_max_file_id` | reserve a range; blind `ByteMax` by other commits | `fdb_file_ids.rs` |
| Data mutations | data files, delete files, their current entries, row-id counters, receipts | append, delete, update, replace, drop; retry, recover | `fdb_data_mutations/`, `fdb_data_mutation_staging.rs`, `runtime_foundationdb.rs` |
| Table metadata | versioned table rows, current rows, name index, schema versions, receipts | create, replace, rename, add columns, drop, register inline tables | `fdb_metadata_commit.rs`, `fdb_tables.rs`, `fdb_table_drop.rs`, `runtime_commit_attempt_ops/` |
| File listing | none of its own | files visible at an order, duplicate suppression | `data_file_store/`, `runtime_file_listing.rs` |
| Compaction | replaced files, schedules for cleanup | merge adjacent, rewrite deletes | `fdb_compaction.rs`, `runtime_compaction_ops.rs` |
| Change feeds | change indexes | insertions and deletions between two snapshots | `runtime_change_feed.rs`, `delete_change_feed.rs` |
| Maintenance | expired snapshots, cleanup schedules | expire, list old files, remove rows | `maintenance.rs`, `fdb_cleanup.rs`, `store.rs` |
| Inline rows | payload chunks, live and current rows, flush watermarks | insert, replace, delete, flush, read | `fdb_inline_tables.rs`, `fdb_inline_flushes.rs`, `inline_data/` |
| Read contexts | pinned snapshot, leased read version, caches | begin, read, retry, commit, end | `runtime_read_context.rs`, `runtime_read_versions.rs`, `runtime_inline_snapshot/` |
| Snapshots | snapshot rows, cached snapshot lists | list, resolve a version, tell changes, expire | `runtime_snapshots.rs`, `store.rs` |
| Commit attempts | none of its own | the commits of one client transaction, one after the other | `runtime_commit_attempt_ops/orchestration.rs` |
| Schemas, views, macros | rows with validity windows | create, replace, rename, comment, drop | `fdb_schemas.rs`, `fdb_views.rs`, `fdb_macros.rs`, and `*_store.rs` for the ordered store |
| Direct schema changes | table rows | change columns, names, defaults, partition and sort keys, comments | `runtime_schema_change_ops.rs`, `table_*.rs` |
| Statistics, partitions | statistics rows, partition values and lookups, an aggregate cache | register, derive, merge, tell, prune | `file_stats.rs`, `file_partitions.rs`, `runtime_metadata_ops/`, `runtime_column_values.rs` |
| Key-value layer | scan cursors, retry budgets, row caches | range scans in pages, point reads, index joins | `fdb_kv.rs`, `fdb_async_read.rs`, `fdb_read_set.rs`, `fdb_cleanup.rs` |
| Protocol, tools | | text formats, dispatch, offline tools | `runtime_protocol.rs`, `fdb_prefix_cleanup.rs` |

Hard behaviours: two clients between whose checks and commits anything may happen;
`commit_unknown_result` (a commit whose outcome the client does not know); the same
request sent twice; orders assigned at commit by versionstamps while sequences are
computed before it; history rewritten in place by compactions; cleanups that stop half
way; leases that expire in the middle of a statement.

## Modules

| module | models | extends |
|---|---|---|
| `FileIdAllocator` | what reserving ids promises | |
| `FileIds` | `reserve_file_id_range` and the blind watermark writes | |
| `Catalog` | rows of data and delete files, how commits stage them | |
| `DataMutation` | `commit_data_mutation` from request to receipt | `Catalog` |
| `Metadata` | the table metadata commits | |
| `FileListing` | the files a reader gets at an order | |
| `Compaction` | merges and rewrites against the other writers of a table | `FileListing` |
| `ChangeFeed` | the feeds over the states of `Compaction` | `Compaction` |
| `Maintenance` | expiry and cleanup over the states of `Compaction` | `Compaction` |
| `Inline` | inline rows, their flushes and their readers | |
| `ReadContext` | statements that read with pinned snapshots and caches | |
| `Snapshots` | commit attempts and the public snapshots readers fold their rows into | |
| `ObjectRows` | rows of schemas, tables, views and macros and how they are listed | |
| `OrderedStore` | what the direct operations do on the store the tests run on | `ObjectRows` |
| `Namespace` | attempts and direct operations on FoundationDB | `ObjectRows` |
| `SchemaChange` | the direct schema changes, one commit after the other | |
| `ColumnStats` | statistics of one column: summing up, merging, comparing | |
| `Statistics` | files, inline rows, their statistics, the cache and the pruned listing | `ColumnStats` |
| `RangeRead` | what a read of the key-value store promises | |
| `Scans` | paged scans, point reads and the row caches on top of them | |
| `*Proofs` | theorems and their proofs | the module they are about |
| `MC_*` | instances for TLC | the module they instantiate |

Three detailed modules are shown to implement an abstract one: `FileIds` the
`FileIdAllocator`, `Scans` the `RangeRead`, and the direct operations of `Namespace` the
`OrderedStore` as long as nothing comes between.

Data is reduced to what the properties tell apart.  A row of a user table is a number; a
file is its row-id range, its record count and its partition; a table row is its name and
the columns added to it; file contents, names and encodings do not occur.  Snapshot
orders are numbers given out at commit, as versionstamps are.  A transaction is one
action when its commit is atomic and its reads lie inside it, and one action per read
version when they do not: the actions of a request are the points at which another
client can get in.

The variables carry the names of the keys they stand for, and each definition that stands
for code is mapped to its lines in `PROJECT.json`.

### FileIds

A writer reads the watermark (`Read`), commits the raised one (`Commit`) with a conflict on
the key, retries on a conflict up to `MAX_FILE_ID_RESERVATION_RETRIES`, and may lose the
reply of a commit that happened.  `Observe` is the `ByteMax` by which other commits raise
the watermark without a conflict check of their own.  `MaxU64` bounds the ids, so that the
end of the id space, where `saturating_add` hands out the last id again, is reached.

### Catalog and DataMutation

Each request is a pinned, a fenced or an unpinned mutation.  It reads its receipt, the
snapshot and the target files, checks, starts a transaction (its read version is a step
of its own), reads again what the code reads again, reserves ids and row ids, stages and
commits.  The commit fails if a declared key changed, may be applied with an unknown
result or not applied with an unknown result, and is retried up to
`MAX_MUTATION_COMMIT_RETRIES`.  A finished request may be sent again.

A mutation may carry a flush of inline rows.  `PreparedFlush` captures the flush fence of
the table and the chunks to flush, `FlushFits` compares them inside the transaction, and
`LostFlush` is what the code answers when another commit was first: an error under a
snapshot fence, and success without one (`DataMutationCommit::default()`), although nothing
of the mutation was committed.  `unguarded` is a history of the files whose row ids were not
compared with the watermark, because their commit drops files or flushes inline rows.

### Metadata

A request reads the current rows, checks them against its read snapshot, assembles new
rows, and commits with conflicts on the version counters only.  Renames maintain the name
index entry by entry.  Every commit that overlapped another one sets `overlapped`: the
table rows are written blindly, so what relates them to each other is claimed up to that
point, and what does not depend on it is claimed always.  `unnamed` is set by a commit of which
a later rename clears the name an earlier one has set.  A create or replace may be sent again,
with the ids it had or with new ones; its attempt id, a hash without the new ids, is the same.

### FileListing, Compaction, ChangeFeed, Maintenance

`Compaction` carries the files of one table and, as a reference, the order that inserted
and the order that deleted each row.  `FileListing` computes from the catalog rows alone
which files a reader of an order gets; `ChangeFeed` computes the feeds the same way; the
properties compare both with the reference.  `Maintenance` adds expired snapshots, the
list of old files a cleanup works from, deletion from storage and removal of the rows in
separate steps.  Two histories name what its properties except: `unanswered` has the data files
that cleanup takes for replaced by a file that does not answer for their snapshots, and
`abandoned` the delete files of data files that a mutation dropped.

`met` collects situations that no check of the code rules out and after which history is
no longer exact; a run claims its properties until the first situation outside `Tolerated`:

* `gaps` - a merge of files with other rows between theirs;
* `remerge` - a merge of a file that began with its own merge;
* `rewrite_many` - a rewrite of several files into one;
* `escaped` - a commit where no check of a running request sees it.

### Inline

`db` is the committed key space in one record, so that a read version is a copy of it.
`content` is what the commits mean.  Mutations prepare from reads outside their
transaction; a delete then commits blindly.  `races` collects what the code does not rule
out: `mutation`, `attempt`, `delete`, `flush` (a writer's facts no longer hold when its
transaction starts), `reused` (a flush takes a later order for its own snapshot),
`regress` (a commit publishes a sequence below the latest), `span` (a merge spans inline
rows).  The run claims its properties with `Windows = {}`, that is, until the first one.

### ReadContext

`log` is the sequence of commits, `pin` the logical snapshot of a context, `lease` the
leased read versions, `cache` the cached rows by key.  A request takes a version, finds
its snapshot, pins, reads through the caches and answers; concurrent requests of one
context share one capture build.  The answer is compared with what the pinned snapshot
shows.  `met` records `lagging` (a request holds a version older than the pinned snapshot)
and `moved` (current rows are read at a version newer than the pinned snapshot); the run
tolerates `moved`, where `AnswersMatch` excludes the reads concerned, and stops at `lagging`.

### Snapshots

`log` holds the snapshot rows in their order, each with its sequence and with what it
changed.  A client begins, publishes the rows of its transaction one by one (each view,
dropped tables, metadata, inline tables, each compaction, data, macros) and is answered;
`Abandon` stops it anywhere.  A view takes the sequence after the latest, data moves on when it is
behind, the other rows take the sequence the client proposed, whatever the latest is.  If the
first request is refused the client may `Retry`: it asks what has changed, is answered from the list
of snapshots its read context keeps from the first time (`listing`), and proposes a new id.
`coalesced_public_snapshot_groups` folds rows into public snapshots the way `runtime_snapshots.rs` does;
`context` is the list that a process has cached, which lags behind and keeps expired rows.
Two readers are compared: the catalog of a version is found by its raw sequence, its files
through the public snapshot.  `overtaken` names the attempts that another commit was
published inside of, `Returned` the sequences that were taken again after a higher one.

### Namespace

A request is sent, checked, prepared and committed, with any commit of others in between;
`gaps` records which of these windows one fell into.  What an operation compares, and
when, is taken from its handler: attempts check parents, names and drops at the latest
snapshot, direct calls check less, drops of schemas look at tables and child schemas only.
Requests are what a client may compose from a catalog it has seen.

### SchemaChange

A request names the snapshot its client read, or none.  Each commit reads the newest
snapshot and the current rows, computes the next rows and writes both back; only the
version counters conflict.  `AddColumns` splits its columns into appended, defaulted and
renamed ones and makes up to three commits, a renamed one keeping its default whatever the
request says; `ChangePartitionKeys` makes one for each table.
`local.alone` is true while no other commit met the request, `met` names what checks do not see.

### ColumnStats and Statistics

The rows of a file are reduced to how many are NULL, how many are not, and the set of their
values in one column; one value (`Opaque`) has no place in the order, or is too long for a bound.
Files are appended with or without statistics, with or without a partition value, merged,
rewritten, expired and flushed from inline layouts.  The table is partitioned by the column, by
another one or not, and this may change; `by` says which column a file's value is one of, which the
lookups of the code do not.  A reader pins a version, and is
answered for it later through the cache.  The invariants compare bounds and counts with
the rows themselves.

### RangeRead and Scans

A scan reads pages of `PageSize` items, each in its own transaction, from behind the last
key on: the first keys, in the direction asked, of what is stored of the rest of the range,
none left out unless the page is full.  An attempt may fail, and is repeated within the
budget.  Scans in a read context, of several prefixes, of a read set and of an index join fix
their version, which the store forgets after `Window` commits.  On top of them are the loads of
statistics and partition values, dense or by file, and the caches they fill, whose entries may
be dropped at any time.


## Runs

Each run is one question; `PROJECT.json` gives its properties and for each of them a
plausible bug that makes it fail.

| run | module | question |
|---|---|---|
| `file_ids` | `MC_FileIds` | Are ids handed out once, do calls return, is the abstract allocator implemented? |
| `data_mutation` | `MC_DataMutation` | Does what a mutation validated still hold at its commit, does a request take effect once, is success never reported for nothing? |
| `metadata` | `MC_Metadata` | Do history, current rows, name index and receipts agree? |
| `schema_change` | `MC_SchemaChange` | Are tables well formed after any mix of schema changes, does a request replace what its client read, and what does one of several commits leave when it fails? |
| `namespace` | `MC_Namespace` | Are names unique and schemas there, but for the windows named, and do direct calls do what the ordered store does? |
| `snapshots` | `MC_Snapshots` | Does the id of an attempt name what it published, is a version one snapshot, are clients told of changes? |
| `compaction` | `MC_ChangeFeed` | Does every snapshot read its rows once, do the feeds report each change once, does a table drop leave no file? |
| `cleanup` | `MC_Maintenance` | Does no retained snapshot lose a file, and does every old file lose its row in the end? |
| `inline` | `MC_Inline` | Is every inline row read once, inline or in a file, and do the current-row keys agree with history? |
| `statistics` | `MC_Statistics` | Are counts those of one version, do bounds cover the rows, does pruning keep the files that match? |
| `scans` | `MC_Scans` | Is a paged, retried scan one range read, does it end, do caches answer what is stored? |
| `read_context` | `MC_ReadContext` | Is every answer that of the one pinned snapshot, does a statement see its own commits, does nobody wait for ever? |

**Bounds.**  Two concurrent requests suffice for the races, which are all between one
request's check and another one's commit; a third request, run after the two (`Metadata`),
shows what the race left behind.  Retries are bounded by one, which is enough to reach both
a successful retry and giving up.  Histories have five orders and up to five files:
a file has to be added, deleted from, merged or rewritten, merged again or dropped, and
read before and after.  Row counts of one and two tell a file that covers another from one
that only overlaps it.  `MaxU64 = 3` makes the id space end.  `CaptureBudget = 1` makes the
cache full with one capture.  `Snapshots` has five rows: the first two
of the catalog and one attempt of three, or of two with another client's row inside it, and one row
may expire; an attempt that takes its sequence again after a higher one needs seven.  `Statistics` has four commits:
two files, a flush or merge of them and one more.  `Scans` has six keys and pages of two, so
that a page ends inside, at and behind the end of a range.  `Namespace` has two commits
after the first snapshot, which is one more than a race needs.

**Constraints.**  Four runs leave out combinations that do not meet.  `MC_ChangeFeed` lets two
requests overlap only while files have no partitions.  `MC_Inline` lets clients overlap while
storage does not change, and take turns once files are merged, snapshots expired or payloads
removed.  `MC_Scans` keeps plain scans apart from the caches, which they do not use, and the
two families of caches apart from each other.  `MC_Maintenance` gives a table with partitions
three rows, so that one file can be larger than another, and a table without them a longer
history and crashes.  It and `MC_ReadContext` stop at
the first situation outside `Tolerated`, as described with the modules.

**Deadlock.**  `file_ids`, `schema_change`, `statistics` and `scans` check that there is always
a next step.  The other models stop when their orders, files or requests run out.

**Fairness.**  `FileIds` assumes weak fairness of each writer's own steps: the code runs a
synchronous retry loop, which the client's thread drives, and `ReservationReturns` says that
the retry bound ends it.  Nothing is assumed of the other commits.  `Scans` assumes that
the attempts of a call go on, each of which ends by the timeout of its transaction; that the
deadline of the whole call passes is not assumed, so `ReadsEnd` rests on the retry budget
alone.  `CleanupSpec` assumes that a cleanup that is due is started and that its steps are
taken, as DuckLake's maintenance calls do; crashes are bounded by `MaxCrashes` and are not
fair.  No other run has a liveness property.

**Symmetry.**  Requests, clients and threads are permuted where the modules use them only as
names; runs with a liveness property use no symmetry.

## Proofs

| theorem | says, for every value of the constants |
|---|---|
| `FileIdsProofs!TypeCorrect` | the watermark never leaves the 64-bit range |
| `FileIdsProofs!ReservedOnceHolds` | no id below the saturated one is handed to two writers |
| `FileIdsProofs!WatermarkMonotone` | no step lowers the watermark, although reservations write it with a plain set |
| `FileIdsProofs!ImplementsAllocator` | `Spec` implements `FileIdAllocator` |
| `DataMutationProofs!ReservedIdsAreOwn` | the ids a request holds until its commit name no row yet and are held by no other request |
| `DataMutationProofs!AppliedOnceHolds` | a mutation with a recovery id takes effect at most once, and its receipt says exactly whether it did |
| `DataMutationProofs!AcknowledgedHolds` | a call that reports success with a recovery id has had its effect, unless it is a flush without a fence |
| `DataMutationProofs!FenceHoldsAtCommit` | a fenced mutation commits only as the direct successor of the snapshot it read |
| `DataMutationProofs!AppendMatchesTableHolds` | a data file is only added to a table that exists, under the partition spec it then has if the request was pinned |
| `ReadContextProofs!ReadsOneSnapshotWithOwnCommits` | a context is answered for one pinned snapshot, which includes its own commits |
| `ReadContextProofs!WaitersAreNotLeft` | who waits for a capture waits for a worker that builds it |
| `ReadAnswersProofs!AnswersMatchUntilLagging` | every request is given what the catalog was at its snapshot, from the caches too, until some request holds a version older than the pinned snapshot |
| `DataMutationProofs!RowIdsDisjointHolds` | current files added by commits that drop none and flush nothing share no row ids |
| `DataMutationProofs!FirstDeletionSeenHolds` | a pinned deletion commits on top of a first delete file only if its client has seen it |
| `DataMutationProofs!UnknownIsResolvedHolds` | a call with an unknown result whose receipt is there does not fail |
| `SnapshotsProofs!ChangesAreToldHolds` | the conflict check of a client misses only what was published after its read context first listed the snapshots, and rows with an old sequence, behind a row of an attempt that began before the client's snapshot |
| `SchemaChangeProofs!ReplacesWhatWasReadHolds` | what a checked request is about to replace is what its client read, but for the races named |
| `SchemaChangeProofs!OneVersionOneSchemaHolds` | two snapshots in a row with one schema version show the same tables |
| `StatisticsProofs!PruneKeepsMatchingFilesHolds` | the pruned listing keeps every file with a row that matches, unless no stored partition value matches or the file has a value of an earlier partitioning by another column |
| `StatisticsProofs!NullOnlyIsProvenHolds` | a column listed as holding only NULL does |
| `ScansProofs!ReadsAreRangeReadsHolds` | `Scans` implements `RangeRead` |

*File ids.*  That ids are given out once is not inductive: it needs to know that every id a
writer holds lies at or below the watermark (`HeldBelowWatermark`) and that a writer which is
about to commit without a conflict still has the current watermark in hand
(`OpenReadIsCurrent`).  The arithmetic of a range (`RangeLemma`) is separated from the
argument about steps; refinement then follows step by step.  Assumed of the constants: the
id space and the retry bound are natural numbers.

*Data mutations.*  `IInv` adds to the properties that staged rows lie under reserved ids
(`IdsReserved`), which parts of a plan each kind of request has (`PlanShape`), and that a
transaction that has read no receipt and has not conflicted still has none
(`ReceiptStillAbsent`).  The last one is what makes recovery work: between the read of the
receipt and the commit nobody else can have applied the same request.  On top of it `FileInv`
says what the catalog keeps between commits (`FilesKept`: a current entry names an open row with
row ids below the watermark of its table) and that what an open transaction has found of files,
delete files and row ids is so until it conflicts (`StagingStillHolds`); disjoint row ids and
seen deletions follow, because each of these reads is a read conflict.  That an unknown
result is resolved rests on `ReadSetDropped`.  `IdInv` is about ids alone: what is held or
written lies at or below the watermark, a reservation hands out ids above it, and a commit
writes under ids that only its own request held.

*Read contexts.*  `IInv` adds to the two properties that a mutation is alone in its context
(`MutationAlone`), that a request knows no other latest snapshot than the pinned one
(`LatestIsPinned`), and that what a context without a running mutation may pin, has pinned or
has leased is not older than its last commit (`VersionsHaveOwn`).  The last one needs the first:
a commit raises the bar for every version held in its context, so no read may hold one then.
The actions fall into four shapes, each with one lemma: a step of a single read (`ReadStep`),
a step that several reads leave together (`LeaveStep`: a capture is built or fails, a version is
too old), a step of a mutation (`MutationStep`), and contexts that forget what they knew.
`Answers` then says of every cache entry which rows it holds, by the parts of its key
(`GoodEntry`), and of every request what it may put there (`GoodRequest`).  Facts and rendered
catalogs are shared between contexts and keyed by the catalog version alone; that this is
enough is `CatalogCounts`: between two commits with one catalog version no table changed.
Assumed of the constants: operations are among those modelled, bounds are natural numbers.

*Snapshots.*  A row may have a sequence no higher than an earlier row's for two reasons: its
attempt began before that row, or it was staged on top of such a row.  `OldRowsExplained`
says that there is always one of the first kind; it is inductive together with
`ProposesTheNext`, that an attempt proposes the sequence after the one it began at and stages
no lower one.  The list a read context keeps holds every row up to its last one that is not
expired now (`ListingsWhole`), so that a later check misses only what came after it.  Assumed: transactions change only tables of the catalog, and a fenced one no metadata.

*Schema changes.*  As long as no commit was computed from a row that was replaced in the
meantime, the rows of a table follow one another without gap or overlap (`Windows`), and what
a request has found by the step it is at is so (`Facts`): no conflict up to the order it looked
at, a previous row that was the table's then or began later, and, in a transaction that has not
conflicted, the schema version of the latest snapshot.  A commit changes no row of the past
but for its end, so what was found stays.  Assumed: the first snapshot has one row for each table.

*Statistics.*  `GoodFile` relates the age, the statistics row and the partition of every file of
the store, current or not, to its rows; both properties follow from it.  A merge is the hard
step: it gives the column to rows older than the column, and derives a statistics row
from sources of which some have none.  Row ids, bounds and NULL counts are results of folds
into which these proofs do not look.  Assumed: a file that the client writes into a partition of
the column has only rows of that partition.

*Scans.*  `ScansInvariant` says what the cursor of a range knows between two pages: its items
are in order and lie before all that is left of the range (`ItemsAreBehind`), each was stored at
a version of the read (`ItemsWereStored`), and a key stored at all of them is among the items or
in what is left, the latter at the end only when the limit was reached (`NothingIsSkipped`).
One lemma says that a page keeps this, one that a commit of somebody else does, one that it
holds when a scan starts; a read that has ended is then one `RangeRead` allows.  A page the
store returns is never rejected (`PageIsAccepted`), so the state in which a cursor refuses its
page is not reached.  Induction is over the pages of the behaviour; the only facts about data
are that a finite set of files can be listed and has a first and a last one, which come from the
library.  Assumed: a page holds at least one item, a read has one limit or none, and an index
join one range and no limit.

Left to TLC: liveness (`ReservationReturns`, `ReadsEnd`, `OldFilesAreRemoved`); everything
about merged files, feeds and cleanup, about the folding of public snapshots and about the
caches that scans fill (`AnswersStoredRows`); the bounds and counts of `Statistics`; what a schema
change leaves in the columns; `Metadata`, `Namespace` and `Inline`; and that `Namespace` implements
its abstract module.

## What the models show of the code

The properties hold where the runs claim them.  In three places the code does not do what a
test or message of the repository says; the runs exclude them, by name:

* a mutation that drops files checks row-id overlap before its transaction starts
  (`fdb_data_mutations/commit.rs:164`, compare `:226` and `:281`); an append in between leaves
  two current files with the same row ids (`RowIdsDisjoint` is claimed of files added by commits
  that drop none; `tests/upstream_rewrite_retry_rowid_mirrors.rs:894` states it of all);
* two renames in one commit can clear the name-index entry that one of them has just set
  (`fdb_tables.rs:388`), after which a create of a taken name is admitted
  (`tests/upstream_stats_transactions_views_mirrors.rs:863`); requests of the kind `SwapTables`
  do it, and `NameIndexExact` is claimed up to the first such commit (`unnamed`);
* cleanup deletes data files from storage while a retained snapshot lists them, where
  `runtime_cleanup_tests.rs:75` keeps a scheduled file for as long as one does
  (`RetainedSnapshotsAreReadable` excepts them as `unanswered`, and TLC shows each without it).
  For a file that a mutation dropped it takes the ended source of a rewrite, or any larger file
  of the same partition, as one that covers it (`maintenance.rs:783`, `has_covering_data_file`).
  The sources of a merge it always takes for replaced (`maintenance.rs:775`), although the merge
  of two files of one commit begins with the merge (`fdb_compaction.rs:1256`) and older snapshots
  still read the sources.

The history variables stand for further places of this kind.  Widening `Tolerated` or
`Windows`, or dropping the condition on `overlapped`, `unnamed`, `gaps`, `met`, `late`, `alone`,
`abandoned` or `overtaken`, makes TLC show them:

* a second pinned delete closes a delete file that it has not read, because a replacement
  delete file inherits its begin order (`fdb_data_mutations/validation.rs:456`); the
  extension checks this conflict on its side;
* a delete-only mutation commits after a concurrent alteration of its table
  (`runtime_foundationdb.rs:706`);
* a mutation that flushes inline rows without a snapshot fence and loses to another commit is
  answered with success, files that travel with the flush included (`fdb_data_mutations/commit.rs:408`);
* a direct replacement that was committed and is sent again with a new table id finds its receipt
  and fails with "not found": the attempt id leaves out the ids
  (`fdb_tables.rs:405`, `fdb_tables_tests.rs:39`), the recovery looks the new id up
  (`fdb_table_drop.rs:210`); a create compares contents and is found (`ReceiptFindsTable`);
* two column additions that pass their check together: the second row replaces the first
  (`metadata_conflicts.rs:218`), and likewise two creations under one id (`table_assembly.rs:334`);
* a delete between the source check of a merge and its commit comes back with the merged
  file (`fdb_compaction.rs:679`);
* merges over gaps, of merged files, and rewrites of several files leave histories in which
  older snapshots read rows twice or not at all (`fdb_compaction.rs:841`, `:1168`, `:1256`);
* a mutation that drops a data file does not end its delete file (`fdb_data_mutations/commit.rs:364`),
  so no cleanup lists it (`maintenance.rs:122`), and once the data file's row is removed every
  listing of known files fails (`orphan_cleanup.rs:32`; `DanglingDeleteFilesAreCleanable` excepts
  it as `abandoned`);
* the insertion feed loses a file inside the range of a merge of another partition and
  repeats the sources of a merged file that ended (`runtime_change_feed.rs:237`, `:250`);
* two publishers of inline rows that prepared from one catalog both commit
  (`fdb_inline_tables.rs:233`), an unfenced attempt overwrites a current row
  (`fdb_data_mutations/commit.rs:295`), a delete that commits after a flush is lost
  (`fdb_inline_tables.rs:829`);
* a context whose lease expired may read its pinned snapshot at an older version
  (`runtime_read_versions.rs:52`), and lists current rows at a newer one (`table_store.rs:482`).
* a direct `AddColumns` looks for conflicts before its first commit only, and not at all when it
  lists nothing but defaults and names; with a default that is already in place, or a name that
  it has just appended, it fails after the append is committed, and sent again it fails
  (`runtime_schema_change_ops.rs:27`); a column it lists with a new name and a new default is
  renamed, and the default is lost though the request is acknowledged
  (`runtime_schema_change_ops.rs:256`, `table_columns.rs:350`; `AcknowledgedIsInPlace` excepts it by
  `IsRename`); a request that does not say what it read takes the snapshot
  it proposes as its base if there is one (`runtime_schema_change_ops.rs:284`,
  `runtime_schema_change_ops_tests.rs:12`); the drop of a column does not look at partition keys;
* a row of an attempt keeps the sequence its client proposed: a client that began between two
  rows of another attempt is not told of the second (`runtime_snapshots.rs:282`), and the latest
  sequence can go back; an attempt that was overtaken registers inline tables, or commits data it
  had staged, under its old id, after which the catalog of that version is the one at the late row and its
  files are not (`runtime_inline_ops.rs:208`); each further view of one transaction takes a further
  sequence (`fdb_views.rs:25`); a second conflict check of one transaction is answered from the list
  kept at the first (`store.rs:68`, `:379`); a public snapshot can take in the helper row of another attempt
  (`runtime_snapshots_tests.rs:1665`); expiry changes how the remaining rows are folded;
* the drop of a schema does not look for views and macros (`metadata_conflicts.rs:358`); direct
  creates and drops of schemas check nothing; a direct rename of a view is not compared with
  tables; a view created and dropped by one attempt makes the attempt fail; ids taken from one
  watermark by two clients can be the same; a write that ends an object twice moves its end
  (`runtime_commit_attempt_ops_tests.rs:401`, `:431`);
* an inline table without bounds and without values clears the extrema of a summary but not the
  rest (compare `runtime_metadata_ops_tests.rs:444`); derived statistics of a merged file take a
  source without a row for NULLs (`fdb_compaction.rs:995`, compare
  `runtime_metadata_ops_tests.rs:493`); the mirrored column statistics ignore files without a
  row and inline rows; a pruned listing is empty, unpartitioned files included, if no stored
  partition value matches (`runtime_file_listing.rs:344`, `:557`), and after the table was
  partitioned by another column loses older files, whose values are compared with the new column
  (`file_partitions.rs:826`, `keys.rs:706`);
* a scan outside a read context reads each page at its own version, so that its answer may
  be that of no version (`RangeRead` then only promises a regular read); a dense load outside a
  context that races a cleanup can cache part of the rows of a file that is going away.

## Not modelled

Because nothing there changes the catalog's state in a way a model would add to: metrics,
traces, dispatch, text formats, key and row encodings, benchmark and simulation crates, offline
tools.  The C++ extension is the environment of the models: what it may send is a set of
requests composed from a catalog it has read.

Within modelled parts, left out are:

* the flush of inline file deletions into delete files (`inline_data/inline_file_deletes.rs`)
  and the change feed of inline rows (`inline_change_feed.rs`);
* column mappings, timestamps of snapshots (`AT TIMESTAMP`), orphaned storage paths;
* statistics of types other than ordered scalars, and bucket and time partition transforms;
* a transaction tried again after some of its rows were published, and comments on views (which the
  extension sends inside an attempt, not on their own), in `Snapshots`;
* eviction in the caches of `ReadContext` (modelled for the caches of `Scans`).
