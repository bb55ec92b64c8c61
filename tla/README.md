# A TLA+ model of greenmask

Greenmask dumps a PostgreSQL database into a storage (a directory, S3, Azure, SSH),
transforms the rows of the tables on the way, and restores such dumps. This directory
holds TLA+ modules of the commands that dump, restore and delete, of the orders,
subsets, rows and files they compute, the TLC configurations that check them on small
instances, and TLAPS proofs of the main results. `PROJECT.json` lists the components,
the runs, the lines of code behind each definition, the findings, the hazards and the
theorems.

Paths below are relative to the root of the repository.

## The system

| Component | State | Operations | Hard behaviour | What makes it correct |
|---|---|---|---|---|
| Dump: data stage (`internal/db/postgres/cmd/dump.go`) | task channel, done channel, two errgroups | producer, `--jobs` workers, planner, heartbeat writer | a worker fails while the producer blocks; done closes on failure too | it ends; an error of anyone fails the dump |
| Dump: publication (`dump.go`) | `heartbeat`, `toc.dat`, `metadata.json`, `*.dat.gz` in the storage | heartbeat every 15 minutes, merge and write toc, write metadata | killed between two writes; puts that truncate first | metadata implies all the rest |
| Dump status (`internal/utils/dumpstatus`) | none; reads the storage | `GetDumpStatusAndMetadata` for list-dumps, delete | reads three objects while a dump writes them | a verdict agrees with how the dump ends |
| Transformation pipeline (`internal/db/postgres/dumpers`) | windows, one goroutine and channel per transformer, a shared record, a WaitGroup | decode, `when`, transform, encode, write; Init, Done | transformers in parallel on one record; cancellation | the rows are those of the transformers in sequence |
| Table dump (`dumpers/table.go`, `internal/utils/ioutils`) | pipe, gzip, COPY stream | storage writer and dumper goroutines | either side fails | nothing partial passes for a dump |
| Table graph (`subset/graph.go`, `condenced_edge.go`) | graph, components, condensed graph | SCCs, topological sort, translation to dump ids | cycles, several roots, partitions | a topological order with every table once |
| Dump: command (`cmd/dump.go`, `context/`) | main transaction, snapshot, scratch schema | connect, build the context, read or materialize keys, pg_dump of the schema, data stage, merge | a worker's snapshot; a failure after the scratch schema was made | everything is of one snapshot; scratch tables live as long as they are read |
| Subset queries (`subset/`) | paths in scopes, queries, key tables | `SetSubsetQueries`, materialization | cycles, several ways to a table, NULLs, polymorphic references | the subset is closed under references and has no row too few |
| Restore: data stage (`cmd/restore.go`, `restorers/`) | entry list, task channel, restored ids | pusher, `--jobs` workers, restorers | order with several jobs, errors tolerated or not, filters | each entry once, after what it needs; success means complete |
| Restore: other stages (`cmd/restore.go`, `pgrestore/`) | toc lists, scripts | pg_restore for pre- and post-data, scripts | partial failure | sections and scripts in order |
| Delete, list, show (`cmd/greenmask/cmd`) | none; the storage | prune, retain, delete | beside a running dump | only what was asked for is deleted |
| TOC (`toc/`, `entries/`) | toc.dat | write, read, entries of the data, merge | fields that only some archive versions have | what is read is what was written |
| Row codec (`pgcopy/`, `pkg/toolkit/record.go`) | a row | decode, set, encode | escapes, NULL, values that are kept from the row before | a row read back is the row as set |
| Transformers, generators, parameters (`transformers/`, `internal/generators`, `pkg/toolkit`) | per transformer, some keep values between rows | Init, Transform | limits, widths, truncation, dynamic values | values in their limits, NULL kept, rows independent |
| Custom transformers (`transformers/cmd.go`, `transformers/utils`) | a process and two goroutines for each row | Init, Transform, Done | timeouts, goroutines left behind, an answer to an earlier row | a row's answer is its own; no program is left |
| Storages (`internal/storages`) | remote objects | Get, Put, Stat, ListDir, Delete | atomic or not, error mapping | what is read was put as a whole |

They interact through the storage (dump writes; status, restore and delete read),
through metadata.json (`DumpIdsOrder` and `DependenciesGraph` computed by the table
graph, used by the restore's pusher), and inside one process through Go channels and
errgroup contexts.

A hazard of `PROJECT.json` that no property covers has its reason there.

## The modules

    Toc, DumpRun ----------> DumpCommand        DumpRun <--reads-- DumpStatus <-- Retention
    TransformationPipeline --> TableDump        (one worker's Execute of DumpRun)
    RestoreRun --refines--> RestoreOrder --implements--> RestoreContract
    DumpGraph --> SubsetCycles --> Subset
    Generators --> Parameters --> NumberTransformers, TextTransformers --> RowTransform

| Module | Models | Extends |
|---|---|---|
| `RestoreOrder` | the data stage of a restore | |
| `RestoreContract` | what that stage promises, without goroutines | |
| `RestoreRun` | a whole restore: stages, scripts, lists, batches, rows | `RestoreOrder` |
| `RestoreRunProofs` | the data stage's types, flow of the entries, completeness, order, and the contract; a restore implements that stage; its plan, its phases, its rows | `RestoreRun`, `SetInduction` |
| `DumpRun` | a dump from its data stage to metadata.json, and its storage | |
| `DumpRunProofs` | types, what the published dump contains | `DumpRun`, `TLAPS` |
| `Toc` | toc.dat as it is written and read, and the merge of entries | |
| `DumpCommand` | a dump command with its snapshot, subset keys and toc.dat | `DumpRun`, `Toc` |
| `DumpCommandProofs` | it implements `DumpRun`; scratch schema; one snapshot; toc.dat | `DumpCommand`, `DumpRunProofs`, `SetInduction` |
| `DumpStatus` | the reader of a dump's status beside `DumpRun` | `DumpRun` |
| `Retention` | delete in all its modes and restore latest beside a dump | `DumpStatus` |
| `RetentionProofs` | what a reader, a delete and restore latest see of a running dump | `Retention`, `DumpRunProofs`, `SetInduction` |
| `TransformationPipeline` | the windows of a table with asynchronous transformers | |
| `TableDump` | a worker's dump of a table: pipeline, programs, pipe, storage | `TransformationPipeline` |
| `TableDumpProofs` | windows, ownership of the record, programs, whole objects | `TableDump`, `SetInduction` |
| `SetInduction` | induction on naturals and finite sets, stated with sets | `TLAPS` |
| `DumpGraph` | from foreign keys to order and dependencies of dump ids | |
| `DumpGraphProofs` | the searches, the components, the order, the dependencies | `DumpGraph`, `SetInduction` |
| `SubsetCycles` | joins, and the recursive queries of cycles, by what they select | `DumpGraph` |
| `Subset` | paths, scopes and queries of a subset, plain and materialized | `SubsetCycles` |
| `Generators`, `ByteGenerators` | what generators make of a draw | |
| `Parameters` | static and dynamic parameters, defaults, casts | `Generators` |
| `NumberTransformers` | numbers, times, noise | `Parameters` |
| `TextTransformers` | texts, addresses, choices, masks, hashes | `Parameters`, `ByteGenerators` |
| `RecordTransformers` | people, companies, addresses, JSON, templates of a row | `TextTransformers` |
| `RowCodec` | lines, attributes, the row's values | `TextTransformers` |
| `RowTransform` | a table's rows through all of these | `NumberTransformers`, `RecordTransformers`, `RowCodec` |
| `RowTransformProofs` | types, limits and shapes, NULLs, declared columns, independent rows, the codec's round trip | `RowTransform`, `SetInduction` |
| `MC...` | the constants of the instances | the module |

Definitions whose name has an underscore, each marked "A mutant", are variants of the
definition they precede, as a plausible mistake would make it. No specification uses
them; a property that a variant cannot break would say nothing about the code.

### RestoreOrder

`taskPusher` walks a list: without `--restore-in-order` the data section of toc.dat;
with it first `DumpIdsOrder` (ids that toc.dat lacks are left out), then the other
data entries, then the ACL entries (`Walked`, `Listed`). One iteration is `PusherSkip`
(the filter) or `PusherTake`, then `PusherWaited` with `--restore-in-order` and more
than one job, then `PusherDrop` (no task: blobs, ACLs), `PusherSend` or
`PusherNoDefinition`. The checks of the context are `PusherCancelled`; each return
closes the channel (`PusherReturn`). A worker is `Connect`, then `Receive`, `Begin`,
and one of `Commit`, `Tolerate` (a table that failed without `--exit-on-error`: rolled
back, yet recorded as restored) and `ExecuteFails`. `Wait` is `eg.Wait`.

Abstracted: the rows of a COPY, the transaction's statements, the polling interval of
the wait (a step that is enabled when the dependencies are there). The error of
`ctx.Done` and others are one outcome, "error".

Assumed of a dump (`OrderAssumption`, `KindAssumption`): what `DumpGraph` shows that a
dump ensures, except with the partitions of the finding below.

### DumpRun and DumpStatus

`Produce` is one iteration of `taskProducer`; the workers are as above; `PlannerClose`
is the deferred `close(done)`, which comes before the planner's error reaches the
errgroup (`PlannerReturn`). The heartbeat writer's put is two steps, so that other
goroutines and a reader come in between; `AtomicPut` is FALSE for the directory and
SSH storages, whose file is created or truncated first. Ages are counted in intervals
of 15 minutes (`Tick`), up to `ExpiredAge`. The heartbeat of a live writer is younger
than two intervals: the ticker fires after one, and a put is taken to last less than
another. `Kill` may happen at any time until the end.

`DumpStatus` composes this with a reader that takes the heartbeat's time (`Stat`),
then its content, then the metadata, in three steps.

### DumpCommand and Toc

`Run` before its data stage: `StartMainTx` exports the snapshot or imports the user's,
`BuildContext` and `CreateScratch`, `MaterializeKeys`, `KeysMaterialized`, `KeysFail`
are the part of `NewRuntimeContext` that a subset with `temp_tables` goes through,
`ContextBuilt` is where the deferred drop of the scratch schema begins, and
`SchemaOnlyDump` is pg_dump. `Run(A)` is a step of `DumpRun`'s goroutines, in which a
`Store` also notes which version of the database the rows are of; `Return` is the
deferred part of `Run`. `KillCommand` may come at any time.

Others commit (`OthersCommit`) while all this goes on; a version of the database is
the number of their commits. A step that reads in the main transaction, or in one that
has imported its snapshot (`Shared`), sees `snapshot`; any other sees `now`.
`OneSnapshot` compares what the schema, the keys and every object's rows were read
from; with `temp_tables` or without synchronized snapshots it holds only if nobody
wrote.

`TocDat` is the file at the end: the schema's entries through `Toc`'s reader, the
data's entries with their ids (`entries/`), `MergeTocEntries`, and `Toc`'s writer. A
file is a sequence of items; the fields of each archive version are in the tables
`HeaderWritten`, `HeaderRead`, `EntryWritten` and `EntryRead`, one for each direction
since the code has them in two places.

Assumed of pg_dump (`TocAssumption`, `SchemaOfPgDump`): an archive version the reader
takes; each id once, and positive; nothing of the data, and the pre-data before the
post-data. A comment or a permission belongs to no section; another entry depends on
one only where no entry of a section comes between them, as the permissions of a column
on those of its table, which pg_dump writes one behind the other. An entry may depend on
one that toc.dat lacks (`Missing`: the permissions of the schema public do).

### Retention

A delete lists the directories, takes the status of each dump with `DumpStatus`'s
reader, decides (`doomed`), and removes directory after directory in batches of files,
in the order of a listing: a dump that is being removed has still its metadata.json
when its data are gone. `--dry-run` is read only by the modes that select dumps
(`Spared`); a delete by id removes its directory with or without it, and the run has
such commands with the flag. `LatestDump` is `getDumpId` of restore latest.
The dump that is running beside it writes on.

### RestoreRun

The stages of `Run` around `RestoreOrder`'s data stage, with the conditions under
which each is skipped, cleaned or created; scripts in a transaction that is committed
in a defer; the text and JSON lists of entries. pg_restore is an operator on three
objects (the database, what pre-data restores, what post-data restores). In the data
stage a worker sends its rows first (`CopyBatch`, `InsertRow`, `RestoreLargeObject`),
and those of a transaction that is rolled back are not in `rows`. `ImplementsContract`
is still the abstract specification: every run of `RestoreRun` is one of
`RestoreContract`.

`CaseAssumption` says what the inputs are like: an id tells a script from every other
script (also of the same name) and from the sections; a database that is absent has no
objects, and without tables there is no index or constraint.

### TransformationPipeline

A table's transformers are grouped as `tryAdd` does (`Windows`). The dumper
goroutine's steps are those between which another goroutine can act: `EvaluateWhen`
(with `wg.Add`), `Send`, `EndWindow`, `Wait`, `Write`. A transformer takes the signal
and reads (`Take`), then writes its columns (`Transformed`) or fails; `wg.Done` comes
before the error is returned (`ReturnError`). A value is the original or the pair of
the transformer that made it and what that one read, so two results are equal only if
they came about in the same way.

### TableDump

One `Execute`: Init of each transformer, and its clean up when one fails; the
pipeline, which is plain, synchronous, or that of `TransformationPipeline`; the writer
that compresses into the pipe and the put that reads from it; Done of each
transformer. A custom transformer has a program (`proc`) and, for every row, a
goroutine that writes to it and one that reads its answer (`ops`). A row that ran into
its timeout leaves them behind, blocked on the unbuffered `opIsDone`.

`Stuck` names the ends that are none: a panic, the window's wait after a cancellation
(finding 4), and an upload to S3 that waits for a pipe nobody closes, after Init has
failed. `ExecuteReturns` says that there is no other.

### DumpGraph

Kosaraju's two searches and the sort of the condensed graph are steps with an explicit
stack. The choice among the edges is free, since PostgreSQL returns foreign keys in
any order and the components' tables are a Go map. The reference definitions are
`Reachable` and `Cycle`.

### Subset and SubsetCycles

These start where `DumpGraph` ends: `AddEdge` puts an edge into a path's scopes,
`SetSubsetQueries` makes each table's query of them, and a query is modelled by the
rows that it selects: a joined row for each row of its first table, three-valued
conditions, LEFT JOIN where the code takes an edge for nullable, membership in a
subquery's keys for a scope below, and the fixed point of the recursive query for a
cycle. `kept` is what the dump takes of each table; `Failed` is a query that is
refused.

`SubsetIsClosed` and `NoRowIsLost` compare `kept` with the references of the
database's rows. That no row fails its own table's condition is checked of every
schema; the rest has preconditions, each for a kind of schema where the code does
otherwise; all were seen with TLC when they were left out:

* `Overlapping`: cycles that share tables, or tables of a component that are in no
  cycle.
* `InnerJoined`: NOT NULL references between the tables of a cycle or, in plain mode,
  out of one to a table with a condition: the INNER JOIN takes the row away before it
  is seen to be invalid.
* `Polymorphic`: polymorphic references that are NOT NULL, lead to a table reached
  twice, from or into a cycle, or with materialization.
* `SecondWay` (plain mode): a table that is reached a second time gets a scope of its
  own without the condition behind it, because a vertex has only the first scope
  (`path.go`, `addEdge`). A document with an author and an editor, who have a company,
  which has a condition, is dumped with an editor that is not.
* `OnlyJoined`, `NullForgotten` (only for `NoRowIsLost`): rows are left out around a
  conditioned cycle of several tables, and where the number of a table is looked up
  among those of components.

`docs/database_subset.md:5-7` promises consistency without these exceptions.
`subset_cycle` is the run for the one that a document describes in detail.

### RowTransform and what it extends

A table's lines go through decoding, conditions, each transformer and encoding.
`Generators` starts at the draw, an integer of a small width: `Half` stands for 2^63
and `Nano` for the nanoseconds of a second, and arithmetic wraps where the code's int64
would. A float is rounded through an int64 too: `Round` of the transformers counts the
steps of its precision with a conversion (`RoundFloat`, `ToInt64`), which beyond an
int64 gives its smallest value (amd64) or the nearest one (arm64, `Saturates`); the
distance of limits beyond `Float8` is infinite (`FloatLimit`). Numerics are decimals
and rounded exactly (`Round`). The run has six draws, with zero, the largest and the
smallest signed integer among them; the theorem is about all draws and any width. A
hash, a regular expression, a template or a list of names is an operator among the
constants. `memory` is what a transformer keeps from row to row, and `shared` which
values share a place in it;
`RowsIndependent` says that equal lines stay equal, whatever rows came before either.

`TableAssumption` says what the tables are like: different column names and at least
one; no line with fewer fields than columns; each line of texts decodes; and each
transformer whose parameters have no warnings has the fields that its constructor
makes, with the columns of the table. The parameters of a kind with limits decode to
its type or not at all, and its column holds values of that type (`MakesValues`); a
hardware address has three bytes or more, and a network is one of integers.
`NothingAssumption` keeps NULL, nil and an error apart from each other and from values.
`DrawAssumption` has the draw of a number in 64 bits (of `Half`'s width) and that of
nanoseconds below a second, as `Timestamp.Transform` takes them; `WidthAssumption` has
the ranges of the column types inside of an int64. `ByteAssumption` has the length of a
text in no more than 26 bytes (the code's 4; the shortest hash has 28). TLC evaluates
them all, for every table of the run.

## The runs

| Run | Instance | What it shows |
|---|---|---|
| `restore_order` (`RestoreRun.cfg`) | 2 jobs; 320 initial states: 4 dumps (chain, fork, join, a partitioned root without an entry) under 6 option sets in every interleaving, and 296 combinations of sections, cleaning, databases, scripts, lists, rows and batches | order, once each, completeness, phases, whole tables, the contract, the end; 253,000 states |
| `restore_documented` | the options of `docs/configuration.md:505-520` | finding 1: the restore never ends |
| `dump_run` (`DumpCommand.cfg`) | 2 workers, truncating puts; 54 commands: one with everything, 6 about the snapshot with commits of others, 4 with `temp_tables`, and schemas of 9 patterns of sections in archive versions 1.1 to 1.16 | published means complete, success says done, one snapshot, scratch tables, toc.dat, the end; 574,069 states |
| `dump_status` (`Retention.cfg`) | a dump of one worker between four others; every mode of delete, with and without `--dry-run`; restore latest; atomic puts | a verdict and a delete beside a running dump; about 2.7 million states |
| `dump_status_failed` | a table, a partitioned root, a sequence, the blobs; 2 workers | finding 2: a failed dump is not "failed" |
| `pipeline` (`TableDump.cfg`) | 9 dumps of a table of 2 rows: plain, synchronous, asynchronous, validating, to a directory or S3 | one owner of the record, an answer for its own row, whole objects, programs, the ends; 379,926 states |
| `pipeline_order` | 2 columns, 3 transformers, 6 tables | finding 3: not sequential inside a window |
| `pipeline_cancelled` | as above | finding 4: `Transform` may hang after a cancellation |
| `dump_graph` (`Subset.cfg`) | every graph of 4 tables with up to 5 references; about 130 schemas with conditions, in databases of 1 to 3 rows in a table, in both modes | components, order, dependencies; closed subsets with no row too few; 375,262 states |
| `dump_graph_partitions` | 2 references, the partition first | finding 5: an id twice in the order |
| `transform_rows` (`RowTransform.cfg`) | about 1,200 tables; int64 of 6 bits; six draws | limits, NULLs, declared columns, independent rows, the codec's round trip; 73,341 states |
| `subset_cycle` (`SubsetCycle.cfg`) | employees with a manager and a department | finding 6: a reference to an employee who is left out |

Why the bounds are enough. Two jobs and a channel of two make every race of the
restore (a third worker does only what the second can); with one job there is no race,
and the proofs are for any number. Three tables give a chain, a fork and a join, the
shapes in which a dependency is restored, in flight, or behind in the channel. The
other combinations of a restore differ in what the stages do in a row, so that they
have few interleavings and can be many. A commit of others comes before or after any
read, also between two keys. Sixteen archive versions are all there are with signed
integers, and nine patterns of sections have data before, between, after and without
pre- and post-data entries. A delete sees the running dump in each of its states, a
complete dump before and a failed and an unknown one after it. Two rows show whether a
row leaves something behind for the next, in a record, a goroutine or a program. Four
tables have nested and separate cycles, diamonds and self-references; five references
make two cycles with a bridge. Three rows make a recursive query walk longer than its
cycle. Six bits hold limits, their neighbours, both ends of an int64 and the wrap from
one to the other.

`CHECK_DEADLOCK FALSE` is given everywhere since every one of these programs ends,
and, where there are findings, hangs; the liveness properties say which ends are
legal.

## Fairness

Weak fairness of each goroutine: the Go scheduler runs what can run, and the database,
storage and transformers answer. It is given per goroutine, not per action: which of
the enabled cases of a select is taken stays free. Hence a `Receive` may be preferred
to a cancellation as long as there are tasks. The one exception is strong fairness of
`HbDone \/ HbCancelled`: the heartbeat's select meets a ready done or context again
after every tick, and Go chooses among ready cases at random with equal chance. Kills,
cancellations, failures, ticks and the commits of others have no fairness.

`RunFairness` (`RestoreRun`) has the stages of `Run` beside the goroutines of the data
stage, `CommandFairness` (`DumpCommand`) the set up and the return beside those of
`DumpRun`. In `TableDump` the dumper, each goroutine and the timer of a row have it; a
program that was told to end does so, but nothing makes it answer a row. A directory's
put notices the cancelled context, S3's does not: it ends when its reader does.

`RunEnds` is conditional on the selection being closed under dependencies; what
happens otherwise is what `restore_documented` shows. `ExecuteReturns` has `Stuck` as
its other case, and `TransformReturns` is refuted by `pipeline_cancelled`.
`CommandEnds` has no condition: a kill ends a command too.

## What is proved

For every dump, option, number of workers that satisfy the modules' assumptions:

* `TypeCorrect` (`RestoreRunProofs`, as the next four): `Spec => []TypeOK`.
* `FlowCorrect`, `EachExecutedOnce`. "No two workers have one entry" is not inductive:
  an entry may come from the list, where it must not be a second time, through the
  pusher's hand and the channel. `FlowInv` adds that list, hand, channel, workers and
  restored entries are disjoint (`PlacesInv`) and that what passed the wait has its
  dependencies (`WaitedInv`). That an entry is in the list once comes from `seen` and,
  for the first phase, from `OrderAssumption`.
* `CompleteCorrect`, `SuccessIsComplete`. Success must mean that nothing got lost:
  `ControlInv` (who has returned and why), `WalkInv` (what the walk has put into the
  list at each position) and `PlanInv` (what is listed and planned is restored or in
  flight unless something failed).
* `Ordered`: `InOrder` for any number of jobs. With several it follows from
  `WaitedInv`; with one the pusher does not wait, and `AheadInv` carries that what an
  entry needs is ahead of it in the channel.
* `Implements`: `Spec => Contract!Spec`. The refinement mapping is `Plan`, the
  dependencies inside the plan, `Begun` and `restored`; every action is a `Begin`, a
  `Finish`, a `Succeed`, a `Fail` or a stutter.
* `DumpTypeCorrect`, `DumpInvariant`, `Published`, `DoneOnSuccess` (`DumpRunProofs`),
  for any objects, orders and number of workers, and for both kinds of storage.
  `PublishedIsComplete` is not inductive: it speaks of the end only. `DumpInv` adds
  what each step hands on: who has returned and why (`ReturnInv`: the planner's
  verdict stands because every worker has returned by then), where each object with a
  task is as long as no worker has failed (`TaskInv`: ahead of the producer, in the
  channel, with a worker, or stored), and what a stage leaves behind (`StageInv`).
  `DataStageComplete` is where they meet: three goroutines returned and no
  cancellation means that the producer reached the end, that no worker failed, and
  that the channel is empty, so that every object is stored.
* `ImplementsDataStage`, `RunIsOrdered`, `RunImplementsContract`, `CopyIsWhole`: a step of a whole restore is one of `RestoreOrder` or leaves
  its variables alone, so that its theorems hold of it, and the contract is
  implemented across both refinements. A COPY stores all rows of a table or none of
  them, for any batch size, and all of them if the table was restored and its failure
  not merely tolerated.
* `ImplementsDumpRun` (`DumpCommandProofs`): a dump command implements `DumpRun`,
  since every other step leaves its variables alone; `CommandPublished`,
  `CommandDoneOnSuccess` and half of `CommandTypeCorrect` follow.
* `ScratchOutlives`: while anyone may read the keys the scratch schema is there.
  `SetUpInv` says in which phases it exists and whether its drop has been put off;
  `WorkersInv` says that no worker is at work once the data stage has ended or `Run`
  has returned, which is where the drop happens.
* `SnapshotIsOne`: everything in the dump is of one version when the snapshot is
  shared. `SnapshotInv` says of everything taken so far that it is of a version
  between `snapshot` and `now`, and of `snapshot` itself where the snapshot is shared;
  `SetUpInv` ties what a worker looks at (`deferred`) to the command's mode.
* `TocWhole`: `TocIsWhole` for any order of objects, large objects, schema and archive
  version that satisfy the assumptions. It is a fact about the operators of `Toc`, from
  the types of the variables. Reading: the file is a concatenation, and each header,
  count, entry, field and item has its place in it (`Placed`); by induction over the
  fields and over the entries, each is read at its place (`FieldsRead`, `EntriesAreRead`,
  `TocIsRead`), a list up to the first string that is not there, which no id is. That
  the two tables of fields agree is used once for the header and once for the entries
  (`HeaderFacts`, `EntryFacts`). Ids: each object draws an interval behind those before
  it (`SlotFacts`), its entry the first, its large objects the others, and all of them
  begin behind `MaxDumpId` (`DumpIdFacts`, `IdsApart`). A `Batch` is a sequence of
  entries with ids of their own out of a set and sections out of another; the merge puts
  four of them behind one another (`MergeParts`, `MergeWhole`). What the schema's kept
  entries depend on is kept (`KeptClosed`): here the assumption on entries of no
  section is needed, since the merge drops some.
* `RunInvariant`, `PlannedRuns`, `CleanInPhases`, `WholeRows` (`RestoreRunProofs`), for
  any options, scripts, lists, rows, batches and number of workers. None of the three
  properties is inductive. `RanInv` says how much of the plan has run at each stage, so
  that a step appends what comes next in it; `StageInv` that a stage is reached only if
  it is wanted, and what the data stage has returned by then; `ScriptInv` what the
  scripts that ran have left; `DatabaseInv` what pg_restore has left, by induction over
  the statements it executes; `LoadInv` that a worker which has sent `k` rows has stored
  the good ones among the first `k`, in order (`Stored`, `Filters`), and that a table
  nobody has begun is empty. `WholeRows` also needs `CompleteOnSuccess` of the data
  stage, through the refinement.
* `RetentionInvariant`, `RetentionTypeCorrect`, `RetainedComplete`, `EndSeen`,
  `FailedStays`, `DeleteKeeps`, `LatestComplete` (`RetentionProofs`), for any dumps
  beside the running one and any number to retain; the last three assume `AtomicPut`,
  as they are false otherwise. `DeleteKeeps` is about a dry run of the modes that
  select; what a delete by id removes is the one dump of that id, whatever the flag
  (`IdInv`). `ReaderInv` carries from each of the reader's steps to
  the next what it has seen and what that excludes from then on: a heartbeat that is
  old has no writer any more (`HbInv`), and metadata that are there stay.
  `DeleteInv` says why each dump that is doomed or gone was condemned. `DumpInv` holds
  as long as the delete has taken nothing of the running dump.
* `TableInvariant`, `TableTypeCorrect`, `RecordOwned`, `AnswerOwn`, `OkWhole`,
  `ProgramsReaped` (`TableDumpProofs`), for any table, transformers, number of rows and
  behaviour of the programs. That windows are consecutive and disjoint in their columns
  is a lemma about `Windows`, by induction over the table's transformers. `WindowInv`:
  the WaitGroup is the number of the signals not yet taken and the transformers at work.
  `LifeInv`, `ProcInv`, `CallInv`: where each transformer, its program and its two
  goroutines per row are; `CallInv` is why an answer is never one to an earlier row.
  `RowInv`: in the middle of a window the record is what those that have finished make
  of the record the window began with; `CountInv` that what is put is what was written.
* `GraphInvariant`, `GraphTypeCorrect`, `ComponentsCorrect`, `OrderCorrect`,
  `DependenciesCorrect` (`DumpGraphProofs`), for any tables and references and every
  order in which the searches take the edges. `ReachableFacts` says that after as many
  steps as there are tables `Reachable` is closed under the references, and the least
  such set. The first search has no record of time: `OrderInv` says that there is a
  function `D` from each table reached to the tables reached below it, such that a
  table left before `v` is in `D[v]` as soon as one it refers to is (`Tree`).
  `MarkInv` carries this to the second search, where it puts each table that is marked
  below the first one of its component; what is marked refers to that one, so both
  reach each other (`ComponentInv`). The converse needs no search: the components are
  numbered along the references, so a table reaches none with a smaller number
  (`CycleFacts`). `SortInv`: the numbers on the stack decrease, so nothing on it is a
  successor of what is left, and the order is topological. `ListInv` and `IdsInv` carry
  that into the list of dump ids; there `~Aliased` is needed, as finding 5 shows.
  `dump_graph` checks the four properties in `Subset`'s specification, which takes
  `DumpGraph`'s steps and goes on where they end.
* `RunInvariant`, `RowTypes`, `RowsOfValidOnly`, `NullsAreKept`, `RowsAreIndependent`,
  `UndeclaredAreKept`, `WrittenIsReadBack` (`RowTransformProofs`), for any tables,
  chains of transformers, draws, widths and numbers of rows. The properties speak of
  rows that are written; none is inductive, since what a row becomes depends on what
  each transformer remembers of the rows before it. `HasMemory` bounds that memory
  (`Remembered`): it has the fields that the constructor made, the same values if the
  chain is stable, and texts if it had texts. `HasWritten` keeps of each row that there
  is a trace of it through the whole chain, each step of it with some such memory
  (`Trace`, `WrittenAs`); `HasRow` says the same of the row in hand up to `step`, and
  `SharedAfter` which transformers may share a place with it. From there on the
  properties are about one trace. That a step sets only the columns it declares
  (`ChangesDeclared`) is shown for each kind of transformer, that it keeps a NULL under
  keep_null (`AfterKeeps`) and that it makes texts of texts (`AfterTexts`) as well; in
  a stable chain the memory, and so the trace, is determined by the line
  (`StableStep`, `ReachedOnce`).
* `ValuesAreInLimits`, in the same module: the limits and shapes of `ValuesInLimits`,
  for any limits, draws, precisions and widths. `AloneIs` brings the property down to
  what one transformer makes of the row of a line, `MadeInLimits` to its kind. The
  limiters are lemmas of their own (`IntLimitIn`, `FloatLimitNear`, `NumericLimitNear`,
  `TimestampIn`), and so is that the limits a row gives are below each other and inside
  of what is declared (`RowLimitsIn`, `StaticLimitsIn`). Remainders come from one fact:
  the remainder is the only number below the divisor that differs from the dividend by
  a multiple (`RemainderOf`), and a wrapped sum differs from the sum by a multiple of
  the width (`WrapIs`); from there on no division is left. A float may be off by half a
  unit of its precision (`RoundIs`, `RoundFloatNear`), and is spoken of only where the
  count of units between its limits fits into an int64 (`Countable`): elsewhere the
  code does leave them. An email's domain is what comes behind its only at
  sign (`DomainIs`), for which the digits of a hash must not be at signs.
* The codec, in the same module: `SplitJoin` (the fields of a line are those that were
  joined, if none has a delimiter or a line end in it), `EncodeIsField` (what is
  encoded has none), and `DecodeEncoded` (what is encoded decodes to the value), for
  texts of any bytes and any length that are not `Special`. `EncodeAttr`, `DecodeAttr`,
  `Join` and `Split` are recursive functions whose equations are lemmas here
  (`EncodeRecursion` and others); the round trip is by induction over the pieces that
  the encoder writes (`EncodedTails`): no proper part of what is written reads as NULL
  or as the end of the data, and each piece decodes to its byte. `UndeclaredAreKept`,
  `WrittenIsReadBack` and `ValuesAreInLimits` assume `TextsGiven`: the operators that
  stand for hashes, engines, regular expressions and templates give texts, whatever
  texts they take, a digest is in hexadecimal digits, and an engine gives as many bytes
  as it is asked for. `MCRowTransform` has the same operator, `TextOperators`, as an
  assumption for all texts of up to three bytes out of five.

Induction on the goroutines' steps, invariants and action steps are the argument; no
proof needs a bound of the runs. The strengthened invariants (`FlowInv`, `CompleteInv`,
`DumpInv`, `SetUpInv`, `WorkersInv`, `SnapshotInv`, `RunInv` of `RestoreRunProofs`, `RetentionInv`, `Inv` of
`TableDumpProofs`, `GraphInv`) are proved for every value of the constants; the last
four were checked with TLC before, `GraphInv` on all graphs of three tables, the others
on the constants of the runs. `RunInv` of `RowTransformProofs` is the exception: a
trace is a function of which nothing says what set it is in, so that TLC cannot look
for one; the properties that follow from it are those of the run.

The library's theorems about induction take an operator as a parameter, which the
provers do not instantiate. `SetInduction` states them with a set in the place of the
predicate, so that a proof names the set of the numbers (or of the subsets of a finite
set) with the property. That gives the recursive functions `Filters`, `Execute`, `Reach`,
`Windows`, `Records`, `Concat`, `SumUpTo`, `ReadFields` and `ReadEntries`, and the
functions of the codec, their defining equations, and the proofs by induction above.

Proofs found faults of the model, which were mended:

* `RetainedIsComplete` and `LatestIsComplete` spoke of all of `Object`, which is false
  for an order that does not list every object; they are about the objects of `order`.
* Two arms of `CastTypes` were both open for the cast from nanoseconds to timestamptz,
  so that its value was whichever TLC took first; they exclude each other now.
* `DeclaredColumns` and `Stable` read a transformer's fields without its configured
  parameters (`WithParameters`), and so another column than Transform sets where the
  two differ.
* `ValuesInLimits` held on the run's rows and draws only. Where the columns of a row
  give 0 for both limits there are none (`getRandomInt64LimiterForDynamicParameter`,
  and RandomFloat's static limits): `Unlimited`. The smallest int64 stays negative under
  `sec = -sec`, and a date drawn with it may be before its minimum: `least`. The run has
  such a row and such a draw now.
* With arbitrary constants nothing said that a table's columns are different, that a
  line has enough fields, or that a length fits into a hash: `TableAssumption`,
  `NothingAssumption`, `DrawAssumption`, `WidthAssumption` and the bound of
  `ByteAssumption`.

TLC and tlapm group `SUBSET S \ T` and `UNION S \ T` differently, so that the two would
speak of different models; modules with proofs have parentheses there (`DeleteBatch`,
`Missing`).

## Only model-checked

Liveness (`RunEnds`, `CommandEnds`, `ExecuteReturns`): TLAPS has no support for it
here. `SubsetIsClosed` and `NoRowIsLost` are about what recursive queries select, and
`SubsetCycles` and `Subset` define these with RECURSIVE operators, which the provers do
not reason about. What `ValuesInLimits` leaves out is neither proved nor checked: the
limits of noise_int and noise_float when they are dynamic, maxima below zero, dates
truncated to more than a second, and floats whose limits are not `Countable`, for
which it is false.

## Findings

1. `restore_documented`: the pusher waits for dependencies that the filters left out,
   or that have no TOC entry, and never ends.
2. `dump_status_failed`: after a worker's failure the heartbeat may say "done"; the
   dump is then "unknown or failed", and `--prune-failed` keeps it.
3. `pipeline_order`: a dynamic parameter or a condition may see the value from before
   an earlier transformer of its window.
4. `pipeline_cancelled`: a signal to a goroutine that has left is never answered, and
   the dump hangs on the WaitGroup.
5. `dump_graph_partitions`: a partition found for its root is twice in the order, and
   its root is missing.
6. `subset_cycle`: a row of a cycle that does not meet a condition does not come out
   of the recursive query at all, so that nothing excludes the rows that refer to it.

## Seen as well

Met while modelling, without a run of their own; what is in a module is there as the
code has it:

Dump and storage.

* With a storage that truncates before it writes, `FailedIsFinal` does not hold. A
  reader between truncation and write sees an empty heartbeat and reports a live dump
  as failed, and `delete --prune-failed` would remove it. Set `AtomicPut` to FALSE in
  `Retention.cfg` to see the trace.
* A dump of which a delete removed the data, but not yet metadata.json, is reported
  done and taken by restore latest (`DeleteBatch`). A delete by id takes a running
  dump.
* `delete <id> --dry-run` deletes: `delete_dump.go:103-105` calls `deleteDump`, which
  reaches `DeleteAll` (line 130) without a look at the flag. The flag's help
  (`delete_dump.go:342-346`) and `docs/commands/delete.md:12` say "do not delete
  anything, just show what would be deleted". `Retention` does as the code does.
* A scratch schema stays when `getDatabaseSchema` or a virtual reference fails after
  the keys were materialized (`ScratchLives` has it as an exception), and when the
  process is killed.
* `MergeTocEntries` drops the entries of no section (ACL, COMMENT) between the last
  pre-data entry and the first post-data one (`dump.go:600-620`); `dump_test.go` has
  it as intended for a schema without sections.
* `--no-blobs` still writes the DDL of large objects into toc.dat; without data
  entries that DDL is left out. A COMMENT of a large object always names object 57344
  (`entries/large_object.go`).
* The reader of toc.dat expects no sign byte for integers of archive 1.0, the writer
  always writes one.

Table dump and programs.

* After a failed Init the pipe stays open: S3's put waits for ever. The clean up calls
  Done of transformers that failed and not of the last one; Done of a program whose
  Init failed panics unless it was validated.
* `custom_cmd.go` treats the expected non-zero exit code as an error; a program ended
  by SIGTERM has exit code -1.

Transformers and rows.

* `encoder.go:38-39` passes over the byte behind a null sequence or an end marker
  inside of a value (`\Na` is restored as `\N`); a control character without a letter
  is written twice (`encoder.go:62-66`). `Special` excludes both.
* `limitIsValid` is always true (`||`); `getIntThresholds(8)` has the range of an
  int16; noise_int and noise_float read the maximum from the minimum's parameter;
  noise_date's limiter has the maximum for its minimum.
* Two zeros are no limits: dynamic limits of 0 and 0, or of 0 and none, give the whole
  range of the column's type (`random_int.go:286`), and random_float does the same with
  static ones. random_date with the draw -2^63 may give a date before its minimum
  (`random_timestamp.go:223-225`).
* random_float and noise_float round by way of an int64 (`random_float64.go:80-87`). With
  4 decimals a value above about 9.22e14 does not fit: limits of 1e16 and 1e18 give
  -9.22e14 on amd64, below the minimum. A float8 without limits has an infinite
  distance, so that every draw gives that one value. `RoundFloat` and `FloatLimit` have
  both, and `Countable` keeps them out of `ValuesInLimits`.
* random_unix takes microseconds for milliseconds, and the cast from nanoseconds
  subtracts unscaled seconds.
* RegexpReplace writes into a value that a dictionary, a choice or Replace shares;
  random_company's buffer grows; random_person's dynamic gender overwrites a cached
  value. `RowsIndependent` names the three.
* Dict without a match sets back the original value after an earlier transformer;
  random_ip ignores keep_null.
* A default replaces an environment variable in `StaticParameter`; a dynamic
  parameter's template cast has no check of types.

Restore.

* A list with an id twice restores a table twice. An empty text list filters nothing
  for the data and everything for pg_restore; a missing pg_restore binary is tolerated
  without `--exit-on-error`.
* `RunScripts` commits what was done before a failing script if the failure was not the
  database's (a command, a query file that cannot be read, a script without content),
  and only logs a failed commit.
* With one section and `--create`, pre-data or post-data alone run pg_restore with
  `--create` (`restore.go:386-404`, `442`), as the model has it.
* `table_insert_format.go:60-66` quotes the names of insert exclusions twice.

Subsets: the preconditions above.

## Not modelled

The database, the storages, pg_dump and pg_restore are external: an operator or a
choice of outcomes. Left out of what is modelled:

* `DumpCommand`: the queries of the introspection and the merging of configurations,
  whose results are inputs; the workers of validate mode; a CREATE or DROP whose
  answer is lost counts as not done.
* `Toc`: how many bytes an integer or string takes; archive 1.0.
* `RestoreRun`: texts of connections and arguments. An INSERT has a transaction of its
  own for each row, and so begins none for its table; `Begin` is then only the step
  that opens the file.
* `RowCodec`: the panic on octal escapes that are not UTF-8 (`decoder.go:146-148`):
  neither COPY TO nor `EncodeAttr` writes octal escapes.
* `TableDump`: the skip of NULLs for programs, stderr, counters of bytes, gzip's
  format, the formats of the exchange (text, csv, JSON), the Validate phase of a
  definition, the dumper of large objects.
* `Subset`: the text of queries and shortened identifiers, primary keys of several
  columns, tables without one, key sets above 10,000, and writes by others with
  `temp_tables` (`DumpCommand` has these). The numbering of components by edges is any
  that the searches can give.
* `RowTransform`: hashes, engines, regular expressions, templates and lists of names
  are constants; custom types and the casts of booleans and enumerations are left out.
* `Retention`: list-dumps and show-dump only print.

The validate command, the wrappers of pg_dump and pg_restore, the command line,
logging and authentication are not modelled: presentation and pure input and output.

Some hazards have no property. In these the code does go wrong, the modules have the
step in which it does, and the property next to it excepts the case by name:

* the truncating put under a reader (`directory.go:108`; `AtomicPut`);
* a pipe that stays open after a failed Init (`transformation_pipeline.go:111`);
* the scratch schema that a failed step leaves (`dump.go:536`; `ScratchLives`);
* a dump with some of its files removed (`s3.go:286`; `DeleteBatch`);
* a value with a null sequence inside, or with a control character (`encoder.go:34`;
  `Special`);
* the value that RegexpReplace shares (`regexp_replace.go:131`; `RowsIndependent`);
* paths and components of a subset that lose a reference (`path.go:68`,
  `component.go:209`; the preconditions of `SubsetIsClosed`).

## Plan

Done: `RestoreOrder`, `RestoreContract` and `RestoreRun` with their proofs; `DumpRun`,
`Toc` and `DumpCommand` with theirs; `DumpStatus`, `Retention`;
`TransformationPipeline`, `TableDump`; `DumpGraph`, `SubsetCycles`, `Subset`; the
transformers, parameters, codec and `RowTransform`.

Proofs: all of the above but `Subset` and `SubsetCycles`.

Next:

1. `SubsetIsClosed` and `NoRowIsLost`, with the recursion of `Subset` and `SubsetCycles`
   written as functions.
2. The workers of validate mode beside `TableDump`.

There is one run for each question; the findings' runs stay as they are, so that a
repair of the code shows in them.
