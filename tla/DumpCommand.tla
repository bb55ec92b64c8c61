----------------------------- MODULE DumpCommand ----------------------------
(***************************************************************************)
(* A whole run of greenmask dump: the transaction whose snapshot the       *)
(* schema, the keys of a subset and the rows of every worker are to come   *)
(* from; the scratch schema a subset may leave in the source database; the *)
(* data stage of DumpRun; and the entries of toc.dat with their ids.       *)
(*                                                                         *)
(* Others write to the source database meanwhile.  A version of it is the  *)
(* number of their commits so far.                                         *)
(*                                                                         *)
(* Code: internal/db/postgres/cmd/dump.go, context/context.go,             *)
(* subset/materialize_temp.go, entries.                                    *)
(***************************************************************************)
EXTENDS DumpRun, Toc

\* A command: what it lists (order, noBlobs), whether the user gives a
\* snapshot (given) or forbids to share it (sync is FALSE), how subset
\* conditions are applied (mode: "none", also without conditions, "inline" or
\* "temp_tables"), whether the graph can be materialized (supported), whether
\* virtual references are wrong (badReferences), the header and the entries
\* of the schema's toc.dat, the large objects, and a bound on the commits of
\* others (commits).
CONSTANT Commands

ASSUME CommandAssumption ==
    \A c \in Commands :
        /\ c.order \in Orders /\ c.noBlobs \in BOOLEAN
        /\ {c.given, c.sync, c.supported, c.badReferences} \subseteq BOOLEAN
        /\ c.mode \in {"none", "inline", "temp_tables"}
        /\ c.commits \in Nat

Ids(entries) == {entries[k].DumpId : k \in DOMAIN entries}

\* Data after the pre-data, post-data after the data.
InSections(entries) ==
    \A j, k \in DOMAIN entries :
        /\ j < k /\ entries[j].Section = SectionPostData =>
              entries[k].Section \notin {SectionPreData, SectionData}
        /\ j < k /\ entries[j].Section = SectionData =>
              entries[k].Section # SectionPreData

\* The entries of a schema-only pg_dump: every id once, the sections in order,
\* and what belongs to no section (a comment, a permission) behind the object
\* it is about.  Of such entries one depends on another only if no entry of a
\* section stands between them: a column's permission follows the table's.
SchemaOfPgDump(schema) ==
    /\ schema \in Seq(Elems(schema))
    /\ \A k \in DOMAIN schema :
          /\ schema[k].DumpId \in Nat \ {0}
          /\ schema[k].Section \in {SectionNone, SectionPreData, SectionPostData}
          /\ schema[k].Dependencies \in Seq(Nat)
    /\ \A j, k \in DOMAIN schema : schema[j].DumpId = schema[k].DumpId => j = k
    /\ InSections(schema)
    /\ \A j, k \in DOMAIN schema :
          /\ schema[j].DumpId \in Elems(schema[k].Dependencies)
          /\ schema[j].Section = SectionNone
          => j <= k /\ \A i \in j..k : schema[i].Section = SectionNone

\* pg_dump writes the tar format in a version the reader takes.
ASSUME TocAssumption ==
    \A c \in Commands :
        /\ c.header.Magic = 1 /\ c.header.Major = 1
        /\ c.header.Minor \in FirstVersion..LastVersion
        /\ c.header.IntSize = 4 /\ c.header.Format = ArchTar
        /\ c.large \in Seq([comment : BOOLEAN, acl : BOOLEAN])
        /\ SchemaOfPgDump(c.schema)

VARIABLES
    cmd,        \* the command
    phase,      \* how far Run has come
    failedIn,   \* the phase of the set up that failed, or "none"
    now,        \* the database's version
    snapshot,   \* the version the main transaction sees
    schemaView, \* the version pg_dump saw
    keysView,   \* the versions the materialized keys were taken from
    view,       \* the version of an object's rows, when they are stored
    scratch,    \* the scratch schema exists
    deferred,   \* Run will drop it
    dropFailed  \* a DROP of it failed

runVars == <<cmd, phase, failedIn, now, snapshot, schemaView, keysView, view,
             scratch, deferred, dropFailed>>
allVars == <<vars, runVars>>

\* The order is known when the context is built; no step looks at it before.
CommandInit ==
    /\ Init
    /\ cmd \in {c \in Commands : c.order = order /\ c.noBlobs = noBlobs}
    /\ phase = "connect" /\ failedIn = "none"
    /\ now = 0 /\ snapshot = 0 /\ schemaView = 0 /\ keysView = {}
    /\ view = [o \in Object |-> 0]
    /\ scratch = FALSE /\ deferred = FALSE /\ dropFailed = FALSE

\* Someone else commits.
OthersCommit ==
    /\ now < cmd.commits /\ phase \notin {"over", "killed"} /\ stage # "killed"
    /\ now' = now + 1
    /\ UNCHANGED <<vars, cmd, phase, failedIn, snapshot, schemaView, keysView,
                   view, scratch, deferred, dropFailed>>

-----------------------------------------------------------------------------
(* The set up *)

\* startMainTx: the snapshot is exported, or the given one, which was taken
\* before the command, imported.
StartMainTx ==
    /\ phase = "connect" /\ phase' = "context"
    /\ snapshot' = IF cmd.given THEN 0 ELSE now
    /\ UNCHANGED <<vars, cmd, failedIn, now, schemaView, keysView, view, scratch,
                   deferred, dropFailed>>

\* NewRuntimeContext up to the subset.  Inline keys are read in the main
\* transaction; temporary tables need a schema that others can see.
BuildContext ==
    /\ phase = "context"
    /\ \/ /\ cmd.mode = "none" /\ phase' = "schema" /\ UNCHANGED keysView
       \/ /\ cmd.mode = "inline" /\ phase' = "schema"
          /\ keysView' = IF cmd.supported THEN {snapshot} ELSE {}
       \/ /\ cmd.mode = "temp_tables" /\ phase' = "create"
          /\ UNCHANGED keysView
    /\ UNCHANGED <<vars, cmd, failedIn, now, snapshot, schemaView, view, scratch,
                   deferred, dropFailed>>

\* materializeSubsetQueriesTempTables: CREATE SCHEMA on a connection of its
\* own, committed at once.
CreateScratch ==
    /\ phase = "create" /\ phase' = "keys" /\ scratch' = TRUE
    /\ UNCHANGED <<vars, cmd, failedIn, now, snapshot, schemaView, keysView,
                   view, deferred, dropFailed>>

\* createIdsTableAs: each statement sees what is committed when it begins.
MaterializeKeys ==
    /\ phase = "keys" /\ cmd.supported /\ now \notin keysView
    /\ keysView' = keysView \cup {now}
    /\ UNCHANGED <<vars, cmd, phase, failedIn, now, snapshot, schemaView, view,
                   scratch, deferred, dropFailed>>

\* All keys are there; or the graph is not supported and the schema dropped.
KeysMaterialized ==
    /\ phase = "keys" /\ phase' = "schema"
    /\ scratch' = cmd.supported
    /\ UNCHANGED <<vars, cmd, failedIn, now, snapshot, schemaView, keysView,
                   view, deferred, dropFailed>>

\* A mutant: the error is returned at once.
KeysFail_NoDrop ==
    /\ phase = "keys" /\ phase' = "ending" /\ failedIn' = phase
    /\ UNCHANGED <<vars, cmd, now, snapshot, schemaView, keysView, view, scratch,
                   deferred, dropFailed>>

\* A statement fails, and dropScratchSchema does away with the schema if it
\* can; or the graph is not supported, and the DROP fails.
KeysFail ==
    /\ phase = "keys" /\ phase' = "ending" /\ failedIn' = phase
    /\ \/ cmd.supported /\ scratch' = FALSE /\ UNCHANGED dropFailed
       \/ dropFailed' = TRUE /\ UNCHANGED scratch
    /\ UNCHANGED <<vars, cmd, now, snapshot, schemaView, keysView, view,
                   deferred>>

\* getDatabaseSchema and the warnings: those of wrong virtual references are
\* fatal only now.  Behind them Run puts off the drop of the scratch schema.
ContextBuilt ==
    /\ phase = "schema" /\ ~cmd.badReferences /\ phase' = "pg_dump"
    /\ deferred' = scratch
    /\ UNCHANGED <<vars, cmd, failedIn, now, snapshot, schemaView, keysView,
                   view, scratch, dropFailed>>

\* schemaOnlyDump: pg_dump --snapshot.
SchemaOnlyDump ==
    /\ phase = "pg_dump" /\ phase' = "run"
    /\ schemaView' = snapshot
    /\ UNCHANGED <<vars, cmd, failedIn, now, snapshot, keysView, view, scratch,
                   deferred, dropFailed>>

\* A step of the set up returns an error.
SetUpFails ==
    /\ phase \in {"connect", "context", "create", "schema", "pg_dump"}
    /\ phase' = "ending" /\ failedIn' = phase
    /\ UNCHANGED <<vars, cmd, now, snapshot, schemaView, keysView, view, scratch,
                   deferred, dropFailed>>

SetUp == \/ StartMainTx \/ BuildContext \/ CreateScratch \/ MaterializeKeys
         \/ KeysMaterialized \/ KeysFail \/ ContextBuilt \/ SchemaOnlyDump
         \/ SetUpFails

-----------------------------------------------------------------------------
(* The data stage and what follows it *)

\* A mutant: no subset lets the workers share the snapshot.
Imported_NoSubset == cmd.sync /\ cmd.mode = "none"

\* getWorkerTransaction imports the snapshot, unless the user forbids it or
\* the keys are in a scratch schema, which the snapshot does not have.
Imported == cmd.sync /\ ~deferred

\* A step of DumpRun.  Without the snapshot a COPY sees what is committed when
\* it begins.
Run(A) ==
    /\ phase = "run" /\ A
    /\ view' = [o \in Object |->
                  IF o \notin stored' \ stored THEN view[o]
                  ELSE IF Imported THEN snapshot ELSE now]
    /\ UNCHANGED <<cmd, phase, failedIn, now, snapshot, schemaView, keysView,
                   scratch, deferred, dropFailed>>

RunData == \/ Run(Producer) \/ (\E w \in Worker : Run(WorkerStep(w)))
           \/ Run(Planner) \/ Run(HeartBeat) \/ Run(WaitData)
           \/ Run(WriteToc) \/ Run(WriteMetaData)

\* A kill in the data stage or behind it, and the time that passes.
RunOutside == Run(Kill) \/ Run(Tick)

Returning == \/ phase = "ending"
             \/ phase = "run" /\ stage \in {"ok", "error"}

\* Run returns; dropSubsetScratchSchema may fail, or time out.
Return ==
    /\ Returning /\ phase' = "over"
    /\ \/ ~deferred /\ UNCHANGED <<scratch, dropFailed>>
       \/ deferred /\ scratch' = FALSE /\ UNCHANGED dropFailed
       \/ deferred /\ dropFailed' = TRUE /\ UNCHANGED scratch
    /\ UNCHANGED <<vars, cmd, failedIn, now, snapshot, schemaView, keysView,
                   view, deferred>>

\* The process is killed outside the data stage.
KillCommand ==
    /\ phase \notin {"run", "over", "killed"} \/ Returning
    /\ phase' = "killed"
    /\ UNCHANGED <<vars, cmd, failedIn, now, snapshot, schemaView, keysView,
                   view, scratch, deferred, dropFailed>>

CommandNext == \/ OthersCommit \/ SetUp \/ RunData \/ RunOutside \/ Return
               \/ KillCommand

CommandSpec == CommandInit /\ [][CommandNext]_allVars

\* Run goes on, the database answers, and every goroutine that can run does,
\* until the process is killed; a put and a dump of a table end; and a select
\* that finds the done channel closed or the context cancelled again and again
\* takes that case at some point, since Go chooses among the ready cases at
\* random.  Nothing is assumed of kills, of others' commits and of time.
CommandFairness ==
    /\ WF_allVars(SetUp) /\ WF_allVars(Return)
    /\ WF_allVars(Run(Producer)) /\ WF_allVars(Run(Planner))
    /\ WF_allVars(Run(HeartBeat)) /\ SF_allVars(Run(HbDone \/ HbCancelled))
    /\ \A w \in Worker : WF_allVars(Run(WorkerStep(w)))
    /\ WF_allVars(Run(WaitData)) /\ WF_allVars(Run(WriteToc))
    /\ WF_allVars(Run(WriteMetaData))

FairCommandSpec == CommandSpec /\ CommandFairness

-----------------------------------------------------------------------------
(* The content of toc.dat *)

IdsOfObject(o) ==
    IF Kind[o] = "blobs" THEN 1 + IdAfter(cmd.large, 0, Len(cmd.large)) ELSE 1

\* taskProducer gives every object it comes to the next ids, those of roots
\* and left out blobs included; the sequence begins behind the schema's ids.
LastId(k) == MaxDumpId(cmd.schema) + 1
                 + SumUpTo([j \in DOMAIN order |-> IdsOfObject(order[j])], k)

DumpId(k) == LastId(k - 1) + 1

\* createTocEntries: the tables, the sequences, the large objects.
EntriesOf(kind) ==
    Concat([k \in 1..Len(order) |->
              IF Kind[order[k]] = kind /\ HasEntry(order[k])
              THEN <<DataEntry(kind, DumpId(k))>> ELSE <<>>],
           Len(order))

DataEntries == EntriesOf("table") \o EntriesOf("sequence") \o EntriesOf("blobs")

\* The large objects of the blobs the producer came to, whether or not their
\* data is dumped.
BlobDDLs ==
    Concat([k \in 1..Len(order) |->
              IF Kind[order[k]] = "blobs" THEN AllDDLs(cmd.large, DumpId(k))
              ELSE <<>>],
           Len(order))

Merged == MergeTocEntries(cmd.schema, BlobDDLs, DataEntries)

\* mergeAndWriteToc
TocDat == TocFile(cmd.header, Merged)

-----------------------------------------------------------------------------
(* Properties *)

\* Every variable has its type, and no view is of a version yet to come.
RunType ==
    /\ cmd \in Commands /\ order = cmd.order /\ noBlobs = cmd.noBlobs
    /\ phase \in {"connect", "context", "create", "keys", "schema", "pg_dump",
                  "run", "ending", "over", "killed"}
    /\ failedIn \in {"none", "connect", "context", "create", "keys", "schema",
                     "pg_dump"}
    /\ now \in 0..cmd.commits /\ snapshot \in 0..now /\ schemaView \in 0..now
    /\ keysView \subseteq 0..now
    /\ view \in [Object -> 0..now]
    /\ scratch \in BOOLEAN /\ deferred \in BOOLEAN /\ dropFailed \in BOOLEAN

\* The variables of DumpRun and those of the command have their types.
CommandTypeOK == TypeOK /\ RunType

\* The snapshot is shared: neither forbidden, nor given up for the keys in a
\* scratch schema.
Shared == /\ cmd.sync
          /\ cmd.mode = "temp_tables" => ~cmd.supported

\* A published dump shows the database at one moment, however others write
\* meanwhile: its schema, the keys of its subset and the rows of all its
\* workers.  Where the snapshot is not shared that needs a quiet database.
OneSnapshot ==
    md = "complete" /\ (Shared \/ now = snapshot) =>
        /\ schemaView = snapshot
        /\ keysView \subseteq {snapshot}
        /\ \A o \in toc : HasData(o) => view[o] = snapshot

\* The scratch schema outlives every worker that reads keys from it, and a
\* command that comes to its own end leaves none in the source database, if
\* the DROP works.  The exception is a context that fails after the keys were
\* materialized: Run has not yet put off the drop.
ScratchLives ==
    /\ (/\ cmd.mode = "temp_tables" /\ cmd.supported
        /\ \E w \in Worker : wpc[w] = "execute") => scratch
    /\ phase = "over" /\ scratch => dropFailed \/ failedIn = "schema"

\* Every field that the version has.
ReadAs(entries, written, version) ==
    /\ Len(entries) = Len(written)
    /\ \A k \in DOMAIN written : \A f \in Elems(EntryWritten) :
          version \in f.from .. f.to => entries[k][f.name] = written[k][f.name]

\* Of the schema nothing is left out but what belongs to no section and stands
\* between the last of the pre-data and the first of the post-data.
SchemaKept(schema, entries) ==
    \A k, l \in DOMAIN schema :
        schema[k] \notin entries =>
            /\ schema[k].Section = SectionNone
            /\ schema[l].Section = SectionPreData => l < k
            /\ schema[l].Section = SectionPostData => k < l

\* What the schema's entries depend on without having it: the permissions of
\* the schema public depend on an entry that pg_dump leaves out.
Missing(schema) ==
    (UNION {Elems(schema[k].Dependencies) : k \in DOMAIN schema}) \ Ids(schema)

WholeToc(r, written) ==
    /\ r.pos # 0
    /\ ReadAs(r.x, written, cmd.header.Minor)
    /\ cmd.header.Minor >= 11 => InSections(r.x)
    /\ Cardinality(Ids(r.x)) = Len(r.x)
    /\ \A e \in Elems(r.x) :
          Elems(e.Dependencies) \subseteq Ids(r.x) \cup Missing(cmd.schema)
    /\ SchemaKept(cmd.schema, Elems(written))

\* When toc.dat has just been written, it reads back as it was merged, each
\* id is in it once, with every entry what it depends on, unless the schema
\* lacked it, the sections are in order, and the schema's entries are kept.
TocIsWhole == stage = "metadata" => WholeToc(TocRead(TocDat), Merged)

\* A command comes to its end, whatever fails: none of its goroutines waits for
\* ever for a full or an empty channel, whichever of the others has failed, and
\* the materialization of keys and the drop of the scratch schema end.
CommandEnds == <>(phase \in {"over", "killed"} \/ stage = "killed")
=============================================================================
