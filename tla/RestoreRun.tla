----------------------------- MODULE RestoreRun -----------------------------
(***************************************************************************)
(* A whole greenmask restore: preparation, the pre-data section, the data  *)
(* section and the post-data section, with the user's scripts before and   *)
(* after each.  pg_restore restores the objects around the data stage of   *)
(* RestoreOrder, whose steps are refined here to batches, rows and large   *)
(* objects.                                                                *)
(*                                                                         *)
(* Code: internal/db/postgres/cmd/restore.go, restorers, pgrestore.        *)
(***************************************************************************)
EXTENDS RestoreOrder, SequencesExt

CONSTANT Cases  \* [archive, opt, run]: a dump, the options, the database

Sections == {"pre-data", "data", "post-data"}

Objects == {"database", "pre-data", "post-data"}

(***************************************************************************)
(* run: the options that choose the stages, what the use-list, the scripts *)
(* and the data files hold, and the database as it is before the restore.  *)
(* An object is absent ("none"), of an earlier time ("old") or restored    *)
(* ("new").  A row is accepted by the database ("ok"), violates a unique   *)
(* constraint ("conflict") or is rejected for another reason ("bad").      *)
(***************************************************************************)
Script == [id: STRING, when: {"before", "after"}, kind: {"query", "command"}]

RunOption ==
    [create: BOOLEAN, clean: BOOLEAN, ifExists: BOOLEAN,
     schemaOnly: BOOLEAN, dataOnly: BOOLEAN, section: Sections \cup {""},
     format: {"none", "text", "json"}, lines: Seq(DumpId \cup {NoEntry}),
     batch: Nat, onConflict: BOOLEAN, excluded: SUBSET {"conflict", "bad"},
     rows: [DumpId -> Seq({"ok", "conflict", "bad"})],
     scripts: [Sections -> Seq(Script)],
     named: BOOLEAN,
     db: [Objects -> {"none", "old"}]]

\* The id of a script tells it from the other scripts, also of the same name, and
\* from the sections; the objects of a schema are in a database, and its constraints
\* and indexes are of tables.
ASSUME CaseAssumption ==
    /\ Cases \subseteq [archive: Archive, opt: Option, run: RunOption]
    /\ \A c \in Cases :
          /\ \A s, u \in Sections : LET a == c.run.scripts[s]
                                      b == c.run.scripts[u]
                                  IN  \A i \in 1..Len(a) :
                /\ a[i].id \notin Sections
                /\ \A j \in 1..Len(b) : a[i].id = b[j].id => s = u /\ i = j
          /\ c.run.db["database"] = "none" => c.run.db["pre-data"] = "none"
          /\ c.run.db["pre-data"] = "none" => c.run.db["post-data"] = "none"

VARIABLES
    run,      \* the options and the surroundings of this restore
    stage,    \* where Run is
    create,   \* restoreOpt.Create
    cleanToc, \* preDataClenUpToc and postDataClenUpToc have been made
    db,       \* the objects of the database
    ran,      \* the scripts and sections completed, in order
    applied,  \* the scripts whose effect lasts
    at,       \* how many rows or large objects each worker has sent
    rows,     \* the rows and large objects that are committed, by entry
    result    \* what Run returned

stageVars == <<create, cleanToc, db, ran, applied>>
dataVars == <<at, rows>>
runVars == <<run, stage, stageVars, dataVars, result>>
allVars == <<vars, runVars>>

-----------------------------------------------------------------------------
(* Preparation: metadata.json, toc.dat and the list of entries *)

\* The elements of s that are in S, among the first k.
Filters(s, S) ==
    LET upTo[k \in 0..Len(s)] ==
            IF k = 0 THEN <<>>
            ELSE IF s[k] \in S THEN Append(upTo[k - 1], s[k]) ELSE upTo[k - 1]
    IN  upTo

Filter(s, S) == Filters(s, S)[Len(s)]

\* The ids of a list: a line of a text list that has none is skipped.
ListIds(r) == Filter(r.lines, DumpId)

\* A structured list must have an id in every entry, and toc.dat every id.
ListIsValid(r, toc) ==
    /\ r.format = "json" => NoEntry \notin Elems(r.lines)
    /\ Elems(ListIds(r)) \subseteq Elems(toc)

\* The entries in the order of the list; no id at all means no list.
ListToc(r, toc) == IF ListIds(r) = <<>> \/ ~ListIsValid(r, toc)
                     THEN toc ELSE ListIds(r)

RunInit ==
    /\ \E c \in Cases :
          /\ archive = [c.archive EXCEPT !.toc = ListToc(c.run, @)]
          /\ opt = c.opt
          /\ run = c.run
          /\ stage = IF ListIsValid(c.run, c.archive.toc) THEN "prepare"
                                                          ELSE "refuse"
    /\ Init
    /\ create = run.create /\ cleanToc = FALSE
    /\ db = run.db
    /\ ran = <<>> /\ applied = {}
    /\ at = [w \in Worker |-> 0]
    /\ rows = [d \in DumpId |-> <<>>]
    /\ result = "running"

Goto(next) == stage' = next /\ UNCHANGED <<run, result>>

End(r) == stage' = "end" /\ result' = r /\ UNCHANGED run

Prepare ==
    /\ stage = "prepare"
    /\ run.create => run.named
    /\ Goto("pre-data")
    /\ UNCHANGED <<vars, stageVars, dataVars>>

\* metadata.json, toc.dat or the list cannot be read, the list does not fit
\* the dump, or --create finds no name of a database in toc.dat.
PrepareFails ==
    /\ stage \in {"prepare", "refuse"}
    /\ End("error")
    /\ UNCHANGED <<vars, stageVars, dataVars>>

-----------------------------------------------------------------------------
(* RunScripts *)

\* What a command has done lasts, what a query has done if it is committed.
Lasting(did, committed) ==
    {s.id : s \in {x \in did : committed \/ x.kind = "command"}}

Todo(section, when) ==
    LET all == run.scripts[section]
    IN  Filter(all, {s \in Elems(all) : s.when = when})

Ids(scripts) == [i \in 1..Len(scripts) |-> scripts[i].id]

(***************************************************************************)
(* The scripts of a section and moment run in their order in one           *)
(* transaction, which is committed whatever happened.  A query that the    *)
(* database refused makes the commit a rollback, one that was not sent to  *)
(* it (its file cannot be read) does not; a commit that fails is only      *)
(* logged.                                                                 *)
(***************************************************************************)
RunScripts(section, when, next) ==
    LET todo == Todo(section, when)
    IN  \E n \in 0..Len(todo), committed \in BOOLEAN :
          /\ run.scripts[section] = <<>> => committed
          /\ applied' = applied \cup Lasting({todo[i] : i \in 1..n}, committed)
          /\ ran' = ran \o SubSeq(Ids(todo), 1, n)
          /\ IF n = Len(todo) THEN Goto(next) ELSE End("error")

\* The section's connection, or the transaction of its scripts, fails.
ConnectionFails ==
    /\ End("error")
    /\ UNCHANGED <<vars, stageVars, dataVars>>

-----------------------------------------------------------------------------
(* pg_restore *)

\* The statements of a pg_restore call: with --create and --clean only the
\* database is dropped, else the objects are, in reverse order.  The database is
\* of no section, and --create is about it whatever section is restored.
Statements(objs, creates, clean, dropped, created) ==
    (IF creates THEN (IF clean THEN <<<<"drop", "database">>>> ELSE <<>>)
                     \o <<<<"create", "database">>>>
     ELSE IF clean
       THEN Filter(<<<<"drop", "post-data">>, <<"drop", "pre-data">>>>,
                   {"drop"} \X (objs \cap dropped))
       ELSE <<>>)
    \o Filter(<<<<"create", "pre-data">>, <<"create", "post-data">>>>,
              {"create"} \X (objs \cap created))

\* The connection of the post-data stage is to the database itself.
Possible(s, d) ==
    IF s[1] = "drop"
      THEN /\ d[s[2]] # "none" \/ run.ifExists
           /\ s[2] = "pre-data" => d["post-data"] = "none"
           /\ s[2] = "database" => stage # "post-restore"
      ELSE /\ d[s[2]] = "none"
           /\ s[2] # "database" => d["database"] # "none"
           /\ s[2] = "post-data" => d["pre-data"] # "none"

Effect(s, d) ==
    [o \in Objects |->
       IF o = s[2] THEN IF s[1] = "drop" THEN "none" ELSE "new"
       ELSE IF s = <<"drop", "database">> THEN "none" ELSE d[o]]

\* A statement that fails is reported, and ends the call under
\* --exit-on-error.
Executed(x, s) == IF x.failed /\ opt.exitOnError THEN x
                  ELSE IF Possible(s, x.db) THEN [x EXCEPT !.db = Effect(s, @)]
                  ELSE [x EXCEPT !.failed = TRUE]

\* What the first n statements have made of the database.
Execute(stmts) ==
    LET after[n \in 0..Len(stmts)] ==
            IF n = 0 THEN [db |-> db, failed |-> FALSE]
            ELSE Executed(after[n - 1], stmts[n])
    IN  after

\* Without --exit-on-error the exit code 1 is tolerated, and so is a
\* pg_restore that does not start, whose error has no exit code.
Tolerated(code) ==
    code \in (IF opt.exitOnError THEN {"0"} ELSE {"0", "1", "no-start"})

\* The call runs to its end, or ends early by itself or by a signal.
PgRestore(stmts, section, next) ==
    \E n \in 0..Len(stmts), code \in {"0", "1", "signal", "no-start"} :
       LET x == Execute(stmts)[n]
       IN  /\ code = "0" => n = Len(stmts) /\ ~x.failed
           /\ code = "no-start" => n = 0
           /\ db' = x.db
           /\ IF Tolerated(code)
                THEN Goto(next) /\ ran' = Append(ran, section)
                ELSE End("error") /\ UNCHANGED ran

-----------------------------------------------------------------------------
(* The stages *)

\* A mutant: --data-only is forgotten.
PostDataWanted_NoDataOnly == run.section \in {"", "post-data"}

PreDataWanted == ~run.dataOnly /\ run.section \in {"", "pre-data"}
DataWanted == ~run.schemaOnly /\ run.section \in {"", "data"}
PostDataWanted == ~run.dataOnly /\ run.section \in {"", "post-data"}

\* A section that the options leave out.
SkipStage(here, wanted, next) ==
    /\ stage = here /\ ~wanted
    /\ Goto(next)
    /\ UNCHANGED <<vars, stageVars, dataVars>>

\* connect and the scripts before a section.
BeforeStage(here, wanted, next) ==
    /\ stage = here /\ wanted
    /\ \/ /\ db["database"] # "none"
          /\ RunScripts(here, "before", next)
          /\ UNCHANGED <<vars, create, cleanToc, db, dataVars>>
       \/ ConnectionFails

PreDataSkip == SkipStage("pre-data", PreDataWanted, "data")

\* With --create there is no database yet to connect to.
PreDataBefore ==
    IF create
      THEN /\ stage = "pre-data" /\ PreDataWanted
           /\ Goto("pre-restore")
           /\ UNCHANGED <<vars, stageVars, dataVars>>
      ELSE BeforeStage("pre-data", PreDataWanted, "pre-restore")

\* A mutant: the clean up toc of the pre-data section is the whole toc.
PreDataCreated_All(phased) == {"pre-data", "post-data"}

\* prepareCleanupToc replaces the create statements of post-data by ";".
PreDataCreated(phased) == IF phased THEN {"pre-data"}
                                    ELSE {"pre-data", "post-data"}

\* and, for the post-data section, its drop statements.
PostDataDropped(phased) == IF phased THEN {} ELSE {"post-data"}

\* The whole schema with the neutralized toc, or one section of toc.dat.
PreDataRestore ==
    /\ stage = "pre-restore"
    /\ LET phased == (create \/ run.clean) /\ run.section = ""
           objs   == IF phased THEN {"pre-data", "post-data"} ELSE {"pre-data"}
       IN  /\ cleanToc' = phased
           /\ PgRestore(Statements(objs, create, run.clean, Objects,
                                   PreDataCreated(phased)),
                        "pre-data", "pre-after")
    /\ UNCHANGED <<vars, create, applied, dataVars>>

PreDataAfter ==
    /\ stage = "pre-after"
    /\ \/ /\ create => db["database"] # "none"
          /\ create' = FALSE
          /\ RunScripts("pre-data", "after", "data")
          /\ UNCHANGED <<vars, cleanToc, db, dataVars>>
       \/ (create \/ run.scripts["pre-data"] # <<>>) /\ ConnectionFails

DataSkip == SkipStage("data", DataWanted, "post-data")

DataBefore == BeforeStage("data", DataWanted, "tasks")

\* The data stage has ended: the scripts after it, or the first error.
DataAfter ==
    /\ stage = "tasks" /\ outcome # "running"
    /\ \/ /\ outcome = "ok"
          /\ RunScripts("data", "after", "post-data")
          /\ UNCHANGED <<vars, create, cleanToc, db, dataVars>>
       \/ /\ outcome = "error" \/ run.scripts["data"] # <<>>
          /\ ConnectionFails

PostDataSkip ==
    /\ stage = "post-data" /\ ~PostDataWanted
    /\ End("ok")
    /\ UNCHANGED <<vars, stageVars, dataVars>>

PostDataBefore == BeforeStage("post-data", PostDataWanted, "post-restore")

PostDataRestore ==
    /\ stage = "post-restore"
    /\ PgRestore(Statements({"post-data"}, create, run.clean,
                            PostDataDropped(cleanToc), Objects),
                 "post-data", "post-after")
    /\ UNCHANGED <<vars, create, cleanToc, applied, dataVars>>

PostDataAfter ==
    /\ stage = "post-after"
    /\ \/ /\ RunScripts("post-data", "after", "finished")
          /\ UNCHANGED <<vars, create, cleanToc, db, dataVars>>
       \/ run.scripts["post-data"] # <<>> /\ ConnectionFails

Finished ==
    /\ stage = "finished"
    /\ End("ok")
    /\ UNCHANGED <<vars, stageVars, dataVars>>

StageStep == \/ Prepare \/ PrepareFails
             \/ PreDataSkip \/ PreDataBefore \/ PreDataRestore \/ PreDataAfter
             \/ DataSkip \/ DataBefore \/ DataAfter
             \/ PostDataSkip \/ PostDataBefore \/ PostDataRestore
             \/ PostDataAfter \/ Finished

-----------------------------------------------------------------------------
(* The restorers *)

Executing(w, kinds) == /\ stage = "tasks" /\ wpc[w] = "execute"
                       /\ Kind[held[w]] \in kinds

\* What the database makes of row i of entry d: without the table, nothing.
Verdict(d, i) == IF db["pre-data"] = "none" THEN "bad" ELSE run.rows[d][i]

Sent(w) == at[w] = Len(run.rows[held[w]])

\* The worker is done with its entry, of which r is committed.
Left(w, r) ==
    /\ at' = [at EXCEPT ![w] = 0]
    /\ rows' = [rows EXCEPT ![held[w]] = r]
    /\ UNCHANGED <<run, stage, stageVars, result>>

Row(w, committed) ==
    /\ at' = [at EXCEPT ![w] = @ + 1]
    /\ rows' = [rows EXCEPT ![held[w]] =
                  IF committed THEN Append(@, at[w] + 1) ELSE @]
    /\ UNCHANGED <<vars, run, stage, stageVars, result>>

\* The rows of a COPY up to the end of the batch, or of the table: the
\* database reports an error at that end only.
CopyBatch(w) ==
    /\ Executing(w, {"table"}) /\ ~opt.inserts /\ ~Sent(w)
    /\ LET all  == Len(run.rows[held[w]])
           last == IF run.batch > 0 /\ at[w] + run.batch < all
                     THEN at[w] + run.batch ELSE all
       IN  /\ \A i \in (at[w] + 1)..last : Verdict(held[w], i) = "ok"
           /\ at' = [at EXCEPT ![w] = last]
    /\ UNCHANGED <<vars, run, stage, stageVars, rows, result>>

CopyCommit(w) ==
    /\ Executing(w, {"table"}) /\ ~opt.inserts /\ Sent(w)
    /\ db["pre-data"] # "none"
    /\ Commit(w)
    /\ Left(w, [i \in 1..at[w] |-> i])

\* A mutant: the batches sent so far stay.
CopyFails_KeepsBatches(w) ==
    /\ Executing(w, {"table"}) /\ ~opt.inserts
    /\ IF opt.exitOnError THEN ExecuteFails(w) ELSE Tolerate(w)
    /\ Left(w, [i \in 1..at[w] |-> i])

\* An error of the database, of the dump's object or of the context rolls
\* the transaction back.
CopyFails(w) ==
    /\ Executing(w, {"table"}) /\ ~opt.inserts
    /\ IF opt.exitOnError THEN ExecuteFails(w) ELSE Tolerate(w)
    /\ Left(w, rows[held[w]])

\* What disables and enables triggers, the roles and the commit: an error of
\* theirs is never tolerated, for after a rollback the commit fails too.
TxFails(w) ==
    /\ Executing(w, {"table"}) /\ ~opt.inserts
    /\ ExecuteFails(w)
    /\ Left(w, rows[held[w]])

\* ON CONFLICT DO NOTHING
Ignored(v) == v = "conflict" /\ run.onConflict

IsErrorAllowed(v) == v \in run.excluded

\* With --inserts every row has a transaction of its own: the row is stored,
\* or left out by ON CONFLICT DO NOTHING or for an error that is excluded.
InsertRow(w) ==
    /\ Executing(w, {"table"}) /\ opt.inserts /\ ~Sent(w)
    /\ LET v == Verdict(held[w], at[w] + 1)
       IN  \/ v = "ok" /\ Row(w, TRUE)
           \/ (Ignored(v) \/ IsErrorAllowed(v)) /\ Row(w, FALSE)

InsertEnd(w) ==
    /\ Executing(w, {"table"}) /\ opt.inserts /\ Sent(w)
    /\ Commit(w)
    /\ Left(w, rows[held[w]])

\* Any other error ends the table, and keeps the rows before it.
InsertFails(w) ==
    /\ Executing(w, {"table"}) /\ opt.inserts
    /\ IF opt.exitOnError THEN ExecuteFails(w) ELSE Tolerate(w)
    /\ Left(w, rows[held[w]])

\* Large objects, each in a transaction of its own.
RestoreLargeObject(w) ==
    /\ Executing(w, {"blobs"}) /\ ~Sent(w)
    /\ run.rows[held[w]][at[w] + 1] = "ok"
    /\ Row(w, TRUE)

\* A large object that was the last, a sequence, an ACL.
OtherEnd(w) ==
    /\ Executing(w, {"blobs", "sequence", "acl"})
    /\ Kind[held[w]] = "blobs" => Sent(w)
    /\ Commit(w)
    /\ Left(w, rows[held[w]])

OtherFails(w) ==
    /\ Executing(w, {"blobs", "sequence", "acl"})
    /\ ExecuteFails(w)
    /\ Left(w, rows[held[w]])

ExecuteStep(w) == \/ CopyBatch(w) \/ CopyCommit(w) \/ CopyFails(w)
                  \/ TxFails(w)
                  \/ InsertRow(w) \/ InsertEnd(w) \/ InsertFails(w)
                  \/ RestoreLargeObject(w) \/ OtherEnd(w) \/ OtherFails(w)

ChannelStep(w) == \/ Connect(w) \/ ConnectFails(w)
                  \/ Receive(w) \/ ReceiveNil(w) \/ WorkerCancelled(w)
                  \/ Begin(w) \/ BeginFails(w)

RunWorker(w) == \/ stage = "tasks" /\ ChannelStep(w) /\ UNCHANGED runVars
                \/ ExecuteStep(w)

RunPusher == stage = "tasks" /\ Pusher /\ UNCHANGED runVars

RunWait == stage = "tasks" /\ Wait /\ UNCHANGED runVars

RunNext == StageStep \/ RunPusher \/ RunWait \/ \E w \in Worker : RunWorker(w)

\* As in RestoreOrder; Run itself goes on, and pg_restore and every script
\* come to an end.
RunFairness == /\ WF_allVars(StageStep)
               /\ WF_allVars(RunPusher)
               /\ WF_allVars(RunWait)
               /\ \A w \in Worker : WF_allVars(RunWorker(w))

RunSpec == RunInit /\ [][RunNext]_allVars

FairRunSpec == RunSpec /\ RunFairness

-----------------------------------------------------------------------------
(* Properties *)

\* What the options promise, in order: for every section they select the
\* scripts before it, the section and the scripts after it.  There are no
\* scripts before the pre-data section of a database yet to be created.
Selected(s) == /\ run.section \in {"", s}
               /\ IF s = "data" THEN ~run.schemaOnly ELSE ~run.dataOnly

Whole(s) ==
    (IF s = "pre-data" /\ run.create THEN <<>> ELSE Ids(Todo(s, "before")))
    \o (IF s = "data" THEN <<>> ELSE <<s>>) \o Ids(Todo(s, "after"))

Part(s) == IF Selected(s) THEN Whole(s) ELSE <<>>

Planned == Part("pre-data") \o Part("data") \o Part("post-data")

\* Whatever fails, and whatever is tolerated: scripts and sections run in
\* the planned order without a gap, and success means that all of them ran
\* and that the data, if they are wanted, were restored.  What a command has
\* done lasts, also when a later script fails; a query lasts only with the
\* queries that ran before it in the same call.
RunsAsPlanned ==
    /\ IsPrefix(ran, Planned)
    /\ \A s \in Sections : \A i, j \in 1..Len(run.scripts[s]) :
          LET a == run.scripts[s][i]
              b == run.scripts[s][j]
          IN  /\ a.kind = "command" /\ a.id \in Elems(ran) => a.id \in applied
              /\ a.id \in applied /\ b.kind = "query" =>
                    (i <= j \/ a.kind = "command" \/ a.when # b.when
                            \/ b.id \in applied)
    /\ result = "ok" => /\ ran = Planned
                        /\ outcome = IF DataWanted THEN "ok" ELSE "running"

\* "Pre-data phase needs to DROP everything but only CREATE pre-data objects":
\* while rows are loaded no index or constraint of this restore exists yet,
\* and under --exit-on-error a phased restore has replaced everything old.
\* On success the new objects are there.
PhasedClean ==
    LET phased == (run.clean \/ run.create) /\ run.section = "" /\ ~run.dataOnly
    IN  /\ stage = "tasks" => db["post-data"] # "new"
        /\ phased /\ opt.exitOnError =>
              /\ stage = "tasks" => /\ db["pre-data"] = "new"
                                    /\ db["post-data"] = "none"
              /\ result = "ok" => /\ db["pre-data"] = "new"
                                  /\ db["post-data"] = "new"

\* A COPY stores all rows of a table or none of them, and all of them when
\* the table was restored and its failure not merely tolerated.
CopiesAreWhole ==
    \A d \in DumpId : Kind[d] = "table" /\ ~opt.inserts =>
        LET all == [i \in 1..Len(run.rows[d]) |-> i]
        IN  /\ rows[d] \in {<<>>, all}
            /\ d \in restored \ broken => rows[d] = all

\* INSERTs and large objects are stored in order and once each, without a gap
\* but for rows that are allowed to be left out; what was restored and is
\* not broken is complete.
InsertsAreWhole ==
    \A d \in DumpId :
      Kind[d] = "blobs" \/ (Kind[d] = "table" /\ opt.inserts) =>
        LET all   == [i \in 1..Len(run.rows[d]) |-> i]
            whole == IF Kind[d] = "blobs" THEN all
                     ELSE Filter(all, {i \in 1..Len(all) : Verdict(d, i) = "ok"})
        IN  /\ IsPrefix(rows[d], whole)
            /\ d \in restored \ broken => rows[d] = whole

\* The rows of a restore are whole, whatever failed in between; and all rows
\* of the plan's tables are there after a restore that tolerates no error.
RowsAreWhole ==
    /\ CopiesAreWhole /\ InsertsAreWhole
    /\ opt.exitOnError /\ ~opt.inserts /\ outcome = "ok" =>
          \A d \in Plan : Kind[d] \in {"table", "blobs"} =>
             rows[d] = [i \in 1..Len(run.rows[d]) |-> i]

\* The restore ends, when every dependency the pusher waits for is restored
\* too: also after errors, skipped sections and tolerated failures.
RunEnds == DependenciesSelected => <>(result # "running")
=============================================================================
