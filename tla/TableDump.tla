----------------------------- MODULE TableDump ------------------------------
(***************************************************************************)
(* TableDumper.Execute: one goroutine receives, transforms and compresses  *)
(* the rows of a table into a pipe, one puts what comes out of the pipe    *)
(* into the storage, and both belong to one errgroup.  The pipeline of the *)
(* first is plain (no transformer), synchronous, or asynchronous, when it  *)
(* has the windows of TransformationPipeline; it may be a validation,      *)
(* which writes each row twice and stops at a limit of rows.               *)
(*                                                                         *)
(* The transformers are initialised before the first row and terminated    *)
(* after the last.  A custom transformer is a program: it gets a row on    *)
(* its stdin and answers on its stdout, each in a goroutine that reports   *)
(* on one unbuffered channel, and the caller waits no longer than the      *)
(* timeout of a row.                                                       *)
(*                                                                         *)
(* Code: internal/db/postgres/dumpers, transformers/cmd.go,                *)
(* transformers/utils/cmd_transformer_base.go, internal/utils/ioutils.     *)
(***************************************************************************)
EXTENDS TransformationPipeline

CONSTANTS
    Custom,      \* the transformers that are programs
    Defined,     \* those of a definition, which get metadata first
    Validated,   \* those whose program has validated its parameters before
    Template,    \* the TemplateRecord transformers
    Limit,       \* validateRowsLimit
    Dumps        \* the dumps considered: a table, a validation or not, a storage

ASSUME DumpAssumption ==
    /\ Limit \in Nat \ {0} /\ Custom \subseteq Transformer
    /\ Validated \subseteq Defined /\ Defined \subseteq Custom
    /\ Dumps \subseteq [table : Tables, validate : BOOLEAN, store : {"directory", "s3"}]

VARIABLES
    validate,  \* the dump is a validation
    store,     \* where it goes
    at,        \* the transformer Init, its clean up or Done is at
    life,      \* new, ready, broken (its Init failed), done (Done was called),
               \* or left (Done was called although its Init had failed)
    proc,      \* the program of a custom transformer: none, up, told, exited
    call,      \* where a call of a custom transformer is
    ops,       \* the goroutines of Encode and Decode that have not been heard
    doneErr,   \* a Done has returned an error
    wclosed,   \* the writing end of the pipe is closed
    term,      \* CompleteDump has written the end of the data
    echoed,    \* the original rows a validation has written
    put,       \* PutObject: reading, ok, failed
    object     \* what the storage has put

setup == <<validate, store>>
cmdVars == <<proc, call, ops>>
lifeVars == <<at, life, doneErr>>
pipeVars == <<wclosed, term, echoed, put, object>>
execVars == <<setup, lifeVars, cmdVars, pipeVars>>
allVars == <<vars, execVars>>

Plain == table.chain = <<>>

\* A single transformer, internal ones only, or a template: one after another.
Async == /\ Custom \cap Range(table.chain) # {}
         /\ Template \cap Range(table.chain) = {}
         /\ Len(table.chain) > 1

TableInit ==
    /\ \E d \in Dumps : table = d.table /\ validate = d.validate /\ store = d.store
    /\ rows = 0 /\ pc = "init" /\ win = 1 /\ pos = 1 /\ skipped = FALSE
    /\ rec = RawRecord /\ wg = 0 /\ ch = {}
    /\ gs = [t \in Transformer |-> "gone"] /\ read = [t \in Transformer |-> {}]
    /\ done = FALSE /\ ctxDone = FALSE /\ err = FALSE /\ out = <<>>
    /\ at = 1 /\ doneErr = FALSE
    /\ life = [t \in Transformer |-> "new"]
    /\ proc = [t \in Custom |-> "none"]
    /\ call = [t \in Custom |-> "none"] /\ ops = [t \in Custom |-> {}]
    /\ wclosed = FALSE /\ term = FALSE /\ echoed = 0
    /\ put = "reading" /\ object = [rows |-> <<>>, term |-> FALSE]

-----------------------------------------------------------------------------
(* Init of the pipeline *)

One == table.chain[at]

\* What Init may make of a program: it runs, it could not be started, or it
\* runs and could not be sent its metadata.
Started == {[life |-> "ready", proc |-> "up"], [life |-> "broken", proc |-> "none"]}
Greeted == {[life |-> "broken", proc |-> "up"]}

\* An error is the error of its transformer; the others are initialised all the
\* same.
InitTransformer ==
    /\ pc = "init" /\ at <= Len(table.chain)
    /\ \/ /\ One \notin Custom
          /\ \E l \in {"ready", "broken"} : life' = [life EXCEPT ![One] = l]
          /\ UNCHANGED proc
       \/ /\ One \in Custom
          /\ \E p \in Started \cup (IF One \in Defined THEN Greeted ELSE {}) :
                 /\ life' = [life EXCEPT ![One] = p.life]
                 /\ proc' = [proc EXCEPT ![One] = p.proc]
    /\ at' = at + 1
    /\ UNCHANGED <<vars, setup, call, ops, doneErr, pipeVars>>

\* The windows start the goroutines of their transformers.
EndInit ==
    /\ pc = "init" /\ at > Len(table.chain)
    /\ at' = 1
    /\ IF \E t \in Transformer : life[t] = "broken"
         THEN pc' = "cleanup" /\ UNCHANGED gs
         ELSE /\ pc' = "next"
              /\ gs' = [t \in Transformer |->
                           IF Async /\ t \in Range(table.chain) THEN "idle" ELSE "gone"]
    /\ UNCHANGED <<mainVars, rec, wg, ch, read, egVars, out, setup, life, doneErr,
                   cmdVars, pipeVars>>

\* Cancel sends SIGTERM to a program that runs, and closes its stdin.
Told(p) == IF p = "up" THEN "told" ELSE p

\* BaseDone cancels, once.
Cancelled ==
    /\ life[One] \in {"ready", "broken"}
    /\ life' = [life EXCEPT ![One] = IF @ = "ready" THEN "done" ELSE "left"]
    /\ proc' = [proc EXCEPT ![One] = Told(@)]
    /\ UNCHANGED <<at, doneErr>>

\* A mutant: Done does not wait.
Reaped_NoWait ==
    /\ \/ life[One] = "done"
       \/ life[One] = "left" /\ One \in Validated
    /\ at' = at + 1
    /\ \E e \in BOOLEAN : doneErr' = (doneErr \/ e)
    /\ UNCHANGED <<life, proc>>

\* The errgroup of a program waits until it exits; that of one whose Init failed
\* is the one of its validation.  An exit code that is not expected is an error.
Reaped ==
    /\ \/ life[One] = "done" /\ proc[One] = "exited"
       \/ life[One] = "left" /\ One \in Validated
    /\ at' = at + 1
    /\ \E e \in BOOLEAN : doneErr' = (doneErr \/ e)
    /\ UNCHANGED <<life, proc>>

DoneInternal ==
    /\ life' = [life EXCEPT ![One] = "done"]
    /\ at' = at + 1
    /\ \E e \in BOOLEAN : doneErr' = (doneErr \/ e)
    /\ UNCHANGED proc

\* Done of one transformer.
Terminate == IF One \in Custom THEN Cancelled \/ Reaped ELSE DoneInternal

\* All but the last transformer are terminated, whichever has failed.
CleanUp ==
    /\ pc = "cleanup" /\ at < Len(table.chain)
    /\ Terminate
    /\ UNCHANGED <<vars, setup, call, ops, pipeVars>>

\* Done of a program whose Init failed and that was not validated finds no
\* errgroup.
Panic ==
    /\ pc = "cleanup" /\ at < Len(table.chain)
    /\ life[One] = "left" /\ One \notin Validated
    /\ pc' = "panicked"
    /\ UNCHANGED <<mainVars, rec, wg, ch, goVars, egVars, out, execVars>>

\* The writing end of the pipe stays open.
InitFails ==
    /\ pc = "cleanup" /\ at >= Len(table.chain)
    /\ pc' = "returned" /\ err' = TRUE /\ ctxDone' = TRUE
    /\ UNCHANGED <<mainVars, rec, wg, ch, goVars, done, out, execVars>>

-----------------------------------------------------------------------------
(* The rows *)

\* recordNum = validateRowsLimit: process returns without CompleteDump.
Limited == validate /\ pc = "next" /\ rows = Limit

StopAtLimit ==
    /\ Limited
    /\ pc' = "closing"
    /\ UNCHANGED <<mainVars, rec, wg, ch, goVars, egVars, out, execVars>>

\* The server's next row, for the pipelines without windows.
Receive(skip, next) ==
    /\ pc = "next" /\ ~ctxDone /\ rows < MaxRows
    /\ rows' = rows + 1 /\ rec' = RawRecord /\ win' = 1 /\ pos' = 1
    /\ skipped' = skip /\ pc' = next
    /\ UNCHANGED <<table, wg, ch, goVars, egVars, out>>

\* The rows of a plain pipeline are written as they are.
PlainRow == Plain /\ Receive(TRUE, "write")

SyncRow == /\ ~Plain /\ ~Async
           /\ Receive(TRUE, "write") \/ Receive(FALSE, "sync")

\* The Dump of a validation writes the original row first.
Echo == echoed' = IF validate /\ ~Plain THEN echoed + 1 ELSE echoed

ReceiveRow ==
    /\ ~Limited
    /\ PlainRow \/ SyncRow \/ (Async /\ NextRow)
    /\ Echo
    /\ UNCHANGED <<setup, lifeVars, cmdVars, wclosed, term, put, object>>

InWindow == /\ EvaluateWhen \/ Send \/ EndWindow \/ Wait
            /\ UNCHANGED execVars

Step == table.chain[pos]
SyncIn(t) == pc = "sync" /\ pos <= Len(table.chain) /\ Step = t

\* A transformer of the synchronous pipeline, when it is called and returns.
SyncTransform ==
    /\ pc = "sync"
    /\ \/ /\ pos > Len(table.chain)
          /\ pc' = "write" /\ UNCHANGED <<pos, rec, call>>
       \/ /\ pos <= Len(table.chain) /\ pos' = pos + 1 /\ UNCHANGED pc
          /\ IF ~Holds(table, rec, Step)
               THEN UNCHANGED <<rec, call>>
               ELSE /\ Step \in Custom => call[Step] = "back"
                    /\ rec' = Written(table, rec, Step, ReadBy(table, rec, Step))
                    /\ call' = [t \in Custom |-> IF t = Step THEN "none" ELSE call[t]]
    /\ UNCHANGED <<table, rows, win, skipped, wg, ch, goVars, egVars, out, setup,
                   lifeVars, proc, ops, pipeVars>>

\* Compressing may buffer the row or find the reading end closed: MainFails.
WriteRow == Write /\ UNCHANGED execVars

CompleteDump ==
    /\ ~Limited /\ EndRows /\ term' = TRUE
    /\ UNCHANGED <<setup, lifeVars, cmdVars, wclosed, echoed, put, object>>

ProcessFails ==
    /\ ~Limited /\ pc # "sync" /\ MainFails
    /\ UNCHANGED execVars

\* A condition or a transformer of the synchronous pipeline fails.
SyncFails ==
    /\ pc = "sync" /\ pos <= Len(table.chain)
    /\ Step \in Custom => call[Step] \in {"none", "back", "failed"}
    /\ pc' = "failing"
    /\ call' = [t \in Custom |-> IF t = Step THEN "none" ELSE call[t]]
    /\ UNCHANGED <<mainVars, rec, wg, ch, goVars, egVars, out, setup, lifeVars,
                   proc, ops, pipeVars>>

\* The deferred Close of process flushes and ends the stream, also after an
\* error, and an error of its own is only logged.
CloseWriter ==
    /\ pc \in {"closing", "failing"} /\ ~wclosed
    /\ wclosed' = TRUE
    /\ UNCHANGED <<vars, setup, lifeVars, cmdVars, term, echoed, put, object>>

TerminateOne ==
    /\ pc \in {"closing", "failing"} /\ wclosed /\ at <= Len(table.chain)
    /\ Terminate
    /\ UNCHANGED <<vars, setup, call, ops, pipeVars>>

\* The windows are closed after the transformers were terminated.
Return ==
    /\ wclosed /\ at > Len(table.chain)
    /\ Done /\ err' = (err \/ pc = "failing" \/ doneErr)
    /\ UNCHANGED execVars

Dumper == \/ InitTransformer \/ EndInit \/ CleanUp \/ Panic \/ InitFails
          \/ ReceiveRow \/ InWindow \/ SyncTransform \/ WriteRow \/ StopAtLimit
          \/ CompleteDump \/ ProcessFails \/ SyncFails
          \/ CloseWriter \/ TerminateOne \/ Return

-----------------------------------------------------------------------------
(* A call of a custom transformer: CmdTransformerBase.Transform *)

Calling(t) == gs[t] = "running" \/ (SyncIn(t) /\ Holds(table, rec, t))

Op(kind) == [row |-> rows, kind |-> kind, over |-> FALSE, ok |-> FALSE]

\* Encode runs in a goroutine.
Encode(t) ==
    /\ Calling(t) /\ call[t] = "none"
    /\ call' = [call EXCEPT ![t] = "encode"]
    /\ ops' = [ops EXCEPT ![t] = @ \cup {Op("encode")}]
    /\ UNCHANGED <<vars, setup, lifeVars, proc, pipeVars>>

\* The program reads or answers, or the pipe is closed; then the goroutine
\* waits until someone receives from opIsDone.
OpEnds(t) ==
    /\ \E o \in ops[t], ok \in BOOLEAN :
           /\ ~o.over /\ (ok => proc[t] = "up")
           /\ ops' = [ops EXCEPT ![t] = (@ \ {o}) \cup {[o EXCEPT !.over = TRUE, !.ok = ok]}]
    /\ UNCHANGED <<vars, setup, lifeVars, proc, call, pipeVars>>

\* The caller receives from opIsDone, whoever sent, and looks at the error its
\* own goroutine has set.
Heard(t) ==
    /\ \E o \in ops[t] :
           /\ call[t] \in {"encode", "decode"} /\ o.over
           /\ \/ /\ ~o.ok /\ o.row = rows
                 /\ call' = [call EXCEPT ![t] = "failed"]
                 /\ ops' = [ops EXCEPT ![t] = @ \ {o}]
              \/ /\ o.ok \/ o.row # rows
                 /\ call' = [call EXCEPT ![t] = IF @ = "encode" THEN "decode" ELSE "back"]
                 /\ ops' = [ops EXCEPT ![t] = (@ \ {o}) \cup
                               (IF call[t] = "encode" THEN {Op("decode")} ELSE {})]
    /\ UNCHANGED <<vars, setup, lifeVars, proc, pipeVars>>

\* A mutant: a row that has timed out keeps its values and the dump goes on.
Abandon_Continue(t) ==
    /\ call[t] \in {"encode", "decode"}
    /\ call' = [call EXCEPT ![t] = "back"]
    /\ UNCHANGED <<vars, setup, lifeVars, proc, ops, pipeVars>>

\* The timeout of the row, or the context: the goroutine is left behind.
Abandon(t) ==
    /\ call[t] \in {"encode", "decode"}
    /\ call' = [call EXCEPT ![t] = "failed"]
    /\ UNCHANGED <<vars, setup, lifeVars, proc, ops, pipeVars>>

Reset(t) == call' = [x \in Custom |-> IF x = t THEN "none" ELSE call[x]]

\* The goroutine of a transformer of a window; the call of a program returns
\* when the answer is in the record, or with an error, which may be that of the
\* validation of the answer.
Worker(t) ==
    /\ \/ (Take(t) \/ ReturnError(t) \/ StopDone(t) \/ StopCtx(t)) /\ UNCHANGED call
       \/ /\ t \in Custom => call[t] = "back"
          /\ Transformed(t) /\ Reset(t)
       \/ /\ t \in Custom => call[t] \in {"back", "failed"}
          /\ TransformFails(t) /\ Reset(t)
    /\ UNCHANGED <<setup, lifeVars, proc, ops, pipeVars>>

\* The program ends after it was told, or on its own.
Exit(t) ==
    /\ proc[t] \in {"up", "told"}
    /\ proc' = [proc EXCEPT ![t] = "exited"]
    /\ UNCHANGED <<vars, setup, lifeVars, call, ops, pipeVars>>

ExitTold(t) == proc[t] = "told" /\ Exit(t)

-----------------------------------------------------------------------------
(* The goroutine that writes to the storage *)

\* A panic ends the program.
Alive == pc # "panicked"

PutOk ==
    /\ put = "reading" /\ wclosed
    /\ put' = "ok" /\ object' = [rows |-> out, term |-> term]
    /\ UNCHANGED <<vars, setup, lifeVars, cmdVars, wclosed, term, echoed>>

\* A mutant: the error of PutObject is only logged.
PutFails_Logged ==
    /\ Alive /\ put = "reading"
    /\ put' = "failed"
    /\ UNCHANGED <<vars, setup, lifeVars, cmdVars, wclosed, term, echoed, object>>

\* The storage fails, or finds the context cancelled.
PutFails ==
    /\ Alive /\ put = "reading"
    /\ put' = "failed" /\ err' = TRUE /\ ctxDone' = TRUE
    /\ UNCHANGED <<mainVars, pc, rec, wg, ch, goVars, done, out, setup, lifeVars, cmdVars,
                   wclosed, term, echoed, object>>

\* The directory storage looks at the context while it copies, an upload to S3
\* waits for its reader.
PutCancelled == store = "directory" /\ ctxDone /\ PutFails

CancelAll == Alive /\ Cancel /\ err' = err /\ UNCHANGED execVars

TableNext ==
    \/ Dumper
    \/ \E t \in Transformer : Worker(t)
    \/ \E t \in Custom : Encode(t) \/ OpEnds(t) \/ Heard(t) \/ Abandon(t) \/ Exit(t)
    \/ PutOk \/ PutFails \/ CancelAll

TableSpec == TableInit /\ [][TableNext]_allVars

\* The goroutines run, a row's timer fires, a program that is told to end
\* ends, and the storage puts an object that is complete.
TableFairness ==
    /\ WF_allVars(Dumper)
    /\ \A t \in Transformer : WF_allVars(Worker(t))
    /\ \A t \in Custom : /\ WF_allVars(Encode(t) \/ Heard(t) \/ Abandon(t))
                         /\ WF_allVars(ExitTold(t))
    /\ WF_allVars(PutOk \/ PutCancelled)

FairTableSpec == TableSpec /\ TableFairness

-----------------------------------------------------------------------------
(* Properties *)

Returned == Ended /\ put # "reading"

\* Every variable has its type.
TableTypeOK ==
    /\ table \in Tables /\ rows \in 0..MaxRows
    /\ pc \in {"init", "cleanup", "panicked", "next", "when", "send", "wait", "sync",
               "write", "closing", "failing", "returned"}
    /\ win \in 1..Len(Wins) /\ pos \in 1..(Len(table.chain) + 1)
    /\ wg \in 0..Len(table.chain) /\ ch \subseteq Transformer
    /\ gs \in [Transformer -> {"idle", "running", "failed", "gone"}]
    /\ at \in 1..(Len(table.chain) + 1)
    /\ life \in [Transformer -> {"new", "ready", "broken", "done", "left"}]
    /\ proc \in [Custom -> {"none", "up", "told", "exited"}]
    /\ call \in [Custom -> {"none", "encode", "decode", "back", "failed"}]
    /\ \A t \in Custom : Cardinality(ops[t]) <= 1
    /\ put \in {"reading", "ok", "failed"}
    /\ Len(out) <= rows /\ echoed <= rows

\* When a row is received or written, and when a dump without error terminates
\* its transformers, the record belongs to the dumper goroutine alone and every
\* transformer is initialised: Done is called before the windows are closed, yet
\* never under a running Transform unless the dump of the table has failed.  In
\* between, two transformers that run together change different columns.
RecordIsOwned ==
    /\ pc \in {"next", "write", "closing"} =>
           /\ ch = {} /\ wg = 0
           /\ \A t \in Transformer : gs[t] # "running"
           /\ \A t \in Range(table.chain) :
                  life[t] = "ready" \/ (pc = "closing" /\ life[t] = "done")
    /\ \A t, u \in Transformer :
           t # u /\ gs[t] = "running" /\ gs[u] = "running" =>
               Writes(table, t) \cap Writes(table, u) = {}

\* The answer a caller waits for is its own: no goroutine of an earlier row,
\* left behind by a timeout, is there to be heard.
AnswerIsOwn ==
    \A t \in Custom : \A o \in ops[t] :
        call[t] \in {"encode", "decode"} => o.row = rows /\ o.kind = call[t]

\* Execute returns no error only if the object in the storage is complete: all
\* rows the server sent, transformed one transformer after another, and the end
\* of the data.  The errors of closing the stream are only logged.  A validation
\* has the original rows too, and no end when it stopped at its limit.
OkIsWhole ==
    Returned /\ ~err /\ (Async => Independent(table)) =>
        /\ RowsAre(table)
        /\ object = [rows |-> out, term |-> ~(validate /\ rows = Limit)]
        /\ validate /\ ~Plain => echoed = rows

\* When Execute returns, the programs it started have ended.  After a failed
\* Init, which leaves the pipe open, the last transformer's may still run, and
\* one that was sent a signal is not waited for when its own Init had failed.
ProgramsAreReaped ==
    Returned => \A t \in Custom :
        /\ proc[t] = "up" => ~wclosed /\ t = Last(table.chain)
        /\ proc[t] = "told" => ~wclosed /\ life[t] = "left"

\* Execute returns, whatever fails; but it may stop where the code does: in a
\* panic, in a window whose transformers have left through the
\* context, and, after a failed Init, in an upload to S3 that reads a pipe no one
\* closes.
Stuck == \/ ~Alive
         \/ Async /\ ctxDone /\ pc = "wait" /\ wg > 0
         \/ store = "s3" /\ pc = "returned" /\ ~wclosed
ExecuteReturns == <>[](Returned \/ Stuck)
=============================================================================
