----------------------- MODULE TransformationPipeline -----------------------
(***************************************************************************)
(* The dump of one table whose transformers run asynchronously: the table  *)
(* has a custom transformer, at least one other transformer, and no        *)
(* TemplateRecord transformer.                                             *)
(*                                                                         *)
(* The transformers are grouped into windows of transformers that affect   *)
(* different columns.  For each row the dumper goroutine signals every     *)
(* transformer of a window whose when condition holds, and waits for all   *)
(* of them on the window's WaitGroup before it goes on to the next window. *)
(* Each transformer is a goroutine of the errgroup of TableDumper.Execute, *)
(* and the first error of any of them cancels the context of all.          *)
(*                                                                         *)
(* Code: internal/db/postgres/dumpers/transformation_window.go,            *)
(* transformation_pipeline.go and table.go.                                *)
(***************************************************************************)
EXTENDS Naturals, Sequences, FiniteSets, SequencesExt

CONSTANTS
    Transformer,
    Column,
    Always,     \* the when condition that always holds
    Tables,     \* the tables considered: their transformers, see TableType
    MaxRows     \* a bound on the rows of a table

\* A transformer affects columns (none named: it may change any), reads other
\* columns (dynamic parameters), and its when condition holds, as far as the
\* order of the transformers matters, always or while a column is original.
TableType ==
    [chain    : {s \in Seq(Transformer) : IsInjective(s)},
     affected : [Transformer -> SUBSET Column],
     reads    : [Transformer -> SUBSET Column],
     when     : [Transformer -> Column \cup {Always}]]

ASSUME PipelineAssumption ==
    /\ \A tb \in Tables : tb \in TableType
    /\ Always \notin Column /\ MaxRows \in Nat

-----------------------------------------------------------------------------
(* The windows of a table: NewTransformationPipeline, tryAdd *)

NewWindow == [chain |-> <<>>, columns |-> {}]

CanAdd(tb, w, t) == IF tb.affected[t] = {} THEN w.chain = <<>>
                                           ELSE tb.affected[t] \cap w.columns = {}

\* The columns t may change.
Writes(tb, t) == IF tb.affected[t] = {} THEN Column ELSE tb.affected[t]

Added(tb, w, t) == [chain   |-> Append(w.chain, t),
                    columns |-> w.columns \cup Writes(tb, t)]

Placed(tb, ws, t) ==
    IF CanAdd(tb, Last(ws), t)
      THEN [ws EXCEPT ![Len(ws)] = Added(tb, ws[Len(ws)], t)]
      ELSE Append(ws, Added(tb, NewWindow, t))

\* The windows of the first transformers of the table, for every number of them.
WindowsOf(tb) ==
    LET ws[i \in 0..Len(tb.chain)] ==
            IF i = 0 THEN <<NewWindow>> ELSE Placed(tb, ws[i - 1], tb.chain[i])
    IN  ws

Windows(tb) == WindowsOf(tb)[Len(tb.chain)]

-----------------------------------------------------------------------------
(* Values and transformations *)

\* A value is the original one, or tells the transformer that made it and
\* what that transformer had read.
Original == <<>>
RawRecord == [c \in Column |-> Original]

\* EvaluateWhen
Holds(tb, r, t) == \/ tb.when[t] = Always
                   \/ tb.when[t] # Always /\ r[tb.when[t]] = Original

ReadBy(tb, r, t) == {<<c, r[c]>> : c \in tb.reads[t]}

Written(tb, r, t, read) ==
    [c \in Column |-> IF c \in Writes(tb, t) THEN <<t, read>> ELSE r[c]]

Applied(tb, r, t) ==
    IF Holds(tb, r, t) THEN Written(tb, r, t, ReadBy(tb, r, t)) ELSE r

\* TransformSync: the transformers one after another, in the table's order, and
\* the record after each of them.
Records(tb) ==
    LET r[i \in 0..Len(tb.chain)] ==
            IF i = 0 THEN RawRecord ELSE Applied(tb, r[i - 1], tb.chain[i])
    IN  r

Sequentially(tb) == Records(tb)[Len(tb.chain)]

\* No transformer of a window reads, in its parameters or its condition, what
\* another one of the window changes.
Independent(tb) ==
    \A i \in DOMAIN Windows(tb) : LET chain == Windows(tb)[i].chain IN
        \A m, n \in DOMAIN chain : m # n =>
            Writes(tb, chain[m]) \cap
                (tb.reads[chain[n]] \cup {tb.when[chain[n]]}) = {}

-----------------------------------------------------------------------------
VARIABLES
    table,
    rows,     \* how many rows have been received
    pc,       \* where the dumper goroutine is
    win,      \* the window it is in
    pos,      \* the transformer of the window it is at
    skipped,  \* the table's own when condition does not hold for the row
    rec,      \* the record: one, shared by all transformers
    wg,       \* the WaitGroup of the window
    ch,       \* the transformers whose channel holds a signal
    gs,       \* where each transformer's goroutine is
    read,     \* what a running transformer has read
    done,     \* the windows' done channels are closed
    ctxDone,  \* the errgroup's context is cancelled
    err,      \* the errgroup has recorded an error
    out       \* the rows written, each with its skipped

mainVars == <<table, rows, win, pos, skipped>>
vars == <<mainVars, pc, rec, wg, ch, gs, read, done, ctxDone, err, out>>

Wins == Windows(table)
Chain == Wins[win].chain
Cur == Chain[pos]

Init ==
    /\ table \in Tables
    /\ rows = 0 /\ pc = "next" /\ win = 1 /\ pos = 1 /\ skipped = FALSE
    /\ rec = RawRecord /\ wg = 0 /\ ch = {}
    /\ gs = [t \in Transformer |->
                IF t \in Range(table.chain) THEN "idle" ELSE "gone"]
    /\ read = [t \in Transformer |-> {}]
    /\ done = FALSE /\ ctxDone = FALSE /\ err = FALSE /\ out = <<>>

goVars == <<gs, read>>
egVars == <<done, ctxDone, err>>

(* The dumper goroutine: process, Dump, TransformAsync, Transform *)

\* The loop of process: a row, decoded into the record.
NextRow ==
    /\ pc = "next" /\ ~ctxDone /\ rows < MaxRows
    /\ rows' = rows + 1
    /\ rec' = RawRecord /\ win' = 1 /\ pos' = 1
    /\ skipped' \in BOOLEAN
    /\ pc' = IF skipped' THEN "write" ELSE "when"
    /\ UNCHANGED <<table, wg, ch, goVars, egVars, out>>

\* A mutant: the WaitGroup is not told.
EvaluateWhen_NoAdd ==
    /\ pc = "when" /\ pos <= Len(Chain)
    /\ IF Holds(table, rec, Cur)
         THEN pc' = "send" /\ UNCHANGED <<pos, wg>>
         ELSE pos' = pos + 1 /\ UNCHANGED <<pc, wg>>
    /\ UNCHANGED <<table, rows, win, skipped, rec, ch, goVars, egVars, out>>

\* wg.Add comes before the signal is sent.
EvaluateWhen ==
    /\ pc = "when" /\ pos <= Len(Chain)
    /\ IF Holds(table, rec, Cur)
         THEN pc' = "send" /\ wg' = wg + 1 /\ UNCHANGED pos
         ELSE pos' = pos + 1 /\ UNCHANGED <<pc, wg>>
    /\ UNCHANGED <<table, rows, win, skipped, rec, ch, goVars, egVars, out>>

Send ==
    /\ pc = "send" /\ Cur \notin ch
    /\ ch' = ch \cup {Cur}
    /\ pos' = pos + 1 /\ pc' = "when"
    /\ UNCHANGED <<table, rows, win, skipped, rec, wg, goVars, egVars, out>>

EndWindow ==
    /\ pc = "when" /\ pos > Len(Chain)
    /\ pc' = "wait"
    /\ UNCHANGED <<mainVars, rec, wg, ch, goVars, egVars, out>>

\* A mutant: the window is left without waiting.
Wait_Not ==
    /\ pc = "wait"
    /\ IF win < Len(Wins) THEN win' = win + 1 /\ pos' = 1 /\ pc' = "when"
                          ELSE pc' = "write" /\ UNCHANGED <<win, pos>>
    /\ UNCHANGED <<table, rows, skipped, rec, wg, ch, goVars, egVars, out>>

Wait ==
    /\ pc = "wait" /\ wg = 0
    /\ IF win < Len(Wins) THEN win' = win + 1 /\ pos' = 1 /\ pc' = "when"
                          ELSE pc' = "write" /\ UNCHANGED <<win, pos>>
    /\ UNCHANGED <<table, rows, skipped, rec, wg, ch, goVars, egVars, out>>

Write ==
    /\ pc = "write"
    /\ out' = Append(out, [skipped |-> skipped, rec |-> rec])
    /\ pc' = "next"
    /\ UNCHANGED <<mainVars, rec, wg, ch, goVars, egVars>>

\* ReadyForQuery: CompleteDump.
EndRows ==
    /\ pc = "next" /\ ~ctxDone
    /\ pc' = "closing"
    /\ UNCHANGED <<mainVars, rec, wg, ch, goVars, egVars, out>>

\* Receive, a when condition, encoding or writing fails; the select of Transform
\* or of process finds the context cancelled.
MainFails ==
    /\ \/ pc \in {"next", "write"}
       \/ pc = "when" /\ pos <= Len(Chain)
       \/ pc = "send" /\ ctxDone
    /\ pc' = "failing"
    /\ UNCHANGED <<mainVars, rec, wg, ch, goVars, egVars, out>>

\* A mutant: the windows are not closed.
Done_NoClose ==
    /\ pc \in {"closing", "failing"}
    /\ pc' = "returned"
    /\ \E e \in {pc = "failing", TRUE} :
           err' = (err \/ e) /\ ctxDone' = (ctxDone \/ e)
    /\ UNCHANGED <<mainVars, rec, wg, ch, goVars, done, out>>

\* Done closes the windows whatever its transformers return; then the
\* goroutine returns to the errgroup.
Done ==
    /\ pc \in {"closing", "failing"}
    /\ pc' = "returned"
    /\ done' = TRUE
    /\ \E e \in {pc = "failing", TRUE} :
           err' = (err \/ e) /\ ctxDone' = (ctxDone \/ e)
    /\ UNCHANGED <<mainVars, rec, wg, ch, goVars, out>>

Main == \/ NextRow \/ EvaluateWhen \/ Send \/ EndWindow \/ Wait \/ Write
        \/ EndRows \/ MainFails \/ Done

(* A transformer's goroutine: init *)

\* It reads what it needs, and sets its columns when it is done.
Take(t) ==
    /\ gs[t] = "idle" /\ t \in ch
    /\ ch' = ch \ {t}
    /\ gs' = [gs EXCEPT ![t] = "running"]
    /\ read' = [read EXCEPT ![t] = ReadBy(table, rec, t)]
    /\ UNCHANGED <<mainVars, pc, rec, wg, egVars, out>>

Transformed(t) ==
    /\ gs[t] = "running"
    /\ rec' = Written(table, rec, t, read[t])
    /\ wg' = wg - 1
    /\ gs' = [gs EXCEPT ![t] = "idle"]
    /\ read' = [read EXCEPT ![t] = {}]
    /\ UNCHANGED <<mainVars, pc, ch, egVars, out>>

\* wg.Done comes before the error is returned.
TransformFails(t) ==
    /\ gs[t] = "running"
    /\ wg' = wg - 1
    /\ gs' = [gs EXCEPT ![t] = "failed"]
    /\ read' = [read EXCEPT ![t] = {}]
    /\ UNCHANGED <<mainVars, pc, rec, ch, egVars, out>>

ReturnError(t) ==
    /\ gs[t] = "failed"
    /\ gs' = [gs EXCEPT ![t] = "gone"]
    /\ err' = TRUE /\ ctxDone' = TRUE
    /\ UNCHANGED <<mainVars, pc, rec, wg, ch, read, done, out>>

\* The select may choose these although there is a signal.
StopDone(t) ==
    /\ gs[t] = "idle" /\ done
    /\ gs' = [gs EXCEPT ![t] = "gone"]
    /\ UNCHANGED <<mainVars, pc, rec, wg, ch, read, egVars, out>>

StopCtx(t) ==
    /\ gs[t] = "idle" /\ ctxDone
    /\ gs' = [gs EXCEPT ![t] = "gone"] /\ err' = TRUE
    /\ UNCHANGED <<mainVars, pc, rec, wg, ch, read, done, ctxDone, out>>

Goroutine(t) == \/ Take(t) \/ Transformed(t) \/ TransformFails(t)
                \/ ReturnError(t) \/ StopDone(t) \/ StopCtx(t)

\* The dump is cancelled, or the goroutine that writes to the storage fails.
Cancel ==
    /\ pc # "returned" /\ ~ctxDone
    /\ ctxDone' = TRUE /\ err' \in {err, TRUE}
    /\ UNCHANGED <<mainVars, pc, rec, wg, ch, goVars, done, out>>

Next == Main \/ (\E t \in Transformer : Goroutine(t)) \/ Cancel

Spec == Init /\ [][Next]_vars

\* Every goroutine that can run does, and a Transform returns.
Fairness == WF_vars(Main) /\ \A t \in Transformer : WF_vars(Goroutine(t))

FairSpec == Spec /\ Fairness

-----------------------------------------------------------------------------
(* Properties *)

\* errgroup.Wait of Execute returns.
Ended == pc = "returned" /\ \A t \in Transformer : gs[t] = "gone"

\* Every row received is written, as the transformers make it one after another.
RowsAre(tb) ==
    /\ Len(out) = rows
    /\ \A i \in DOMAIN out :
           out[i].rec = IF out[i].skipped THEN RawRecord ELSE Sequentially(tb)

\* The documentation promises the order of the transformers for every table: a
\* dynamic parameter on a column transformed before has the transformed value.
OkIsAlwaysSequential == Ended /\ ~err => RowsAre(table)

\* Transform runs the transformations and returns, also after an error.
TransformReturns == (pc = "wait") ~> (pc # "wait")
=============================================================================
