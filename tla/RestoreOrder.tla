---------------------------- MODULE RestoreOrder ----------------------------
(***************************************************************************)
(* The data stage of greenmask restore: one task pusher walks the entries  *)
(* of the dump, a buffered channel of capacity --jobs carries the tasks,   *)
(* --jobs workers execute them, and an errgroup cancels everyone on the    *)
(* first error.  With --restore-in-order the pusher walks the entries in   *)
(* the order of metadata.json and, with more than one worker, waits until  *)
(* the dependencies of an entry have been restored before it sends it.     *)
(*                                                                         *)
(* Code: internal/db/postgres/cmd/restore.go.                              *)
(***************************************************************************)
EXTENDS Naturals, Sequences, FiniteSets

CONSTANTS
    DumpId,    \* identifiers of the entries of toc.dat
    Kind,      \* DumpId -> description of the entry
    Archives,  \* the dumps that may be restored
    Options,   \* the restore options that may be given
    Worker,    \* the restore workers, one per job
    NoEntry    \* "no entry": not a dump id

Kinds == {"table", "sequence", "blobs", "acl"}

Elems(s) == {s[i] : i \in 1..Len(s)}

Distinct(s) == \A i, j \in 1..Len(s) : s[i] = s[j] => i = j

(***************************************************************************)
(* What a dump gives the restore: the data section entries and the ACL     *)
(* entries of toc.dat (after the --use-list filter), and DumpIdsOrder,     *)
(* DependenciesGraph and the known table definitions of metadata.json.     *)
(***************************************************************************)
Archive == [toc: Seq(DumpId), acl: Seq(DumpId), order: Seq(DumpId),
            deps: [DumpId -> SUBSET DumpId], defs: SUBSET DumpId]

(***************************************************************************)
(* selected: the table data and sequence entries that the flags --table,   *)
(* --schema and --exclude-schema let through.                              *)
(***************************************************************************)
Option == [inOrder: BOOLEAN, exitOnError: BOOLEAN, inserts: BOOLEAN,
           noBlobs: BOOLEAN, noPrivileges: BOOLEAN, selected: SUBSET DumpId]

ASSUME RestoreAssumption ==
    /\ Kind \in [DumpId -> Kinds]
    /\ Archives \subseteq Archive
    /\ Options \subseteq Option
    /\ NoEntry \notin DumpId
    /\ IsFiniteSet(Worker) /\ Worker # {}

(***************************************************************************)
(* What dump.go ensures of a dump: toc.dat gives every entry an id of its  *)
(* own, and the order has every table once, after what it depends on.      *)
(* DumpGraph has the cases in which the dump does not ensure it.           *)
(***************************************************************************)
ASSUME OrderAssumption ==
    \A a \in Archives :
       /\ Distinct(a.toc) /\ Distinct(a.order)
       /\ \A i \in 1..Len(a.order) :
             a.deps[a.order[i]] \subseteq {a.order[j] : j \in 1..(i - 1)}

\* The order and the graph are of tables, and the data section has no ACL.
ASSUME KindAssumption ==
    \A a \in Archives :
       /\ \A d \in Elems(a.order) : Kind[d] = "table"
       /\ \A d \in Elems(a.toc) : Kind[d] # "acl"
       /\ \A d \in Elems(a.acl) : Kind[d] = "acl"
       /\ \A d \in DumpId : Kind[d] # "table" => a.deps[d] = {}

VARIABLES
    archive,   \* toc.dat and metadata.json, read before the data stage
    opt,       \* restoreOpt
    phase,     \* the part of the entry list walked: 1, 2 or 3
    idx,       \* the next position of that part
    seen,      \* seenDumpIds: the entries put into the list so far
    ppc,       \* where the pusher is
    current,   \* the entry the pusher waits for or sends
    tasks,     \* content of the task channel
    closed,    \* the task channel has been closed
    wpc,       \* where each worker is
    held,      \* the task each worker has received
    restored,  \* restoredDumpIds
    broken,    \* tables that failed and were tolerated (no --exit-on-error)
    cancelled, \* the errgroup's context is cancelled: a goroutine failed
    outcome    \* what eg.Wait returned

vars == <<archive, opt, phase, idx, seen, ppc, current, tasks, closed, wpc,
          held, restored, broken, cancelled, outcome>>

walkVars == <<phase, idx, seen>>
pusherVars == <<phase, idx, seen, ppc, current, closed>>
workerVars == <<wpc, held, restored, broken>>

Jobs == Cardinality(Worker)

-----------------------------------------------------------------------------
(* The entries the pusher walks *)

\* The list walked in each phase.  Without --restore-in-order it is the data
\* section of toc.dat; with it, the tables in topological order, then the
\* other data entries, then the ACL entries.
Walked == CASE phase = 1 -> IF opt.inOrder THEN archive.order ELSE archive.toc
            [] phase = 2 -> archive.toc
            [] OTHER     -> archive.acl

Phases == IF opt.inOrder THEN 3 ELSE 1

\* A mutant: the other data entries are added without the check for tables
\* and for what has been seen.
Listed_Unchecked(d) == phase = 1 /\ opt.inOrder => d \in Elems(archive.toc)

\* sortTocEntriesInTopoOrder leaves out ids of the order that toc.dat does
\* not have (a partitioned table), and what it has put into the list before.
Listed(d) == CASE phase = 1 -> opt.inOrder => d \in Elems(archive.toc)
               [] phase = 2 -> Kind[d] # "table" /\ d \notin seen
               [] OTHER     -> d \notin seen

IsNeedRestore(d) == Kind[d] \in {"table", "sequence"} => d \in opt.selected

\* The entries left out after the wait for their dependencies.
Skipped(d) == \/ Kind[d] = "blobs" /\ opt.noBlobs
              \/ Kind[d] = "acl" /\ opt.noPrivileges

\* A mutant: off by one in the number of jobs.
MustWait_TwoJobs == opt.inOrder /\ Jobs > 2

MustWait == opt.inOrder /\ Jobs > 1

\* A mutant: one restored dependency is enough.
DependenciesAreRestored_Any(d) ==
    archive.deps[d] = {} \/ archive.deps[d] \cap restored # {}

DependenciesAreRestored(d) == archive.deps[d] \subseteq restored

\* getTableDefinitionFromMeta fails: only the INSERT format needs it.
NoDefinition(d) == Kind[d] = "table" /\ opt.inserts /\ d \notin archive.defs

-----------------------------------------------------------------------------
Init ==
    /\ archive \in Archives
    /\ opt \in Options
    /\ phase = 1 /\ idx = 1 /\ seen = {}
    /\ ppc = "walk" /\ current = NoEntry
    /\ tasks = <<>> /\ closed = FALSE
    /\ wpc = [w \in Worker |-> "connect"]
    /\ held = [w \in Worker |-> NoEntry]
    /\ restored = {} /\ broken = {}
    /\ cancelled = FALSE /\ outcome = "running"

(* taskPusher *)

\* A mutant: the entry is not given up.
PusherReturn_Keeps(at) ==
    /\ ppc' = at /\ closed' = TRUE /\ current' = current
    /\ UNCHANGED walkVars

\* The pusher returns: its deferred close(tasks) runs on every path.
PusherReturn(at) ==
    /\ ppc' = at /\ closed' = TRUE /\ current' = NoEntry
    /\ UNCHANGED walkVars

\* The pusher leaves the loop at the end of the last list.
PusherEnd ==
    /\ ppc = "walk" /\ idx > Len(Walked) /\ phase = Phases
    /\ PusherReturn("done")
    /\ UNCHANGED <<archive, opt, tasks, workerVars, cancelled, outcome>>

NextPhase ==
    /\ ppc = "walk" /\ idx > Len(Walked) /\ phase < Phases
    /\ phase' = phase + 1 /\ idx' = 1
    /\ UNCHANGED <<archive, opt, seen, ppc, current, closed, tasks,
                   workerVars, cancelled, outcome>>

\* The next id is not in the list, or isNeedRestore rejects it.
PusherSkip ==
    /\ ppc = "walk" /\ idx <= Len(Walked)
    /\ LET d == Walked[idx] IN
         /\ ~(Listed(d) /\ IsNeedRestore(d))
         /\ Listed(d) => ~cancelled
         /\ seen' = IF Listed(d) THEN seen \cup {d} ELSE seen
    /\ idx' = idx + 1
    /\ UNCHANGED <<archive, opt, phase, ppc, current, closed, tasks,
                   workerVars, cancelled, outcome>>

PusherTake ==
    /\ ppc = "walk" /\ idx <= Len(Walked) /\ ~cancelled
    /\ LET d == Walked[idx] IN
         /\ Listed(d) /\ IsNeedRestore(d)
         /\ current' = d
         /\ seen' = seen \cup {d}
    /\ idx' = idx + 1
    /\ ppc' = IF MustWait THEN "wait" ELSE "send"
    /\ UNCHANGED <<archive, opt, phase, closed, tasks, workerVars, cancelled,
                   outcome>>

\* waitDependenciesAreRestore sees every dependency restored.
PusherWaited ==
    /\ ppc = "wait" /\ ~cancelled
    /\ DependenciesAreRestored(current)
    /\ ppc' = "send"
    /\ UNCHANGED <<archive, opt, walkVars, current, closed, tasks, workerVars,
                   cancelled, outcome>>

PusherDrop ==
    /\ ppc = "send" /\ Skipped(current)
    /\ ppc' = "walk" /\ current' = NoEntry
    /\ UNCHANGED <<archive, opt, walkVars, closed, tasks, workerVars,
                   cancelled, outcome>>

PusherSend ==
    /\ ppc = "send" /\ ~Skipped(current) /\ ~NoDefinition(current)
    /\ Len(tasks) < Jobs
    /\ tasks' = Append(tasks, current)
    /\ ppc' = "walk" /\ current' = NoEntry
    /\ UNCHANGED <<archive, opt, walkVars, closed, workerVars, cancelled,
                   outcome>>

PusherNoDefinition ==
    /\ ppc = "send" /\ ~Skipped(current) /\ NoDefinition(current)
    /\ PusherReturn("failed")
    /\ cancelled' = TRUE
    /\ UNCHANGED <<archive, opt, tasks, workerVars, outcome>>

\* A mutant: the wait for the dependencies ignores the context.
PusherCancelled_NotInWait ==
    /\ cancelled
    /\ \/ ppc = "walk" /\ idx <= Len(Walked) /\ Listed(Walked[idx])
       \/ ppc = "send" /\ ~Skipped(current) /\ ~NoDefinition(current)
    /\ PusherReturn("failed")
    /\ UNCHANGED <<archive, opt, tasks, workerVars, cancelled, outcome>>

\* Each check of ctx.Done: at the head of the loop, in the wait, at the send.
PusherCancelled ==
    /\ cancelled
    /\ \/ ppc = "walk" /\ idx <= Len(Walked) /\ Listed(Walked[idx])
       \/ ppc = "wait"
       \/ ppc = "send" /\ ~Skipped(current) /\ ~NoDefinition(current)
    /\ PusherReturn("failed")
    /\ UNCHANGED <<archive, opt, tasks, workerVars, cancelled, outcome>>

Pusher == \/ PusherEnd \/ NextPhase \/ PusherSkip \/ PusherTake \/ PusherWaited
          \/ PusherDrop \/ PusherSend \/ PusherNoDefinition \/ PusherCancelled

-----------------------------------------------------------------------------
(* restoreWorker *)

\* A mutant: the error is logged and not returned.
WorkerFails_Logged(w) ==
    /\ wpc' = [wpc EXCEPT ![w] = "failed"]
    /\ UNCHANGED <<archive, opt, pusherVars, tasks, restored, broken,
                   cancelled, outcome>>

\* The worker returns an error: the errgroup cancels the shared context.
WorkerFails(w) ==
    /\ wpc' = [wpc EXCEPT ![w] = "failed"]
    /\ cancelled' = TRUE
    /\ UNCHANGED <<archive, opt, pusherVars, tasks, restored, broken, outcome>>

Connect(w) ==
    /\ wpc[w] = "connect" /\ ~cancelled
    /\ wpc' = [wpc EXCEPT ![w] = "select"]
    /\ UNCHANGED <<archive, opt, pusherVars, tasks, held, restored, broken,
                   cancelled, outcome>>

ConnectFails(w) ==
    /\ wpc[w] = "connect"
    /\ WorkerFails(w)
    /\ UNCHANGED held

Receive(w) ==
    /\ wpc[w] = "select" /\ tasks # <<>>
    /\ held' = [held EXCEPT ![w] = Head(tasks)]
    /\ tasks' = Tail(tasks)
    /\ wpc' = [wpc EXCEPT ![w] = "begin"]
    /\ UNCHANGED <<archive, opt, pusherVars, restored, broken, cancelled,
                   outcome>>

\* A receive from the closed and drained channel yields nil.
ReceiveNil(w) ==
    /\ wpc[w] = "select" /\ tasks = <<>> /\ closed
    /\ wpc' = [wpc EXCEPT ![w] = "done"]
    /\ UNCHANGED <<archive, opt, pusherVars, tasks, held, restored, broken,
                   cancelled, outcome>>

WorkerCancelled(w) ==
    /\ wpc[w] = "select" /\ cancelled
    /\ WorkerFails(w)
    /\ UNCHANGED held

\* Execute opens the dump's object and, unless rows are inserted one by one, each
\* in a transaction of its own, begins the transaction; neither succeeds under a
\* cancelled context.
Begin(w) ==
    /\ wpc[w] = "begin" /\ ~cancelled
    /\ wpc' = [wpc EXCEPT ![w] = "execute"]
    /\ UNCHANGED <<archive, opt, pusherVars, tasks, held, restored, broken,
                   cancelled, outcome>>

BeginFails(w) ==
    /\ wpc[w] = "begin"
    /\ WorkerFails(w)
    /\ held' = [held EXCEPT ![w] = NoEntry]

\* Execute returned nil, and putDumpId records the entry.
Finish(w) ==
    /\ restored' = restored \cup {held[w]}
    /\ held' = [held EXCEPT ![w] = NoEntry]
    /\ wpc' = [wpc EXCEPT ![w] = "select"]
    /\ UNCHANGED <<archive, opt, pusherVars, tasks, cancelled, outcome>>

Commit(w) ==
    /\ wpc[w] = "execute"
    /\ Finish(w)
    /\ UNCHANGED broken

\* A table whose data cannot be copied is rolled back; without
\* --exit-on-error Execute still returns nil.
Tolerate(w) ==
    /\ wpc[w] = "execute" /\ Kind[held[w]] = "table" /\ ~opt.exitOnError
    /\ broken' = broken \cup {held[w]}
    /\ Finish(w)

\* Every other error: with --exit-on-error, of a sequence, of the blobs, of
\* an ACL, or of the transaction's set up and commit.
ExecuteFails(w) ==
    /\ wpc[w] = "execute"
    /\ WorkerFails(w)
    /\ UNCHANGED held

WorkerStep(w) == \/ Connect(w) \/ ConnectFails(w)
                 \/ Receive(w) \/ ReceiveNil(w) \/ WorkerCancelled(w)
                 \/ Begin(w) \/ BeginFails(w)
                 \/ Commit(w) \/ Tolerate(w) \/ ExecuteFails(w)

-----------------------------------------------------------------------------
AllReturned == /\ ppc \in {"done", "failed"}
               /\ \A w \in Worker : wpc[w] \in {"done", "failed"}

\* eg.Wait: every goroutine has returned; its result is the first error.
Wait ==
    /\ outcome = "running" /\ AllReturned
    /\ outcome' = IF cancelled THEN "error" ELSE "ok"
    /\ UNCHANGED <<archive, opt, pusherVars, tasks, workerVars, cancelled>>

Next == Pusher \/ (\E w \in Worker : WorkerStep(w)) \/ Wait

\* The Go scheduler runs every goroutine that can run, and the database
\* answers every statement: no goroutine stops for good at an enabled step.
Fairness == /\ WF_vars(Pusher)
            /\ \A w \in Worker : WF_vars(WorkerStep(w))
            /\ WF_vars(Wait)

Spec == Init /\ [][Next]_vars

FairSpec == Spec /\ Fairness

-----------------------------------------------------------------------------
(* Properties *)

\* Every variable has its type.
TypeOK ==
    /\ archive \in Archives
    /\ opt \in Options
    /\ phase \in 1..Phases
    /\ idx \in 1..(Len(Walked) + 1)
    /\ seen \subseteq DumpId
    /\ ppc \in {"walk", "wait", "send", "done", "failed"}
    /\ current \in DumpId \cup {NoEntry}
    /\ ppc \in {"wait", "send"} <=> current \in DumpId
    /\ tasks \in Seq(DumpId)
    /\ closed \in BOOLEAN
    /\ wpc \in [Worker -> {"connect", "select", "begin", "execute", "done",
                           "failed"}]
    /\ held \in [Worker -> DumpId \cup {NoEntry}]
    /\ \A w \in Worker : wpc[w] \in {"begin", "execute"} => held[w] \in DumpId
    /\ restored \subseteq DumpId
    /\ broken \subseteq restored
    /\ cancelled \in BOOLEAN
    /\ outcome \in {"running", "ok", "error"}

\* The entries a complete restore executes.
Plan ==
    {d \in DumpId :
       /\ IF opt.inOrder
            THEN \/ d \in Elems(archive.order) /\ d \in Elems(archive.toc)
                 \/ d \in Elems(archive.toc) /\ Kind[d] # "table"
                 \/ d \in Elems(archive.acl)
            ELSE d \in Elems(archive.toc)
       /\ IsNeedRestore(d)
       /\ ~Skipped(d)}

\* The entries whose execution has begun, whatever became of it.
Begun == restored \cup
         {held[w] : w \in {v \in Worker : /\ wpc[v] \in {"execute", "failed"}
                                          /\ held[v] # NoEntry}}

Unrestored(d) == (archive.deps[d] \cap Plan) \ restored

\* "Dependent tables are not restored until the tables they depend on have
\* been restored": with --restore-in-order, no entry is executed before
\* every entry it depends on, of those this restore executes at all, has
\* been.  With one job it is the order of the channel that ensures it, with
\* more the pusher's wait.
InOrder == opt.inOrder => \A d \in Begun : Unrestored(d) = {}

\* No two workers execute one entry, and none executes an entry that has
\* been restored: COPYing a table twice would duplicate its rows.
ExecutedOnce ==
    \A w \in Worker : wpc[w] = "execute" =>
        /\ held[w] \notin restored
        /\ \A v \in Worker \ {w} : wpc[v] \in {"execute", "failed"} =>
                                     held[v] # held[w]

\* The entries in flight are in the list, and no entry is in two places.
PlacesInv ==
    /\ restored \subseteq seen
    /\ Elems(tasks) \subseteq seen \ restored
    /\ Distinct(tasks)
    /\ \A w \in Worker : held[w] # NoEntry =>
          /\ held[w] \in seen \ (restored \cup Elems(tasks))
          /\ \A v \in Worker : held[v] = held[w] => v = w
    /\ current # NoEntry =>
          /\ current \in seen \ (restored \cup Elems(tasks))
          /\ \A w \in Worker : held[w] # current
    /\ phase = 1 => \A i \in idx..Len(Walked) : Walked[i] \notin seen
    /\ \A w \in Worker : wpc[w] \in {"connect", "select", "done"} =>
          held[w] = NoEntry

\* With more than one job, what has passed the wait has its dependencies.
WaitedInv ==
    MustWait =>
        /\ ppc = "send" => DependenciesAreRestored(current)
        /\ \A d \in Elems(tasks) \cup restored : DependenciesAreRestored(d)
        /\ \A w \in Worker : held[w] # NoEntry =>
              DependenciesAreRestored(held[w])

\* The inductive invariant behind ExecutedOnce and InOrder.
FlowInv == PlacesInv /\ WaitedInv

\* Where the goroutines are when they have returned, and why.
ControlInv ==
    /\ closed <=> ppc \in {"done", "failed"}
    /\ ppc = "failed" => cancelled
    /\ \A w \in Worker : /\ wpc[w] = "failed" => cancelled
                         /\ wpc[w] = "done" => closed /\ tasks = <<>>
    /\ outcome # "running" => AllReturned

\* What the walk has put into the list when it is at position idx of a phase.
WalkInv ==
    /\ phase = 1 => \A i \in 1..(idx - 1) :
         (opt.inOrder => Walked[i] \in Elems(archive.toc)) => Walked[i] \in seen
    /\ phase > 1 => Elems(archive.order) \cap Elems(archive.toc) \subseteq seen
    /\ phase = 2 => \A i \in 1..(idx - 1) :
         Kind[Walked[i]] # "table" => Walked[i] \in seen
    /\ phase > 2 => /\ \A d \in Elems(archive.toc) :
                         Kind[d] # "table" => d \in seen
                    /\ \A i \in 1..(idx - 1) : Walked[i] \in seen
    /\ ppc = "done" => Plan \subseteq seen

InFlight == Elems(tasks) \cup {held[w] : w \in Worker} \cup {current}

\* Only entries of the plan are in flight, and none of them gets lost as
\* long as nothing has failed.
PlanInv ==
    /\ restored \cup Elems(tasks) \subseteq Plan
    /\ \A w \in Worker : held[w] # NoEntry => held[w] \in Plan
    /\ current # NoEntry /\ ~Skipped(current) => current \in Plan
    /\ ~cancelled => seen \cap Plan \subseteq restored \cup InFlight
    /\ outcome = "ok" => restored = Plan /\ tasks = <<>>

\* With one job, what an entry depends on is ahead of it in the channel.
AheadInv ==
    opt.inOrder /\ ~cancelled =>
        /\ current # NoEntry =>
              archive.deps[current] \cap Plan \subseteq seen \ {current}
        /\ Jobs = 1 =>
              /\ \A i \in 1..Len(tasks) :
                    archive.deps[tasks[i]] \cap Plan \subseteq
                       restored \cup {held[w] : w \in Worker}
                                \cup {tasks[j] : j \in 1..(i - 1)}
              /\ \A w \in Worker : held[w] # NoEntry => Unrestored(held[w]) = {}

\* The inductive invariant behind the contract.
CompleteInv == ControlInv /\ WalkInv /\ PlanInv /\ AheadInv /\ InOrder

\* When the data stage reports success, every entry of the plan has been
\* executed, none is left in the channel and no other entry was touched.
CompleteOnSuccess == outcome = "ok" => restored = Plan /\ tasks = <<>>

Contract == INSTANCE RestoreContract
                WITH plan <- Plan, needs <- [d \in DumpId |->
                       IF opt.inOrder THEN archive.deps[d] \cap Plan ELSE {}],
                     begun <- Begun, finished <- restored

\* The data stage implements its contract: every step of the pusher, of the
\* channel and of the workers is a step of RestoreContract or invisible to it.
ImplementsContract == Contract!Spec

\* Every dependency of an entry this restore waits for is one it restores.
DependenciesSelected ==
    \A d \in Plan : Kind[d] = "table" => archive.deps[d] \subseteq Plan

\* The data stage ends, when every awaited dependency is restored too: no
\* goroutine waits for ever for another, also not after an error.
Termination == DependenciesSelected => <>(outcome # "running")

\* "The restoration will continue": the data stage ends for every choice of
\* the tables to restore.
AlwaysTerminates == <>(outcome # "running")
=============================================================================
