------------------------------- MODULE DumpRun ------------------------------
(***************************************************************************)
(* One run of greenmask dump from the start of the data stage on, and what *)
(* it leaves in the dump's directory of the storage.                       *)
(*                                                                         *)
(* dataDump starts three goroutines in an errgroup: the heartbeat writer,  *)
(* the planner with its own errgroup of --jobs workers, and the producer   *)
(* that feeds the workers through a channel of capacity --jobs.  After the *)
(* data stage, toc.dat and then metadata.json are written.  The process    *)
(* may be killed between any two steps.                                    *)
(*                                                                         *)
(* Code: internal/db/postgres/cmd/dump.go.                                 *)
(***************************************************************************)
EXTENDS Naturals, Sequences, FiniteSets

CONSTANTS
    Object,     \* the objects a data section may have
    Kind,       \* Object -> "table", "root" (partitioned), "sequence", "blobs"
    Orders,     \* what DataSectionObjects may list, in its order
    Worker,     \* the dump workers, one per job
    NoObject,   \* "no object"
    AtomicPut   \* the storage shows an object only when it is complete

Elems(s) == {s[i] : i \in 1..Len(s)}

ASSUME DumpAssumption ==
    /\ Kind \in [Object -> {"table", "root", "sequence", "blobs"}]
    /\ Orders \subseteq Seq(Object)
    /\ IsFiniteSet(Worker) /\ Worker # {}
    /\ NoObject \notin Object
    /\ AtomicPut \in BOOLEAN

\* Ages of the heartbeat file are counted in HeartBeatWriteInterval (15
\* minutes); beyond ExpiredAge nothing changes any more.
ExpiredAge == 3

VARIABLES
    order,    \* DataSectionObjects
    noBlobs,  \* --no-blobs
    pos,      \* the producer's position in order
    ppc,      \* where the producer is
    tasks,    \* content of the task channel
    closed,   \* the task channel is closed
    wpc,      \* where each worker is
    held,     \* the object each worker dumps
    failing,  \* the workers' errgroup is cancelled: a worker has failed
    plan,     \* where the planner is
    done,     \* the done channel is closed
    hpc,      \* where the heartbeat writer is
    cancelled,\* the data stage's errgroup is cancelled
    stage,    \* "data", "toc", "metadata", then "ok", "error" or "killed"
    stored,   \* the objects whose data is complete in the storage
    hb,       \* the heartbeat file
    age,      \* its age
    toc,      \* the objects with an entry in toc.dat; {} when there is none
    tocFile,  \* toc.dat: "absent", "partial" or "complete"
    md        \* metadata.json: likewise

poolVars == <<wpc, held, failing>>
storeVars == <<stored, hb, age, toc, tocFile, md>>
vars == <<order, noBlobs, pos, ppc, tasks, closed, poolVars, plan, done, hpc,
          cancelled, stage, storeVars>>

Jobs == Cardinality(Worker)

-----------------------------------------------------------------------------
(* The objects *)

\* The producer makes no task of the root of a partitioned table (its
\* partitions have one each), and none of the blobs with --no-blobs.
HasTask(o) == /\ Kind[o] # "root"
              /\ Kind[o] = "blobs" => ~noBlobs

\* createTocEntries makes the same choice for toc.dat.
HasEntry(o) == /\ Kind[o] # "root"
               /\ Kind[o] = "blobs" => ~noBlobs

\* The entries that refer to data in the storage: a sequence has its value
\* in toc.dat itself.
HasData(o) == Kind[o] \in {"table", "blobs"}

-----------------------------------------------------------------------------
Init ==
    /\ order \in Orders /\ noBlobs \in BOOLEAN
    /\ pos = 1 /\ ppc = "produce" /\ tasks = <<>> /\ closed = FALSE
    /\ wpc = [w \in Worker |-> "connect"]
    /\ held = [w \in Worker |-> NoObject]
    /\ failing = FALSE /\ plan = "wait" /\ done = FALSE
    /\ hpc = "start" /\ cancelled = FALSE /\ stage = "data"
    /\ stored = {} /\ hb = "absent" /\ age = 0
    /\ toc = {} /\ tocFile = "absent" /\ md = "absent"

InData == stage = "data"

(* taskProducer *)

Produce ==
    /\ InData /\ ppc = "produce" /\ pos <= Len(order)
    /\ pos' = pos + 1
    /\ IF HasTask(order[pos])
         THEN /\ Len(tasks) < Jobs
              /\ tasks' = Append(tasks, order[pos])
         ELSE UNCHANGED tasks
    /\ UNCHANGED <<order, noBlobs, ppc, closed, poolVars, plan, done, hpc,
                   cancelled, stage, storeVars>>

\* close(tasks) is deferred: it runs at the end and on cancellation.
ProducerReturn(at) ==
    /\ ppc' = at /\ closed' = TRUE
    /\ UNCHANGED <<order, noBlobs, pos, tasks, poolVars, plan, done, hpc,
                   cancelled, stage, storeVars>>

ProducerEnd == /\ InData /\ ppc = "produce" /\ pos > Len(order)
               /\ ProducerReturn("done")

\* A mutant: the context is looked at only when the channel has room.
ProducerCancelled_WithRoom ==
    /\ InData /\ ppc = "produce" /\ cancelled
    /\ pos <= Len(order) /\ HasTask(order[pos]) /\ Len(tasks) < Jobs
    /\ ProducerReturn("failed")

\* The select that sends finds the context cancelled.
ProducerCancelled ==
    /\ InData /\ ppc = "produce" /\ cancelled
    /\ pos <= Len(order) /\ HasTask(order[pos])
    /\ ProducerReturn("failed")

Producer == Produce \/ ProducerEnd \/ ProducerCancelled

(* dumpWorker *)

\* The workers' context derives from the data stage's.
WorkerCtxDone == failing \/ cancelled

WorkerFails(w) ==
    /\ wpc' = [wpc EXCEPT ![w] = "failed"]
    /\ failing' = TRUE
    /\ UNCHANGED <<order, noBlobs, pos, ppc, tasks, closed, held, plan, done,
                   hpc, cancelled, stage, storeVars>>

\* getWorkerTransaction: connect, begin, import the snapshot.
Connect(w) ==
    /\ InData /\ wpc[w] = "connect" /\ ~WorkerCtxDone
    /\ wpc' = [wpc EXCEPT ![w] = "select"]
    /\ UNCHANGED <<order, noBlobs, pos, ppc, tasks, closed, held, failing,
                   plan, done, hpc, cancelled, stage, storeVars>>

ConnectFails(w) == InData /\ wpc[w] = "connect" /\ WorkerFails(w)

Receive(w) ==
    /\ InData /\ wpc[w] = "select" /\ tasks # <<>>
    /\ held' = [held EXCEPT ![w] = Head(tasks)]
    /\ tasks' = Tail(tasks)
    /\ wpc' = [wpc EXCEPT ![w] = "execute"]
    /\ UNCHANGED <<order, noBlobs, pos, ppc, closed, failing, plan, done, hpc,
                   cancelled, stage, storeVars>>

\* A mutant: a closed channel is not told from a task.
ReceiveClosed_NotOk(w) ==
    /\ InData /\ wpc[w] = "select" /\ tasks = <<>> /\ closed
    /\ wpc' = [wpc EXCEPT ![w] = "execute"]
    /\ UNCHANGED <<order, noBlobs, pos, ppc, tasks, closed, held, failing,
                   plan, done, hpc, cancelled, stage, storeVars>>

ReceiveClosed(w) ==
    /\ InData /\ wpc[w] = "select" /\ tasks = <<>> /\ closed
    /\ wpc' = [wpc EXCEPT ![w] = "done"]
    /\ UNCHANGED <<order, noBlobs, pos, ppc, tasks, closed, held, failing,
                   plan, done, hpc, cancelled, stage, storeVars>>

WorkerCancelled(w) ==
    InData /\ wpc[w] = "select" /\ WorkerCtxDone /\ WorkerFails(w)

\* Execute returned nil: the object's data is complete in the storage.
Dumped(w) ==
    /\ InData /\ wpc[w] = "execute"
    /\ stored' = stored \cup {held[w]}
    /\ held' = [held EXCEPT ![w] = NoObject]
    /\ wpc' = [wpc EXCEPT ![w] = "select"]
    /\ UNCHANGED <<order, noBlobs, pos, ppc, tasks, closed, failing, plan, done,
                   hpc, cancelled, stage, hb, age, toc, tocFile, md>>

DumpFails(w) == InData /\ wpc[w] = "execute" /\ WorkerFails(w)

WorkerStep(w) == \/ Connect(w) \/ ConnectFails(w)
                 \/ Receive(w) \/ ReceiveClosed(w) \/ WorkerCancelled(w)
                 \/ Dumped(w) \/ DumpFails(w)

(* dumpWorkerPlanner *)

\* workerEg.Wait is over, and the deferred close(done) runs: also after an
\* error, and before the error reaches the data stage's errgroup.
PlannerClose ==
    /\ InData /\ plan = "wait"
    /\ \A w \in Worker : wpc[w] \in {"done", "failed"}
    /\ plan' = "closed" /\ done' = TRUE
    /\ UNCHANGED <<order, noBlobs, pos, ppc, tasks, closed, poolVars, hpc,
                   cancelled, stage, storeVars>>

\* A mutant: the error of workerEg.Wait is not returned.
PlannerReturn_NoError ==
    /\ InData /\ plan = "closed"
    /\ plan' = "done"
    /\ UNCHANGED <<order, noBlobs, pos, ppc, tasks, closed, poolVars, done, hpc,
                   cancelled, stage, storeVars>>

PlannerReturn ==
    /\ InData /\ plan = "closed"
    /\ plan' = IF failing THEN "failed" ELSE "done"
    /\ cancelled' = (cancelled \/ failing)
    /\ UNCHANGED <<order, noBlobs, pos, ppc, tasks, closed, poolVars, done, hpc,
                   stage, storeVars>>

Planner == PlannerClose \/ PlannerReturn

(* writeHeartBeatWorker *)

\* A mutant: the last write leaves the first one's content.
HbContent_Same == "in-progress"

HbContent == IF hpc = "put-done" THEN "done" ELSE "in-progress"

\* PutObject begins.  A directory creates or truncates the file first.
HbPut(at) ==
    /\ hpc' = at
    /\ IF AtomicPut THEN UNCHANGED <<hb, age>> ELSE hb' = "empty" /\ age' = 0
    /\ UNCHANGED <<order, noBlobs, pos, ppc, tasks, closed, poolVars, plan,
                   done, cancelled, stage, stored, toc, tocFile, md>>

HbStart == InData /\ hpc = "start" /\ HbPut("put-in-progress")

\* The ticker fires once per interval.
HbTick == InData /\ hpc = "idle" /\ age >= 1 /\ HbPut("put-in-progress")

HbDone == InData /\ hpc = "idle" /\ done /\ HbPut("put-done")

HbPutEnd ==
    /\ InData /\ hpc \in {"put-in-progress", "put-done"}
    /\ hb' = HbContent /\ age' = 0
    /\ hpc' = IF hpc = "put-done" THEN "done" ELSE "idle"
    /\ UNCHANGED <<order, noBlobs, pos, ppc, tasks, closed, poolVars, plan,
                   done, cancelled, stage, stored, toc, tocFile, md>>

\* PutObject fails, or its context is cancelled: the directory storage leaves
\* the copy to a goroutine that may still complete it.
HbPutFails ==
    /\ InData /\ hpc \in {"put-in-progress", "put-done"}
    /\ hb' \in {hb, HbContent}
    /\ hpc' = "failed" /\ cancelled' = TRUE
    /\ UNCHANGED <<order, noBlobs, pos, ppc, tasks, closed, poolVars, plan,
                   done, stage, stored, age, toc, tocFile, md>>

HbCancelled ==
    /\ InData /\ hpc = "idle" /\ cancelled
    /\ hpc' = "done"
    /\ UNCHANGED <<order, noBlobs, pos, ppc, tasks, closed, poolVars, plan,
                   done, cancelled, stage, storeVars>>

HeartBeat == \/ HbStart \/ HbTick \/ HbDone \/ HbPutEnd \/ HbPutFails
             \/ HbCancelled

-----------------------------------------------------------------------------
(* dataDump, mergeAndWriteToc, writeMetaData *)

DataReturned == /\ ppc \in {"done", "failed"} /\ plan \in {"done", "failed"}
                /\ hpc \in {"done", "failed"}

\* A mutant: the error of the errgroup is not returned.
WaitData_NoError ==
    /\ InData /\ DataReturned
    /\ stage' = "toc"
    /\ UNCHANGED <<order, noBlobs, pos, ppc, tasks, closed, poolVars, plan,
                   done, hpc, cancelled, storeVars>>

WaitData ==
    /\ InData /\ DataReturned
    /\ stage' = IF cancelled THEN "error" ELSE "toc"
    /\ UNCHANGED <<order, noBlobs, pos, ppc, tasks, closed, poolVars, plan,
                   done, hpc, cancelled, storeVars>>

WriteToc ==
    /\ stage = "toc"
    /\ \/ /\ ~AtomicPut /\ tocFile = "absent"
          /\ tocFile' = "partial" /\ UNCHANGED <<toc, stage>>
       \/ /\ AtomicPut \/ tocFile = "partial"
          /\ tocFile' = "complete" /\ toc' = {o \in Elems(order) : HasEntry(o)}
          /\ stage' = "metadata"
       \/ stage' = "error" /\ UNCHANGED <<toc, tocFile>>
    /\ UNCHANGED <<order, noBlobs, pos, ppc, tasks, closed, poolVars, plan,
                   done, hpc, cancelled, stored, hb, age, md>>

WriteMetaData ==
    /\ stage = "metadata"
    /\ \/ /\ ~AtomicPut /\ md = "absent"
          /\ md' = "partial" /\ UNCHANGED stage
       \/ /\ AtomicPut \/ md = "partial"
          /\ md' = "complete" /\ stage' = "ok"
       \/ stage' = "error" /\ UNCHANGED md
    /\ UNCHANGED <<order, noBlobs, pos, ppc, tasks, closed, poolVars, plan,
                   done, hpc, cancelled, stored, hb, age, toc, tocFile>>

Live == stage \in {"data", "toc", "metadata"}

\* The process is killed; the storage keeps what it has.
Kill ==
    /\ Live
    /\ stage' = "killed"
    /\ UNCHANGED <<order, noBlobs, pos, ppc, tasks, closed, poolVars, plan,
                   done, hpc, cancelled, storeVars>>

\* The heartbeat writer is at work: it keeps the file younger than two
\* intervals, since the ticker fires after one and a write takes less.
HbAlive == InData /\ hpc \in {"idle", "put-in-progress", "put-done"}

\* Fifteen minutes pass.
Tick ==
    /\ hb # "absent" /\ age < ExpiredAge
    /\ HbAlive => age < 2
    /\ age' = age + 1
    /\ UNCHANGED <<order, noBlobs, pos, ppc, tasks, closed, poolVars, plan,
                   done, hpc, cancelled, stage, stored, hb, toc, tocFile, md>>

Next == \/ Producer \/ (\E w \in Worker : WorkerStep(w)) \/ Planner
        \/ HeartBeat \/ WaitData \/ WriteToc \/ WriteMetaData \/ Kill \/ Tick

Spec == Init /\ [][Next]_vars

-----------------------------------------------------------------------------
(* Properties *)

\* Every variable has its type; a worker that executes a task has one.
ProducerType ==
    /\ order \in Orders /\ noBlobs \in BOOLEAN
    /\ pos \in 1..(Len(order) + 1)
    /\ ppc \in {"produce", "done", "failed"}
    /\ tasks \in Seq(Object) /\ closed \in BOOLEAN

WorkerType ==
    /\ wpc \in [Worker -> {"connect", "select", "execute", "done", "failed"}]
    /\ held \in [Worker -> Object \cup {NoObject}]
    /\ \A w \in Worker : wpc[w] = "execute" => held[w] \in Object

StateType ==
    /\ failing \in BOOLEAN /\ done \in BOOLEAN /\ cancelled \in BOOLEAN
    /\ plan \in {"wait", "closed", "done", "failed"}
    /\ hpc \in {"start", "idle", "put-in-progress", "put-done", "done",
                "failed"}

StorageType ==
    /\ stage \in {"data", "toc", "metadata", "ok", "error", "killed"}
    /\ stored \subseteq Object
    /\ hb \in {"absent", "empty", "in-progress", "done"}
    /\ age \in 0..ExpiredAge
    /\ toc \subseteq Object
    /\ tocFile \in {"absent", "partial", "complete"}
    /\ md \in {"absent", "partial", "complete"}

TypeOK == ProducerType /\ WorkerType /\ StateType /\ StorageType

\* metadata.json is the last to be written: whatever failed and whenever the
\* process was killed, a dump that has it has its toc.dat, and the data of
\* every entry of toc.dat.
PublishedIsComplete ==
    md = "complete" =>
        /\ tocFile = "complete"
        /\ \A o \in toc : HasData(o) => o \in stored
        /\ \A o \in Elems(order) : HasTask(o) => o \in toc

\* A dump that succeeds leaves the heartbeat "done".
SuccessIsDone == stage = "ok" => hb = "done" /\ md = "complete"

\* Which goroutine has returned, and why.
ReturnInv ==
    /\ closed <=> ppc # "produce"
    /\ ppc = "failed" => cancelled
    /\ ppc = "done" => pos > Len(order)
    /\ \A w \in Worker : /\ wpc[w] = "failed" => failing
                         /\ wpc[w] = "done" => closed /\ tasks = <<>>
    /\ plan # "wait" => \A w \in Worker : wpc[w] \in {"done", "failed"}
    /\ plan = "done" => ~failing
    /\ plan = "failed" => cancelled
    /\ hpc = "failed" => cancelled
    /\ hpc = "done" => cancelled \/ hb = "done"

\* What the producer has sent is stored, in the channel or with a worker, as
\* long as no worker has failed.
Accounted(o) == \/ o \in stored \cup Elems(tasks)
                \/ \E w \in Worker : wpc[w] = "execute" /\ held[w] = o

TaskInv == ~failing =>
    \A i \in 1..(pos - 1) : HasTask(order[i]) => Accounted(order[i])

\* What each stage after the data stage has left behind.
StageInv ==
    /\ stage \in {"toc", "metadata", "ok"} =>
          hb = "done" /\ \A o \in Elems(order) : HasTask(o) => o \in stored
    /\ stage \in {"metadata", "ok"} =>
          tocFile = "complete" /\ toc = {o \in Elems(order) : HasEntry(o)}
    /\ md = "complete" <=> stage = "ok"

\* The inductive invariant behind PublishedIsComplete and SuccessIsDone: a data
\* stage that ends without error has dumped every object, whichever goroutine
\* ended last and however the done channel and the cancellation raced.
DumpInv == ReturnInv /\ TaskInv /\ StageInv
=============================================================================
