---------------------------- MODULE DumpRunProofs ---------------------------
(***************************************************************************)
(* What DumpRun ensures for every set of objects, every order in which     *)
(* they are dumped and every number of jobs.                               *)
(***************************************************************************)
EXTENDS DumpRun, TLAPS

\* An order is a sequence of objects.
LEMMA OrderFacts ==
  ASSUME NEW s \in Orders
  PROVE  /\ s \in Seq(Object) /\ Len(s) \in Nat /\ Elems(s) \subseteq Object
         /\ \A i \in 1..Len(s) : s[i] \in Object
<1>1. s \in Seq(Object)
  BY DumpAssumption
<1> QED
  BY <1>1 DEF Elems

\* Taking the head off the channel loses no other element.
LEMMA HeadFacts ==
  ASSUME NEW s \in Seq(Object), s # <<>>
  PROVE  /\ Head(s) \in Object /\ Tail(s) \in Seq(Object)
         /\ Elems(s) = {Head(s)} \cup Elems(Tail(s))
<1>1. /\ Tail(s) \in Seq(Object) /\ Len(Tail(s)) = Len(s) - 1
      /\ Len(s) \in Nat \ {0}
      /\ \A i \in 1..Len(Tail(s)) : Tail(s)[i] = s[i + 1]
      /\ Head(s) = s[1] /\ s[1] \in Object
  OBVIOUS
<1>2. ASSUME NEW i \in 1..Len(s)
      PROVE  s[i] = Head(s) \/ s[i] \in Elems(Tail(s))
  <2>1. CASE i = 1
    BY <1>1, <2>1
  <2>2. CASE i # 1
    <3>1. i - 1 \in 1..Len(Tail(s)) /\ Tail(s)[i - 1] = s[i]
      BY <1>1, <2>2
    <3> QED BY <3>1 DEF Elems
  <2> QED BY <2>1, <2>2
<1>3. Elems(Tail(s)) \subseteq Elems(s)
  BY <1>1 DEF Elems
<1>4. Head(s) \in Elems(s)
  BY <1>1 DEF Elems
<1> QED
  BY <1>1, <1>2, <1>3, <1>4 DEF Elems

\* The channel has what it had and what is sent.
LEMMA SendFacts ==
  ASSUME NEW s \in Seq(Object), NEW o \in Object
  PROVE  /\ Append(s, o) \in Seq(Object)
         /\ Elems(Append(s, o)) = Elems(s) \cup {o}
<1>1. /\ Len(Append(s, o)) = Len(s) + 1 /\ Len(s) \in Nat
      /\ \A i \in 1..Len(s) : Append(s, o)[i] = s[i]
      /\ Append(s, o)[Len(s) + 1] = o
  OBVIOUS
<1> QED
  BY <1>1 DEF Elems

-----------------------------------------------------------------------------
(* Types *)

producerVars == <<order, noBlobs, pos, ppc, tasks, closed>>
stateVars == <<failing, done, cancelled, plan, hpc>>
storageVars == <<stage, stored, hb, age, toc, tocFile, md>>

\* What follows the data stage, a kill and the time leave the goroutines as
\* they are.
LEMMA StageFrame ==
  ASSUME WaitData \/ WriteToc \/ WriteMetaData \/ Kill \/ Tick
  PROVE  UNCHANGED <<producerVars, wpc, held, stateVars>>
  BY DEF WaitData, WriteToc, WriteMetaData, Kill, Tick, poolVars,
         producerVars, stateVars

LEMMA PlannerFrame ==
  ASSUME Planner
  PROVE  UNCHANGED <<producerVars, poolVars, hpc, storageVars>>
  BY DEF Planner, PlannerClose, PlannerReturn, poolVars, storeVars,
         producerVars, storageVars

LEMMA HeartBeatFrame ==
  ASSUME HeartBeat
  PROVE  UNCHANGED <<producerVars, poolVars, plan, done, stage, stored, toc,
                     tocFile, md>>
<1>1. CASE HbStart \/ HbTick \/ HbDone
  BY <1>1 DEF HbStart, HbTick, HbDone, HbPut, poolVars, producerVars
<1>2. CASE HbPutEnd \/ HbPutFails \/ HbCancelled
  BY <1>2 DEF HbPutEnd, HbPutFails, HbCancelled, poolVars, storeVars,
              producerVars
<1> QED
  BY <1>1, <1>2 DEF HeartBeat

LEMMA ProducerFrame ==
  ASSUME Producer
  PROVE  UNCHANGED <<order, noBlobs, poolVars, stateVars, storageVars>>
  BY DEF Producer, Produce, ProducerEnd, ProducerCancelled, ProducerReturn,
         poolVars, storeVars, stateVars, storageVars

LEMMA WorkerFrame ==
  ASSUME NEW w \in Worker, WorkerStep(w)
  PROVE  UNCHANGED <<order, noBlobs, pos, ppc, closed, done, cancelled, plan,
                     hpc, stage, hb, age, toc, tocFile, md>>
<1>1. CASE Connect(w) \/ Receive(w) \/ ReceiveClosed(w) \/ Dumped(w)
  BY <1>1 DEF Connect, Receive, ReceiveClosed, Dumped, storeVars
<1>2. CASE ConnectFails(w) \/ WorkerCancelled(w) \/ DumpFails(w)
  BY <1>2 DEF ConnectFails, WorkerCancelled, DumpFails, WorkerFails, storeVars
<1> QED
  BY <1>1, <1>2 DEF WorkerStep

LEMMA ProducerTypeStep ==
  ASSUME TypeOK, [Next]_vars
  PROVE  ProducerType'
<1>. USE DEF ProducerType
<1>0. /\ ProducerType
      /\ Len(order) \in Nat /\ \A i \in 1..Len(order) : order[i] \in Object
  BY OrderFacts DEF TypeOK
<1>1. CASE Produce
  <2>1. order[pos] \in Object /\ pos + 1 \in 1..(Len(order) + 1)
    BY <1>0, <1>1 DEF Produce
  <2>2. tasks' \in Seq(Object)
    BY <1>0, <1>1, <2>1, SendFacts DEF Produce
  <2> QED BY <1>0, <1>1, <2>1, <2>2 DEF Produce
<1>2. CASE ProducerEnd \/ ProducerCancelled
  BY <1>0, <1>2 DEF ProducerEnd, ProducerCancelled, ProducerReturn
<1>3. ASSUME NEW w \in Worker, WorkerStep(w) PROVE ProducerType'
  <2>1. tasks' \in Seq(Object)
    <3>1. CASE Receive(w)
      BY <1>0, <3>1, HeadFacts DEF Receive
    <3>2. CASE ~Receive(w)
      BY <1>0, <1>3, <3>2 DEF WorkerStep, Connect, ConnectFails, ReceiveClosed,
                              WorkerCancelled, Dumped, DumpFails, WorkerFails
    <3> QED BY <3>1, <3>2
  <2> QED BY <1>0, <1>3, <2>1, WorkerFrame
<1>4. CASE UNCHANGED producerVars
  BY <1>0, <1>4 DEF producerVars
<1>5. CASE UNCHANGED vars
  BY <1>4, <1>5 DEF vars, producerVars
<1> QED
  BY <1>1, <1>2, <1>3, <1>4, <1>5, StageFrame, PlannerFrame, HeartBeatFrame
  DEF Next, Producer

LEMMA WorkerTypeStep ==
  ASSUME TypeOK, [Next]_vars
  PROVE  WorkerType'
<1>. USE DEF WorkerType
<1>0. WorkerType /\ tasks \in Seq(Object)
  BY DEF TypeOK, ProducerType
<1>1. ASSUME NEW w \in Worker, WorkerStep(w) PROVE WorkerType'
  <2>1. CASE Connect(w)
    BY <1>0, <2>1 DEF Connect
  <2>2. CASE ConnectFails(w) \/ WorkerCancelled(w) \/ DumpFails(w)
    BY <1>0, <2>2 DEF ConnectFails, WorkerCancelled, DumpFails, WorkerFails
  <2>3. CASE Receive(w)
    BY <1>0, <2>3, HeadFacts DEF Receive
  <2>4. CASE ReceiveClosed(w)
    BY <1>0, <2>4 DEF ReceiveClosed
  <2>5. CASE Dumped(w)
    BY <1>0, <2>5 DEF Dumped
  <2> QED
    BY <1>1, <2>1, <2>2, <2>3, <2>4, <2>5 DEF WorkerStep
<1>2. CASE UNCHANGED <<wpc, held>>
  BY <1>0, <1>2
<1>3. CASE UNCHANGED vars
  BY <1>2, <1>3 DEF vars, poolVars
<1> QED
  BY <1>1, <1>2, <1>3, StageFrame, PlannerFrame, HeartBeatFrame, ProducerFrame
  DEF Next, poolVars

LEMMA StateTypeStep ==
  ASSUME TypeOK, [Next]_vars
  PROVE  StateType'
<1>. USE DEF StateType
<1>0. StateType
  BY DEF TypeOK
<1>1. ASSUME NEW w \in Worker, WorkerStep(w) PROVE StateType'
  <2>1. failing' \in BOOLEAN
    BY <1>0, <1>1 DEF WorkerStep, Connect, ConnectFails, Receive,
       ReceiveClosed, WorkerCancelled, Dumped, DumpFails, WorkerFails
  <2> QED BY <1>0, <1>1, <2>1, WorkerFrame
<1>2. CASE Planner
  BY <1>0, <1>2 DEF Planner, PlannerClose, PlannerReturn, poolVars
<1>3. CASE HeartBeat
  <2>1. CASE HbStart \/ HbTick \/ HbDone
    BY <1>0, <2>1 DEF HbStart, HbTick, HbDone, HbPut, poolVars
  <2>2. CASE HbPutEnd \/ HbPutFails \/ HbCancelled
    BY <1>0, <2>2 DEF HbPutEnd, HbPutFails, HbCancelled, poolVars
  <2> QED BY <1>3, <2>1, <2>2 DEF HeartBeat
<1>4. CASE UNCHANGED stateVars
  BY <1>0, <1>4 DEF stateVars
<1>5. CASE UNCHANGED vars
  BY <1>4, <1>5 DEF vars, poolVars, stateVars
<1> QED
  BY <1>1, <1>2, <1>3, <1>4, <1>5, StageFrame, ProducerFrame DEF Next

LEMMA StorageTypeStep ==
  ASSUME TypeOK, [Next]_vars
  PROVE  StorageType'
<1>. USE DEF StorageType
<1>0. StorageType /\ WorkerType
  BY DEF TypeOK
<1>1. ASSUME NEW w \in Worker, WorkerStep(w) PROVE StorageType'
  <2>1. stored' \subseteq Object
    <3>1. CASE Dumped(w)
      BY <1>0, <3>1 DEF Dumped, WorkerType
    <3>2. CASE ~Dumped(w)
      BY <1>0, <1>1, <3>2 DEF WorkerStep, Connect, ConnectFails, Receive,
         ReceiveClosed, WorkerCancelled, DumpFails, WorkerFails, storeVars
    <3> QED BY <3>1, <3>2
  <2> QED BY <1>0, <1>1, <2>1, WorkerFrame
<1>2. CASE HeartBeat
  <2>1. ASSUME NEW at, HbPut(at) PROVE StorageType'
    <3>1. /\ UNCHANGED <<stage, stored, toc, tocFile, md>>
          /\ (hb' = hb /\ age' = age) \/ (hb' = "empty" /\ age' = 0)
      BY Zenon, <2>1 DEF HbPut
    <3>2. age' \in 0..ExpiredAge
      BY <1>0, <3>1 DEF ExpiredAge
    <3> QED BY <1>0, <3>1, <3>2
  <2>2. CASE HbPutEnd
    <3>1. /\ UNCHANGED <<stage, stored, toc, tocFile, md>>
          /\ hb' \in {"in-progress", "done"} /\ age' = 0
      BY <2>2 DEF HbPutEnd, HbContent
    <3>2. age' \in 0..ExpiredAge
      BY <3>1 DEF ExpiredAge
    <3> QED BY <1>0, <3>1, <3>2
  <2>3. CASE HbPutFails
    BY <1>0, <2>3 DEF HbPutFails, HbContent
  <2>4. CASE HbCancelled
    BY <1>0, <2>4 DEF HbCancelled, storeVars
  <2> QED BY <1>2, <2>1, <2>2, <2>3, <2>4 DEF HeartBeat, HbStart, HbTick, HbDone
<1>3. CASE WaitData
  BY <1>0, <1>3 DEF WaitData, storeVars
<1>4. CASE WriteToc
  <2>1. Elems(order) \subseteq Object
    BY OrderFacts DEF TypeOK, ProducerType
  <2> QED BY <1>0, <1>4, <2>1 DEF WriteToc
<1>5. CASE WriteMetaData
  BY <1>0, <1>5 DEF WriteMetaData
<1>6. CASE Kill
  BY <1>0, <1>6 DEF Kill, storeVars
<1>7. CASE Tick
  BY <1>0, <1>7 DEF Tick, ExpiredAge
<1>8. CASE UNCHANGED storageVars
  BY <1>0, <1>8 DEF storageVars
<1>9. CASE UNCHANGED vars
  BY <1>8, <1>9 DEF vars, storeVars, storageVars
<1> QED
  BY <1>1, <1>2, <1>3, <1>4, <1>5, <1>6, <1>7, <1>8, <1>9, ProducerFrame,
     PlannerFrame
  DEF Next

LEMMA TypeInit == Init => TypeOK
<1> SUFFICES ASSUME Init PROVE TypeOK
  OBVIOUS
<1>1. ProducerType
  <2>1. Len(order) \in Nat
    BY OrderFacts DEF Init
  <2>2. pos \in 1..(Len(order) + 1)
    BY <2>1 DEF Init
  <2>3. tasks \in Seq(Object)
    BY DEF Init
  <2> QED BY <2>2, <2>3 DEF Init, ProducerType
<1>2. WorkerType
  BY DEF Init, WorkerType
<1>3. StateType
  BY DEF Init, StateType
<1>4. StorageType
  <2>1. age \in 0..ExpiredAge
    BY DEF Init, ExpiredAge
  <2> QED BY <2>1 DEF Init, StorageType
<1> QED
  BY <1>1, <1>2, <1>3, <1>4 DEF TypeOK

\* Every variable keeps its type: no worker executes without a task, and the
\* heartbeat's age stays in its bounds.
THEOREM DumpTypeCorrect == Spec => []TypeOK
<1>1. TypeOK /\ [Next]_vars => TypeOK'
  BY ProducerTypeStep, WorkerTypeStep, StateTypeStep, StorageTypeStep
  DEF TypeOK
<1> QED
  BY TypeInit, <1>1, PTL DEF Spec

-----------------------------------------------------------------------------
(* Returns *)

LEMMA ReturnInit == Init => ReturnInv
  BY DEF Init, ReturnInv

\* A worker takes no step after it has returned, so the planner's verdict
\* stands; the producer sends nothing after it has closed the channel.
LEMMA ReturnStep ==
  ASSUME TypeOK, ReturnInv, [Next]_vars
  PROVE  ReturnInv'
<1>. USE DEF ReturnInv
<1>0. /\ ReturnInv /\ WorkerType
      /\ Len(order) \in Nat /\ pos \in Nat
  BY OrderFacts DEF TypeOK, ProducerType
<1>1. CASE Produce
  BY <1>0, <1>1 DEF Produce, poolVars, storeVars
<1>2. CASE ProducerEnd \/ ProducerCancelled
  BY <1>0, <1>2 DEF ProducerEnd, ProducerCancelled, ProducerReturn, poolVars,
                    storeVars
<1>3. ASSUME NEW w \in Worker, WorkerStep(w) PROVE ReturnInv'
  <2>1. /\ wpc[w] \notin {"done", "failed"} /\ plan = "wait"
        /\ \E to \in {"select", "execute", "done", "failed"} :
              /\ wpc' = [wpc EXCEPT ![w] = to]
              /\ to = "done" => closed /\ tasks = <<>> /\ tasks' = <<>>
              /\ to = "failed" => failing'
    <3>1. wpc[w] \in {"connect", "select", "execute"}
      BY <1>3 DEF WorkerStep, Connect, ConnectFails, Receive, ReceiveClosed,
                  WorkerCancelled, Dumped, DumpFails
    <3>2. CASE Connect(w) \/ Receive(w) \/ ReceiveClosed(w) \/ Dumped(w)
      BY <1>0, <3>1, <3>2 DEF Connect, Receive, ReceiveClosed, Dumped
    <3>3. CASE ConnectFails(w) \/ WorkerCancelled(w) \/ DumpFails(w)
      BY <1>0, <3>1, <3>3 DEF ConnectFails, WorkerCancelled, DumpFails,
                              WorkerFails
    <3> QED BY <1>3, <3>2, <3>3 DEF WorkerStep
  <2>2. /\ failing => failing'
        /\ tasks = <<>> => tasks' = tasks
    BY <1>3 DEF WorkerStep, Connect, ConnectFails, Receive, ReceiveClosed,
                WorkerCancelled, Dumped, DumpFails, WorkerFails
  <2> QED BY <1>0, <1>3, <2>1, <2>2, WorkerFrame DEF WorkerType
<1>4. CASE Planner
  <2>1. CASE PlannerClose
    BY <1>0, <2>1 DEF PlannerClose, poolVars, storeVars
  <2>2. CASE PlannerReturn
    BY <1>0, <2>2 DEF PlannerReturn, poolVars, storeVars
  <2> QED BY <1>4, <2>1, <2>2 DEF Planner
<1>5. CASE HeartBeat
  <2>1. /\ cancelled => cancelled'
        /\ hpc' = "failed" => cancelled'
        /\ hpc' = "done" => cancelled' \/ hb' = "done"
    <3>1. CASE HbStart \/ HbTick \/ HbDone
      BY <1>0, <3>1 DEF HbStart, HbTick, HbDone, HbPut
    <3>2. CASE HbPutEnd
      BY <1>0, <3>2 DEF HbPutEnd, HbContent
    <3>3. CASE HbPutFails \/ HbCancelled
      BY <1>0, <3>3 DEF HbPutFails, HbCancelled
    <3> QED BY <1>5, <3>1, <3>2, <3>3 DEF HeartBeat
  <2> QED BY <1>0, <1>5, <2>1, HeartBeatFrame DEF producerVars, poolVars
<1>6. CASE WaitData \/ WriteToc \/ WriteMetaData \/ Kill \/ Tick
  <2>1. hb' = hb
    BY <1>6 DEF WaitData, WriteToc, WriteMetaData, Kill, Tick, storeVars
  <2> QED BY <1>0, <1>6, <2>1, StageFrame DEF producerVars, stateVars
<1>7. CASE UNCHANGED vars
  BY <1>0, <1>7 DEF vars, poolVars, storeVars
<1> QED
  BY <1>1, <1>2, <1>3, <1>4, <1>5, <1>6, <1>7 DEF Next, Producer

-----------------------------------------------------------------------------
(* Tasks *)

LEMMA TaskInit == Init => TaskInv
  BY DEF Init, TaskInv

\* A task is handed from the channel to a worker to the storage and lost on
\* no step but a worker's failure.
LEMMA TaskStep ==
  ASSUME TypeOK, TaskInv, [Next]_vars
  PROVE  TaskInv'
<1>0. /\ TaskInv /\ WorkerType /\ tasks \in Seq(Object) /\ pos \in Nat \ {0}
      /\ \A i \in 1..Len(order) : order[i] \in Object
  BY OrderFacts DEF TypeOK, ProducerType
<1>1. ASSUME UNCHANGED <<order, noBlobs, pos, failing>>,
             \A o : Accounted(o) => Accounted(o)'
      PROVE  TaskInv'
  BY <1>0, <1>1 DEF TaskInv, HasTask
<1>2. ASSUME UNCHANGED <<order, noBlobs, pos, failing, stored, tasks, wpc, held>>
      PROVE  TaskInv'
  BY <1>0, <1>2 DEF TaskInv, HasTask, Accounted
<1>3. CASE Produce
  <2>1. /\ pos' = pos + 1 /\ order[pos] \in Object /\ pos <= Len(order)
        /\ UNCHANGED <<order, noBlobs, failing, stored, wpc, held>>
    BY <1>0, <1>3 DEF Produce, poolVars, storeVars
  <2>2. /\ Elems(tasks) \subseteq Elems(tasks')
        /\ HasTask(order[pos]) => order[pos] \in Elems(tasks')
    BY <1>0, <1>3, <2>1, SendFacts DEF Produce
  <2>3. ASSUME NEW o, Accounted(o) PROVE Accounted(o)'
    BY <2>1, <2>2, <2>3 DEF Accounted
  <2>4. ASSUME NEW o, o = order[pos], HasTask(o) PROVE Accounted(o)'
    BY <2>2, <2>4 DEF Accounted
  <2> SUFFICES ASSUME ~failing', NEW i \in 1..(pos' - 1), NEW o,
                      o = order'[i], HasTask(o)'
               PROVE  Accounted(o)'
    BY DEF TaskInv
  <2>5. i \in 1..pos /\ ~failing /\ o = order[i] /\ HasTask(o)
    BY <1>0, <2>1 DEF HasTask
  <2>6. CASE i = pos
    BY <2>4, <2>5, <2>6
  <2>7. CASE i # pos
    <3>1. i \in 1..(pos - 1)
      BY <1>0, <2>5, <2>7
    <3>2. Accounted(o)
      BY <1>0, <2>5, <3>1 DEF TaskInv
    <3> QED BY <2>3, <3>2
  <2> QED BY <2>6, <2>7
<1>4. CASE ProducerEnd \/ ProducerCancelled
  BY <1>2, <1>4 DEF ProducerEnd, ProducerCancelled, ProducerReturn, poolVars,
                    storeVars
<1>5. ASSUME NEW w \in Worker, WorkerStep(w) PROVE TaskInv'
  <2>1. CASE ConnectFails(w) \/ WorkerCancelled(w) \/ DumpFails(w)
    BY <2>1 DEF ConnectFails, WorkerCancelled, DumpFails, WorkerFails, TaskInv
  <2>2. CASE Connect(w)
    BY <1>0, <1>1, <2>2 DEF Connect, storeVars, Accounted, WorkerType
  <2>3. CASE ReceiveClosed(w)
    BY <1>0, <1>1, <2>3 DEF ReceiveClosed, storeVars, Accounted, WorkerType
  <2>4. CASE Receive(w)
    <3>1. Elems(tasks) = {Head(tasks)} \cup Elems(tasks')
      BY <1>0, <2>4, HeadFacts DEF Receive
    <3>2. /\ wpc[w] = "select" /\ wpc'[w] = "execute" /\ held'[w] = Head(tasks)
          /\ \A v \in Worker \ {w} : wpc'[v] = wpc[v] /\ held'[v] = held[v]
          /\ UNCHANGED <<order, noBlobs, pos, failing, stored>>
      BY <1>0, <2>4 DEF Receive, WorkerType, storeVars
    <3>3. ASSUME NEW o, Accounted(o) PROVE Accounted(o)'
      BY <3>1, <3>2, <3>3 DEF Accounted
    <3> QED BY <1>1, <3>2, <3>3
  <2>5. CASE Dumped(w)
    <3>1. /\ stored' = stored \cup {held[w]} /\ tasks' = tasks
          /\ \A v \in Worker \ {w} : wpc'[v] = wpc[v] /\ held'[v] = held[v]
          /\ UNCHANGED <<order, noBlobs, pos, failing>>
      BY <1>0, <2>5 DEF Dumped, WorkerType
    <3>2. ASSUME NEW o, Accounted(o) PROVE Accounted(o)'
      BY <3>1, <3>2 DEF Accounted
    <3> QED BY <1>1, <3>1, <3>2
  <2> QED
    BY <1>5, <2>1, <2>2, <2>3, <2>4, <2>5 DEF WorkerStep
<1>6. CASE Planner
  BY <1>2, <1>6, PlannerFrame DEF producerVars, poolVars, storageVars
<1>7. CASE HeartBeat
  BY <1>2, <1>7, HeartBeatFrame DEF producerVars, poolVars
<1>8. CASE WaitData \/ WriteToc \/ WriteMetaData \/ Kill \/ Tick
  <2>1. stored' = stored
    BY <1>8 DEF WaitData, WriteToc, WriteMetaData, Kill, Tick, storeVars
  <2> QED BY <1>2, <1>8, <2>1, StageFrame DEF producerVars, stateVars
<1>9. CASE UNCHANGED vars
  BY <1>2, <1>9 DEF vars, poolVars, storeVars
<1> QED
  BY <1>3, <1>4, <1>5, <1>6, <1>7, <1>8, <1>9 DEF Next, Producer

-----------------------------------------------------------------------------
(* Stages *)

\* The data stage ends without error only when every task's object is stored
\* and the heartbeat says so.
LEMMA DataStageComplete ==
  ASSUME TypeOK, ReturnInv, TaskInv, DataReturned, ~cancelled
  PROVE  hb = "done" /\ \A o \in Elems(order) : HasTask(o) => o \in stored
<1>1. /\ ppc = "done" /\ plan = "done" /\ hpc = "done" /\ ~failing
      /\ pos > Len(order) /\ hb = "done"
  BY DEF DataReturned, ReturnInv
<1>2. \A w \in Worker : wpc[w] = "done"
  BY <1>1 DEF ReturnInv
<1>3. tasks = <<>>
  BY <1>1, <1>2, DumpAssumption DEF ReturnInv
<1>4. ASSUME NEW o \in Elems(order), HasTask(o) PROVE o \in stored
  <2>1. Len(order) \in Nat /\ pos \in 1..(Len(order) + 1) /\ o \in Object
    BY OrderFacts DEF TypeOK, ProducerType
  <2>2. PICK i \in 1..Len(order) : order[i] = o
    BY <2>1 DEF Elems
  <2>3. i \in 1..(pos - 1)
    BY <1>1, <2>1
  <2>4. Accounted(o)
    BY <1>1, <1>4, <2>2, <2>3 DEF TaskInv
  <2>5. Elems(tasks) = {}
    BY <1>3 DEF Elems
  <2> QED BY <1>2, <2>4, <2>5 DEF Accounted
<1> QED
  BY <1>1, <1>4

LEMMA StageInit == Init => StageInv
  BY DEF Init, StageInv

LEMMA StageStep ==
  ASSUME TypeOK, DumpInv, [Next]_vars
  PROVE  StageInv'
<1>. USE DEF StageInv
<1>0. StageInv
  BY DEF DumpInv
<1>1. CASE UNCHANGED <<order, noBlobs, stored, hb, toc, tocFile, md, stage>>
  BY <1>0, <1>1 DEF HasTask, HasEntry, Elems
<1>2. ASSUME stage = "data", stage' = stage, md' = md PROVE StageInv'
  BY <1>0, <1>2
<1>3. CASE Producer \/ Planner
  BY <1>1, <1>3, ProducerFrame, PlannerFrame DEF storageVars, producerVars
<1>4. ASSUME NEW w \in Worker, WorkerStep(w) PROVE StageInv'
  <2>1. stage = "data"
    BY <1>4 DEF WorkerStep, Connect, ConnectFails, Receive, ReceiveClosed,
                WorkerCancelled, Dumped, DumpFails, InData
  <2> QED BY <1>2, <1>4, <2>1, WorkerFrame
<1>5. CASE HeartBeat
  <2>1. stage = "data"
    BY <1>5 DEF HeartBeat, HbStart, HbTick, HbDone, HbPutEnd, HbPutFails,
                HbCancelled, InData
  <2> QED BY <1>2, <1>5, <2>1, HeartBeatFrame
<1>6. CASE WaitData
  <2>1. UNCHANGED <<order, noBlobs, stored, hb, toc, tocFile, md>> /\ stage = "data"
    BY <1>6 DEF WaitData, InData, storeVars
  <2>2. CASE cancelled
    BY <1>0, <1>6, <2>1, <2>2 DEF WaitData
  <2>3. CASE ~cancelled
    <3>1. hb = "done" /\ \A o \in Elems(order) : HasTask(o) => o \in stored
      BY <1>6, <2>3, DataStageComplete DEF DumpInv, WaitData
    <3>2. stage' = "toc"
      BY <1>6, <2>3 DEF WaitData
    <3> QED BY <1>0, <2>1, <3>1, <3>2 DEF HasTask, Elems
  <2> QED BY <2>2, <2>3
<1>7. CASE WriteToc
  <2>1. UNCHANGED <<order, noBlobs, stored, hb, md>> /\ stage = "toc"
    BY <1>7 DEF WriteToc
  <2>2. \/ stage' \in {"toc", "error"}
        \/ /\ stage' = "metadata" /\ tocFile' = "complete"
           /\ toc' = {o \in Elems(order) : HasEntry(o)}
    BY <1>7 DEF WriteToc
  <2> QED BY <1>0, <2>1, <2>2 DEF HasTask, HasEntry, Elems
<1>8. CASE WriteMetaData
  <2>1. UNCHANGED <<order, noBlobs, stored, hb, toc, tocFile>> /\ stage = "metadata"
    BY <1>8 DEF WriteMetaData
  <2>2. \/ stage' = "metadata" /\ md' = "partial"
        \/ stage' = "ok" /\ md' = "complete"
        \/ stage' = "error" /\ md' = md
    BY <1>8 DEF WriteMetaData
  <2> QED BY <1>0, <2>1, <2>2 DEF HasTask, HasEntry, Elems
<1>9. CASE Kill
  <2>1. /\ stage' = "killed" /\ md' = md
        /\ stage \in {"data", "toc", "metadata"}
    BY <1>9 DEF Kill, Live, storeVars
  <2> QED BY <1>0, <2>1
<1>10. CASE Tick
  BY <1>1, <1>10 DEF Tick
<1>11. CASE UNCHANGED vars
  BY <1>1, <1>11 DEF vars, storeVars
<1> QED
  BY <1>3, <1>4, <1>5, <1>6, <1>7, <1>8, <1>9, <1>10, <1>11 DEF Next

-----------------------------------------------------------------------------
(* Theorems *)

\* Through every interleaving of the goroutines and every failure, DumpInv:
\* what has returned and why, where each task is, and what a stage left.
THEOREM DumpInvariant == Spec => []DumpInv
<1>1. Init => DumpInv
  BY ReturnInit, TaskInit, StageInit DEF DumpInv
<1>2. TypeOK /\ DumpInv /\ [Next]_vars => DumpInv'
  BY ReturnStep, TaskStep, StageStep DEF DumpInv
<1> QED
  BY <1>1, <1>2, DumpTypeCorrect, PTL DEF Spec

\* A dump whose metadata.json is complete has its toc.dat, every object's
\* entry in it and every entry's data, whenever the process was killed.
THEOREM Published == Spec => []PublishedIsComplete
<1>1. DumpInv => PublishedIsComplete
  BY DEF DumpInv, StageInv, PublishedIsComplete, HasTask, HasEntry
<1> QED
  BY <1>1, DumpInvariant, PTL

\* A dump that returns without error has left the heartbeat "done".
THEOREM DoneOnSuccess == Spec => []SuccessIsDone
<1>1. DumpInv => SuccessIsDone
  BY DEF DumpInv, StageInv, SuccessIsDone
<1> QED
  BY <1>1, DumpInvariant, PTL
=============================================================================
