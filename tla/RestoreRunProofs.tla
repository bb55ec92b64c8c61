-------------------------- MODULE RestoreRunProofs --------------------------
(***************************************************************************)
(* The data stage of a restore, and the whole of it, for every dump that   *)
(* satisfies the assumptions, every choice of options and every number of  *)
(* jobs.  The data stage: types, the flow of the entries, order and        *)
(* completeness, and that it implements RestoreContract.  A whole restore  *)
(* implements the data stage of RestoreOrder, so all that is proved of the *)
(* data stage holds in it.  Around it, what has run follows the plan of    *)
(* sections and scripts; a clean that is put off to its phase leaves no    *)
(* old object; and of every table the rows that are stored are whole: all  *)
(* or nothing with COPY, all that are good with INSERT.                    *)
(***************************************************************************)
EXTENDS RestoreRun, SetInduction, SequenceTheorems, FiniteSetTheorems, TLAPS

-----------------------------------------------------------------------------
(* The data stage *)

\* What the parts of a dump are, and that the walked list is one of them.
LEMMA ArchiveFacts ==
  ASSUME NEW a \in Archives
  PROVE  /\ a.toc \in Seq(DumpId) /\ a.acl \in Seq(DumpId)
         /\ a.order \in Seq(DumpId)
         /\ a.deps \in [DumpId -> SUBSET DumpId]
  BY RestoreAssumption DEF Archive

LEMMA WalkedType ==
  ASSUME archive \in Archives
  PROVE  Walked \in Seq(DumpId)
  BY ArchiveFacts DEF Walked

\* Every variable keeps its type.
THEOREM TypeCorrect == Spec => []TypeOK
<1>. USE RestoreAssumption
<1>1. Init => TypeOK
  <2> SUFFICES ASSUME Init PROVE TypeOK
    OBVIOUS
  <2>1. Walked \in Seq(DumpId)
    BY WalkedType DEF Init
  <2>2. idx \in 1..(Len(Walked) + 1) /\ phase \in 1..Phases
    BY <2>1 DEF Init, Phases
  <2>3. tasks \in Seq(DumpId)
    BY DEF Init
  <2>4. /\ wpc \in [Worker -> {"connect", "select", "begin", "execute", "done",
                               "failed"}]
        /\ held \in [Worker -> DumpId \cup {NoEntry}]
        /\ \A w \in Worker : wpc[w] = "connect"
    BY DEF Init
  <2>5. restored \subseteq DumpId /\ broken \subseteq restored /\ seen \subseteq DumpId
    BY DEF Init
  <2>6. ppc = "walk" /\ current = NoEntry /\ closed = FALSE /\ cancelled = FALSE
        /\ outcome = "running" /\ archive \in Archives /\ opt \in Options
    BY DEF Init
  <2> QED
    BY <2>2, <2>3, <2>4, <2>5, <2>6 DEF TypeOK
<1>2. TypeOK /\ [Next]_vars => TypeOK'
  <2> SUFFICES ASSUME TypeOK, [Next]_vars PROVE TypeOK'
    OBVIOUS
  <2>. USE DEF TypeOK
  <2>0. Walked \in Seq(DumpId) /\ Len(Walked) \in Nat
    BY WalkedType
  <2>d. ASSUME NEW i \in 1..Len(Walked) PROVE Walked[i] \in DumpId
    BY <2>0
  <2>w. ASSUME UNCHANGED <<archive, opt, phase>>
        PROVE  Walked' = Walked /\ Phases' = Phases
    BY <2>w DEF Walked, Phases
  <2>1. CASE PusherEnd
    BY <2>1, <2>w DEF PusherEnd, PusherReturn, walkVars, workerVars
  <2>2. CASE NextPhase
    <3>1. phase' \in 1..Phases' /\ idx' = 1
      BY <2>2 DEF NextPhase, Phases
    <3>2. Walked' \in Seq(DumpId)
      BY <2>2, ArchiveFacts DEF NextPhase, Walked
    <3> QED BY <2>2, <3>1, <3>2 DEF NextPhase, workerVars
  <2>3. CASE PusherSkip
    BY <2>3, <2>0, <2>d, <2>w DEF PusherSkip, workerVars
  <2>4. CASE PusherTake
    BY <2>4, <2>0, <2>d, <2>w DEF PusherTake, workerVars
  <2>5. CASE PusherWaited
    BY <2>5, <2>w DEF PusherWaited, walkVars, workerVars
  <2>6. CASE PusherDrop
    BY <2>6, <2>w DEF PusherDrop, walkVars, workerVars
  <2>7. CASE PusherSend
    BY <2>7, <2>w DEF PusherSend, walkVars, workerVars
  <2>8. CASE PusherNoDefinition
    BY <2>8, <2>w DEF PusherNoDefinition, PusherReturn, walkVars, workerVars
  <2>9. CASE PusherCancelled
    BY <2>9, <2>w DEF PusherCancelled, PusherReturn, walkVars, workerVars
  <2>10. ASSUME NEW w \in Worker, WorkerStep(w) PROVE TypeOK'
    <3>. USE DEF pusherVars
    <3>1. CASE Connect(w)
      BY <3>1, <2>w DEF Connect
    <3>2. CASE ConnectFails(w)
      BY <3>2, <2>w DEF ConnectFails, WorkerFails
    <3>3. CASE Receive(w)
      BY <3>3, <2>w DEF Receive
    <3>4. CASE ReceiveNil(w)
      BY <3>4, <2>w DEF ReceiveNil
    <3>5. CASE WorkerCancelled(w)
      BY <3>5, <2>w DEF WorkerCancelled, WorkerFails
    <3>6. CASE Begin(w)
      BY <3>6, <2>w DEF Begin
    <3>7. CASE BeginFails(w)
      BY <3>7, <2>w DEF BeginFails, WorkerFails
    <3>8. CASE Commit(w)
      BY <3>8, <2>w DEF Commit, Finish
    <3>9. CASE Tolerate(w)
      BY <3>9, <2>w DEF Tolerate, Finish
    <3>10. CASE ExecuteFails(w)
      BY <3>10, <2>w DEF ExecuteFails, WorkerFails
    <3> QED
      BY <2>10, <3>1, <3>2, <3>3, <3>4, <3>5, <3>6, <3>7, <3>8, <3>9, <3>10
      DEF WorkerStep
  <2>11. CASE Wait
    BY <2>11, <2>w DEF Wait, pusherVars, workerVars
  <2>12. CASE UNCHANGED vars
    BY <2>12, <2>w DEF vars
  <2> QED
    BY <2>1, <2>2, <2>3, <2>4, <2>5, <2>6, <2>7, <2>8, <2>9, <2>10, <2>11,
       <2>12
    DEF Next, Pusher
<1> QED
  BY <1>1, <1>2, PTL DEF Spec

-----------------------------------------------------------------------------
(* Sequences without duplicates *)

\* What taking the head off a sequence leaves.
LEMMA TailFacts ==
  ASSUME NEW S, NEW s \in Seq(S), s # <<>>
  PROVE  /\ Tail(s) \in Seq(S)
         /\ Head(s) \in Elems(s)
         /\ Elems(Tail(s)) \subseteq Elems(s)
         /\ Distinct(s) => Distinct(Tail(s)) /\ Head(s) \notin Elems(Tail(s))
<1>1. /\ Tail(s) \in Seq(S) /\ Len(Tail(s)) = Len(s) - 1 /\ Len(s) \in Nat \ {0}
      /\ \A i \in 1..Len(Tail(s)) : Tail(s)[i] = s[i + 1]
  OBVIOUS
<1>2. Head(s) = s[1] /\ 1 \in 1..Len(s)
  BY <1>1
<1>3. Elems(Tail(s)) \subseteq Elems(s)
  BY <1>1 DEF Elems
<1>4. ASSUME Distinct(s) PROVE Distinct(Tail(s)) /\ Head(s) \notin Elems(Tail(s))
  BY <1>1, <1>2, <1>4 DEF Distinct, Elems
<1> QED
  BY <1>1, <1>2, <1>3, <1>4 DEF Elems

\* What appending an element adds.
LEMMA AppendFacts ==
  ASSUME NEW S, NEW s \in Seq(S), NEW e \in S
  PROVE  /\ Elems(Append(s, e)) = Elems(s) \cup {e}
         /\ Distinct(s) /\ e \notin Elems(s) => Distinct(Append(s, e))
<1>1. /\ Len(Append(s, e)) = Len(s) + 1 /\ Len(s) \in Nat
      /\ \A i \in 1..Len(s) : Append(s, e)[i] = s[i]
      /\ Append(s, e)[Len(s) + 1] = e
  OBVIOUS
<1>2. Elems(Append(s, e)) = Elems(s) \cup {e}
  BY <1>1 DEF Elems
<1>3. ASSUME Distinct(s), e \notin Elems(s) PROVE Distinct(Append(s, e))
  BY <1>1, <1>3 DEF Distinct, Elems
<1> QED
  BY <1>2, <1>3

-----------------------------------------------------------------------------
(* The flow of the entries *)

\* The flow invariant holds initially and is kept by every step.
LEMMA FlowInductive == TypeOK /\ TypeOK' /\ FlowInv /\ [Next]_vars => FlowInv'
<1>. USE RestoreAssumption
<1> SUFFICES ASSUME TypeOK, TypeOK', FlowInv, [Next]_vars PROVE FlowInv'
  OBVIOUS
<1>. USE DEF FlowInv
<1>0. Walked \in Seq(DumpId) /\ Len(Walked) \in Nat
  BY WalkedType DEF TypeOK
<1>d. phase = 1 => Distinct(Walked)
  BY OrderAssumption DEF TypeOK, Walked
<1>w. ASSUME UNCHANGED <<archive, opt, phase>>
      PROVE  /\ Walked' = Walked /\ MustWait' = MustWait
             /\ \A d \in DumpId : restored \subseteq restored' =>
                  (DependenciesAreRestored(d) => DependenciesAreRestored(d)')
  BY <1>w DEF Walked, MustWait, DependenciesAreRestored
<1>s. ASSUME UNCHANGED <<archive, opt, phase, idx, seen, ppc, current, tasks,
                         wpc, held, restored>>
      PROVE  FlowInv'
  <2>1. PlacesInv'
    BY <1>s, <1>w DEF PlacesInv
  <2>2. WaitedInv'
    BY <1>s, <1>w DEF WaitedInv, DependenciesAreRestored
  <2> QED BY <2>1, <2>2
<1>1. CASE PusherEnd \/ PusherNoDefinition \/ PusherCancelled
  <2>1. /\ UNCHANGED <<archive, opt, phase, idx, seen, tasks, wpc, held,
                       restored>>
        /\ current' = NoEntry /\ ppc' # "send"
    BY <1>1 DEF PusherEnd, PusherNoDefinition, PusherCancelled, PusherReturn,
                walkVars, workerVars
  <2>2. PlacesInv'
    BY <2>1, <1>w DEF PlacesInv
  <2>3. WaitedInv'
    BY <2>1, <1>w DEF WaitedInv, DependenciesAreRestored
  <2> QED BY <2>2, <2>3
<1>2. CASE NextPhase
  <2>1. /\ UNCHANGED <<archive, opt, seen, ppc, current, tasks, wpc, held,
                       restored>>
        /\ phase' # 1
    BY <1>2 DEF NextPhase, workerVars, TypeOK
  <2>2. PlacesInv'
    BY <2>1 DEF PlacesInv
  <2>3. WaitedInv'
    BY <2>1 DEF WaitedInv, DependenciesAreRestored, MustWait
  <2> QED BY <2>2, <2>3
<1>3. CASE PusherSkip
  <2>1. /\ UNCHANGED <<archive, opt, phase, ppc, current, tasks, wpc, held,
                       restored>>
        /\ idx' = idx + 1 /\ idx \in 1..Len(Walked)
        /\ seen' \in {seen, seen \cup {Walked[idx]}}
    BY <1>3, <1>0 DEF PusherSkip, workerVars, TypeOK
  <2>2. phase' = 1 => \A i \in idx'..Len(Walked)' : Walked'[i] \notin seen'
    BY <2>1, <1>0, <1>d, <1>w DEF PlacesInv, Distinct
  <2>3. PlacesInv'
    BY <2>1, <2>2 DEF PlacesInv
  <2>4. WaitedInv'
    BY <2>1, <1>w DEF WaitedInv, DependenciesAreRestored
  <2> QED BY <2>3, <2>4
<1>4. CASE PusherTake
  <2>1. /\ UNCHANGED <<archive, opt, phase, tasks, wpc, held, restored>>
        /\ idx' = idx + 1 /\ idx \in 1..Len(Walked)
        /\ seen' = seen \cup {Walked[idx]} /\ current' = Walked[idx]
        /\ ppc' = IF MustWait THEN "wait" ELSE "send"
    BY <1>4, <1>0 DEF PusherTake, workerVars, TypeOK
  <2>2. phase' = 1 => \A i \in idx'..Len(Walked)' : Walked'[i] \notin seen'
    BY <2>1, <1>0, <1>d, <1>w DEF PlacesInv, Distinct
  <2>3. Walked[idx] \notin seen
    <3>1. CASE phase = 1
      BY <2>1, <3>1, <1>0 DEF PlacesInv
    <3>2. CASE phase # 1
      <4>1. opt.inOrder
        BY <3>2 DEF TypeOK, Phases
      <4> QED BY <1>4, <3>2, <4>1 DEF PusherTake, Listed, TypeOK, Phases
    <3> QED BY <3>1, <3>2
  <2>4. PlacesInv'
    BY <2>1, <2>2, <2>3 DEF PlacesInv
  <2>5. WaitedInv'
    BY <2>1, <1>w DEF WaitedInv, DependenciesAreRestored
  <2> QED BY <2>4, <2>5
<1>5. CASE PusherWaited
  <2>1. /\ UNCHANGED <<archive, opt, phase, idx, seen, current, tasks, wpc,
                       held, restored>>
        /\ DependenciesAreRestored(current)
    BY <1>5 DEF PusherWaited, walkVars, workerVars
  <2>2. PlacesInv'
    BY <2>1, <1>w DEF PlacesInv
  <2>3. WaitedInv'
    BY <2>1, <1>w DEF WaitedInv, DependenciesAreRestored
  <2> QED BY <2>2, <2>3
<1>6. CASE PusherDrop
  <2>1. /\ UNCHANGED <<archive, opt, phase, idx, seen, tasks, wpc, held,
                       restored>>
        /\ current' = NoEntry /\ ppc' # "send"
    BY <1>6 DEF PusherDrop, walkVars, workerVars
  <2>2. PlacesInv'
    BY <2>1, <1>w DEF PlacesInv
  <2>3. WaitedInv'
    BY <2>1, <1>w DEF WaitedInv, DependenciesAreRestored
  <2> QED BY <2>2, <2>3
<1>7. CASE PusherSend
  <2>1. /\ UNCHANGED <<archive, opt, phase, idx, seen, wpc, held, restored>>
        /\ current \in DumpId /\ current # NoEntry
        /\ current' = NoEntry /\ ppc' # "send" /\ ppc = "send"
        /\ tasks' = Append(tasks, current)
    BY <1>7 DEF PusherSend, walkVars, workerVars, TypeOK
  <2>2. /\ Elems(tasks') = Elems(tasks) \cup {current}
        /\ Distinct(tasks) /\ current \notin Elems(tasks) => Distinct(tasks')
    BY <2>1, AppendFacts DEF TypeOK
  <2>3. PlacesInv'
    BY <2>1, <2>2, <1>w DEF PlacesInv
  <2>4. WaitedInv'
    BY <2>1, <2>2, <1>w DEF WaitedInv, DependenciesAreRestored
  <2> QED BY <2>3, <2>4
<1>8. ASSUME NEW w \in Worker, WorkerStep(w) PROVE FlowInv'
  <2>0. UNCHANGED <<archive, opt, phase, idx, seen, ppc, current>>
    BY <1>8 DEF WorkerStep, Connect, ConnectFails, Receive, ReceiveNil,
       WorkerCancelled, Begin, BeginFails, Commit, Tolerate, ExecuteFails,
       WorkerFails, Finish, pusherVars
  <2>1. CASE \/ Connect(w) \/ ConnectFails(w) \/ ReceiveNil(w)
             \/ WorkerCancelled(w) \/ Begin(w) \/ ExecuteFails(w)
    <3>1. UNCHANGED <<tasks, held, restored>>
      BY <2>1 DEF Connect, ConnectFails, ReceiveNil, WorkerCancelled, Begin,
                  ExecuteFails, WorkerFails
    <3>2. \A v \in Worker : wpc'[v] \in {"connect", "select", "done"} =>
                               held'[v] = NoEntry
      BY <2>1, <3>1 DEF Connect, ConnectFails, ReceiveNil, WorkerCancelled,
                        Begin, ExecuteFails, WorkerFails, PlacesInv, TypeOK
    <3>3. PlacesInv'
      BY <2>0, <3>1, <3>2, <1>w DEF PlacesInv
    <3>4. WaitedInv'
      BY <2>0, <3>1, <1>w DEF WaitedInv, DependenciesAreRestored
    <3> QED BY <3>3, <3>4
  <2>2. CASE Receive(w)
    <3>1. /\ tasks # <<>> /\ tasks' = Tail(tasks) /\ UNCHANGED restored
          /\ held' = [held EXCEPT ![w] = Head(tasks)]
          /\ wpc' = [wpc EXCEPT ![w] = "begin"]
      BY <2>2 DEF Receive
    <3>2. /\ Head(tasks) \in Elems(tasks) /\ Elems(tasks') \subseteq Elems(tasks)
          /\ Distinct(tasks') /\ Head(tasks) \notin Elems(tasks')
      BY <3>1, TailFacts DEF TypeOK, PlacesInv
    <3>3. \A v \in Worker : held'[v] = IF v = w THEN Head(tasks) ELSE held[v]
      BY <3>1 DEF TypeOK
    <3>4. PlacesInv'
      BY <2>0, <3>1, <3>2, <3>3, <1>w DEF PlacesInv, TypeOK
    <3>5. WaitedInv'
      BY <2>0, <3>1, <3>2, <3>3, <1>w DEF WaitedInv, DependenciesAreRestored
    <3> QED BY <3>4, <3>5
  <2>3. CASE BeginFails(w)
    <3>1. /\ UNCHANGED <<tasks, restored>>
          /\ \A v \in Worker : held'[v] = IF v = w THEN NoEntry ELSE held[v]
          /\ wpc' = [wpc EXCEPT ![w] = "failed"]
      BY <2>3 DEF BeginFails, WorkerFails, TypeOK
    <3>2. PlacesInv'
      BY <2>0, <3>1, <1>w DEF PlacesInv, TypeOK
    <3>3. WaitedInv'
      BY <2>0, <3>1, <1>w DEF WaitedInv, DependenciesAreRestored
    <3> QED BY <3>2, <3>3
  <2>4. CASE Commit(w) \/ Tolerate(w)
    <3>1. /\ UNCHANGED tasks
          /\ restored' = restored \cup {held[w]} /\ held[w] # NoEntry
          /\ \A v \in Worker : held'[v] = IF v = w THEN NoEntry ELSE held[v]
          /\ wpc' = [wpc EXCEPT ![w] = "select"]
      BY <2>4 DEF Commit, Tolerate, Finish, TypeOK
    <3>2. PlacesInv'
      BY <2>0, <3>1, <1>w DEF PlacesInv, TypeOK
    <3>3. WaitedInv'
      BY <2>0, <3>1, <1>w DEF WaitedInv, DependenciesAreRestored
    <3> QED BY <3>2, <3>3
  <2> QED
    BY <1>8, <2>1, <2>2, <2>3, <2>4 DEF WorkerStep
<1>9. CASE Wait
  BY <1>9, <1>s DEF Wait, pusherVars, workerVars
<1>10. CASE UNCHANGED vars
  BY <1>10, <1>s DEF vars
<1> QED
  BY <1>1, <1>2, <1>3, <1>4, <1>5, <1>6, <1>7, <1>8, <1>9, <1>10
  DEF Next, Pusher

\* No entry of the dump is ever in two places: walked, in the channel, with a
\* worker, or restored.
THEOREM FlowCorrect == Spec => []FlowInv
<1>1. Init => FlowInv
  <2> SUFFICES ASSUME Init PROVE FlowInv
    OBVIOUS
  <2>1. Elems(tasks) = {} /\ Distinct(tasks)
    BY DEF Init, Elems, Distinct
  <2>2. PlacesInv
    BY <2>1 DEF Init, PlacesInv
  <2>3. WaitedInv
    BY <2>1 DEF Init, WaitedInv
  <2> QED BY <2>2, <2>3 DEF FlowInv
<1> QED
  BY <1>1, FlowInductive, TypeCorrect, PTL DEF Spec

\* No entry is executed by two workers or after it has been restored.
THEOREM EachExecutedOnce == Spec => []ExecutedOnce
<1>1. TypeOK /\ FlowInv => ExecutedOnce
  BY RestoreAssumption DEF TypeOK, FlowInv, PlacesInv, ExecutedOnce
<1> QED
  BY <1>1, FlowCorrect, TypeCorrect, PTL

\* With more than one job and --restore-in-order, no entry is executed before
\* everything it depends on has been restored.
THEOREM OrderedWithJobs == Jobs > 1 /\ Spec => []InOrder
<1>1. TypeOK /\ FlowInv /\ Jobs > 1 => InOrder
  BY DEF TypeOK, FlowInv, WaitedInv, MustWait, InOrder, Begun, Unrestored,
         DependenciesAreRestored
<1>2. CASE Jobs > 1
  BY <1>1, <1>2, FlowCorrect, TypeCorrect, PTL
<1>3. CASE ~(Jobs > 1)
  BY <1>3
<1> QED
  BY <1>2, <1>3

-----------------------------------------------------------------------------
(* Completeness, and that RestoreOrder implements RestoreContract *)

\* The dump and the options, and with them the plan, never change.
LEMMA PlanFixed ==
  ASSUME [Next]_vars
  PROVE  /\ UNCHANGED <<archive, opt>>
         /\ Plan' = Plan /\ Phases' = Phases /\ MustWait' = MustWait
         /\ \A d \in DumpId : Skipped(d)' = Skipped(d)
<1>1. UNCHANGED <<archive, opt>>
  BY DEF Next, vars, Pusher, PusherEnd, NextPhase, PusherSkip, PusherTake,
     PusherWaited, PusherDrop, PusherSend, PusherNoDefinition, PusherCancelled,
     WorkerStep, Connect, ConnectFails, Receive, ReceiveNil, WorkerCancelled,
     Begin, BeginFails, Commit, Tolerate, ExecuteFails, WorkerFails, Finish,
     Wait
<1>2. Plan' = Plan
  BY <1>1 DEF Plan, IsNeedRestore, Skipped
<1> QED
  BY <1>1, <1>2 DEF Phases, MustWait, Skipped

\* The goroutines' places stay consistent.
LEMMA ControlInductive ==
  TypeOK /\ TypeOK' /\ ControlInv /\ [Next]_vars => ControlInv'
<1> SUFFICES ASSUME TypeOK, TypeOK', ControlInv, [Next]_vars PROVE ControlInv'
  OBVIOUS
<1>. USE DEF ControlInv, TypeOK
<1>1. CASE PusherEnd \/ PusherNoDefinition \/ PusherCancelled
  BY <1>1 DEF PusherEnd, PusherNoDefinition, PusherCancelled, PusherReturn,
              workerVars, AllReturned
<1>2. CASE NextPhase \/ PusherSkip \/ PusherTake \/ PusherWaited \/ PusherDrop
  BY <1>2 DEF NextPhase, PusherSkip, PusherTake, PusherWaited, PusherDrop,
              workerVars, AllReturned
<1>3. CASE PusherSend
  BY <1>3 DEF PusherSend, workerVars, AllReturned
<1>4. ASSUME NEW w \in Worker, WorkerStep(w) PROVE ControlInv'
  <2>1. CASE Connect(w) \/ Begin(w)
    BY <2>1 DEF Connect, Begin, AllReturned, pusherVars
  <2>2. CASE ConnectFails(w) \/ WorkerCancelled(w) \/ BeginFails(w) \/ ExecuteFails(w)
    BY <2>2 DEF ConnectFails, WorkerCancelled, BeginFails, ExecuteFails,
                WorkerFails, AllReturned, pusherVars
  <2>3. CASE Receive(w)
    BY <2>3, TailFacts DEF Receive, AllReturned, pusherVars
  <2>4. CASE ReceiveNil(w)
    BY <2>4 DEF ReceiveNil, AllReturned, pusherVars
  <2>5. CASE Commit(w) \/ Tolerate(w)
    BY <2>5 DEF Commit, Tolerate, Finish, AllReturned, pusherVars
  <2> QED
    BY <1>4, <2>1, <2>2, <2>3, <2>4, <2>5 DEF WorkerStep
<1>5. CASE Wait
  BY <1>5 DEF Wait, AllReturned, pusherVars, workerVars
<1>6. CASE UNCHANGED vars
  BY <1>6 DEF vars, AllReturned
<1> QED
  BY <1>1, <1>2, <1>3, <1>4, <1>5, <1>6 DEF Next, Pusher

\* The walk leaves nothing of the plan behind.
LEMMA WalkInductive ==
  TypeOK /\ TypeOK' /\ WalkInv /\ [Next]_vars => WalkInv'
<1> SUFFICES ASSUME TypeOK, TypeOK', WalkInv, [Next]_vars PROVE WalkInv'
  OBVIOUS
<1>p. /\ UNCHANGED <<archive, opt>> /\ Plan' = Plan /\ Phases' = Phases
  BY PlanFixed
<1>0. Walked \in Seq(DumpId) /\ Len(Walked) \in Nat /\ idx \in Nat \ {0}
  BY WalkedType DEF TypeOK
<1>a. archive \in Archives /\ archive.toc \in Seq(DumpId)
      /\ archive.order \in Seq(DumpId) /\ archive.acl \in Seq(DumpId)
  BY ArchiveFacts DEF TypeOK
<1>s. ASSUME UNCHANGED <<phase, idx, seen>>, ppc' = "done" => ppc = "done"
      PROVE  WalkInv'
  <2>1. Walked' = Walked
    BY <1>p, <1>s DEF Walked
  <2> QED
    BY <1>p, <1>s, <2>1 DEF WalkInv
<1>1. CASE PusherEnd
  <2>1. /\ UNCHANGED <<phase, idx, seen>> /\ idx > Len(Walked) /\ phase = Phases
    BY <1>1 DEF PusherEnd, PusherReturn, walkVars
  <2>2. Walked' = Walked
    BY <1>p, <2>1 DEF Walked
  <2>3. Plan \subseteq seen
    <3>1. CASE opt.inOrder
      <4>1. phase = 3 /\ Walked = archive.acl
        BY <2>1, <3>1 DEF Phases, Walked
      <4>2. Elems(archive.acl) \subseteq seen
        BY <2>1, <4>1, <1>0 DEF WalkInv, Elems
      <4> QED BY <3>1, <4>1, <4>2 DEF WalkInv, Plan
    <3>2. CASE ~opt.inOrder
      <4>1. phase = 1 /\ Walked = archive.toc
        BY <2>1, <3>2 DEF Phases, Walked
      <4>2. Elems(archive.toc) \subseteq seen
        BY <2>1, <3>2, <4>1, <1>0 DEF WalkInv, Elems
      <4> QED BY <3>2, <4>2 DEF Plan
    <3> QED BY <3>1, <3>2
  <2> QED
    BY <1>p, <2>1, <2>2, <2>3 DEF WalkInv
<1>2. CASE NextPhase
  <2>1. /\ UNCHANGED <<seen, ppc>> /\ phase' = phase + 1 /\ idx' = 1
        /\ idx > Len(Walked) /\ phase < Phases /\ ppc = "walk"
    BY <1>2 DEF NextPhase
  <2>2. opt.inOrder /\ phase \in {1, 2}
    BY <2>1 DEF Phases, TypeOK
  <2>3. CASE phase = 1
    <3>1. Elems(archive.order) \cap Elems(archive.toc) \subseteq seen
      BY <2>1, <2>2, <2>3, <1>0 DEF WalkInv, Walked, Elems
    <3> QED BY <1>p, <2>1, <2>3, <3>1 DEF WalkInv
  <2>4. CASE phase = 2
    <3>1. \A d \in Elems(archive.toc) : Kind[d] # "table" => d \in seen
      BY <2>1, <2>4, <1>0 DEF WalkInv, Walked, Elems
    <3> QED BY <1>p, <2>1, <2>4, <3>1 DEF WalkInv
  <2> QED BY <2>2, <2>3, <2>4
<1>3. CASE PusherSkip \/ PusherTake
  <2>1. /\ UNCHANGED phase /\ idx' = idx + 1 /\ idx \in 1..Len(Walked)
        /\ seen' = IF Listed(Walked[idx]) THEN seen \cup {Walked[idx]} ELSE seen
        /\ ppc' # "done"
    BY <1>3, <1>0 DEF PusherSkip, PusherTake
  <2>2. Walked' = Walked
    BY <1>p, <2>1 DEF Walked
  <2>3. \A i \in 1..(idx' - 1) : i \in 1..(idx - 1) \/ i = idx
    BY <2>1, <1>0
  <2>4. CASE phase = 1
    BY <1>p, <2>1, <2>2, <2>3, <2>4 DEF WalkInv, Listed
  <2>5. CASE phase = 2
    BY <1>p, <2>1, <2>2, <2>3, <2>5 DEF WalkInv, Listed
  <2>6. CASE phase \notin {1, 2}
    BY <1>p, <2>1, <2>2, <2>3, <2>6 DEF WalkInv, Listed, TypeOK, Phases
  <2> QED BY <2>4, <2>5, <2>6
<1>4. CASE PusherWaited \/ PusherDrop \/ PusherSend \/ PusherNoDefinition
           \/ PusherCancelled
  BY <1>4, <1>s DEF PusherWaited, PusherDrop, PusherSend, PusherNoDefinition,
     PusherCancelled, PusherReturn, walkVars
<1>5. ASSUME NEW w \in Worker, WorkerStep(w) PROVE WalkInv'
  BY <1>5, <1>s DEF WorkerStep, Connect, ConnectFails, Receive, ReceiveNil,
     WorkerCancelled, Begin, BeginFails, Commit, Tolerate, ExecuteFails,
     WorkerFails, Finish, pusherVars
<1>6. CASE Wait \/ UNCHANGED vars
  BY <1>6, <1>s DEF Wait, pusherVars, vars
<1> QED
  BY <1>1, <1>2, <1>3, <1>4, <1>5, <1>6 DEF Next, Pusher

\* At the end of a data stage without errors nothing is in flight.
LEMMA AllAccounted ==
  ASSUME TypeOK, FlowInv, ControlInv, WalkInv, PlanInv, AllReturned, ~cancelled
  PROVE  restored = Plan /\ tasks = <<>>
<1>1. ppc = "done" /\ \A w \in Worker : wpc[w] = "done"
  BY DEF AllReturned, ControlInv
<1>2. tasks = <<>>
  BY <1>1, RestoreAssumption DEF ControlInv
<1>3. current = NoEntry /\ \A w \in Worker : held[w] = NoEntry
  BY <1>1 DEF TypeOK, FlowInv, PlacesInv
<1>4. InFlight \subseteq {NoEntry}
  BY <1>2, <1>3 DEF InFlight, Elems
<1>5. Plan \subseteq restored
  BY <1>1, <1>4, RestoreAssumption DEF WalkInv, PlanInv, Plan
<1> QED
  BY <1>2, <1>5 DEF PlanInv

\* Only entries of the plan are in flight, and none gets lost.
LEMMA PlanInductive ==
  TypeOK /\ TypeOK' /\ FlowInv /\ ControlInv /\ WalkInv /\ PlanInv /\ [Next]_vars
    => PlanInv'
<1>. USE RestoreAssumption
<1> SUFFICES ASSUME TypeOK, TypeOK', FlowInv, ControlInv, WalkInv, PlanInv,
                    [Next]_vars
             PROVE  PlanInv'
  OBVIOUS
<1>p. /\ UNCHANGED <<archive, opt>> /\ Plan' = Plan
      /\ \A d \in DumpId : Skipped(d)' = Skipped(d)
  BY PlanFixed
<1>0. Walked \in Seq(DumpId) /\ Len(Walked) \in Nat
  BY WalkedType DEF TypeOK
<1>k. outcome = "ok" => AllReturned
  BY DEF ControlInv
<1>e. ASSUME cancelled', UNCHANGED <<restored, tasks, outcome>>,
             outcome # "ok", current' \in {current, NoEntry},
             \A w \in Worker : held'[w] \in {held[w], NoEntry}
      PROVE  PlanInv'
  BY <1>p, <1>e DEF PlanInv, TypeOK
<1>1. CASE PusherEnd
  <2>1. /\ UNCHANGED <<restored, tasks, held, seen, cancelled, outcome>>
        /\ current = NoEntry /\ current' = NoEntry
    BY <1>1 DEF PusherEnd, PusherReturn, walkVars, workerVars, TypeOK
  <2> QED BY <2>1, <1>p DEF PlanInv, InFlight
<1>2. CASE PusherNoDefinition \/ PusherCancelled
  <2>1. /\ cancelled' /\ UNCHANGED <<restored, tasks, held, outcome>>
        /\ current' = NoEntry /\ outcome # "ok"
    BY <1>2, <1>k DEF PusherNoDefinition, PusherCancelled, PusherReturn,
       workerVars, AllReturned
  <2> QED BY <2>1, <1>e
<1>3. CASE NextPhase \/ PusherWaited
  <2>1. UNCHANGED <<restored, tasks, held, seen, current, cancelled, outcome>>
    BY <1>3 DEF NextPhase, PusherWaited, walkVars, workerVars
  <2> QED BY <2>1, <1>p DEF Skipped, PlanInv, InFlight
<1>4. CASE PusherSkip
  <2>1. /\ UNCHANGED <<restored, tasks, held, current, cancelled, outcome>>
        /\ idx \in 1..Len(Walked)
        /\ \/ seen' = seen
           \/ seen' = seen \cup {Walked[idx]} /\ ~IsNeedRestore(Walked[idx])
    BY <1>4 DEF PusherSkip, workerVars, TypeOK
  <2>2. seen' \cap Plan = seen \cap Plan
    BY <2>1 DEF Plan
  <2> QED BY <2>1, <2>2, <1>p DEF Skipped, PlanInv, InFlight
<1>5. CASE PusherTake
  <2>1. /\ UNCHANGED <<restored, tasks, held, cancelled, outcome>>
        /\ idx \in 1..Len(Walked) /\ current = NoEntry /\ outcome # "ok"
        /\ seen' = seen \cup {Walked[idx]} /\ current' = Walked[idx]
        /\ Listed(Walked[idx]) /\ IsNeedRestore(Walked[idx])
    BY <1>5, <1>k DEF PusherTake, workerVars, TypeOK, AllReturned
  <2>2. Walked[idx] \in DumpId /\ Walked[idx] \in Elems(Walked)
    BY <2>1, <1>0 DEF Elems
  <2>3. ~Skipped(Walked[idx]) => Walked[idx] \in Plan
    <3>1. CASE phase = 1
      BY <2>1, <2>2, <3>1 DEF Plan, Walked, Listed
    <3>2. CASE phase # 1
      <4>1. opt.inOrder /\ phase \in {2, 3}
        BY <3>2 DEF TypeOK, Phases
      <4> QED BY <2>1, <2>2, <4>1 DEF Plan, Walked, Listed
    <3> QED BY <3>1, <3>2
  <2>4. /\ InFlight \subseteq InFlight' \cup {NoEntry}
        /\ Walked[idx] \in InFlight' /\ NoEntry \notin Plan
    BY <2>1 DEF InFlight, Plan
  <2>5. ~Skipped(current)' => Walked[idx] \in Plan
    BY <2>1, <2>2, <2>3, <1>p DEF Skipped
  <2> QED BY <2>1, <2>2, <2>4, <2>5, <1>p DEF PlanInv
<1>6. CASE PusherDrop
  <2>1. /\ UNCHANGED <<restored, tasks, held, seen, cancelled, outcome>>
        /\ Skipped(current) /\ current' = NoEntry
    BY <1>6 DEF PusherDrop, walkVars, workerVars
  <2>2. current \notin Plan
    BY <2>1 DEF Plan
  <2> QED BY <2>1, <2>2, <1>p DEF PlanInv, InFlight
<1>7. CASE PusherSend
  <2>1. /\ UNCHANGED <<restored, held, seen, cancelled, outcome>>
        /\ current \in DumpId /\ current' = NoEntry /\ ~Skipped(current)
        /\ tasks' = Append(tasks, current) /\ outcome # "ok"
    BY <1>7, <1>k DEF PusherSend, walkVars, workerVars, TypeOK, AllReturned
  <2>2. Elems(tasks') = Elems(tasks) \cup {current}
    BY <2>1, AppendFacts DEF TypeOK
  <2> QED BY <2>1, <2>2, <1>p DEF PlanInv, InFlight
<1>8. ASSUME NEW w \in Worker, WorkerStep(w) PROVE PlanInv'
  <2>0. UNCHANGED <<seen, current, outcome>>
    BY <1>8 DEF WorkerStep, Connect, ConnectFails, Receive, ReceiveNil,
       WorkerCancelled, Begin, BeginFails, Commit, Tolerate, ExecuteFails,
       WorkerFails, Finish, pusherVars
  <2>1. outcome # "ok"
    BY <1>8, <1>k DEF AllReturned, WorkerStep, Connect, ConnectFails, Receive,
       ReceiveNil, WorkerCancelled, Begin, BeginFails, Commit, Tolerate,
       ExecuteFails
  <2>2. CASE Connect(w) \/ ReceiveNil(w) \/ Begin(w)
    <3>1. UNCHANGED <<restored, tasks, held, cancelled>>
      BY <2>2 DEF Connect, ReceiveNil, Begin
    <3> QED BY <3>1, <2>0, <1>p DEF Skipped, PlanInv, InFlight
  <2>3. CASE ConnectFails(w) \/ WorkerCancelled(w) \/ BeginFails(w)
             \/ ExecuteFails(w)
    <3>1. /\ cancelled' /\ UNCHANGED <<restored, tasks>>
          /\ \A v \in Worker : held'[v] \in {held[v], NoEntry}
      BY <2>3 DEF ConnectFails, WorkerCancelled, BeginFails, ExecuteFails,
                  WorkerFails, TypeOK
    <3> QED BY <3>1, <2>0, <2>1, <1>e
  <2>4. CASE Receive(w)
    <3>1. /\ tasks # <<>> /\ tasks' = Tail(tasks)
          /\ UNCHANGED <<restored, cancelled>>
          /\ \A v \in Worker : held'[v] = IF v = w THEN Head(tasks) ELSE held[v]
          /\ held[w] = NoEntry
      BY <2>4 DEF Receive, TypeOK, FlowInv, PlacesInv
    <3>2. Head(tasks) \in Elems(tasks) /\ Elems(tasks') \subseteq Elems(tasks)
      BY <3>1, TailFacts DEF TypeOK
    <3>3. Elems(tasks) \subseteq Elems(tasks') \cup {Head(tasks)}
      <4>1. /\ Len(tasks) \in Nat /\ Len(tasks') = Len(tasks) - 1
            /\ \A i \in 1..Len(tasks') : tasks'[i] = tasks[i + 1]
            /\ Head(tasks) = tasks[1]
        BY <3>1 DEF TypeOK
      <4>2. ASSUME NEW i \in 1..Len(tasks), i # 1
            PROVE  tasks[i] \in Elems(tasks')
        <5>1. i - 1 \in 1..Len(tasks') /\ tasks'[i - 1] = tasks[i]
          BY <4>1, <4>2
        <5> QED BY <5>1 DEF Elems
      <4> QED BY <4>1, <4>2 DEF Elems
    <3>4. InFlight \subseteq InFlight' \cup {NoEntry}
      BY <3>1, <3>3, <2>0 DEF InFlight
    <3>5. NoEntry \notin Plan
      BY DEF Plan
    <3> QED BY <3>1, <3>2, <3>4, <3>5, <2>0, <2>1, <1>p DEF Skipped, PlanInv
  <2>5. CASE Commit(w) \/ Tolerate(w)
    <3>1. /\ UNCHANGED <<tasks, cancelled>>
          /\ restored' = restored \cup {held[w]} /\ held[w] # NoEntry
          /\ \A v \in Worker : held'[v] = IF v = w THEN NoEntry ELSE held[v]
      BY <2>5 DEF Commit, Tolerate, Finish, TypeOK
    <3>2. InFlight \subseteq InFlight' \cup {held[w]}
      BY <3>1, <2>0 DEF InFlight
    <3> QED BY <3>1, <3>2, <2>0, <2>1, <1>p DEF Skipped, PlanInv
  <2> QED
    BY <1>8, <2>2, <2>3, <2>4, <2>5 DEF WorkerStep
<1>9. CASE Wait
  <2>1. /\ UNCHANGED <<restored, tasks, held, seen, current, cancelled>>
        /\ outcome' = "ok" => AllReturned /\ ~cancelled
    BY <1>9 DEF Wait, pusherVars, workerVars
  <2> QED BY <2>1, AllAccounted, <1>p DEF Skipped, PlanInv, InFlight
<1>10. CASE UNCHANGED vars
  BY <1>10, <1>p DEF Skipped, vars, PlanInv, InFlight
<1> QED
  BY <1>1, <1>2, <1>3, <1>4, <1>5, <1>6, <1>7, <1>8, <1>9, <1>10
  DEF Next, Pusher

\* One job means one worker.
LEMMA OneWorker == Jobs = 1 => \A v, w \in Worker : v = w
  BY RestoreAssumption, FS_Singleton DEF Jobs

LEMMA JobsOneOrMore == Jobs \in Nat /\ (Jobs = 1 \/ Jobs > 1)
<1>1. Jobs \in Nat /\ Jobs # 0
  BY RestoreAssumption, FS_CardinalityType, FS_EmptySet DEF Jobs
<1> QED
  BY <1>1

\* With one job, the channel keeps the order of the dependencies.
LEMMA AheadInductive ==
  TypeOK /\ TypeOK' /\ FlowInv /\ WalkInv /\ PlanInv /\ AheadInv /\ [Next]_vars
    => AheadInv'
<1>. USE RestoreAssumption
<1> SUFFICES ASSUME TypeOK, TypeOK', FlowInv, WalkInv, PlanInv, AheadInv,
                    [Next]_vars, opt.inOrder, ~cancelled'
             PROVE  AheadInv'
  BY PlanFixed DEF AheadInv
<1>p. UNCHANGED <<archive, opt>> /\ Plan' = Plan
  BY PlanFixed
<1>d. archive.deps \in [DumpId -> SUBSET DumpId] /\ NoEntry \notin Plan
  BY ArchiveFacts DEF TypeOK, Plan
<1>0. Walked \in Seq(DumpId) /\ Len(Walked) \in Nat
  BY WalkedType DEF TypeOK
<1>s. ASSUME ~cancelled, UNCHANGED <<tasks, held, restored>>,
             seen \subseteq seen', current' \in {current, NoEntry}
      PROVE  AheadInv'
  BY <1>p, <1>s DEF AheadInv, Unrestored
<1>1. CASE PusherEnd \/ NextPhase \/ PusherSkip \/ PusherWaited \/ PusherDrop
  BY <1>1, <1>s DEF PusherEnd, NextPhase, PusherSkip, PusherWaited, PusherDrop,
     PusherReturn, walkVars, workerVars
<1>2. CASE PusherTake
  <2>1. /\ ~cancelled /\ UNCHANGED <<tasks, held, restored>>
        /\ idx \in 1..Len(Walked)
        /\ seen' = seen \cup {Walked[idx]} /\ current' = Walked[idx]
        /\ Listed(Walked[idx])
    BY <1>2 DEF PusherTake, workerVars, TypeOK
  <2>2. Walked[idx] \in DumpId
    BY <2>1, <1>0
  <2>3. archive.deps[Walked[idx]] \cap Plan \subseteq seen' \ {Walked[idx]}
    <3>1. CASE phase = 1
      <4>1. Walked = archive.order
        BY <3>1 DEF Walked
      <4>2. /\ archive.deps[Walked[idx]] \subseteq {Walked[j] : j \in 1..(idx - 1)}
            /\ Distinct(Walked)
        <5>1. archive \in Archives /\ idx \in 1..Len(archive.order)
          BY <4>1, <2>1 DEF TypeOK
        <5> QED BY <4>1, <5>1, OrderAssumption
      <4>3. ASSUME NEW j \in 1..(idx - 1), Walked[j] \in Plan
            PROVE  Walked[j] \in seen /\ Walked[j] # Walked[idx]
        <5>1. j \in 1..Len(Walked) /\ j # idx
          BY <2>1, <1>0
        <5>2. Kind[Walked[j]] = "table" /\ Walked[j] \in Elems(archive.order)
          BY <5>1, <4>1, <1>0, KindAssumption DEF TypeOK, Elems
        <5>3. Walked[j] \in Elems(archive.toc)
          BY <5>2, <4>3, KindAssumption DEF Plan, TypeOK
        <5> QED BY <5>1, <5>3, <4>2, <2>1, <3>1 DEF WalkInv, Distinct
      <4> QED BY <4>2, <4>3, <2>1
    <3>2. CASE phase # 1
      <4>1. phase \in {2, 3}
        BY <3>2 DEF TypeOK, Phases
      <4>2. Walked[idx] \in Elems(Walked)
        BY <2>1 DEF Elems
      <4>3. Kind[Walked[idx]] # "table"
        BY <4>1, <4>2, <2>1, KindAssumption DEF Listed, Walked, TypeOK
      <4> QED BY <4>3, <2>2, KindAssumption DEF TypeOK
    <3> QED BY <3>1, <3>2
  <2> QED BY <2>1, <2>3, <1>p DEF AheadInv, Unrestored
<1>3. CASE PusherSend
  <2>1. /\ ~cancelled /\ UNCHANGED <<seen, held, restored>>
        /\ current \in DumpId /\ current # NoEntry /\ current' = NoEntry
        /\ tasks' = Append(tasks, current)
    BY <1>3 DEF PusherSend, walkVars, workerVars, TypeOK
  <2>2. /\ Len(tasks') = Len(tasks) + 1 /\ Len(tasks) \in Nat
        /\ tasks'[Len(tasks) + 1] = current
        /\ \A i \in 1..Len(tasks) : tasks'[i] = tasks[i]
    BY <2>1 DEF TypeOK
  <2>3. archive.deps[current] \cap Plan \subseteq
          restored \cup {held[w] : w \in Worker}
                   \cup {tasks[j] : j \in 1..Len(tasks)}
    BY <2>1, <1>d DEF AheadInv, PlanInv, InFlight, Elems
  <2>4. ASSUME NEW i \in 1..Len(tasks'), Jobs = 1
        PROVE  archive.deps[tasks'[i]] \cap Plan \subseteq
                 restored \cup {held[w] : w \in Worker}
                          \cup {tasks'[j] : j \in 1..(i - 1)}
    <3>1. CASE i = Len(tasks) + 1
      <4>1. {tasks[j] : j \in 1..Len(tasks)} = {tasks'[j] : j \in 1..(i - 1)}
        BY <3>1, <2>2
      <4> QED BY <3>1, <4>1, <2>2, <2>3
    <3>2. CASE i \in 1..Len(tasks)
      <4>1. {tasks[j] : j \in 1..(i - 1)} = {tasks'[j] : j \in 1..(i - 1)}
        BY <3>2, <2>2
      <4> QED BY <3>2, <4>1, <2>1, <2>2, <2>4 DEF AheadInv
    <3> QED BY <3>1, <3>2, <2>2
  <2> QED BY <2>1, <2>4, <1>p DEF AheadInv, Unrestored
<1>4. ASSUME NEW w \in Worker, WorkerStep(w) PROVE AheadInv'
  <2>0. UNCHANGED <<seen, current>>
    BY <1>4 DEF WorkerStep, Connect, ConnectFails, Receive, ReceiveNil,
       WorkerCancelled, Begin, BeginFails, Commit, Tolerate, ExecuteFails,
       WorkerFails, Finish, pusherVars
  <2>1. CASE Connect(w) \/ ReceiveNil(w) \/ Begin(w)
    BY <2>0, <2>1, <1>s DEF Connect, ReceiveNil, Begin
  <2>2. CASE ConnectFails(w) \/ WorkerCancelled(w) \/ BeginFails(w)
             \/ ExecuteFails(w)
    BY <2>2 DEF ConnectFails, WorkerCancelled, BeginFails, ExecuteFails,
                WorkerFails
  <2>3. CASE Receive(w)
    <3>1. /\ ~cancelled /\ tasks # <<>> /\ tasks' = Tail(tasks)
          /\ UNCHANGED restored
          /\ \A v \in Worker : held'[v] = IF v = w THEN Head(tasks) ELSE held[v]
          /\ held[w] = NoEntry
      BY <2>3 DEF Receive, TypeOK, FlowInv, PlacesInv
    <3>2. /\ Len(tasks) \in Nat \ {0} /\ Len(tasks') = Len(tasks) - 1
          /\ \A i \in 1..Len(tasks') : tasks'[i] = tasks[i + 1]
          /\ Head(tasks) = tasks[1]
      BY <3>1 DEF TypeOK
    <3>3. ASSUME Jobs = 1
          PROVE  /\ {held[v] : v \in Worker} = {NoEntry}
                 /\ {held'[v] : v \in Worker} = {tasks[1]}
      BY <3>1, <3>2, <3>3, OneWorker
    <3>4. ASSUME Jobs = 1
          PROVE  \A v \in Worker : held'[v] # NoEntry => Unrestored(held[v])' = {}
      <4>1. archive.deps[tasks[1]] \cap Plan \subseteq
              restored \cup {NoEntry} \cup {tasks[j] : j \in 1..(1 - 1)}
        BY <3>1, <3>2, <3>3, <3>4 DEF AheadInv
      <4>2. archive.deps[tasks[1]] \cap Plan \subseteq restored
        BY <4>1, <1>d
      <4>3. \A v \in Worker : held'[v] = tasks[1]
        BY <3>1, <3>2, <3>4, OneWorker
      <4> QED BY <4>2, <4>3, <3>1, <1>p DEF Unrestored
    <3>5. ASSUME NEW i \in 1..Len(tasks'), Jobs = 1
          PROVE  archive.deps[tasks'[i]] \cap Plan \subseteq
                   restored \cup {held'[v] : v \in Worker}
                            \cup {tasks'[j] : j \in 1..(i - 1)}
      <4>1. i + 1 \in 1..Len(tasks) /\ tasks'[i] = tasks[i + 1]
        BY <3>2
      <4>2. archive.deps[tasks'[i]] \cap Plan \subseteq
              restored \cup {NoEntry} \cup {tasks[j] : j \in 1..((i + 1) - 1)}
        BY <4>1, <3>1, <3>3, <3>5 DEF AheadInv
      <4>3. ASSUME NEW j \in 1..((i + 1) - 1)
            PROVE  tasks[j] = tasks[1] \/ tasks[j] \in {tasks'[k] : k \in 1..(i - 1)}
        <5>1. CASE j = 1
          BY <5>1
        <5>2. CASE j # 1
          <6>1. j - 1 \in 1..(i - 1) /\ tasks'[j - 1] = tasks[j]
            BY <5>2, <3>2
          <6> QED BY <6>1
        <5> QED BY <5>1, <5>2
      <4>4. ASSUME NEW x \in archive.deps[tasks'[i]] \cap Plan
            PROVE  x \in restored \/ x \in {held'[v] : v \in Worker}
                     \/ x \in {tasks'[j] : j \in 1..(i - 1)}
        <5>1. x # NoEntry
          BY <1>d
        <5>2. x \in restored \/ \E j \in 1..((i + 1) - 1) : x = tasks[j]
          BY <4>2, <5>1
        <5>3. tasks[1] \in {held'[v] : v \in Worker}
          BY <3>3, <3>5
        <5> QED BY <5>2, <5>3, <4>3
      <4> QED BY <4>4
    <3> QED BY <3>1, <3>4, <3>5, <2>0, <1>p DEF AheadInv
  <2>4. CASE Commit(w) \/ Tolerate(w)
    <3>1. /\ ~cancelled /\ UNCHANGED tasks /\ restored' = restored \cup {held[w]}
          /\ \A v \in Worker : held'[v] = IF v = w THEN NoEntry ELSE held[v]
      BY <2>4 DEF Commit, Tolerate, Finish, TypeOK
    <3>2. restored \cup {held[v] : v \in Worker}
            \subseteq restored' \cup {held'[v] : v \in Worker}
      BY <3>1
    <3>3. ASSUME Jobs = 1, NEW i \in 1..Len(tasks)
          PROVE  archive.deps[tasks[i]] \cap Plan \subseteq
                   restored' \cup {held'[v] : v \in Worker}
                             \cup {tasks[j] : j \in 1..(i - 1)}
      BY <3>1, <3>2, <3>3 DEF AheadInv
    <3>4. \A v \in Worker : held'[v] # NoEntry /\ Jobs = 1
                               => Unrestored(held[v])' = {}
      BY <3>1, <1>p DEF AheadInv, Unrestored
    <3> QED BY <3>1, <3>3, <3>4, <2>0, <1>p DEF AheadInv
  <2> QED
    BY <1>4, <2>1, <2>2, <2>3, <2>4 DEF WorkerStep
<1>5. CASE Wait \/ UNCHANGED vars
  BY <1>5, <1>s DEF Wait, pusherVars, workerVars, vars
<1>6. CASE PusherNoDefinition \/ PusherCancelled
  BY <1>6 DEF PusherNoDefinition, PusherCancelled
<1> QED
  BY <1>1, <1>2, <1>3, <1>4, <1>5, <1>6 DEF Next, Pusher

\* What a worker is about to execute has the entries it depends on.
LEMMA ReadyToBegin ==
  ASSUME TypeOK, FlowInv, PlanInv, AheadInv, opt.inOrder,
         NEW w \in Worker, Begin(w)
  PROVE  Unrestored(held[w]) = {}
<1>1. ~cancelled /\ held[w] \in DumpId /\ held[w] # NoEntry
  BY RestoreAssumption DEF Begin, TypeOK
<1>2. CASE Jobs = 1
  BY <1>1, <1>2 DEF AheadInv
<1>3. CASE Jobs > 1
  BY <1>1, <1>3 DEF FlowInv, WaitedInv, MustWait, DependenciesAreRestored,
                    Unrestored
<1> QED
  BY <1>2, <1>3, JobsOneOrMore

\* How the entries begun and the entries restored change in a step.
LEMMA BegunStep ==
  ASSUME TypeOK, TypeOK', FlowInv, [Next]_vars
  PROVE  \/ Begun' = Begun /\ restored' = restored
         \/ \E w \in Worker : /\ Begin(w)
                              /\ Begun' = Begun \cup {held[w]}
                              /\ held[w] \notin Begun
                              /\ restored' = restored
         \/ \E w \in Worker : /\ Commit(w) \/ Tolerate(w)
                              /\ Begun' = Begun
                              /\ held[w] \in Begun \ restored
                              /\ restored' = restored \cup {held[w]}
<1>. USE RestoreAssumption
<1>s. ASSUME UNCHANGED <<wpc, held, restored>>
      PROVE  Begun' = Begun /\ restored' = restored
  BY <1>s DEF Begun
<1>1. CASE Pusher \/ Wait \/ UNCHANGED vars
  BY <1>1, <1>s DEF Pusher, PusherEnd, NextPhase, PusherSkip, PusherTake,
     PusherWaited, PusherDrop, PusherSend, PusherNoDefinition, PusherCancelled,
     Wait, workerVars, vars
<1>2. ASSUME NEW w \in Worker, WorkerStep(w)
      PROVE  \/ Begun' = Begun /\ restored' = restored
             \/ /\ Begin(w)
                /\ Begun' = Begun \cup {held[w]}
                /\ held[w] \notin Begun
                /\ restored' = restored
             \/ /\ Commit(w) \/ Tolerate(w)
                /\ Begun' = Begun
                /\ held[w] \in Begun \ restored
                /\ restored' = restored \cup {held[w]}
  <2>1. CASE Connect(w) \/ ReceiveNil(w) \/ ConnectFails(w) \/ WorkerCancelled(w)
    <3>1. /\ UNCHANGED <<held, restored>> /\ held[w] = NoEntry
          /\ \A v \in Worker : v # w => wpc'[v] = wpc[v]
      BY <2>1 DEF Connect, ReceiveNil, ConnectFails, WorkerCancelled,
                  WorkerFails, TypeOK, FlowInv, PlacesInv
    <3> QED BY <3>1 DEF Begun
  <2>2. CASE Receive(w) \/ BeginFails(w)
    <3>1. /\ UNCHANGED restored
          /\ \A v \in Worker : v # w => wpc'[v] = wpc[v] /\ held'[v] = held[v]
          /\ wpc[w] \in {"select", "begin"}
          /\ wpc'[w] = "begin" \/ held'[w] = NoEntry
      BY <2>2 DEF Receive, BeginFails, WorkerFails, TypeOK
    <3> QED BY <3>1 DEF Begun
  <2>3. CASE Begin(w)
    <3>1. /\ UNCHANGED <<held, restored>> /\ held[w] # NoEntry
          /\ \A v \in Worker : v # w => wpc'[v] = wpc[v]
          /\ wpc[w] = "begin" /\ wpc'[w] = "execute"
      BY <2>3 DEF Begin, TypeOK
    <3>2. held[w] \notin Begun
      BY <3>1 DEF Begun, FlowInv, PlacesInv
    <3>3. Begun' = Begun \cup {held[w]}
      BY <3>1 DEF Begun
    <3> QED BY <2>3, <3>1, <3>2, <3>3
  <2>4. CASE Commit(w) \/ Tolerate(w)
    <3>1. /\ restored' = restored \cup {held[w]} /\ held[w] # NoEntry
          /\ \A v \in Worker : v # w => wpc'[v] = wpc[v] /\ held'[v] = held[v]
          /\ wpc[w] = "execute" /\ held'[w] = NoEntry
      BY <2>4 DEF Commit, Tolerate, Finish, TypeOK
    <3>2. held[w] \in Begun \ restored
      BY <3>1 DEF Begun, FlowInv, PlacesInv
    <3>3. Begun' = Begun
      BY <3>1 DEF Begun
    <3> QED BY <2>4, <3>1, <3>2, <3>3
  <2>5. CASE ExecuteFails(w)
    <3>1. /\ UNCHANGED <<held, restored>>
          /\ \A v \in Worker : v # w => wpc'[v] = wpc[v]
          /\ wpc[w] = "execute" /\ wpc'[w] = "failed"
      BY <2>5 DEF ExecuteFails, WorkerFails, TypeOK
    <3> QED BY <3>1 DEF Begun
  <2> QED
    BY <1>2, <2>1, <2>2, <2>3, <2>4, <2>5 DEF WorkerStep
<1> QED
  BY <1>1, <1>2 DEF Next

\* The dependencies come first.
LEMMA OrderInductive ==
  TypeOK /\ TypeOK' /\ FlowInv /\ PlanInv /\ AheadInv /\ InOrder /\ [Next]_vars
    => InOrder'
<1> SUFFICES ASSUME TypeOK, TypeOK', FlowInv, PlanInv, AheadInv, InOrder,
                    [Next]_vars, opt.inOrder
             PROVE  InOrder'
  BY PlanFixed DEF InOrder
<1>p. UNCHANGED <<archive, opt>> /\ Plan' = Plan
  BY PlanFixed
<1>1. restored \subseteq restored'
  BY BegunStep
<1>2. \A d \in Begun' : d \in Begun \/ Unrestored(d) = {}
  BY BegunStep, ReadyToBegin
<1> QED
  BY <1>p, <1>1, <1>2 DEF InOrder, Unrestored

\* The invariant behind the contract holds in every reachable state.
THEOREM CompleteCorrect == Spec => []CompleteInv
<1>1. Init => CompleteInv
  <2> SUFFICES ASSUME Init PROVE CompleteInv
    OBVIOUS
  <2>1. Elems(tasks) = {} /\ Len(tasks) = 0
    BY DEF Init, Elems
  <2>2. ControlInv
    BY DEF Init, ControlInv
  <2>3. WalkInv
    BY DEF Init, WalkInv
  <2>4. PlanInv
    BY <2>1 DEF Init, PlanInv
  <2>5. AheadInv
    BY <2>1 DEF Init, AheadInv
  <2>6. InOrder
    BY DEF Init, InOrder, Begun
  <2> QED BY <2>2, <2>3, <2>4, <2>5, <2>6 DEF CompleteInv
<1>2. TypeOK /\ TypeOK' /\ FlowInv /\ CompleteInv /\ [Next]_vars => CompleteInv'
  BY ControlInductive, WalkInductive, PlanInductive, AheadInductive,
     OrderInductive
  DEF CompleteInv
<1> QED
  BY <1>1, <1>2, TypeCorrect, FlowCorrect, PTL DEF Spec

\* With --restore-in-order no entry is executed before the entries it depends
\* on, for every number of jobs.
THEOREM Ordered == Spec => []InOrder
<1>1. CompleteInv => InOrder
  BY DEF CompleteInv
<1> QED
  BY <1>1, CompleteCorrect, PTL

\* A data stage that reports success has restored its whole plan.
THEOREM SuccessIsComplete == Spec => []CompleteOnSuccess
<1>1. CompleteInv => CompleteOnSuccess
  BY DEF CompleteInv, PlanInv, CompleteOnSuccess
<1> QED
  BY <1>1, CompleteCorrect, PTL

\* The data stage implements its contract.
THEOREM Implements == Spec => ImplementsContract
<1>1. Init => Contract!Init
  <2> SUFFICES ASSUME Init PROVE Contract!Init
    OBVIOUS
  <2>1. Begun = {} /\ restored = {} /\ outcome = "running"
    BY DEF Init, Begun
  <2>2. Plan \subseteq DumpId
    BY DEF Plan
  <2> QED BY <2>1, <2>2 DEF Contract!Init
<1>2. TypeOK /\ TypeOK' /\ FlowInv /\ CompleteInv /\ [Next]_vars
        => [Contract!Next]_(Contract!vars)
  <2> SUFFICES ASSUME TypeOK, TypeOK', FlowInv, CompleteInv, [Next]_vars
               PROVE  Contract!Next \/ UNCHANGED Contract!vars
    OBVIOUS
  <2>. USE DEF CompleteInv
  <2>p. UNCHANGED <<archive, opt>> /\ Plan' = Plan
    BY PlanFixed
  <2>1. CASE Wait
    <3>1. /\ outcome = "running" /\ AllReturned
          /\ outcome' = IF cancelled THEN "error" ELSE "ok"
          /\ Begun' = Begun /\ restored' = restored
      BY <2>1 DEF Wait, workerVars, Begun
    <3>2. CASE cancelled
      BY <3>1, <3>2, <2>p DEF Contract!Next, Contract!Fail
    <3>3. CASE ~cancelled
      BY <3>1, <3>3, <2>p, AllAccounted DEF Contract!Next, Contract!Succeed
    <3> QED BY <3>2, <3>3
  <2>2. CASE ~Wait
    <3>1. outcome' = outcome
      BY <2>2 DEF Next, vars, Pusher, PusherEnd, NextPhase, PusherSkip,
         PusherTake, PusherWaited, PusherDrop, PusherSend, PusherNoDefinition,
         PusherCancelled, WorkerStep, Connect, ConnectFails, Receive,
         ReceiveNil, WorkerCancelled, Begin, BeginFails, Commit, Tolerate,
         ExecuteFails, WorkerFails, Finish
    <3>2. ASSUME NEW w \in Worker, Begin(w), Begun' = Begun \cup {held[w]},
                 held[w] \notin Begun, restored' = restored
          PROVE  Contract!Next
      <4>1. /\ held[w] \in DumpId /\ held[w] \in Plan /\ wpc[w] = "begin"
        BY <3>2, RestoreAssumption DEF Begin, TypeOK, PlanInv
      <4>2. outcome = "running"
        BY <4>1 DEF ControlInv, AllReturned, TypeOK
      <4>3. opt.inOrder => archive.deps[held[w]] \cap Plan \subseteq restored
        BY <3>2, ReadyToBegin DEF Unrestored
      <4>4. Contract!Begin(held[w])
        BY <3>1, <3>2, <4>1, <4>2, <4>3, <2>p DEF Contract!Begin
      <4> QED BY <4>1, <4>4 DEF Contract!Next
    <3>3. ASSUME NEW w \in Worker, Commit(w) \/ Tolerate(w), Begun' = Begun,
                 held[w] \in Begun \ restored,
                 restored' = restored \cup {held[w]}
          PROVE  Contract!Next
      <4>1. /\ held[w] \in DumpId /\ wpc[w] = "execute"
        BY <3>3 DEF Commit, Tolerate, TypeOK
      <4>2. outcome = "running"
        BY <4>1 DEF ControlInv, AllReturned, TypeOK
      <4>3. Contract!Finish(held[w])
        BY <3>1, <3>3, <4>1, <4>2, <2>p DEF Contract!Finish
      <4> QED BY <4>1, <4>3 DEF Contract!Next
    <3>4. ASSUME Begun' = Begun, restored' = restored
          PROVE  UNCHANGED Contract!vars
      BY <3>1, <3>4, <2>p DEF Contract!vars
    <3> QED BY <3>2, <3>3, <3>4, BegunStep
  <2> QED BY <2>1, <2>2
<1> QED
  BY <1>1, <1>2, TypeCorrect, FlowCorrect, CompleteCorrect, PTL
  DEF Spec, ImplementsContract, Contract!Spec
-----------------------------------------------------------------------------
(* The whole restore *)

\* Outside the data stage nothing of it changes.
LEMMA StagesApart == StageStep => UNCHANGED vars
  BY DEF StageStep, Prepare, PrepareFails, PreDataSkip, PreDataBefore,
         PreDataRestore, PreDataAfter, DataSkip, DataBefore, DataAfter,
         PostDataSkip, PostDataBefore, PostDataRestore, PostDataAfter,
         Finished, SkipStage, BeforeStage, ConnectionFails

\* A worker's step is one of its steps in the data stage, or sends a row.
LEMMA WorkersRefine ==
  ASSUME NEW w \in Worker, RunWorker(w)
  PROVE  WorkerStep(w) \/ UNCHANGED vars
  BY DEF RunWorker, ChannelStep, ExecuteStep, CopyBatch, CopyCommit, CopyFails,
         TxFails, InsertRow, InsertEnd, InsertFails, RestoreLargeObject, OtherEnd,
         OtherFails, Row, WorkerStep

\* Every step of a restore is a step of its data stage, or invisible to it.
LEMMA StepsRefine == [RunNext]_allVars => [Next]_vars
<1> SUFFICES ASSUME [RunNext]_allVars PROVE [Next]_vars
  OBVIOUS
<1>1. CASE StageStep
  BY <1>1, StagesApart
<1>2. CASE RunPusher \/ RunWait
  BY <1>2 DEF RunPusher, RunWait, Next
<1>3. ASSUME NEW w \in Worker, RunWorker(w) PROVE [Next]_vars
  BY <1>3, WorkersRefine DEF Next
<1>4. CASE UNCHANGED allVars
  BY <1>4 DEF allVars
<1> QED
  BY <1>1, <1>2, <1>3, <1>4 DEF RunNext

\* A restore implements its data stage: what is proved of RestoreOrder holds
\* of whole restores, with the rows, the scripts and pg_restore around it.
THEOREM ImplementsDataStage == RunSpec => Spec
<1>1. RunInit => Init
  BY DEF RunInit
<1> QED
  BY <1>1, StepsRefine, PTL DEF RunSpec, Spec

\* In a whole restore, too, no entry is executed before what it depends on.
THEOREM RunIsOrdered == RunSpec => []InOrder
  BY ImplementsDataStage, Ordered, PTL

\* A whole restore keeps the contract of the data stage.
THEOREM RunImplementsContract == RunSpec => ImplementsContract
  BY ImplementsDataStage, Implements, PTL

-----------------------------------------------------------------------------
RowsType == rows = [d \in DumpId |-> rows[d]]

\* What a COPY depends on: the entry and its rows, and what was restored.
copyVars == <<opt, run, rows, restored, broken>>

LEMMA CopyFrame ==
  ASSUME RowsType, CopiesAreWhole, UNCHANGED copyVars
  PROVE  RowsType' /\ CopiesAreWhole'
  BY DEF RowsType, CopiesAreWhole, copyVars

\* The end of an entry: a table is committed with all its rows, or rolled
\* back and then either not restored or marked as broken.
LEMMA CopyEnds ==
  ASSUME TypeOK, RowsType, CopiesAreWhole, NEW w \in Worker,
         CopyCommit(w) \/ CopyFails(w) \/ TxFails(w)
  PROVE  RowsType' /\ CopiesAreWhole'
<1>1. /\ held[w] \in DumpId
      /\ UNCHANGED <<opt, run>>
  BY DEF TypeOK, CopyCommit, CopyFails, TxFails, Executing, Left, Commit, Tolerate,
         Finish, ExecuteFails, WorkerFails
<1>2. CASE CopyCommit(w)
  <2>1. /\ rows' = [rows EXCEPT ![held[w]] =
                      [i \in 1..Len(run.rows[held[w]]) |-> i]]
        /\ restored' = restored \cup {held[w]} /\ broken' = broken
    BY <1>2 DEF CopyCommit, Left, Commit, Finish, Sent
  <2> QED
    BY <1>1, <2>1 DEF RowsType, CopiesAreWhole
<1>3. CASE CopyFails(w) \/ TxFails(w)
  <2>1. rows' = [rows EXCEPT ![held[w]] = rows[held[w]]]
    BY <1>3 DEF CopyFails, TxFails, Left
  <2>2. rows' = rows
    BY <1>1, <2>1 DEF RowsType
  <2>3. restored' \ broken' \subseteq restored \ broken
    BY <1>3 DEF CopyFails, TxFails, Tolerate, Finish, ExecuteFails,
              WorkerFails
  <2> QED
    BY <1>1, <2>2, <2>3 DEF RowsType, CopiesAreWhole
<1> QED
  BY <1>2, <1>3

\* INSERTs, large objects, sequences and ACLs touch no table of a COPY.
LEMMA OthersApart ==
  ASSUME TypeOK, RowsType, CopiesAreWhole, NEW w \in Worker,
         \/ InsertRow(w) \/ InsertEnd(w) \/ InsertFails(w)
         \/ RestoreLargeObject(w) \/ OtherEnd(w) \/ OtherFails(w)
  PROVE  RowsType' /\ CopiesAreWhole'
<1>1. /\ held[w] \in DumpId
      /\ opt.inserts \/ Kind[held[w]] # "table"
      /\ UNCHANGED <<opt, run>>
  BY DEF TypeOK, InsertRow, InsertEnd, InsertFails, RestoreLargeObject,
         OtherEnd, OtherFails, Executing, Left, Row, Commit, Tolerate, Finish,
         ExecuteFails, WorkerFails, vars
<1>2. \E r : rows' = [rows EXCEPT ![held[w]] = r]
  BY DEF InsertRow, InsertEnd, InsertFails, RestoreLargeObject, OtherEnd,
         OtherFails, Left, Row
<1>3. /\ restored' \subseteq restored \cup {held[w]}
      /\ broken \subseteq broken'
  BY DEF InsertRow, InsertEnd, InsertFails, RestoreLargeObject, OtherEnd,
         OtherFails, Row, Commit, Tolerate, Finish, ExecuteFails, WorkerFails,
         vars
<1>4. /\ RowsType'
      /\ \A d \in DumpId \ {held[w]} : rows'[d] = rows[d]
  BY <1>2 DEF RowsType
<1> QED
  BY <1>1, <1>3, <1>4 DEF CopiesAreWhole

\* CopiesAreWhole is inductive beside the types.
LEMMA CopyInductive ==
  TypeOK /\ RowsType /\ CopiesAreWhole /\ [RunNext]_allVars =>
    RowsType' /\ CopiesAreWhole'
<1> SUFFICES ASSUME TypeOK, RowsType, CopiesAreWhole, [RunNext]_allVars
             PROVE  RowsType' /\ CopiesAreWhole'
  OBVIOUS
<1>1. CASE StageStep
  <2>1. UNCHANGED <<vars, run, rows>>
    BY <1>1 DEF StageStep, Prepare, PrepareFails, PreDataSkip, PreDataBefore,
         PreDataRestore, PreDataAfter, DataSkip, DataBefore, DataAfter,
         PostDataSkip, PostDataBefore, PostDataRestore, PostDataAfter,
         Finished, SkipStage, BeforeStage, ConnectionFails, RunScripts,
         PgRestore, Goto, End, dataVars
  <2> QED
    BY <2>1, CopyFrame DEF vars, copyVars
<1>2. CASE RunPusher \/ RunWait
  <2>1. Pusher => UNCHANGED <<opt, restored, broken>>
    BY DEF Pusher, PusherEnd, NextPhase, PusherSkip, PusherTake, PusherWaited,
         PusherDrop, PusherSend, PusherNoDefinition, PusherCancelled,
         workerVars
  <2>2. Wait => UNCHANGED <<opt, restored, broken>>
    BY DEF Wait, workerVars
  <2>3. UNCHANGED <<run, rows>>
    BY <1>2 DEF RunPusher, RunWait, runVars, dataVars
  <2> QED
    BY <1>2, <2>1, <2>2, <2>3, CopyFrame DEF RunPusher, RunWait, copyVars
<1>3. ASSUME NEW w \in Worker, RunWorker(w)
      PROVE  RowsType' /\ CopiesAreWhole'
  <2>1. CASE ChannelStep(w) /\ UNCHANGED runVars
    <3>1. UNCHANGED <<opt, restored, broken>>
      BY <2>1 DEF ChannelStep, Connect, ConnectFails, Receive, ReceiveNil,
           WorkerCancelled, Begin, BeginFails, WorkerFails
    <3> QED
      BY <2>1, <3>1, CopyFrame DEF runVars, dataVars, copyVars
  <2>2. CASE CopyBatch(w)
    BY <2>2, CopyFrame DEF CopyBatch, vars, copyVars
  <2>3. CASE CopyCommit(w) \/ CopyFails(w) \/ TxFails(w)
    BY <2>3, CopyEnds
  <2>4. CASE \/ InsertRow(w) \/ InsertEnd(w) \/ InsertFails(w)
             \/ RestoreLargeObject(w) \/ OtherEnd(w) \/ OtherFails(w)
    BY <2>4, OthersApart
  <2> QED
    BY <1>3, <2>1, <2>2, <2>3, <2>4 DEF RunWorker, ExecuteStep
<1>4. CASE UNCHANGED allVars
  BY <1>4, CopyFrame DEF allVars, vars, runVars, dataVars, copyVars
<1> QED
  BY <1>1, <1>2, <1>3, <1>4 DEF RunNext

\* For every batch size and every number of rows, of jobs and of failures, a
\* COPY stores all rows of a table or none of them.
THEOREM CopyIsWhole == RunSpec => []CopiesAreWhole
<1>1. RunInit => RowsType /\ CopiesAreWhole
  BY DEF RunInit, Init, RowsType, CopiesAreWhole
<1>2. RunSpec => []TypeOK
  BY ImplementsDataStage, TypeCorrect, PTL
<1> QED
  BY <1>1, <1>2, CopyInductive, PTL DEF RunSpec

-----------------------------------------------------------------------------
(* Sequences and their prefixes *)

\* A concatenation begins with its first part.
LEMMA ConcatPrefix ==
  ASSUME NEW S, NEW s \in Seq(S), NEW t \in Seq(S)
  PROVE  IsPrefix(s, s \o t)
<1>1. /\ Len(s) \in Nat /\ Len(s \o t) = Len(s) + Len(t)
      /\ Len(t) \in Nat /\ \A i \in 1..Len(s) : (s \o t)[i] = s[i]
  OBVIOUS
<1> QED
  BY <1>1 DEF IsPrefix

\* What begins a part of a concatenation and what is before it begins the whole.
LEMMA PartPrefix ==
  ASSUME NEW S, NEW s \in Seq(S), NEW t \in Seq(S), NEW u \in Seq(S), NEW n \in 0..Len(t)
  PROVE  /\ SubSeq(t, 1, n) \in Seq(S) /\ IsPrefix(s \o SubSeq(t, 1, n), (s \o t) \o u)
<1> DEFINE a == SubSeq(t, 1, n)
           b == SubSeq(t, n + 1, Len(t))
<1>1. Len(t) \in Nat /\ n \in 0..Len(t) /\ n + 1 \in Int
  OBVIOUS
<1>2. a \in Seq(S) /\ b \in Seq(S)
  BY <1>1, SubSeqProperties
<1>3. a \o b = t
  <2>1. 1 \in 1..Len(t) + 1 /\ n \in (1 - 1)..Len(t) /\ Len(t) \in n..Len(t)
    BY <1>1
  <2>2. a \o b = SubSeq(t, 1, Len(t))
    BY <2>1, ConcatAdjacentSubSeq
  <2> QED BY <2>2, SubSeqFull
<1> HIDE DEF a, b
<1>4. /\ (s \o t) \o u = ((s \o a) \o b) \o u
      /\ ((s \o a) \o b) \o u = (s \o a) \o (b \o u)
      /\ s \o a \in Seq(S) /\ b \o u \in Seq(S)
  <2>1. s \o a \in Seq(S) /\ b \o u \in Seq(S)
    BY <1>2, ConcatProperties
  <2>0. ASSUME NEW x \in Seq(S), NEW y \in Seq(S), NEW z \in Seq(S)
        PROVE  (x \o y) \o z = x \o (y \o z)
    BY ConcatAssociative
  <2>2. ((s \o a) \o b) \o u = (s \o a) \o (b \o u)
    <3> DEFINE c == s \o a
    <3>1. c \in Seq(S)
      BY <2>1
    <3> HIDE DEF c
    <3>2. (c \o b) \o u = c \o (b \o u)
      BY <1>2, <2>0, <3>1
    <3> QED BY <3>2 DEF c
  <2>3. (s \o a) \o b = s \o (a \o b)
    BY <1>2, <2>0
  <2> QED BY <1>3, <2>1, <2>2, <2>3
<1>5. IsPrefix(s \o a, (s \o a) \o (b \o u))
  BY <1>4, ConcatPrefix
<1> QED
  BY <1>2, <1>4, <1>5 DEF a

-----------------------------------------------------------------------------
(* Filters, and the statements of pg_restore *)

\* What a filter has taken of the first elements is given by what it has taken
\* of one fewer.
LEMMA FiltersRecursion ==
  ASSUME NEW S, NEW T, NEW s \in Seq(T)
  PROVE  Filters(s, S) =
           [k \in 0..Len(s) |->
              IF k = 0 THEN <<>>
              ELSE IF s[k] \in S THEN Append(Filters(s, S)[k - 1], s[k])
                                 ELSE Filters(s, S)[k - 1]]
<1> DEFINE n == Len(s)
           After(x, k) == IF s[k] \in S THEN Append(x, s[k]) ELSE x
           Is(f, k) == f = [i \in 0..k |-> IF i = 0 THEN <<>> ELSE After(f[i - 1], i)]
           Q == {k \in Nat : \E f : Is(f, k)}
<1>0. n \in Nat
  OBVIOUS
<1>1. 0 \in Q
  <2> DEFINE f == [i \in 0..0 |-> <<>>]
  <2>1. Is(f, 0)
    OBVIOUS
  <2> HIDE DEF f, Is
  <2> QED BY <2>1
<1>2. ASSUME NEW k \in Nat, k \in Q PROVE k + 1 \in Q
  <2>1. PICK f : Is(f, k)
    BY <1>2
  <2> DEFINE g == [i \in 0..(k + 1) |-> IF i = k + 1 THEN After(f[k], k + 1) ELSE f[i]]
  <2>2. ASSUME NEW i \in 0..(k + 1)
        PROVE  g[i] = IF i = 0 THEN <<>> ELSE After(g[i - 1], i)
    <3> HIDE DEF After
    <3>1. CASE i = k + 1
      <4>1. k \in 0..(k + 1) /\ k # k + 1 /\ g[k] = f[k]
        OBVIOUS
      <4> QED BY <3>1, <4>1
    <3>2. CASE i # k + 1
      <4>1. i \in 0..k /\ g[i] = f[i]
        BY <3>2
      <4>2. i # 0 => i - 1 \in 0..(k + 1) /\ i - 1 # k + 1 /\ g[i - 1] = f[i - 1]
        BY <4>1
      <4>3. f[i] = IF i = 0 THEN <<>> ELSE After(f[i - 1], i)
        BY <2>1, <4>1
      <4> QED BY <4>1, <4>2, <4>3
    <3> QED BY <3>1, <3>2
  <2>3. Is(g, k + 1)
    BY <2>2
  <2> HIDE DEF g, Is
  <2> QED BY <2>3
<1>3. \E f : Is(f, n)
  <2>1. Nat \subseteq Q
    <3> HIDE DEF Q
    <3> QED BY <1>1, <1>2, NatSetInduction
  <2> QED BY <1>0, <2>1
<1> DEFINE W == CHOOSE f : Is(f, n)
<1>4. Is(W, n)
  BY <1>3
<1>5. Filters(s, S) = W
  BY DEF Filters
<1> QED
  BY <1>4, <1>5

\* Filters by recursion: the first k elements give what the first k - 1 give,
\* with the k-th appended if it is in the set.
LEMMA FiltersStep ==
  ASSUME NEW S, NEW T, NEW s \in Seq(T)
  PROVE  /\ Filters(s, S)[0] = <<>> /\ Len(s) \in Nat
         /\ \A k \in 1..Len(s) :
              Filters(s, S)[k] = IF s[k] \in S THEN Append(Filters(s, S)[k - 1], s[k])
                                               ELSE Filters(s, S)[k - 1]
<1> DEFINE F == Filters(s, S)
           n == Len(s)
<1>1. F = [k \in 0..n |-> IF k = 0 THEN <<>>
                          ELSE IF s[k] \in S THEN Append(F[k - 1], s[k]) ELSE F[k - 1]]
  BY FiltersRecursion
<1>2. n \in Nat
  OBVIOUS
<1> HIDE DEF F, n
<1>3. F[0] = <<>>
  <2>1. 0 \in 0..n
    BY <1>2
  <2> QED BY <1>1, <2>1
<1>4. ASSUME NEW k \in 1..n
      PROVE  F[k] = IF s[k] \in S THEN Append(F[k - 1], s[k]) ELSE F[k - 1]
  <2>1. k \in 0..n /\ k # 0
    BY <1>2
  <2> QED BY <1>1, <2>1
<1> QED
  BY <1>2, <1>3, <1>4 DEF F, n

\* What a filter has taken of the first k elements: those that are in S, in
\* their order.
Takes(s, S, k, f) ==
    \E pos \in [1..Len(f) -> 1..k] :
        /\ \A m \in 1..Len(f) : s[pos[m]] \in S /\ f[m] = s[pos[m]]
        /\ \A m, l \in 1..Len(f) : m < l => pos[m] < pos[l]
        /\ \A i \in 1..k : s[i] \in S => \E m \in 1..Len(f) : pos[m] = i

\* What is taken of the first k elements are those in S, in their order.
LEMMA FiltersTake ==
  ASSUME NEW S, NEW T, NEW s \in Seq(T), NEW k \in 0..Len(s)
  PROVE  Filters(s, S)[k] \in Seq(T \cap S) /\ Takes(s, S, k, Filters(s, S)[k])
<1> DEFINE F == Filters(s, S)
           n == Len(s)
           Q == {i \in Nat : i <= n => F[i] \in Seq(T \cap S) /\ Takes(s, S, i, F[i])}
<1>0. n \in Nat /\ k \in 0..n /\ \A i \in 1..n : s[i] \in T
  OBVIOUS
<1>1. /\ F[0] = <<>>
      /\ \A i \in 1..n : F[i] = IF s[i] \in S THEN Append(F[i - 1], s[i]) ELSE F[i - 1]
  BY FiltersStep
<1> HIDE DEF F, n
<1>2. 0 \in Q
  <2>1. F[0] \in Seq(T \cap S) /\ Len(F[0]) = 0
    BY <1>1
  <2>2. Takes(s, S, 0, F[0])
    <3> DEFINE pos == [m \in 1..0 |-> 1]
    <3>1. pos \in [1..Len(F[0]) -> 1..0]
      BY <2>1
    <3> QED BY <2>1, <3>1 DEF Takes
  <2> QED BY <2>1, <2>2
<1>3. ASSUME NEW i \in Nat, i \in Q PROVE i + 1 \in Q
  <2> SUFFICES ASSUME i + 1 <= n
               PROVE  F[i + 1] \in Seq(T \cap S) /\ Takes(s, S, i + 1, F[i + 1])
    OBVIOUS
  <2> DEFINE f == F[i]
             x == s[i + 1]
  <2>1. /\ i + 1 \in 1..n /\ (i + 1) - 1 = i /\ x \in T
        /\ f \in Seq(T \cap S) /\ Takes(s, S, i, f) /\ Len(f) \in Nat
    BY <1>0, <1>3
  <2>2. F[i + 1] = IF x \in S THEN Append(f, x) ELSE f
    BY <1>1, <2>1
  <2> HIDE DEF f
  <2>3. PICK pos \in [1..Len(f) -> 1..i] :
          /\ \A m \in 1..Len(f) : s[pos[m]] \in S /\ f[m] = s[pos[m]]
          /\ \A m, l \in 1..Len(f) : m < l => pos[m] < pos[l]
          /\ \A j \in 1..i : s[j] \in S => \E m \in 1..Len(f) : pos[m] = j
    BY <2>1 DEF Takes
  <2>4. CASE x \in S
    <3> DEFINE g == Append(f, x)
               at2 == [m \in 1..(Len(f) + 1) |-> IF m = Len(f) + 1 THEN i + 1 ELSE pos[m]]
    <3>1. /\ g \in Seq(T \cap S) /\ Len(g) = Len(f) + 1 /\ g[Len(f) + 1] = x
          /\ \A m \in 1..Len(f) : g[m] = f[m]
      BY <2>1, <2>4
    <3>2. /\ at2 \in [1..Len(g) -> 1..(i + 1)] /\ at2[Len(f) + 1] = i + 1
          /\ \A m \in 1..Len(f) : at2[m] = pos[m] /\ pos[m] \in 1..i
      <4>1. \A m \in 1..Len(f) : pos[m] \in 1..i /\ m # Len(f) + 1
        BY <2>1
      <4>2. \A m \in 1..Len(g) : m \in 1..Len(f) \/ m = Len(f) + 1
        BY <2>1, <3>1
      <4>3. i + 1 \in 1..(i + 1) /\ 1..i \subseteq 1..(i + 1)
        OBVIOUS
      <4>4. \A m \in 1..Len(g) : (IF m = Len(f) + 1 THEN i + 1 ELSE pos[m]) \in 1..(i + 1)
        BY <4>1, <4>2, <4>3
      <4>5. at2 \in [1..Len(g) -> 1..(i + 1)]
        BY <3>1, <4>4
      <4>6. Len(f) + 1 \in 1..(Len(f) + 1) /\ 1..Len(f) \subseteq 1..(Len(f) + 1)
        BY <2>1
      <4> QED BY <4>1, <4>5, <4>6
    <3>3. \A m \in 1..Len(g) : m \in 1..Len(f) \/ m = Len(f) + 1
      BY <2>1, <3>1
    <3> HIDE DEF g, at2
    <3>4. \A m \in 1..Len(g) : s[at2[m]] \in S /\ g[m] = s[at2[m]]
      BY <2>3, <2>4, <3>1, <3>2, <3>3 DEF x
    <3>5. \A m, l \in 1..Len(g) : m < l => at2[m] < at2[l]
      <4> SUFFICES ASSUME NEW m \in 1..Len(g), NEW l \in 1..Len(g), m < l
                   PROVE  at2[m] < at2[l]
        OBVIOUS
      <4>1. m \in 1..Len(f)
        BY <2>1, <3>1
      <4>2. CASE l \in 1..Len(f)
        BY <2>3, <3>2, <4>1, <4>2
      <4>3. CASE l = Len(f) + 1
        BY <3>2, <4>1, <4>3
      <4> QED BY <3>3, <4>2, <4>3
    <3>6. ASSUME NEW j \in 1..(i + 1), s[j] \in S PROVE \E m \in 1..Len(g) : at2[m] = j
      <4>1. CASE j = i + 1
        BY <2>1, <3>1, <3>2, <4>1
      <4>2. CASE j \in 1..i
        <5>1. PICK m \in 1..Len(f) : pos[m] = j
          BY <2>3, <3>6, <4>2
        <5>2. m \in 1..Len(g) /\ at2[m] = j
          BY <2>1, <3>1, <3>2, <5>1
        <5> QED BY <5>2
      <4> QED BY <4>1, <4>2
    <3>7. Takes(s, S, i + 1, g)
      BY <3>2, <3>4, <3>5, <3>6 DEF Takes
    <3> QED BY <2>2, <2>4, <3>1, <3>7 DEF g
  <2>5. CASE x \notin S
    <3>1. pos \in [1..Len(f) -> 1..(i + 1)]
      <4>1. \A m \in 1..Len(f) : pos[m] \in 1..(i + 1)
        BY <2>1
      <4> QED BY <4>1
    <3>2. \A j \in 1..(i + 1) : s[j] \in S => j \in 1..i
      BY <2>5 DEF x
    <3>3. Takes(s, S, i + 1, f)
      BY <2>3, <3>1, <3>2 DEF Takes
    <3> QED BY <2>1, <2>2, <2>5, <3>3
  <2> QED BY <2>4, <2>5
<1>4. k \in Q
  <2>1. k \in Nat
    BY <1>0
  <2> HIDE DEF Q
  <2> QED BY <1>2, <1>3, <2>1, NatSetInduction
<1> QED
  BY <1>0, <1>4 DEF F

\* What a filter has taken begins what it takes later.
LEMMA FiltersPrefix ==
  ASSUME NEW S, NEW T, NEW s \in Seq(T), NEW j \in 0..Len(s)
  PROVE  IsPrefix(Filters(s, S)[j], Filter(s, S))
<1> DEFINE F == Filters(s, S)
           n == Len(s)
           Q == {k \in Nat : j + k <= n => \E u \in Seq(T) : F[j + k] = F[j] \o u}
<1>0. n \in Nat /\ j \in 0..n /\ F[j] \in Seq(T)
  <2>1. F[j] \in Seq(T \cap S)
    BY FiltersTake
  <2>2. T \cap S \subseteq T
    OBVIOUS
  <2> HIDE DEF F
  <2> QED BY <2>1, <2>2, SeqMonotonic
<1>1. \A i \in 1..n : /\ F[i] = IF s[i] \in S THEN Append(F[i - 1], s[i]) ELSE F[i - 1]
                      /\ s[i] \in T
  BY FiltersStep
<1>2. Filter(s, S) = F[n]
  BY DEF Filter
<1> HIDE DEF F, n
<1>3. 0 \in Q
  <2>1. F[j] \o <<>> = F[j] /\ <<>> \in Seq(T)
    BY <1>0, ConcatEmptySeq
  <2>2. j + 0 = j
    BY <1>0
  <2> QED BY <2>1, <2>2
<1>4. ASSUME NEW k \in Nat, k \in Q PROVE k + 1 \in Q
  <2> SUFFICES ASSUME j + (k + 1) <= n PROVE \E u \in Seq(T) : F[j + (k + 1)] = F[j] \o u
    OBVIOUS
  <2>1. /\ j + k <= n /\ j + (k + 1) \in 1..n /\ (j + (k + 1)) - 1 = j + k
    BY <1>0
  <2>2. PICK u \in Seq(T) : F[j + k] = F[j] \o u
    BY <1>4, <2>1
  <2> DEFINE x == s[j + (k + 1)]
  <2>3. F[j + (k + 1)] = (IF x \in S THEN Append(F[j] \o u, x) ELSE F[j] \o u) /\ x \in T
    BY <1>1, <2>1, <2>2
  <2> HIDE DEF x
  <2>4. Append(F[j] \o u, x) = F[j] \o Append(u, x) /\ Append(u, x) \in Seq(T)
    <3> DEFINE v == F[j]
    <3>1. v \in Seq(T) /\ u \in Seq(T) /\ x \in T
      BY <1>0, <2>2, <2>3
    <3> HIDE DEF v
    <3>2. Append(v \o u, x) = v \o Append(u, x) /\ Append(u, x) \in Seq(T)
      <4>1. <<x>> \in Seq(T) /\ v \o u \in Seq(T)
        BY <3>1
      <4>2. Append(v \o u, x) = (v \o u) \o <<x>> /\ Append(u, x) = u \o <<x>>
        BY <3>1, <4>1, AppendIsConcat
      <4>3. (v \o u) \o <<x>> = v \o (u \o <<x>>)
        BY <3>1, <4>1, ConcatAssociative
      <4>4. Append(u, x) \in Seq(T)
        BY <3>1
      <4> QED BY <4>2, <4>3, <4>4
    <3> QED BY <3>2 DEF v
  <2> QED BY <2>2, <2>3, <2>4
<1>5. n - j \in Q
  <2>1. n - j \in Nat
    BY <1>0
  <2> HIDE DEF Q
  <2> QED BY <1>3, <1>4, <2>1, NatSetInduction
<1>6. PICK u \in Seq(T) : F[n] = F[j] \o u
  <2>1. j + (n - j) = n
    BY <1>0
  <2> QED BY <1>5, <2>1
<1> QED
  BY <1>0, <1>2, <1>6, ConcatPrefix DEF F

\* Filter of a pair, as a concatenation.
LEMMA FilterPair ==
  ASSUME NEW a, NEW b, NEW S
  PROVE  Filter(<<a, b>>, S) = (IF a \in S THEN <<a>> ELSE <<>>)
                               \o (IF b \in S THEN <<b>> ELSE <<>>)
<1> DEFINE s == <<a, b>>
           F == Filters(s, S)
<1>1. s \in Seq({a, b}) /\ Len(s) = 2 /\ s[1] = a /\ s[2] = b
  OBVIOUS
<1>2. /\ F[0] = <<>>
      /\ \A k \in 1..2 : F[k] = IF s[k] \in S THEN Append(F[k - 1], s[k]) ELSE F[k - 1]
  <2> HIDE DEF s
  <2> QED BY <1>1, FiltersStep
<1>3. Filter(s, S) = F[2]
  BY <1>1 DEF Filter
<1> HIDE DEF F, s
<1>4. F[1] = IF a \in S THEN <<a>> ELSE <<>>
  <2>1. 1 \in 1..2 /\ 1 - 1 = 0 /\ Append(<<>>, a) = <<a>>
    OBVIOUS
  <2> QED BY <1>1, <1>2, <2>1
<1>5. F[2] = IF b \in S THEN Append(F[1], b) ELSE F[1]
  <2>1. 2 \in 1..2 /\ 2 - 1 = 1
    OBVIOUS
  <2> QED BY <1>1, <1>2, <2>1
<1>6. F[2] = (IF a \in S THEN <<a>> ELSE <<>>) \o (IF b \in S THEN <<b>> ELSE <<>>)
  <2>1. CASE a \in S /\ b \in S
    <3>1. Append(<<a>>, b) = <<a>> \o <<b>>
      OBVIOUS
    <3> QED BY <1>4, <1>5, <2>1, <3>1
  <2>2. CASE a \in S /\ b \notin S
    <3>1. <<a>> = <<a>> \o <<>>
      OBVIOUS
    <3> QED BY <1>4, <1>5, <2>2, <3>1
  <2>3. CASE a \notin S /\ b \in S
    <3>1. Append(<<>>, b) = <<>> \o <<b>>
      OBVIOUS
    <3> QED BY <1>4, <1>5, <2>3, <3>1
  <2>4. CASE a \notin S /\ b \notin S
    <3>1. <<>> = <<>> \o <<>>
      OBVIOUS
    <3> QED BY <1>4, <1>5, <2>4, <3>1
  <2> QED BY <2>1, <2>2, <2>3, <2>4
<1> QED
  BY <1>3, <1>6 DEF s

\* The database after n statements is the one after n - 1 and the n-th.
LEMMA ExecuteRecursion ==
  ASSUME NEW T, NEW stmts \in Seq(T)
  PROVE  /\ Len(stmts) \in Nat
         /\ Execute(stmts)[0] = [db |-> db, failed |-> FALSE]
         /\ \A n \in 1..Len(stmts) :
              Execute(stmts)[n] = Executed(Execute(stmts)[n - 1], stmts[n])
<1> DEFINE n == Len(stmts)
           x0 == [db |-> db, failed |-> FALSE]
           Is(f, k) == f = [i \in 0..k |-> IF i = 0 THEN x0 ELSE Executed(f[i - 1], stmts[i])]
           Q == {k \in Nat : \E f : Is(f, k)}
<1>0. n \in Nat
  OBVIOUS
<1>1. 0 \in Q
  <2> HIDE DEF x0
  <2> DEFINE f == [i \in 0..0 |-> x0]
  <2>1. Is(f, 0)
    OBVIOUS
  <2> HIDE DEF f, Is
  <2> QED BY <2>1
<1>2. ASSUME NEW k \in Nat, k \in Q PROVE k + 1 \in Q
  <2> HIDE DEF x0
  <2>1. PICK f : Is(f, k)
    BY <1>2
  <2> DEFINE g == [i \in 0..(k + 1) |-> IF i = k + 1 THEN Executed(f[k], stmts[k + 1]) ELSE f[i]]
  <2>2. ASSUME NEW i \in 0..(k + 1)
        PROVE  g[i] = IF i = 0 THEN x0 ELSE Executed(g[i - 1], stmts[i])
    <3>1. CASE i = k + 1
      <4>1. k \in 0..(k + 1) /\ k # k + 1 /\ g[k] = f[k]
        OBVIOUS
      <4> QED BY <3>1, <4>1
    <3>2. CASE i # k + 1
      <4>1. i \in 0..k /\ g[i] = f[i]
        BY <3>2
      <4>2. i # 0 => i - 1 \in 0..(k + 1) /\ i - 1 # k + 1 /\ g[i - 1] = f[i - 1]
        BY <4>1
      <4>3. f[i] = IF i = 0 THEN x0 ELSE Executed(f[i - 1], stmts[i])
        BY <2>1, <4>1
      <4> QED BY <4>1, <4>2, <4>3
    <3> QED BY <3>1, <3>2
  <2>3. Is(g, k + 1)
    BY <2>2
  <2> HIDE DEF g, Is
  <2> QED BY <2>3
<1>3. \E f : Is(f, n)
  <2>1. Nat \subseteq Q
    <3> HIDE DEF Q
    <3> QED BY <1>1, <1>2, NatSetInduction
  <2> QED BY <1>0, <2>1
<1> DEFINE W == CHOOSE f : Is(f, n)
<1>4. Is(W, n)
  BY <1>3
<1>5. Execute(stmts) = W
  BY DEF Execute
<1> HIDE DEF W, x0, n
<1>6. W[0] = x0
  <2>1. 0 \in 0..n
    BY <1>0
  <2> QED BY <1>4, <2>1
<1>7. \A k \in 1..n : W[k] = Executed(W[k - 1], stmts[k])
  <2>1. \A k \in 1..n : k \in 0..n /\ k # 0
    BY <1>0
  <2> QED BY <1>4, <2>1
<1> QED
  BY <1>0, <1>5, <1>6, <1>7 DEF x0, n

-----------------------------------------------------------------------------
(* The inductive invariant *)

Runs == {c.run : c \in Cases}

Early == {"prepare", "refuse", "pre-data", "pre-restore", "pre-after", "data"}
Late == {"post-data", "post-restore", "post-after", "finished"}
Restored == {"pre-after", "data", "tasks", "post-data", "post-restore"}

\* The names of scripts and sections.
Name == STRING \cup Sections

RunType ==
    /\ run \in Runs /\ stage \in Early \cup {"tasks"} \cup Late \cup {"end"}
    /\ create \in BOOLEAN /\ cleanToc \in BOOLEAN
    /\ db \in [Objects -> {"none", "old", "new"}]
    /\ ran \in Seq(Name) /\ applied \subseteq STRING
    /\ at \in [Worker -> Nat] /\ rows \in [DumpId -> Seq(Nat)]
    /\ result \in {"running", "ok", "error"}

Before(s) == IF s = "pre-data" /\ run.create THEN <<>> ELSE Ids(Todo(s, "before"))

\* How much of the plan has run, in each stage.
RanInv ==
    /\ stage \in {"prepare", "refuse", "pre-data"} => ran = <<>>
    /\ stage = "pre-restore" => ran = Before("pre-data")
    /\ stage = "pre-after" => ran = Before("pre-data") \o <<"pre-data">>
    /\ stage = "data" => ran = Part("pre-data")
    /\ stage = "tasks" => ran = Part("pre-data") \o Before("data")
    /\ stage = "post-data" => ran = Part("pre-data") \o Part("data")
    /\ stage = "post-restore" => ran = Part("pre-data") \o Part("data") \o Before("post-data")
    /\ stage = "post-after" =>
           ran = Part("pre-data") \o Part("data") \o Before("post-data") \o <<"post-data">>
    /\ stage = "finished" \/ result = "ok" => ran = Planned
    /\ IsPrefix(ran, Planned)

\* A section is restored only if it is wanted, and the data stage runs only
\* then.
StageInv ==
    /\ stage \in {"prepare", "refuse", "pre-data", "pre-restore", "pre-after"} =>
           create = run.create
    /\ stage \in {"pre-restore", "pre-after"} => PreDataWanted
    /\ stage = "tasks" => DataWanted
    /\ stage \in {"post-restore", "post-after"} => PostDataWanted
    /\ stage \in Early => outcome = "running"
    /\ stage \in Late \/ result = "ok" => outcome = IF DataWanted THEN "ok" ELSE "running"
    /\ result # "running" => stage = "end"
    /\ stage # "tasks" => \A w \in Worker : wpc[w] # "execute"
    /\ stage \in Early => restored = {} /\ rows = [d \in DumpId |-> <<>>]

\* What the scripts that ran have left.
ScriptInv ==
    \A s \in Sections : \A i, j \in 1..Len(run.scripts[s]) :
       LET a == run.scripts[s][i]
           b == run.scripts[s][j]
       IN  /\ a.kind = "command" /\ a.id \in Elems(ran) => a.id \in applied
           /\ a.id \in applied /\ b.kind = "query" =>
                 (i <= j \/ a.kind = "command" \/ a.when # b.when \/ b.id \in applied)

Phased == (run.clean \/ run.create) /\ run.section = "" /\ ~run.dataOnly

\* The objects of the database; a phased restore that tolerates no error has
\* replaced them.
DatabaseInv ==
    /\ db["database"] = "none" => db["pre-data"] = "none"
    /\ db["pre-data"] = "none" => db["post-data"] = "none"
    /\ stage \in {"prepare", "refuse", "pre-data", "pre-restore"} => db = run.db
    /\ stage \in Restored => db["post-data"] # "new"
    /\ stage \in Restored /\ PreDataWanted =>
           cleanToc = ((run.create \/ run.clean) /\ run.section = "")
    /\ Phased /\ opt.exitOnError =>
          /\ stage \in Restored => db["pre-data"] = "new" /\ db["post-data"] = "none"
          /\ stage \in {"post-after", "finished"} \/ result = "ok" =>
                db["pre-data"] = "new" /\ db["post-data"] = "new"

\* The entries whose rows are stored one by one, and what is stored of them
\* when k rows have been sent.
Inserted(d) == Kind[d] = "blobs" \/ (Kind[d] = "table" /\ opt.inserts)

AllRows(d) == [i \in 1..Len(run.rows[d]) |-> i]
Accepted(d) == {i \in 1..Len(run.rows[d]) : Verdict(d, i) = "ok"}
Stored(d, k) == IF Kind[d] = "blobs" THEN [i \in 1..k |-> i]
                                     ELSE Filters(AllRows(d), Accepted(d))[k]

Final(d) == Stored(d, Len(run.rows[d]))

\* A worker has stored what it was to store of the rows it has sent; what a
\* worker left is what it had stored, and all of it when nothing failed.
LoadInv ==
    /\ \A w \in Worker : wpc[w] # "execute" => at[w] = 0
    /\ \A d \in DumpId : rows[d] # <<>> => d \in Begun
    /\ \A w \in Worker : wpc[w] = "execute" /\ Inserted(held[w]) =>
          /\ at[w] <= Len(run.rows[held[w]])
          /\ rows[held[w]] = Stored(held[w], at[w])
    /\ opt.exitOnError => broken = {}
    /\ \A d \in DumpId : Inserted(d) =>
          /\ rows[d] # <<>> => \E k \in 0..Len(run.rows[d]) : rows[d] = Stored(d, k)
          /\ d \in restored \ broken => rows[d] = Final(d)

-----------------------------------------------------------------------------
(* Facts about the options and the plan *)

\* What the cases ensure of the run's options.
LEMMA RunFacts ==
  ASSUME NEW r \in Runs
  PROVE  /\ r \in RunOption
         /\ \A s \in Sections : r.scripts[s] \in Seq(Script)
         /\ \A d \in DumpId : r.rows[d] \in Seq({"ok", "conflict", "bad"})
         /\ r.db \in [Objects -> {"none", "old"}]
         /\ r.db["database"] = "none" => r.db["pre-data"] = "none"
         /\ r.db["pre-data"] = "none" => r.db["post-data"] = "none"
<1>1. PICK c \in Cases : r = c.run
  BY DEF Runs
<1>2. c \in [archive: Archive, opt: Option, run: RunOption]
  BY CaseAssumption
<1>3. r \in RunOption
  BY <1>1, <1>2
<1>4. /\ r.db["database"] = "none" => r.db["pre-data"] = "none"
      /\ r.db["pre-data"] = "none" => r.db["post-data"] = "none"
  BY <1>1, CaseAssumption
<1> QED
  BY <1>3, <1>4 DEF RunOption

\* An id names one script of one section.
LEMMA NamesFacts ==
  ASSUME NEW r \in Runs, NEW s \in Sections, NEW i \in 1..Len(r.scripts[s])
  PROVE  /\ r.scripts[s][i].id \notin Sections
         /\ \A u \in Sections : \A j \in 1..Len(r.scripts[u]) :
                r.scripts[s][i].id = r.scripts[u][j].id => s = u /\ i = j
<1>1. PICK c \in Cases : r = c.run
  BY DEF Runs
<1> QED
  BY <1>1, CaseAssumption

\* The scripts of a section that run at a moment, in the order of the section.
LEMMA TodoFacts ==
  ASSUME run \in Runs, NEW s \in Sections, NEW when
  PROVE  /\ Todo(s, when) \in Seq(Script) /\ Len(Todo(s, when)) \in Nat
         /\ Ids(Todo(s, when)) \in Seq(Name)
         /\ Len(Ids(Todo(s, when))) = Len(Todo(s, when))
         /\ \A m \in 1..Len(Todo(s, when)) : Ids(Todo(s, when))[m] = Todo(s, when)[m].id
         /\ \E pos \in [1..Len(Todo(s, when)) -> 1..Len(run.scripts[s])] :
               /\ \A m \in 1..Len(Todo(s, when)) :
                     /\ Todo(s, when)[m] = run.scripts[s][pos[m]]
                     /\ Todo(s, when)[m].when = when
               /\ \A m, l \in 1..Len(Todo(s, when)) : m < l => pos[m] < pos[l]
               /\ \A i \in 1..Len(run.scripts[s]) : run.scripts[s][i].when = when =>
                     \E m \in 1..Len(Todo(s, when)) : pos[m] = i
<1> DEFINE all == run.scripts[s]
           S == {x \in Elems(all) : x.when = when}
           t == Filters(all, S)[Len(all)]
<1>1. all \in Seq(Script) /\ Len(all) \in Nat
  BY RunFacts
<1>2. Todo(s, when) = t
  BY DEF Todo, Filter
<1>3. Len(all) \in 0..Len(all)
  BY <1>1
<1>4. t \in Seq(Script \cap S) /\ Takes(all, S, Len(all), t)
  <2> HIDE DEF all, S
  <2> QED BY <1>1, <1>3, FiltersTake
<1> HIDE DEF t
<1>5. t \in Seq(Script) /\ Len(t) \in Nat
  <2>1. Script \cap S \subseteq Script
    OBVIOUS
  <2> HIDE DEF S
  <2> QED BY <1>4, <2>1, SeqMonotonic
<1>6. \A m \in 1..Len(t) : t[m] \in Script /\ t[m].id \in Name
  <2>1. \A m \in 1..Len(t) : t[m] \in Script
    BY <1>5, ElementOfSeq
  <2>2. \A x \in Script : x.id \in Name
    BY DEF Script, Name
  <2> QED BY <2>1, <2>2
<1>7. /\ Ids(t) \in Seq(Name) /\ Len(Ids(t)) = Len(t)
      /\ \A m \in 1..Len(t) : Ids(t)[m] = t[m].id
  BY <1>5, <1>6 DEF Ids
<1>8. PICK pos \in [1..Len(t) -> 1..Len(all)] :
          /\ \A m \in 1..Len(t) : all[pos[m]] \in S /\ t[m] = all[pos[m]]
          /\ \A m, l \in 1..Len(t) : m < l => pos[m] < pos[l]
          /\ \A i \in 1..Len(all) : all[i] \in S => \E m \in 1..Len(t) : pos[m] = i
  <2> HIDE DEF all, S
  <2> QED BY <1>4 DEF Takes
<1>9. /\ \A x : x \in S => x.when = when
      /\ \A i \in 1..Len(all) : all[i].when = when => all[i] \in S
  BY DEF Elems
<1>10. /\ \A m \in 1..Len(t) : t[m] = all[pos[m]] /\ t[m].when = when
       /\ \A i \in 1..Len(all) : all[i].when = when => \E m \in 1..Len(t) : pos[m] = i
  <2> HIDE DEF all, S
  <2> QED BY <1>8, <1>9
<1> QED
  BY <1>2, <1>5, <1>7, <1>8, <1>10

\* Concatenation of names is associative.
LEMMA Associative ==
  ASSUME NEW x \in Seq(Name), NEW y \in Seq(Name), NEW z \in Seq(Name)
  PROVE  (x \o y) \o z = x \o (y \o z)
  BY ConcatAssociative

\* t goes on where s ends.
Begins(s, t) == \E u \in Seq(Name) : t = s \o u

\* A sequence begins itself and what is appended to it.
LEMMA BeginsFacts ==
  ASSUME NEW s \in Seq(Name), NEW t \in Seq(Name)
  PROVE  /\ s \o t \in Seq(Name) /\ Begins(s, s) /\ Begins(s, s \o t)
         /\ s \o <<>> = s /\ <<>> \o s = s
<1>1. s \o t \in Seq(Name)
  BY ConcatProperties
<1>2. s \o <<>> = s /\ <<>> \o s = s /\ <<>> \in Seq(Name)
  BY ConcatEmptySeq, EmptySeq
<1> QED
  BY <1>1, <1>2 DEF Begins

\* What begins the beginning begins the whole.
LEMMA BeginsTransitive ==
  ASSUME NEW s \in Seq(Name), NEW t \in Seq(Name), NEW v \in Seq(Name),
         Begins(s, t), Begins(t, v)
  PROVE  Begins(s, v)
<1>1. PICK x \in Seq(Name) : t = s \o x
  BY DEF Begins
<1>2. PICK y \in Seq(Name) : v = t \o y
  BY DEF Begins
<1>3. x \o y \in Seq(Name) /\ (s \o x) \o y = s \o (x \o y)
  BY ConcatProperties, ConcatAssociative
<1> QED
  BY <1>1, <1>2, <1>3 DEF Begins

\* What ran of the scripts t that follow s begins the plan p.
LEMMA BeginsPrefix ==
  ASSUME NEW s \in Seq(Name), NEW t \in Seq(Name), NEW p, Begins(s \o t, p),
         NEW n \in 0..Len(t)
  PROVE  /\ SubSeq(t, 1, n) \in Seq(Name) /\ IsPrefix(s \o SubSeq(t, 1, n), p)
         /\ SubSeq(t, 1, Len(t)) = t
<1>1. PICK u \in Seq(Name) : p = (s \o t) \o u
  BY DEF Begins
<1> QED
  BY <1>1, PartPrefix, SubSeqFull

PlanFacts ==
    LET p1 == Part("pre-data")
        p2 == Part("data")
        p3 == Part("post-data")
        b1 == Before("pre-data")
        b2 == Before("data")
        b3 == Before("post-data")
    IN  /\ p1 \in Seq(Name) /\ p1 \o p2 \in Seq(Name) /\ Planned \in Seq(Name)
        /\ b1 \in Seq(Name) /\ p1 \o b2 \in Seq(Name) /\ (p1 \o p2) \o b3 \in Seq(Name)
        /\ Begins(<<>>, Planned) /\ Begins(p1, Planned) /\ Begins(p1 \o p2, Planned)
        /\ Begins(Planned, Planned)
        /\ PreDataWanted =>
              /\ Begins(b1, Planned) /\ Begins(b1 \o <<"pre-data">>, Planned)
              /\ p1 = (b1 \o <<"pre-data">>) \o Ids(Todo("pre-data", "after"))
        /\ ~PreDataWanted => p1 = <<>>
        /\ DataWanted =>
              /\ Begins(p1 \o b2, Planned)
              /\ p1 \o p2 = (p1 \o b2) \o Ids(Todo("data", "after"))
        /\ ~DataWanted => p1 \o p2 = p1
        /\ PostDataWanted =>
              /\ Begins((p1 \o p2) \o b3, Planned)
              /\ Begins(((p1 \o p2) \o b3) \o <<"post-data">>, Planned)
              /\ Planned = (((p1 \o p2) \o b3) \o <<"post-data">>)
                           \o Ids(Todo("post-data", "after"))
        /\ ~PostDataWanted => Planned = p1 \o p2

\* The plan, stage by stage.
LEMMA PlanParts == run \in Runs => PlanFacts
<1> SUFFICES ASSUME run \in Runs PROVE PlanFacts
  OBVIOUS
<1> DEFINE p1 == Part("pre-data")
           p2 == Part("data")
           p3 == Part("post-data")
           b1 == Before("pre-data")
           b2 == Before("data")
           b3 == Before("post-data")
           m1 == <<"pre-data">>
           m3 == <<"post-data">>
           c1 == Ids(Todo("pre-data", "after"))
           c2 == Ids(Todo("data", "after"))
           c3 == Ids(Todo("post-data", "after"))
<1>1. /\ c1 \in Seq(Name) /\ c2 \in Seq(Name) /\ c3 \in Seq(Name)
      /\ b1 \in Seq(Name) /\ b2 \in Seq(Name) /\ b3 \in Seq(Name)
      /\ m1 \in Seq(Name) /\ m3 \in Seq(Name) /\ <<>> \in Seq(Name)
  <2>1. \A s \in Sections : \A when : Ids(Todo(s, when)) \in Seq(Name)
    BY TodoFacts
  <2>2. m1 \in Seq(Name) /\ m3 \in Seq(Name) /\ <<>> \in Seq(Name)
    <3>1. "pre-data" \in Name /\ "post-data" \in Name
      BY DEF Name, Sections
    <3>2. \A x \in Name : <<x>> \in Seq(Name)
      OBVIOUS
    <3> QED BY <3>1, <3>2, EmptySeq
  <2> QED BY <2>1, <2>2 DEF Before, Sections
<1>2. /\ p1 = IF PreDataWanted THEN (b1 \o m1) \o c1 ELSE <<>>
      /\ p2 = IF DataWanted THEN (b2 \o <<>>) \o c2 ELSE <<>>
      /\ p3 = IF PostDataWanted THEN (b3 \o m3) \o c3 ELSE <<>>
      /\ Planned = (p1 \o p2) \o p3
  BY DEF Part, Selected, Whole, Before, PreDataWanted, DataWanted, PostDataWanted, Planned
<1> HIDE DEF p1, p2, p3, b1, b2, b3, m1, m3, c1, c2, c3
<1>3. \A x, y, z \in Seq(Name) : (x \o y) \o z = x \o (y \o z)
  BY Associative
<1>4. \A x, y \in Seq(Name) : /\ x \o y \in Seq(Name)
                                /\ Begins(x, x) /\ Begins(x, x \o y)
                                /\ x \o <<>> = x /\ <<>> \o x = x
  BY BeginsFacts
<1>5. \A x, y, z \in Seq(Name) : Begins(x, y) /\ Begins(y, z) => Begins(x, z)
  BY BeginsTransitive
<1>6. p1 \in Seq(Name) /\ p2 \in Seq(Name) /\ p3 \in Seq(Name)
  BY <1>1, <1>2, <1>4
<1> DEFINE q == p1 \o p2
<1>7. q \in Seq(Name) /\ q \o p3 \in Seq(Name) /\ Planned = q \o p3
  BY <1>2, <1>4, <1>6
<1>8. /\ Begins(p1, q) /\ Begins(q, q \o p3)
  BY <1>4, <1>6, <1>7
<1>9. Begins(p1, Planned) /\ Begins(q, Planned) /\ Begins(Planned, Planned)
      /\ Begins(<<>>, Planned)
  <2>1. Begins(p1, Planned) /\ Begins(q, Planned) /\ Begins(Planned, Planned)
    <3> HIDE DEF q
    <3>1. Begins(q, Planned) /\ Planned \in Seq(Name)
      BY <1>7, <1>8
    <3>2. Begins(p1, Planned)
      BY <1>5, <1>6, <1>7, <1>8, <3>1
    <3> QED BY <1>4, <3>1, <3>2
  <2>2. <<>> \o Planned = Planned
    BY <1>4, <1>7
  <2> QED BY <1>1, <1>7, <2>1, <2>2 DEF Begins
<1>10. ASSUME PreDataWanted
       PROVE  Begins(b1, Planned) /\ Begins(b1 \o m1, Planned) /\ p1 = (b1 \o m1) \o c1
  <2>1. b1 \o m1 \in Seq(Name) /\ p1 = (b1 \o m1) \o c1
    BY <1>1, <1>2, <1>4, <1>10
  <2>2. Begins(b1, b1 \o m1) /\ Begins(b1 \o m1, p1)
    BY <1>1, <1>4, <2>1
  <2>3. Begins(b1 \o m1, Planned)
    BY <1>5, <1>6, <1>7, <1>9, <2>1, <2>2
  <2> QED BY <1>1, <1>5, <1>7, <2>1, <2>2, <2>3
<1>11. ASSUME DataWanted
       PROVE  Begins(p1 \o b2, Planned) /\ q = (p1 \o b2) \o c2
  <2>1. p2 = b2 \o c2
    BY <1>1, <1>2, <1>4, <1>11
  <2>2. (p1 \o b2) \o c2 = p1 \o (b2 \o c2)
    <3>1. p1 \in Seq(Name) /\ b2 \in Seq(Name) /\ c2 \in Seq(Name)
      BY <1>1, <1>6
    <3> QED BY <1>3, <3>1, Zenon
  <2>3. p1 \o b2 \in Seq(Name) /\ q = (p1 \o b2) \o c2
    BY <1>1, <1>4, <1>6, <2>1, <2>2
  <2>4. Begins(p1 \o b2, q)
    <3> HIDE DEF q
    <3> QED BY <1>1, <1>4, <2>3
  <2> QED BY <1>5, <1>7, <1>9, <2>3, <2>4
<1>12. ASSUME PostDataWanted
       PROVE  /\ Begins(q \o b3, Planned) /\ Begins((q \o b3) \o m3, Planned)
              /\ Planned = ((q \o b3) \o m3) \o c3
  <2> HIDE DEF q
  <2>1. p3 = (b3 \o m3) \o c3 /\ b3 \o m3 \in Seq(Name)
    BY <1>1, <1>2, <1>4, <1>12
  <2>0. /\ q \in Seq(Name) /\ b3 \in Seq(Name) /\ m3 \in Seq(Name)
        /\ c3 \in Seq(Name) /\ b3 \o m3 \in Seq(Name)
    BY <1>1, <1>7, <2>1
  <2>2. (q \o (b3 \o m3)) \o c3 = q \o ((b3 \o m3) \o c3)
    BY <1>3, <2>0, Zenon
  <2>3. (q \o b3) \o m3 = q \o (b3 \o m3)
    BY <1>3, <2>0, Zenon
  <2>4. Planned = ((q \o b3) \o m3) \o c3
    BY <1>7, <2>1, <2>2, <2>3
  <2>5. q \o b3 \in Seq(Name) /\ (q \o b3) \o m3 \in Seq(Name)
    BY <1>1, <1>4, <1>7
  <2>6. Begins((q \o b3) \o m3, Planned)
    BY <1>1, <1>4, <2>4, <2>5
  <2>7. Begins(q \o b3, (q \o b3) \o m3)
    BY <1>1, <1>4, <2>5
  <2> QED BY <1>5, <1>7, <2>4, <2>5, <2>6, <2>7
<1>13. /\ b1 \in Seq(Name) /\ p1 \o b2 \in Seq(Name) /\ q \o b3 \in Seq(Name)
       /\ Planned \in Seq(Name)
  BY <1>1, <1>4, <1>6, <1>7
<1>14. /\ ~PreDataWanted => p1 = <<>>
       /\ ~DataWanted => q = p1
       /\ ~PostDataWanted => Planned = q
  <2> HIDE DEF q
  <2>1. ~DataWanted => q = p1
    BY <1>2, <1>4, <1>6 DEF q
  <2>2. ~PostDataWanted => Planned = q
    BY <1>2, <1>4, <1>7
  <2> QED BY <1>2, <2>1, <2>2
<1> QED
  BY <1>6, <1>7, <1>9, <1>10, <1>11, <1>12, <1>13, <1>14
     DEF PlanFacts, p1, p2, p3, b1, b2, b3, m1, m3, c1, c2, c3

-----------------------------------------------------------------------------
(* The steps of a restore *)

\* What is made of the options alone stays as it is.
LEMMA RunFixed ==
  ASSUME run' = run
  PROVE  /\ \A s, when : Todo(s, when)' = Todo(s, when)
         /\ \A s : Before(s)' = Before(s) /\ Part(s)' = Part(s)
         /\ Planned' = Planned
         /\ PreDataWanted' = PreDataWanted /\ DataWanted' = DataWanted
         /\ PostDataWanted' = PostDataWanted /\ Phased' = Phased
         /\ \A d : AllRows(d)' = AllRows(d)
<1>1. \A s, when : Todo(s, when)' = Todo(s, when)
  BY DEF Todo
<1>2. \A s : Before(s)' = Before(s) /\ Part(s)' = Part(s)
  BY <1>1 DEF Before, Part, Whole, Selected
<1> QED
  BY <1>1, <1>2 DEF Planned, PreDataWanted, DataWanted, PostDataWanted, Phased, AllRows

\* A step of the data stage: of the pusher, of the errgroup or of a worker.
DataStep == RunPusher \/ RunWait \/ \E w \in Worker : RunWorker(w)

\* The data stage touches neither the database's schema nor what has run.
LEMMA DataFrame ==
  ASSUME DataStep
  PROVE  /\ stage = "tasks"
         /\ UNCHANGED <<run, stage, create, cleanToc, db, ran, applied, result>>
<1>1. CASE RunPusher \/ RunWait
  BY <1>1 DEF RunPusher, RunWait, runVars, stageVars
<1>2. ASSUME NEW w \in Worker, RunWorker(w)
      PROVE  /\ stage = "tasks"
             /\ UNCHANGED <<run, stage, create, cleanToc, db, ran, applied, result>>
  <2>1. CASE stage = "tasks" /\ ChannelStep(w) /\ UNCHANGED runVars
    BY <2>1 DEF runVars, stageVars
  <2>2. CASE ExecuteStep(w)
    BY <2>2 DEF ExecuteStep, Executing, CopyBatch, CopyCommit, CopyFails, TxFails,
         InsertRow, InsertEnd, InsertFails, RestoreLargeObject, OtherEnd, OtherFails,
         Left, Row, stageVars
  <2> QED BY <1>2, <2>1, <2>2 DEF RunWorker
<1> QED
  BY <1>1, <1>2 DEF DataStep

\* The scripts of a section and moment come next in the plan: all of them
\* run, or the first ones and the restore ends.
LEMMA ScriptsStep ==
  ASSUME run \in Runs, ran \in Seq(Name), NEW section \in Sections, NEW when, NEW next,
         RunScripts(section, when, next),
         Begins(ran \o Ids(Todo(section, when)), Planned)
  PROVE  /\ run' = run /\ ran' \in Seq(Name) /\ IsPrefix(ran', Planned)
         /\ \/ /\ stage' = next /\ result' = result
               /\ ran' = ran \o Ids(Todo(section, when))
            \/ stage' = "end" /\ result' = "error"
<1> DEFINE todo == Todo(section, when)
           ids == Ids(todo)
<1>1. PICK n \in 0..Len(todo) :
        /\ ran' = ran \o SubSeq(ids, 1, n)
        /\ IF n = Len(todo) THEN Goto(next) ELSE End("error")
  BY DEF RunScripts
<1>2. ids \in Seq(Name) /\ Len(ids) = Len(todo) /\ Len(todo) \in Nat
  BY TodoFacts
<1>3. n \in 0..Len(ids)
  BY <1>2
<1>4. Begins(ran \o ids, Planned)
  OBVIOUS
<1> HIDE DEF ids, todo
<1>5. /\ SubSeq(ids, 1, n) \in Seq(Name) /\ IsPrefix(ran \o SubSeq(ids, 1, n), Planned)
      /\ SubSeq(ids, 1, Len(ids)) = ids
  BY <1>2, <1>3, <1>4, BeginsPrefix
<1>6. ran \o SubSeq(ids, 1, n) \in Seq(Name)
  BY <1>5, BeginsFacts
<1>7. n = Len(todo) => ran' = ran \o ids
  BY <1>1, <1>2, <1>5
<1>8. /\ run' = run
      /\ n = Len(todo) => stage' = next /\ result' = result
      /\ n # Len(todo) => stage' = "end" /\ result' = "error"
  BY <1>1 DEF Goto, End
<1> QED
  BY <1>1, <1>5, <1>6, <1>7, <1>8 DEF ids, todo

\* A section that pg_restore has restored is noted.
LEMMA RestoreStep ==
  ASSUME NEW stmts, NEW section, NEW next, PgRestore(stmts, section, next)
  PROVE  /\ run' = run
         /\ \/ stage' = next /\ result' = result /\ ran' = Append(ran, section)
            \/ stage' = "end" /\ result' = "error" /\ ran' = ran
  BY DEF PgRestore, Goto, End

\* Scripts that run, and a section that is restored, bring the restore from
\* one part of the plan to the next.
LEMMA RanByScripts ==
  ASSUME RunType, PlanFacts, NEW section \in Sections, NEW when, NEW next, NEW s,
         RunScripts(section, when, next), ran = s,
         Begins(s \o Ids(Todo(section, when)), Planned)
  PROVE  /\ run' = run /\ IsPrefix(ran', Planned)
         /\ \/ stage' = next /\ result' = result /\ ran' = s \o Ids(Todo(section, when))
            \/ stage' = "end" /\ result' = "error"
<1>1. run \in Runs /\ ran \in Seq(Name)
  BY DEF RunType
<1> QED
  BY <1>1, ScriptsStep

\* pg_restore of a section comes next in the plan; it succeeds, or Run ends.
LEMMA RanByRestore ==
  ASSUME RunType, RanInv, NEW stmts, NEW section \in Sections, NEW next, NEW s,
         PgRestore(stmts, section, next), ran = s, Begins(s \o <<section>>, Planned)
  PROVE  /\ run' = run /\ IsPrefix(ran', Planned)
         /\ \/ stage' = next /\ result' = result /\ ran' = s \o <<section>>
            \/ stage' = "end" /\ result' = "error"
<1>1. ran \in Seq(Name) /\ section \in Name /\ IsPrefix(ran, Planned)
  BY DEF RunType, RanInv, Name
<1>2. PICK u \in Seq(Name) : Planned = (s \o <<section>>) \o u
  BY DEF Begins
<1>3. Append(ran, section) = s \o <<section>> /\ s \o <<section>> \in Seq(Name)
  BY <1>1
<1>4. IsPrefix(s \o <<section>>, Planned)
  BY <1>2, <1>3, ConcatPrefix
<1> QED
  BY <1>1, <1>3, <1>4, RestoreStep

\* A stage's step goes on in the plan.
LEMMA RanStep ==
  ASSUME RunType, RanInv, StageInv, StageStep
  PROVE  RanInv' /\ run' = run
<1> DEFINE p1 == Part("pre-data")
           p2 == Part("data")
           b1 == Before("pre-data")
           b2 == Before("data")
           b3 == Before("post-data")
<1>0. /\ run \in Runs /\ ran \in Seq(Name) /\ IsPrefix(ran, Planned)
      /\ {"pre-data", "data", "post-data"} = Sections
  BY DEF RunType, RanInv, Sections
<1>1. PlanFacts
  BY <1>0, PlanParts
<1>2. ASSUME run' = run, stage' = "end", result' = "error", IsPrefix(ran', Planned)
      PROVE  RanInv'
  BY <1>2, RunFixed DEF RanInv
<1>3. ASSUME ConnectionFails PROVE RanInv' /\ run' = run
  BY <1>0, <1>2, <1>3 DEF ConnectionFails, End, stageVars
<1>4. stage # "end" => result = "running"
  BY DEF StageInv, RunType
<1>5. ASSUME NEW section \in Sections, NEW when, NEW next, NEW s,
             RunScripts(section, when, next), ran = s,
             Begins(s \o Ids(Todo(section, when)), Planned)
      PROVE  /\ run' = run /\ IsPrefix(ran', Planned)
             /\ \/ stage' = next /\ result' = result /\ ran' = s \o Ids(Todo(section, when))
                \/ RanInv'
  BY <1>1, <1>2, <1>5, RanByScripts
<1>6. /\ Before("data") = Ids(Todo("data", "before"))
      /\ Before("post-data") = Ids(Todo("post-data", "before"))
      /\ run.create => Before("pre-data") = <<>>
      /\ ~run.create => Before("pre-data") = Ids(Todo("pre-data", "before"))
  BY DEF Before
<1>7. CASE Prepare \/ PrepareFails
  <2>1. run' = run /\ ran' = ran
    BY <1>7 DEF Prepare, PrepareFails, Goto, End, stageVars
  <2>2. CASE PrepareFails
    BY <1>0, <1>2, <2>1, <2>2 DEF PrepareFails, End
  <2>3. CASE Prepare
    <3>1. stage = "prepare" /\ stage' = "pre-data" /\ result' = result
      BY <2>3 DEF Prepare, Goto
    <3> QED BY <1>4, <2>1, <3>1, RunFixed DEF RanInv
  <2> QED BY <1>7, <2>1, <2>2, <2>3
<1>8. CASE PreDataSkip
  <2>1. /\ stage = "pre-data" /\ ~PreDataWanted /\ stage' = "data"
        /\ run' = run /\ result' = result /\ ran' = ran
    BY <1>8 DEF PreDataSkip, SkipStage, Goto, stageVars
  <2>2. ran = Part("pre-data")
    BY <1>1, <2>1 DEF RanInv, PlanFacts
  <2> QED BY <1>4, <2>1, <2>2, RunFixed DEF RanInv
<1>9. CASE PreDataBefore
  <2>0. stage = "pre-data" /\ PreDataWanted /\ ran = <<>> /\ create = run.create
    BY <1>9 DEF PreDataBefore, BeforeStage, RanInv, StageInv
  <2>1. CASE create
    <3>1. /\ stage' = "pre-restore" /\ run' = run /\ result' = result /\ ran' = ran
      BY <1>9, <2>1 DEF PreDataBefore, Goto, stageVars
    <3> QED BY <1>0, <1>4, <1>6, <2>0, <2>1, <3>1, RunFixed DEF RanInv
  <2>2. CASE ~create /\ RunScripts("pre-data", "before", "pre-restore")
    <3>1. Ids(Todo("pre-data", "before")) \in Seq(Name)
      BY <1>0, TodoFacts
    <3>2. ran \o Ids(Todo("pre-data", "before")) = Before("pre-data")
      BY <1>6, <2>0, <2>2, <3>1, BeginsFacts
    <3>3. Begins(Before("pre-data"), Planned)
      BY <1>1, <2>0 DEF PlanFacts
    <3>4. /\ run' = run /\ IsPrefix(ran', Planned)
          /\ \/ stage' = "pre-restore" /\ result' = result /\ ran' = Before("pre-data")
             \/ RanInv'
      BY <1>0, <1>5, <2>2, <3>2, <3>3
    <3> QED BY <1>4, <2>0, <3>4, RunFixed DEF RanInv
  <2> QED BY <1>3, <1>9, <2>1, <2>2 DEF PreDataBefore, BeforeStage
<1>10. CASE PreDataRestore
  <2>1. PICK stmts : PgRestore(stmts, "pre-data", "pre-after")
    BY <1>10 DEF PreDataRestore
  <2>2. stage = "pre-restore" /\ PreDataWanted /\ ran = Before("pre-data")
    BY <1>10 DEF PreDataRestore, RanInv, StageInv
  <2>3. Begins(Before("pre-data") \o <<"pre-data">>, Planned)
    BY <1>1, <2>2 DEF PlanFacts
  <2>4. /\ run' = run /\ IsPrefix(ran', Planned)
        /\ \/ /\ stage' = "pre-after" /\ result' = result
              /\ ran' = Before("pre-data") \o <<"pre-data">>
           \/ stage' = "end" /\ result' = "error"
    BY <1>0, <2>1, <2>2, <2>3, RanByRestore
  <2> QED BY <1>2, <1>4, <2>2, <2>4, RunFixed DEF RanInv
<1>11. CASE PreDataAfter
  <2>1. CASE RunScripts("pre-data", "after", "data")
    <3>1. stage = "pre-after" /\ PreDataWanted /\ ran = Before("pre-data") \o <<"pre-data">>
      BY <1>11 DEF PreDataAfter, RanInv, StageInv
    <3>2. /\ Part("pre-data") = (Before("pre-data") \o <<"pre-data">>)
                                \o Ids(Todo("pre-data", "after"))
          /\ Begins(Part("pre-data"), Planned)
      BY <1>1, <3>1 DEF PlanFacts
    <3>3. /\ run' = run /\ IsPrefix(ran', Planned)
          /\ \/ stage' = "data" /\ result' = result /\ ran' = Part("pre-data")
             \/ RanInv'
      BY <1>0, <1>5, <2>1, <3>1, <3>2
    <3> QED BY <1>4, <3>1, <3>3, RunFixed DEF RanInv
  <2> QED BY <1>3, <1>11, <2>1 DEF PreDataAfter
<1>12. CASE DataSkip
  <2>1. /\ stage = "data" /\ ~DataWanted /\ stage' = "post-data"
        /\ run' = run /\ result' = result /\ ran' = ran
    BY <1>12 DEF DataSkip, SkipStage, Goto, stageVars
  <2>2. ran = Part("pre-data") \o Part("data")
    BY <1>1, <2>1 DEF RanInv, PlanFacts
  <2> QED BY <1>0, <1>4, <2>1, <2>2, RunFixed DEF RanInv
<1>13. CASE DataBefore
  <2>1. CASE RunScripts("data", "before", "tasks")
    <3>1. stage = "data" /\ DataWanted /\ ran = Part("pre-data")
      BY <1>13 DEF DataBefore, BeforeStage, RanInv
    <3>2. Begins(Part("pre-data") \o Before("data"), Planned)
      BY <1>1, <3>1 DEF PlanFacts
    <3>3. /\ run' = run /\ IsPrefix(ran', Planned)
          /\ \/ /\ stage' = "tasks" /\ result' = result
                /\ ran' = Part("pre-data") \o Before("data")
             \/ RanInv'
      BY <1>0, <1>5, <1>6, <2>1, <3>1, <3>2
    <3> QED BY <1>4, <3>1, <3>3, RunFixed DEF RanInv
  <2> QED BY <1>3, <1>13, <2>1 DEF DataBefore, BeforeStage
<1>14. CASE DataAfter
  <2>1. CASE RunScripts("data", "after", "post-data")
    <3>1. stage = "tasks" /\ DataWanted /\ ran = Part("pre-data") \o Before("data")
      BY <1>14 DEF DataAfter, RanInv, StageInv
    <3>2. /\ Part("pre-data") \o Part("data") = (Part("pre-data") \o Before("data"))
                                                \o Ids(Todo("data", "after"))
          /\ Begins(Part("pre-data") \o Part("data"), Planned)
      BY <1>1, <3>1 DEF PlanFacts
    <3>3. /\ run' = run /\ IsPrefix(ran', Planned)
          /\ \/ /\ stage' = "post-data" /\ result' = result
                /\ ran' = Part("pre-data") \o Part("data")
             \/ RanInv'
      BY <1>0, <1>5, <2>1, <3>1, <3>2
    <3> QED BY <1>4, <3>1, <3>3, RunFixed DEF RanInv
  <2> QED BY <1>3, <1>14, <2>1 DEF DataAfter
<1>15. CASE PostDataSkip
  <2>1. /\ stage = "post-data" /\ ~PostDataWanted /\ stage' = "end" /\ result' = "ok"
        /\ run' = run /\ ran' = ran
    BY <1>15 DEF PostDataSkip, End, stageVars
  <2>2. ran = Planned
    BY <1>1, <2>1 DEF RanInv, PlanFacts
  <2> QED BY <1>0, <2>1, <2>2, RunFixed DEF RanInv
<1>16. CASE PostDataBefore
  <2>1. CASE RunScripts("post-data", "before", "post-restore")
    <3>1. /\ stage = "post-data" /\ PostDataWanted
          /\ ran = Part("pre-data") \o Part("data")
      BY <1>16 DEF PostDataBefore, BeforeStage, RanInv
    <3>2. Begins((Part("pre-data") \o Part("data")) \o Before("post-data"), Planned)
      BY <1>1, <3>1 DEF PlanFacts
    <3>3. /\ run' = run /\ IsPrefix(ran', Planned)
          /\ \/ /\ stage' = "post-restore" /\ result' = result
                /\ ran' = (Part("pre-data") \o Part("data")) \o Before("post-data")
             \/ RanInv'
      BY <1>0, <1>5, <1>6, <2>1, <3>1, <3>2
    <3> QED BY <1>4, <3>1, <3>3, RunFixed DEF RanInv
  <2> QED BY <1>3, <1>16, <2>1 DEF PostDataBefore, BeforeStage
<1>17. CASE PostDataRestore
  <2>1. PICK stmts : PgRestore(stmts, "post-data", "post-after")
    BY <1>17 DEF PostDataRestore
  <2>2. /\ stage = "post-restore" /\ PostDataWanted
        /\ ran = (Part("pre-data") \o Part("data")) \o Before("post-data")
    BY <1>17 DEF PostDataRestore, RanInv, StageInv
  <2>3. Begins(((Part("pre-data") \o Part("data")) \o Before("post-data"))
               \o <<"post-data">>, Planned)
    BY <1>1, <2>2 DEF PlanFacts
  <2>4. /\ run' = run /\ IsPrefix(ran', Planned)
        /\ \/ /\ stage' = "post-after" /\ result' = result
              /\ ran' = ((Part("pre-data") \o Part("data")) \o Before("post-data"))
                        \o <<"post-data">>
           \/ stage' = "end" /\ result' = "error"
    BY <1>0, <2>1, <2>2, <2>3, RanByRestore
  <2> QED BY <1>2, <1>4, <2>2, <2>4, RunFixed DEF RanInv
<1>18. CASE PostDataAfter
  <2>1. CASE RunScripts("post-data", "after", "finished")
    <3>1. /\ stage = "post-after" /\ PostDataWanted
          /\ ran = ((Part("pre-data") \o Part("data")) \o Before("post-data"))
                   \o <<"post-data">>
      BY <1>18 DEF PostDataAfter, RanInv, StageInv
    <3>2. /\ Planned = (((Part("pre-data") \o Part("data")) \o Before("post-data"))
                        \o <<"post-data">>) \o Ids(Todo("post-data", "after"))
          /\ Begins(Planned, Planned)
      BY <1>1, <3>1 DEF PlanFacts
    <3>3. /\ run' = run /\ IsPrefix(ran', Planned)
          /\ \/ stage' = "finished" /\ result' = result /\ ran' = Planned
             \/ RanInv'
      BY <1>0, <1>5, <2>1, <3>1, <3>2
    <3> QED BY <1>4, <3>1, <3>3, RunFixed DEF RanInv
  <2> QED BY <1>3, <1>18, <2>1 DEF PostDataAfter
<1>19. CASE Finished
  <2>1. stage = "finished" /\ stage' = "end" /\ result' = "ok" /\ run' = run /\ ran' = ran
    BY <1>19 DEF Finished, End, stageVars
  <2>2. ran = Planned
    BY <2>1 DEF RanInv
  <2> QED BY <1>0, <2>1, <2>2, RunFixed DEF RanInv
<1> QED
  BY <1>7, <1>8, <1>9, <1>10, <1>11, <1>12, <1>13, <1>14, <1>15, <1>16, <1>17, <1>18, <1>19
     DEF StageStep

-----------------------------------------------------------------------------
(* What pg_restore leaves of the database *)

\* What every possible statement keeps true of a database, pg_restore keeps
\* true of it, wherever it ends.
LEMMA ExecuteKeeps ==
  ASSUME NEW T, NEW stmts \in Seq(T), NEW D, db \in D,
         \A s \in T : \A d \in D : Possible(s, d) => Effect(s, d) \in D,
         NEW n \in 0..Len(stmts)
  PROVE  Execute(stmts)[n].db \in D
<1> DEFINE X == Execute(stmts)
           Q == {k \in Nat : k <= Len(stmts) => X[k] \in [db : D, failed : BOOLEAN]}
<1>1. /\ Len(stmts) \in Nat /\ X[0] = [db |-> db, failed |-> FALSE]
      /\ \A k \in 1..Len(stmts) : X[k] = Executed(X[k - 1], stmts[k]) /\ stmts[k] \in T
  <2>1. \A k \in 1..Len(stmts) : stmts[k] \in T
    OBVIOUS
  <2> QED BY <2>1, ExecuteRecursion
<1> HIDE DEF X
<1>2. 0 \in Q
  <2>1. [db |-> db, failed |-> FALSE] \in [db : D, failed : BOOLEAN]
    OBVIOUS
  <2> QED BY <1>1, <2>1
<1>3. ASSUME NEW k \in Nat, k \in Q PROVE k + 1 \in Q
  <2> SUFFICES ASSUME k + 1 <= Len(stmts) PROVE X[k + 1] \in [db : D, failed : BOOLEAN]
    OBVIOUS
  <2>1. X[k] \in [db : D, failed : BOOLEAN] /\ k + 1 \in 1..Len(stmts) /\ (k + 1) - 1 = k
    BY <1>1, <1>3
  <2>2. X[k + 1] = Executed(X[k], stmts[k + 1]) /\ stmts[k + 1] \in T
    BY <1>1, <2>1
  <2> QED BY <2>1, <2>2 DEF Executed
<1>4. n \in Q
  <2>1. n \in Nat
    BY <1>1
  <2> HIDE DEF Q
  <2> QED BY <1>2, <1>3, <2>1, NatSetInduction
<1> QED
  BY <1>1, <1>4 DEF X

\* Without a failure every statement was possible and has had its effect.
LEMMA ExecuteAll ==
  ASSUME NEW T, NEW stmts \in Seq(T), opt.exitOnError,
         ~Execute(stmts)[Len(stmts)].failed
  PROVE  /\ Len(stmts) \in Nat /\ Execute(stmts)[0].db = db
         /\ \A k \in 1..Len(stmts) :
              /\ Possible(stmts[k], Execute(stmts)[k - 1].db)
              /\ Execute(stmts)[k].db = Effect(stmts[k], Execute(stmts)[k - 1].db)
<1> DEFINE X == Execute(stmts)
           N == Len(stmts)
           Shaped(x) == \E d, f : x = [db |-> d, failed |-> f]
           R == {k \in Nat : k <= N => Shaped(X[k])}
<1>1. /\ N \in Nat /\ X[0] = [db |-> db, failed |-> FALSE]
      /\ \A k \in 1..N : X[k] = Executed(X[k - 1], stmts[k])
      /\ ~X[N].failed
  BY ExecuteRecursion
<1> HIDE DEF X, N
<1>2. \A k \in 0..N : \E d, f : X[k] = [db |-> d, failed |-> f]
  <2>1. 0 \in R
    <3>1. Shaped(X[0])
      BY <1>1
    <3> HIDE DEF Shaped
    <3> QED BY <3>1
  <2>2. ASSUME NEW k \in Nat, k \in R PROVE k + 1 \in R
    <3>1. CASE k + 1 <= N
      <4>1. k <= N /\ k + 1 \in 1..N /\ (k + 1) - 1 = k
        BY <1>1, <3>1
      <4>2. Shaped(X[k])
        <5> HIDE DEF Shaped
        <5> QED BY <2>2, <4>1
      <4>3. PICK d, f : X[k] = [db |-> d, failed |-> f]
        BY <4>2
      <4>4. X[k + 1] = Executed(X[k], stmts[k + 1])
        BY <1>1, <4>1
      <4>5. Shaped(X[k + 1])
        BY <4>3, <4>4 DEF Executed
      <4> HIDE DEF Shaped
      <4> QED BY <4>5
    <3> HIDE DEF Shaped
    <3> QED BY <3>1
  <2>3. Nat \subseteq R
    <3> HIDE DEF R
    <3> QED BY <2>1, <2>2, NatSetInduction
  <2>4. \A k \in 0..N : Shaped(X[k])
    <3> HIDE DEF Shaped
    <3> QED BY <1>1, <2>3
  <2> QED BY <2>4
<1>3. ASSUME NEW k \in 1..N, ~X[k].failed
      PROVE  /\ ~X[k - 1].failed /\ Possible(stmts[k], X[k - 1].db)
             /\ X[k].db = Effect(stmts[k], X[k - 1].db)
  <2>1. X[k] = Executed(X[k - 1], stmts[k]) /\ k - 1 \in 0..N
    BY <1>1
  <2>2. PICK d, f : X[k - 1] = [db |-> d, failed |-> f]
    BY <1>2, <2>1
  <2> QED BY <1>3, <2>1, <2>2 DEF Executed
<1>4. \A k \in 0..N : ~X[k].failed
  <2> DEFINE U == {k \in Nat : k <= N => ~X[N - k].failed}
  <2>1. 0 \in U
    BY <1>1
  <2>2. ASSUME NEW k \in Nat, k \in U PROVE k + 1 \in U
    <3> SUFFICES ASSUME k + 1 <= N PROVE ~X[N - (k + 1)].failed
      OBVIOUS
    <3>1. k <= N /\ N - k \in 1..N /\ (N - k) - 1 = N - (k + 1)
      BY <1>1
    <3> QED BY <1>3, <2>2, <3>1
  <2>3. Nat \subseteq U
    <3> HIDE DEF U
    <3> QED BY <2>1, <2>2, NatSetInduction
  <2>4. ASSUME NEW k \in 0..N PROVE ~X[k].failed
    <3>1. N - k \in Nat /\ N - k <= N /\ N - (N - k) = k
      BY <1>1
    <3> QED BY <2>3, <3>1
  <2> QED BY <2>4
<1>5. \A k \in 1..N : k \in 0..N
  BY <1>1
<1> QED
  BY <1>1, <1>3, <1>4, <1>5 DEF X, N

\* A restore of the schema drops and creates its objects, and under
\* --exit-on-error goes on only after all of its statements.
LEMMA RestoreKeeps ==
  ASSUME NEW T, NEW stmts \in Seq(T), NEW D, db \in D, NEW section, NEW next,
         PgRestore(stmts, section, next),
         \A s \in T : \A d \in D : Possible(s, d) => Effect(s, d) \in D
  PROVE  db' \in D
<1>1. PICK n \in 0..Len(stmts) : db' = Execute(stmts)[n].db
  BY DEF PgRestore
<1> QED
  BY <1>1, ExecuteKeeps

\* With --exit-on-error a pg_restore that lets Run go on executed every
\* statement, each in the database that the one before left.
LEMMA RestoreAll ==
  ASSUME NEW T, NEW stmts \in Seq(T), NEW section, NEW next,
         PgRestore(stmts, section, next), opt.exitOnError, next # "end", stage' = next
  PROVE  /\ Len(stmts) \in Nat /\ Execute(stmts)[0].db = db
         /\ db' = Execute(stmts)[Len(stmts)].db
         /\ \A k \in 1..Len(stmts) :
              /\ Possible(stmts[k], Execute(stmts)[k - 1].db)
              /\ Execute(stmts)[k].db = Effect(stmts[k], Execute(stmts)[k - 1].db)
<1>1. PICK n \in 0..Len(stmts), code \in {"0", "1", "signal", "no-start"} :
         /\ code = "0" => n = Len(stmts) /\ ~Execute(stmts)[n].failed
         /\ db' = Execute(stmts)[n].db
         /\ IF Tolerated(code) THEN TRUE ELSE stage' = "end"
  BY DEF PgRestore, End
<1>2. n = Len(stmts) /\ ~Execute(stmts)[Len(stmts)].failed
  BY <1>1 DEF Tolerated
<1> QED
  BY <1>1, <1>2, ExecuteAll

\* A database and the objects that can only be in it, or in its tables.
Databases == {d \in [Objects -> {"none", "old", "new"}] :
                /\ d["database"] = "none" => d["pre-data"] = "none"
                /\ d["pre-data"] = "none" => d["post-data"] = "none"}

Statement == {"drop", "create"} \X Objects

\* A statement that is possible keeps the database's objects nested, and
\* only the creation of the post-data objects makes them new.
LEMMA EffectFacts ==
  ASSUME NEW s \in Statement, NEW d \in Databases, Possible(s, d)
  PROVE  /\ Effect(s, d) \in Databases
         /\ s[2] = "post-data" => Effect(s, d)["pre-data"] = d["pre-data"]
         /\ s # <<"create", "post-data">> /\ d["post-data"] # "new" =>
               Effect(s, d)["post-data"] # "new"
<1>1. PICK a \in {"drop", "create"}, o \in Objects : s = <<a, o>>
  BY DEF Statement
<1>2. Objects = {"database", "pre-data", "post-data"}
  BY DEF Objects
<1>3. /\ d \in [Objects -> {"none", "old", "new"}]
      /\ d["database"] = "none" => d["pre-data"] = "none"
      /\ d["pre-data"] = "none" => d["post-data"] = "none"
  BY DEF Databases
<1>4. CASE a = "drop"
  BY <1>1, <1>2, <1>3, <1>4 DEF Possible, Effect, Databases
<1>5. CASE a = "create"
  BY <1>1, <1>2, <1>3, <1>5 DEF Possible, Effect, Databases
<1> QED
  BY <1>4, <1>5

\* The statements of the two calls of pg_restore.
LEMMA Pair ==
  ASSUME NEW a, NEW b
  PROVE  <<a, b>> = <<a>> \o <<b>>
<1> DEFINE s == <<a>> \o <<b>>
           t == <<a, b>>
<1>1. /\ s \in Seq({a, b}) /\ t \in Seq({a, b}) /\ Len(s) = 2 /\ Len(t) = 2
      /\ s[1] = a /\ s[2] = b /\ t[1] = a /\ t[2] = b
  OBVIOUS
<1> HIDE DEF s, t
<1>2. Len(s) = Len(t) /\ \A i \in 1..Len(s) : s[i] = t[i]
  BY <1>1
<1>3. s = t
  BY <1>1, <1>2, SeqEqual
<1> QED BY <1>3 DEF s, t

\* Filter of a pair, by which of the two is in the set.
LEMMA FilteredPair ==
  ASSUME NEW a, NEW b, NEW S
  PROVE  /\ a \in S /\ b \in S => Filter(<<a, b>>, S) = <<a, b>>
         /\ a \in S /\ b \notin S => Filter(<<a, b>>, S) = <<a>>
         /\ a \notin S /\ b \in S => Filter(<<a, b>>, S) = <<b>>
         /\ a \notin S /\ b \notin S => Filter(<<a, b>>, S) = <<>>
<1>1. <<a, b>> = <<a>> \o <<b>>
  BY Pair
<1>2. <<a>> = <<a>> \o <<>>
  OBVIOUS
<1>3. <<b>> = <<>> \o <<b>>
  OBVIOUS
<1>4. <<>> = <<>> \o <<>>
  OBVIOUS
<1> QED
  BY <1>1, <1>2, <1>3, <1>4, FilterPair

\* Concatenations of one, two and three elements.
LEMMA SmallSequences ==
  ASSUME NEW a, NEW b, NEW c
  PROVE  /\ <<>> \o <<a>> = <<a>> /\ <<a>> \o <<b>> = <<a, b>>
         /\ <<a, b>> \o <<c>> = <<a, b, c>>
<1>1. <<a>> = <<>> \o <<a>>
  OBVIOUS
<1>2. <<a, b>> = <<a>> \o <<b>>
  BY Pair
<1>3. <<a, b, c>> = <<a, b>> \o <<c>>
  OBVIOUS
<1> QED
  BY <1>1, <1>2, <1>3

\* What pg_restore of pre-data executes: no post-data object is created.
LEMMA PreDataStatements ==
  ASSUME create \in BOOLEAN, run.clean \in BOOLEAN, NEW phased \in BOOLEAN,
         phased => create \/ run.clean,
         NEW objs, objs = IF phased THEN {"pre-data", "post-data"} ELSE {"pre-data"},
         NEW stmts, stmts = Statements(objs, create, run.clean, Objects,
                                       PreDataCreated(phased))
  PROVE  /\ stmts \in Seq(Statement \ {<<"create", "post-data">>})
         /\ phased /\ create /\ run.clean =>
              stmts = <<<<"drop", "database">>, <<"create", "database">>,
                        <<"create", "pre-data">>>>
         /\ phased /\ create /\ ~run.clean =>
              stmts = <<<<"create", "database">>, <<"create", "pre-data">>>>
         /\ phased /\ ~create =>
              stmts = <<<<"drop", "post-data">>, <<"drop", "pre-data">>,
                        <<"create", "pre-data">>>>
<1> DEFINE S == Statement \ {<<"create", "post-data">>}
           dd == <<"drop", "database">>
           cd == <<"create", "database">>
           dp == <<"drop", "pre-data">>
           dq == <<"drop", "post-data">>
           cp == <<"create", "pre-data">>
           cq == <<"create", "post-data">>
<1>1. dd \in S /\ cd \in S /\ dp \in S /\ dq \in S /\ cp \in S
  BY DEF Statement, Objects
<1>2. /\ dq \in {"drop"} \X (objs \cap Objects) <=> phased
      /\ dp \in {"drop"} \X (objs \cap Objects)
      /\ cp \in {"create"} \X (objs \cap PreDataCreated(phased))
      /\ cq \notin {"create"} \X (objs \cap PreDataCreated(phased))
  BY DEF Objects, PreDataCreated
<1>3. stmts = (IF create
                 THEN (IF run.clean THEN <<dd>> ELSE <<>>) \o <<cd>>
               ELSE IF run.clean
                 THEN Filter(<<dq, dp>>, {"drop"} \X (objs \cap Objects))
               ELSE <<>>)
              \o Filter(<<cp, cq>>, {"create"} \X (objs \cap PreDataCreated(phased)))
  BY DEF Statements
<1> HIDE DEF S, dd, cd, dp, dq, cp, cq
<1>4. /\ phased => Filter(<<dq, dp>>, {"drop"} \X (objs \cap Objects)) = <<dq, dp>>
      /\ ~phased => Filter(<<dq, dp>>, {"drop"} \X (objs \cap Objects)) = <<dp>>
  BY <1>2, FilteredPair
<1>5. Filter(<<cp, cq>>, {"create"} \X (objs \cap PreDataCreated(phased))) = <<cp>>
  BY <1>2, FilteredPair
<1>6. CASE create /\ run.clean
  <2>1. stmts = (<<dd>> \o <<cd>>) \o <<cp>>
    BY <1>3, <1>5, <1>6, Zenon
  <2>2. stmts = <<dd, cd, cp>>
    BY <2>1, SmallSequences, Zenon
  <2>3. <<dd, cd, cp>> \in Seq(S)
    BY <1>1
  <2> QED BY <1>6, <2>2, <2>3 DEF S, dd, cd, cp
<1>7. CASE create /\ ~run.clean
  <2>1. stmts = (<<>> \o <<cd>>) \o <<cp>>
    BY <1>3, <1>5, <1>7, Zenon
  <2>2. stmts = <<cd, cp>>
    BY <2>1, SmallSequences, Zenon
  <2>3. <<cd, cp>> \in Seq(S)
    BY <1>1
  <2> QED BY <1>7, <2>2, <2>3 DEF S, cd, cp
<1>8. CASE ~create /\ run.clean /\ phased
  <2>1. stmts = <<dq, dp>> \o <<cp>>
    BY <1>3, <1>4, <1>5, <1>8, Zenon
  <2>2. stmts = <<dq, dp, cp>>
    BY <2>1, SmallSequences, Zenon
  <2>3. <<dq, dp, cp>> \in Seq(S)
    BY <1>1
  <2> QED BY <1>8, <2>2, <2>3 DEF S, dq, dp, cp
<1>9. CASE ~create /\ run.clean /\ ~phased
  <2>1. stmts = <<dp>> \o <<cp>>
    BY <1>3, <1>4, <1>5, <1>9, Zenon
  <2>2. stmts = <<dp, cp>>
    BY <2>1, SmallSequences, Zenon
  <2>3. <<dp, cp>> \in Seq(S)
    BY <1>1
  <2> QED BY <1>9, <2>2, <2>3 DEF S
<1>10. CASE ~create /\ ~run.clean
  <2>1. stmts = <<>> \o <<cp>>
    BY <1>3, <1>5, <1>10, Zenon
  <2>2. stmts = <<cp>>
    BY <2>1, SmallSequences, Zenon
  <2>3. <<cp>> \in Seq(S)
    BY <1>1
  <2> QED BY <1>10, <2>2, <2>3 DEF S
<1> QED
  BY <1>6, <1>7, <1>8, <1>9, <1>10

\* What pg_restore of post-data executes: the creation of its objects comes
\* last, and the pre-data objects are in none of its statements.
LEMMA PostDataStatements ==
  ASSUME create \in BOOLEAN, cleanToc \in BOOLEAN, run.clean \in BOOLEAN,
         NEW stmts, stmts = Statements({"post-data"}, create, run.clean,
                                       PostDataDropped(cleanToc), Objects)
  PROVE  /\ stmts \in Seq({"drop", "create"} \X {"database", "post-data"})
         /\ Len(stmts) \in Nat \ {0} /\ stmts[Len(stmts)] = <<"create", "post-data">>
<1> DEFINE dp == <<"drop", "pre-data">>
           dq == <<"drop", "post-data">>
           cp == <<"create", "pre-data">>
           cq == <<"create", "post-data">>
           dd == <<"drop", "database">>
           cd == <<"create", "database">>
           drops == {"drop"} \X ({"post-data"} \cap PostDataDropped(cleanToc))
           creates == {"create"} \X ({"post-data"} \cap Objects)
           S == {"drop", "create"} \X {"database", "post-data"}
           before == IF create THEN (IF run.clean THEN <<dd>> ELSE <<>>) \o <<cd>>
                     ELSE IF run.clean THEN Filter(<<dq, dp>>, drops) ELSE <<>>
<1>1. /\ dq \in drops <=> ~cleanToc
      /\ dp \notin drops /\ cp \notin creates /\ cq \in creates
      /\ {dq, cq, dd, cd} \subseteq S
  BY DEF Objects, PostDataDropped
<1>2. stmts = before \o Filter(<<cp, cq>>, creates)
  BY DEF Statements
<1> HIDE DEF dp, dq, cp, cq, dd, cd, drops, creates, S
<1>3. /\ cleanToc => Filter(<<dq, dp>>, drops) = <<>>
      /\ ~cleanToc => Filter(<<dq, dp>>, drops) = <<dq>>
  BY <1>1, FilteredPair
<1>4. Filter(<<cp, cq>>, creates) = <<cq>>
  BY <1>1, FilteredPair
<1>5. before \in Seq(S)
  <2>1. <<dd>> \in Seq(S) /\ <<cd>> \in Seq(S) /\ <<dq>> \in Seq(S) /\ <<>> \in Seq(S)
    BY <1>1
  <2>2. <<dd>> \o <<cd>> \in Seq(S) /\ <<>> \o <<cd>> \in Seq(S)
    BY <2>1
  <2>3. Filter(<<dq, dp>>, drops) \in Seq(S)
    BY <1>3, <2>1
  <2> QED BY <2>1, <2>2, <2>3
<1> HIDE DEF before
<1>6. stmts = before \o <<cq>> /\ cq \in S
  BY <1>1, <1>2, <1>4
<1>7. stmts \in Seq(S) /\ Len(stmts) = Len(before) + 1 /\ stmts[Len(before) + 1] = cq
  BY <1>5, <1>6
<1>8. Len(before) \in Nat
  BY <1>5
<1> QED
  BY <1>7, <1>8 DEF S, cq

\* The three objects by name.
LEMMA ObjectNames ==
  /\ "database" \in Objects /\ "pre-data" \in Objects /\ "post-data" \in Objects
  /\ \A o \in Objects : o = "database" \/ o = "pre-data" \/ o = "post-data"
  BY DEF Objects

\* The options and the database that a run begins with.
LEMMA OptionsType ==
  ASSUME run \in Runs
  PROVE  /\ run.create \in BOOLEAN /\ run.clean \in BOOLEAN
         /\ run.db \in Databases /\ run.db["post-data"] # "new"
<1>1. /\ run \in RunOption /\ run.db \in [Objects -> {"none", "old"}]
      /\ run.db["database"] = "none" => run.db["pre-data"] = "none"
      /\ run.db["pre-data"] = "none" => run.db["post-data"] = "none"
  BY RunFacts
<1> QED
  BY <1>1, ObjectNames DEF RunOption, Databases

\* After the pre-data section of a phased restore that tolerates no error the
\* old objects are replaced, and its constraints and indexes are yet to come.
LEMMA ReplacedByThree ==
  ASSUME NEW T, NEW stmts \in Seq(T), NEW section, NEW next, db \in Databases,
         PgRestore(stmts, section, next), opt.exitOnError, next # "end", stage' = next,
         \/ stmts = <<<<"drop", "database">>, <<"create", "database">>,
                      <<"create", "pre-data">>>>
         \/ stmts = <<<<"create", "database">>, <<"create", "pre-data">>>>
         \/ stmts = <<<<"drop", "post-data">>, <<"drop", "pre-data">>,
                      <<"create", "pre-data">>>>
  PROVE  db'["pre-data"] = "new" /\ db'["post-data"] = "none"
<1> DEFINE D(k) == Execute(stmts)[k].db
<1>1. /\ D(0) = db /\ db' = D(Len(stmts)) /\ Len(stmts) \in Nat
      /\ \A k \in 1..Len(stmts) : Possible(stmts[k], D(k - 1))
                                  /\ D(k) = Effect(stmts[k], D(k - 1))
  BY RestoreAll
<1>2. /\ db \in [Objects -> {"none", "old", "new"}]
      /\ db["database"] = "none" => db["pre-data"] = "none" /\ db["post-data"] = "none"
  BY DEF Databases
<1> HIDE DEF D
<1>3. Len(stmts) > 0 => Possible(stmts[1], db) /\ D(1) = Effect(stmts[1], db)
  <2> SUFFICES ASSUME Len(stmts) > 0
               PROVE  Possible(stmts[1], db) /\ D(1) = Effect(stmts[1], db)
    OBVIOUS
  <2>1. 1 \in 1..Len(stmts) /\ 1 - 1 = 0
    BY <1>1
  <2> QED BY <1>1, <2>1
<1>4. Len(stmts) > 1 => Possible(stmts[2], D(1)) /\ D(2) = Effect(stmts[2], D(1))
  <2> SUFFICES ASSUME Len(stmts) > 1
               PROVE  Possible(stmts[2], D(1)) /\ D(2) = Effect(stmts[2], D(1))
    OBVIOUS
  <2>1. 2 \in 1..Len(stmts) /\ 2 - 1 = 1
    BY <1>1
  <2> QED BY <1>1, <2>1
<1>5. Len(stmts) > 2 => Possible(stmts[3], D(2)) /\ D(3) = Effect(stmts[3], D(2))
  <2> SUFFICES ASSUME Len(stmts) > 2
               PROVE  Possible(stmts[3], D(2)) /\ D(3) = Effect(stmts[3], D(2))
    OBVIOUS
  <2>1. 3 \in 1..Len(stmts) /\ 3 - 1 = 2
    BY <1>1
  <2> QED BY <1>1, <2>1
<1>6. CASE stmts = <<<<"drop", "database">>, <<"create", "database">>,
                     <<"create", "pre-data">>>>
  <2>0. /\ Len(stmts) = 3 /\ stmts[1] = <<"drop", "database">>
        /\ stmts[2] = <<"create", "database">> /\ stmts[3] = <<"create", "pre-data">>
    BY <1>6
  <2>1. D(1) = Effect(<<"drop", "database">>, db)
    BY <1>3, <2>0
  <2>2. D(2) = Effect(<<"create", "database">>, D(1))
    BY <1>4, <2>0
  <2>3. db' = Effect(<<"create", "pre-data">>, D(2))
    BY <1>1, <1>5, <2>0
  <2>4. D(1) = [o \in Objects |-> "none"]
    BY <2>1 DEF Effect
  <2>5. D(2)["post-data"] = "none"
    BY <2>2, <2>4, ObjectNames DEF Effect
  <2> QED BY <2>3, <2>5, ObjectNames DEF Effect
<1>7. CASE stmts = <<<<"create", "database">>, <<"create", "pre-data">>>>
  <2>0. /\ Len(stmts) = 2 /\ stmts[1] = <<"create", "database">>
        /\ stmts[2] = <<"create", "pre-data">>
    BY <1>7
  <2>1. /\ D(1) = Effect(<<"create", "database">>, db)
        /\ Possible(<<"create", "database">>, db)
    BY <1>3, <2>0
  <2>2. db' = Effect(<<"create", "pre-data">>, D(1))
    BY <1>1, <1>4, <2>0
  <2>3. db["post-data"] = "none"
    BY <1>2, <2>1 DEF Possible
  <2>4. D(1)["post-data"] = "none"
    BY <2>1, <2>3, ObjectNames DEF Effect
  <2> QED BY <2>2, <2>4, ObjectNames DEF Effect
<1>8. CASE stmts = <<<<"drop", "post-data">>, <<"drop", "pre-data">>,
                     <<"create", "pre-data">>>>
  <2>0. /\ Len(stmts) = 3 /\ stmts[1] = <<"drop", "post-data">>
        /\ stmts[2] = <<"drop", "pre-data">> /\ stmts[3] = <<"create", "pre-data">>
    BY <1>8
  <2>1. D(1) = Effect(<<"drop", "post-data">>, db)
    BY <1>3, <2>0
  <2>2. D(2) = Effect(<<"drop", "pre-data">>, D(1))
    BY <1>4, <2>0
  <2>3. db' = Effect(<<"create", "pre-data">>, D(2))
    BY <1>1, <1>5, <2>0
  <2>4. D(1)["post-data"] = "none"
    BY <2>1, ObjectNames DEF Effect
  <2>5. D(2)["post-data"] = "none"
    BY <2>2, <2>4, ObjectNames DEF Effect
  <2> QED BY <2>3, <2>5, ObjectNames DEF Effect
<1> QED
  BY <1>6, <1>7, <1>8

\* The database after pre-data; in phases, the old objects are gone.
LEMMA PreDataResult ==
  ASSUME RunType, StageInv, DatabaseInv, PreDataRestore
  PROVE  /\ run' = run /\ db' \in Databases /\ db'["post-data"] # "new"
         /\ cleanToc' = ((run.create \/ run.clean) /\ run.section = "")
         /\ Phased /\ opt.exitOnError /\ stage' = "pre-after" =>
               db'["pre-data"] = "new" /\ db'["post-data"] = "none"
<1> DEFINE phased == (create \/ run.clean) /\ run.section = ""
           objs == IF phased THEN {"pre-data", "post-data"} ELSE {"pre-data"}
           stmts == Statements(objs, create, run.clean, Objects,
                               PreDataCreated(phased))
           D == {d \in Databases : d["post-data"] # "new"}
           T == Statement \ {<<"create", "post-data">>}
<1>1. /\ cleanToc' = phased /\ PgRestore(stmts, "pre-data", "pre-after")
      /\ stage = "pre-restore" /\ create = run.create /\ db = run.db
  BY DEF PreDataRestore, StageInv, DatabaseInv
<1>2. /\ run.create \in BOOLEAN /\ run.clean \in BOOLEAN
      /\ run.db \in Databases /\ run.db["post-data"] # "new"
  BY OptionsType DEF RunType
<1>3. db \in D /\ db \in Databases
  BY <1>1, <1>2
<1>4. run' = run
  BY <1>1, RestoreStep
<1>5. /\ stmts \in Seq(T)
      /\ phased /\ create /\ run.clean =>
           stmts = <<<<"drop", "database">>, <<"create", "database">>,
                     <<"create", "pre-data">>>>
      /\ phased /\ create /\ ~run.clean =>
           stmts = <<<<"create", "database">>, <<"create", "pre-data">>>>
      /\ phased /\ ~create =>
           stmts = <<<<"drop", "post-data">>, <<"drop", "pre-data">>,
                     <<"create", "pre-data">>>>
  <2>1. create \in BOOLEAN /\ phased \in BOOLEAN /\ (phased => create \/ run.clean)
    BY <1>1, <1>2
  <2>2. objs = IF phased THEN {"pre-data", "post-data"} ELSE {"pre-data"}
    OBVIOUS
  <2> HIDE DEF phased, objs
  <2> QED BY <1>2, <2>1, <2>2, PreDataStatements
<1>6. phased \in BOOLEAN
  OBVIOUS
<1>7. phased = ((run.create \/ run.clean) /\ run.section = "")
  BY <1>1
<1>8. Phased => phased
  BY <1>7 DEF Phased
<1> HIDE DEF phased, objs, stmts, D, T
<1>9. db' \in D
  <2>1. \A s \in T : \A d \in D : Possible(s, d) => Effect(s, d) \in D
    BY EffectFacts DEF T, D
  <2> QED BY <1>1, <1>3, <1>5, <2>1, RestoreKeeps
<1>10. ASSUME phased, opt.exitOnError, stage' = "pre-after"
       PROVE  db'["pre-data"] = "new" /\ db'["post-data"] = "none"
  BY <1>1, <1>2, <1>3, <1>5, <1>10, ReplacedByThree
<1> QED
  BY <1>1, <1>4, <1>7, <1>8, <1>9, <1>10 DEF D

\* The database after post-data.
LEMMA PostDataResult ==
  ASSUME RunType, db \in Databases, PostDataRestore
  PROVE  /\ run' = run /\ cleanToc' = cleanToc
         /\ db' \in Databases /\ db'["pre-data"] = db["pre-data"]
         /\ cleanToc /\ opt.exitOnError /\ stage' = "post-after" =>
               db'["post-data"] = "new"
<1> DEFINE stmts == Statements({"post-data"}, create, run.clean,
                               PostDataDropped(cleanToc), Objects)
           D == {d \in Databases : d["pre-data"] = db["pre-data"]}
           T == {"drop", "create"} \X {"database", "post-data"}
<1>1. /\ PgRestore(stmts, "post-data", "post-after") /\ cleanToc' = cleanToc
      /\ stage = "post-restore"
  BY DEF PostDataRestore
<1>2. run' = run /\ run.clean \in BOOLEAN /\ cleanToc \in BOOLEAN /\ create \in BOOLEAN
  BY <1>1, RestoreStep, OptionsType DEF RunType
<1>3. /\ stmts \in Seq(T)
      /\ Len(stmts) \in Nat \ {0} /\ stmts[Len(stmts)] = <<"create", "post-data">>
  BY <1>2, PostDataStatements
<1>4. db \in D
  OBVIOUS
<1>5. ASSUME NEW s \in T, NEW d \in D, Possible(s, d) PROVE Effect(s, d) \in D
  <2>1. s \in Statement /\ d \in Databases /\ d["pre-data"] = db["pre-data"]
    BY ObjectNames DEF Statement
  <2>2. Effect(s, d) \in Databases
    BY <1>5, <2>1, EffectFacts
  <2>3. s \in {<<"drop", "database">>, <<"create", "database">>,
               <<"drop", "post-data">>, <<"create", "post-data">>}
    OBVIOUS
  <2>4. s # <<"drop", "database">>
    BY <1>1, <1>5 DEF Possible
  <2>5. Effect(s, d)["pre-data"] = d["pre-data"]
    BY <2>3, <2>4, ObjectNames DEF Effect
  <2> QED BY <2>1, <2>2, <2>5
<1> HIDE DEF stmts, D, T
<1>6. db' \in D
  BY <1>1, <1>3, <1>4, <1>5, RestoreKeeps
<1>7. ASSUME opt.exitOnError, stage' = "post-after"
      PROVE  db'["post-data"] = "new"
  <2>1. Len(stmts) \in 1..Len(stmts)
    BY <1>3
  <2>2. /\ db' = Execute(stmts)[Len(stmts)].db
        /\ \A k \in 1..Len(stmts) :
             Execute(stmts)[k].db = Effect(stmts[k], Execute(stmts)[k - 1].db)
    BY <1>1, <1>3, <1>7, RestoreAll
  <2>3. db' = Effect(<<"create", "post-data">>, Execute(stmts)[Len(stmts) - 1].db)
    BY <1>3, <2>1, <2>2
  <2> QED BY <2>3, ObjectNames DEF Effect
<1> QED
  BY <1>1, <1>2, <1>6, <1>7 DEF D

-----------------------------------------------------------------------------
(* The invariant is inductive *)

\* What a step of a stage does to the stage and to the data.
LEMMA StageFrame ==
  ASSUME StageStep
  PROVE  /\ UNCHANGED <<vars, at, rows>>
         /\ run' = run /\ stage # "end"
  BY DEF StageStep, Prepare, PrepareFails, PreDataSkip, PreDataBefore,
         PreDataRestore, PreDataAfter, DataSkip, DataBefore, DataAfter,
         PostDataSkip, PostDataBefore, PostDataRestore, PostDataAfter,
         Finished, SkipStage, BeforeStage, ConnectionFails, RunScripts,
         PgRestore, Goto, End, dataVars

\* From which stage to which a step goes.
LEMMA StageMoves ==
  ASSUME StageStep
  PROVE  \/ stage' = "end" /\ result' = "error"
         \/ stage = "prepare" /\ stage' = "pre-data" /\ result' = result /\ create' = create
         \/ /\ stage = "pre-data" /\ result' = result /\ create' = create
            /\ \/ ~PreDataWanted /\ stage' = "data"
               \/ PreDataWanted /\ stage' = "pre-restore"
         \/ /\ stage = "pre-restore" /\ stage' = "pre-after" /\ result' = result
            /\ create' = create
         \/ stage = "pre-after" /\ stage' = "data" /\ result' = result
         \/ /\ stage = "data" /\ result' = result
            /\ \/ ~DataWanted /\ stage' = "post-data"
               \/ DataWanted /\ stage' = "tasks"
         \/ stage = "tasks" /\ outcome = "ok" /\ stage' = "post-data" /\ result' = result
         \/ /\ stage = "post-data"
            /\ \/ ~PostDataWanted /\ stage' = "end" /\ result' = "ok"
               \/ PostDataWanted /\ stage' = "post-restore" /\ result' = result
         \/ stage = "post-restore" /\ stage' = "post-after" /\ result' = result
         \/ stage = "post-after" /\ stage' = "finished" /\ result' = result
         \/ stage = "finished" /\ stage' = "end" /\ result' = "ok"
<1>1. \A section, when, next : RunScripts(section, when, next) =>
         \/ stage' = "end" /\ result' = "error"
         \/ stage' = next /\ result' = result
  BY DEF RunScripts, Goto, End
<1>2. \A stmts, section, next : PgRestore(stmts, section, next) =>
         \/ stage' = "end" /\ result' = "error"
         \/ stage' = next /\ result' = result
  BY RestoreStep
<1>3. CASE Prepare \/ PrepareFails \/ Finished
  BY <1>3 DEF Prepare, PrepareFails, Finished, Goto, End, stageVars
<1>4. CASE PreDataSkip \/ DataSkip \/ PostDataSkip
  BY <1>4 DEF PreDataSkip, DataSkip, PostDataSkip, SkipStage, Goto, End, stageVars
<1>5. CASE PreDataBefore
  BY <1>1, <1>5 DEF PreDataBefore, BeforeStage, ConnectionFails, Goto, End, stageVars
<1>6. CASE DataBefore \/ PostDataBefore
  BY <1>1, <1>6 DEF DataBefore, PostDataBefore, BeforeStage, ConnectionFails, End
<1>7. CASE PreDataRestore
  BY <1>2, <1>7 DEF PreDataRestore
<1>8. CASE PostDataRestore
  BY <1>2, <1>8 DEF PostDataRestore
<1>9. CASE PreDataAfter
  BY <1>1, <1>9 DEF PreDataAfter, ConnectionFails, End
<1>10. CASE DataAfter
  BY <1>1, <1>10 DEF DataAfter, ConnectionFails, End
<1>11. CASE PostDataAfter
  BY <1>1, <1>11 DEF PostDataAfter, ConnectionFails, End
<1> QED
  BY <1>3, <1>4, <1>5, <1>6, <1>7, <1>8, <1>9, <1>10, <1>11 DEF StageStep

\* A stage's step preserves StageInv.
LEMMA StageKept ==
  ASSUME RunType, StageInv, ControlInv, StageStep
  PROVE  StageInv'
<1>1. /\ UNCHANGED <<vars, rows>> /\ run' = run /\ stage # "end"
      /\ PreDataWanted' = PreDataWanted /\ DataWanted' = DataWanted
      /\ PostDataWanted' = PostDataWanted
  BY StageFrame, RunFixed
<1>2. result = "running"
  BY <1>1 DEF StageInv, RunType
<1>3. /\ wpc' = wpc /\ outcome' = outcome /\ restored' = restored /\ rows' = rows
  BY <1>1 DEF vars
<1>4. outcome = "ok" => \A w \in Worker : wpc[w] # "execute"
  BY DEF ControlInv, AllReturned
<1>5. outcome = "error" => \A w \in Worker : wpc[w] # "execute"
  BY DEF ControlInv, AllReturned
<1>6. stage = "tasks" /\ stage' # "tasks" => \A w \in Worker : wpc[w] # "execute"
  BY <1>4, <1>5
  DEF StageStep, Prepare, PrepareFails, PreDataSkip, PreDataBefore,
         PreDataRestore, PreDataAfter, DataSkip, DataBefore, DataAfter,
         PostDataSkip, PostDataBefore, PostDataRestore, PostDataAfter,
         Finished, SkipStage, BeforeStage, ControlInv, AllReturned
<1>7. stage' # "tasks" => \A w \in Worker : wpc'[w] # "execute"
  BY <1>3, <1>6 DEF StageInv
<1>8. /\ stage' \in {"prepare", "refuse", "pre-data", "pre-restore", "pre-after"} =>
            create' = run'.create
      /\ stage' \in {"pre-restore", "pre-after"} => PreDataWanted
      /\ stage' = "tasks" => DataWanted
      /\ stage' \in {"post-restore", "post-after"} => PostDataWanted
  BY <1>1, StageMoves DEF StageInv
<1>9. /\ stage' \in Early => stage \in Early
      /\ stage' \in Late \/ result' = "ok" =>
            \/ stage \in Late
            \/ stage = "tasks" /\ outcome = "ok"
            \/ stage = "data" /\ ~DataWanted
      /\ result' # "running" => stage' = "end"
  BY <1>1, <1>2, StageMoves DEF Early, Late
<1>10. /\ stage' \in Early => outcome' = "running"
       /\ stage' \in Late \/ result' = "ok" =>
             outcome' = IF DataWanted THEN "ok" ELSE "running"
       /\ stage' \in Early => restored' = {} /\ rows' = [d \in DumpId |-> <<>>]
  BY <1>1, <1>3, <1>9 DEF StageInv, Early
<1> QED
  BY <1>1, <1>7, <1>8, <1>9, <1>10 DEF StageInv

\* A stage's step preserves DatabaseInv, and after pre-data leaves its objects.
LEMMA DatabaseKept ==
  ASSUME RunType, StageInv, DatabaseInv, StageStep
  PROVE  DatabaseInv' /\ db' \in Databases
         /\ (stage \notin Early => db'["pre-data"] = db["pre-data"])
<1>1. /\ run' = run /\ opt' = opt /\ Phased' = Phased /\ PreDataWanted' = PreDataWanted
  BY StageFrame, RunFixed DEF vars
<1>2. stage # "end" /\ result = "running"
  BY StageFrame DEF StageInv, RunType
<1>3. db \in Databases
  BY DEF RunType, DatabaseInv, Databases
<1>4. /\ Phased => PreDataWanted /\ PostDataWanted
      /\ Phased => ((run.create \/ run.clean) /\ run.section = "")
  BY DEF Phased, PreDataWanted, PostDataWanted
<1>5. CASE PreDataRestore
  <2>1. stage = "pre-restore" /\ PreDataWanted
    BY <1>5 DEF PreDataRestore, StageInv
  <2>2. /\ db' \in Databases /\ db'["post-data"] # "new"
        /\ cleanToc' = ((run.create \/ run.clean) /\ run.section = "")
        /\ Phased /\ opt.exitOnError /\ stage' = "pre-after" =>
              db'["pre-data"] = "new" /\ db'["post-data"] = "none"
    BY <1>5, PreDataResult
  <2>3. \/ stage' = "pre-after" /\ result' = result
        \/ stage' = "end" /\ result' = "error"
    BY <1>5, RestoreStep DEF PreDataRestore
  <2> QED BY <1>1, <1>2, <2>1, <2>2, <2>3 DEF DatabaseInv, Databases, Restored, Early
<1>6. CASE PostDataRestore
  <2>1. stage = "post-restore" /\ PostDataWanted
    BY <1>6 DEF PostDataRestore, StageInv
  <2>2. /\ cleanToc' = cleanToc
        /\ db' \in Databases /\ db'["pre-data"] = db["pre-data"]
        /\ cleanToc /\ opt.exitOnError /\ stage' = "post-after" =>
              db'["post-data"] = "new"
    BY <1>3, <1>6, PostDataResult
  <2>3. \/ stage' = "post-after" /\ result' = result
        \/ stage' = "end" /\ result' = "error"
    BY <1>6, RestoreStep DEF PostDataRestore
  <2>4. Phased /\ opt.exitOnError => cleanToc /\ db["pre-data"] = "new"
    BY <1>4, <2>1 DEF DatabaseInv, Restored
  <2> QED BY <1>1, <1>2, <2>1, <2>2, <2>3, <2>4 DEF DatabaseInv, Databases, Restored, Early
<1>7. CASE ~PreDataRestore /\ ~PostDataRestore
  <2>1. db' = db /\ cleanToc' = cleanToc
    BY <1>7 DEF StageStep, Prepare, PrepareFails, PreDataSkip, PreDataBefore,
         PreDataAfter, DataSkip, DataBefore, DataAfter,
         PostDataSkip, PostDataBefore, PostDataAfter,
         Finished, SkipStage, BeforeStage, ConnectionFails, stageVars
  <2>2. /\ ~(stage = "pre-restore" /\ stage' = "pre-after")
        /\ ~(stage = "post-restore" /\ stage' = "post-after")
    BY <1>7 DEF StageStep, Prepare, PrepareFails, PreDataSkip, PreDataBefore,
         PreDataAfter, DataSkip, DataBefore, DataAfter,
         PostDataSkip, PostDataBefore, PostDataAfter,
         Finished, SkipStage, BeforeStage, ConnectionFails, RunScripts, Goto, End
  <2>3. /\ stage' \in {"prepare", "refuse", "pre-data", "pre-restore"} =>
              stage \in {"prepare", "refuse", "pre-data", "pre-restore"}
        /\ stage' \in Restored => stage \in Restored \/ (stage = "pre-data" /\ ~PreDataWanted)
        /\ stage' \in {"post-after", "finished"} \/ result' = "ok" =>
              \/ stage \in {"post-after", "finished"}
              \/ stage = "post-data" /\ ~PostDataWanted
    BY <1>2, <2>2, StageMoves DEF Restored
  <2>4. stage = "pre-data" => db["post-data"] # "new"
    BY OptionsType DEF DatabaseInv, RunType
  <2> QED BY <1>1, <1>2, <1>3, <1>4, <2>1, <2>3, <2>4 DEF DatabaseInv, Restored
<1> QED
  BY <1>5, <1>6, <1>7

\* The elements of a concatenation.
LEMMA ElemsOfConcat ==
  ASSUME NEW S, NEW s \in Seq(S), NEW t \in Seq(S)
  PROVE  Elems(s \o t) = Elems(s) \cup Elems(t)
<1>1. Len(s) \in Nat /\ Len(t) \in Nat /\ Len(s \o t) = Len(s) + Len(t)
  OBVIOUS
<1>2. \A i \in 1..(Len(s) + Len(t)) :
         (s \o t)[i] = IF i <= Len(s) THEN s[i] ELSE t[i - Len(s)]
  OBVIOUS
<1>3. ASSUME NEW x \in Elems(s \o t) PROVE x \in Elems(s) \cup Elems(t)
  <2>1. PICK i \in 1..(Len(s) + Len(t)) : x = (s \o t)[i]
    BY <1>1, <1>3 DEF Elems
  <2>2. CASE i <= Len(s)
    BY <1>1, <1>2, <2>1, <2>2 DEF Elems
  <2>3. CASE ~(i <= Len(s))
    <3>1. i - Len(s) \in 1..Len(t) /\ x = t[i - Len(s)]
      BY <1>1, <1>2, <2>1, <2>3
    <3> QED BY <3>1 DEF Elems
  <2> QED BY <2>2, <2>3
<1>4. ASSUME NEW x \in Elems(s) PROVE x \in Elems(s \o t)
  <2>1. PICK i \in 1..Len(s) : x = s[i]
    BY <1>4 DEF Elems
  <2>2. i \in 1..Len(s \o t) /\ x = (s \o t)[i]
    BY <1>1, <1>2, <2>1
  <2> QED BY <2>2 DEF Elems
<1>5. ASSUME NEW x \in Elems(t) PROVE x \in Elems(s \o t)
  <2>1. PICK i \in 1..Len(t) : x = t[i]
    BY <1>5 DEF Elems
  <2>2. i + Len(s) \in 1..Len(s \o t) /\ x = (s \o t)[i + Len(s)]
    BY <1>1, <1>2, <2>1
  <2> QED BY <2>2 DEF Elems
<1> QED
  BY <1>3, <1>4, <1>5

\* What a step of a stage does to the scripts and sections that ran.
LEMMA RanMoves ==
  ASSUME StageStep
  PROVE  \/ ran' = ran /\ applied' = applied
         \/ \E section \in Sections : ran' = Append(ran, section) /\ applied' = applied
         \/ \E section \in Sections : \E when, next : RunScripts(section, when, next)
<1>0. "pre-data" \in Sections /\ "data" \in Sections /\ "post-data" \in Sections
  BY DEF Sections
<1>1. \A stmts, section, next : PgRestore(stmts, section, next) =>
         ran' = ran \/ ran' = Append(ran, section)
  BY RestoreStep
<1>2. CASE \/ Prepare \/ PrepareFails \/ Finished \/ PreDataSkip \/ DataSkip \/ PostDataSkip
           \/ ConnectionFails
  BY <1>2 DEF Prepare, PrepareFails, Finished, PreDataSkip, DataSkip, PostDataSkip,
              SkipStage, ConnectionFails, stageVars
<1>3. CASE PreDataBefore
  BY <1>0, <1>2, <1>3 DEF PreDataBefore, BeforeStage, stageVars
<1>4. CASE DataBefore \/ PostDataBefore
  BY <1>0, <1>2, <1>4 DEF DataBefore, PostDataBefore, BeforeStage
<1>5. CASE PreDataRestore \/ PostDataRestore
  BY <1>0, <1>1, <1>5 DEF PreDataRestore, PostDataRestore
<1>6. CASE PreDataAfter \/ DataAfter \/ PostDataAfter
  BY <1>0, <1>2, <1>6 DEF PreDataAfter, DataAfter, PostDataAfter
<1> QED
  BY <1>2, <1>3, <1>4, <1>5, <1>6 DEF StageStep

\* What ran of the scripts of a section and moment, and what lasts of it: the
\* scripts up to some position of the section, in their order.
LEMMA ScriptsRan ==
  ASSUME RunType, NEW section \in Sections, NEW when, NEW next,
         RunScripts(section, when, next)
  PROVE  \E did \in SUBSET (1..Len(run.scripts[section])), committed \in BOOLEAN :
           LET all == run.scripts[section]
           IN  /\ Elems(ran') = Elems(ran) \cup {all[i].id : i \in did}
               /\ applied' = applied \cup
                     {all[i].id : i \in {k \in did : committed \/ all[k].kind = "command"}}
               /\ \A i \in did : all[i].when = when
               /\ \A i \in did : \A j \in 1..Len(all) :
                     j < i /\ all[j].when = when => j \in did
               /\ ran' \in Seq(Name) /\ applied' \subseteq STRING
<1> DEFINE todo == Todo(section, when)
           all == run.scripts[section]
           L == Len(todo)
           M == Len(all)
           ids == Ids(todo)
<1>0. run \in Runs /\ ran \in Seq(Name) /\ applied \subseteq STRING
  BY DEF RunType
<1>1. PICK n \in 0..L, committed \in BOOLEAN :
        /\ applied' = applied \cup Lasting({todo[i] : i \in 1..n}, committed)
        /\ ran' = ran \o SubSeq(ids, 1, n)
  BY DEF RunScripts
<1>2. /\ L \in Nat /\ ids \in Seq(Name) /\ Len(ids) = L
      /\ \A m \in 1..L : ids[m] = todo[m].id
  BY <1>0, TodoFacts
<1>3. PICK pos \in [1..L -> 1..M] :
         /\ \A m \in 1..L : todo[m] = all[pos[m]] /\ todo[m].when = when
         /\ \A m, l \in 1..L : m < l => pos[m] < pos[l]
         /\ \A i \in 1..M : all[i].when = when => \E m \in 1..L : pos[m] = i
  BY <1>0, TodoFacts
<1>4. /\ all \in Seq(Script) /\ M \in Nat
      /\ \A i \in 1..M : all[i].id \in STRING
  <2>1. all \in Seq(Script)
    BY <1>0, RunFacts
  <2>2. \A i \in 1..M : all[i] \in Script
    BY <2>1
  <2> QED BY <2>1, <2>2 DEF Script
<1> DEFINE did == {pos[m] : m \in 1..n}
           sub == SubSeq(ids, 1, n)
<1> HIDE DEF L, M, all, todo, ids
<1>5. 1..n \subseteq 1..L /\ did \in SUBSET (1..M)
  BY <1>1, <1>2, <1>3
<1>6. sub \in Seq(Name) /\ Len(sub) = n /\ \A m \in 1..n : sub[m] = ids[m]
  BY <1>1, <1>2
<1>7. Elems(sub) = {all[i].id : i \in did}
  <2>1. \A m \in 1..n : sub[m] = all[pos[m]].id
    BY <1>2, <1>3, <1>5, <1>6
  <2> QED BY <1>6, <2>1 DEF Elems
<1>8. Elems(ran') = Elems(ran) \cup {all[i].id : i \in did} /\ ran' \in Seq(Name)
  <2> HIDE DEF sub, did
  <2>1. ran' = ran \o sub
    BY <1>1 DEF sub
  <2>2. ran \o sub \in Seq(Name)
    BY <1>0, <1>6, ConcatProperties
  <2> QED BY <1>0, <1>6, <1>7, <2>1, <2>2, ElemsOfConcat
<1>9. Lasting({todo[i] : i \in 1..n}, committed) =
         {all[i].id : i \in {k \in did : committed \/ all[k].kind = "command"}}
  <2>1. \A m \in 1..n : todo[m] = all[pos[m]]
    BY <1>3, <1>5
  <2> QED BY <2>1 DEF Lasting
<1>10. \A i \in did : all[i].when = when
  BY <1>3, <1>5
<1>11. ASSUME NEW i \in did, NEW j \in 1..M, j < i, all[j].when = when PROVE j \in did
  <2>1. PICK m \in 1..n : i = pos[m]
    BY <1>11
  <2>2. PICK l \in 1..L : pos[l] = j
    BY <1>3, <1>11
  <2>3. l < m
    <3>1. m \in 1..L /\ pos[m] \in Int /\ pos[l] \in Int /\ pos[l] < pos[m]
      BY <1>3, <1>4, <1>5, <1>11, <2>1, <2>2
    <3>2. ~(m < l) /\ m # l
      BY <1>3, <3>1
    <3> QED BY <1>2, <3>1, <3>2
  <2>4. l \in 1..n
    BY <1>1, <1>2, <2>3
  <2> QED BY <2>2, <2>4
<1>12. applied' \subseteq STRING
  BY <1>0, <1>1, <1>4, <1>5, <1>9
<1> HIDE DEF did
<1> QED
  BY <1>1, <1>5, <1>8, <1>9, <1>10, <1>11, <1>12 DEF all, M

\* A stage's step preserves ScriptInv.
LEMMA ScriptKept ==
  ASSUME RunType, ScriptInv, StageStep
  PROVE  ScriptInv' /\ ran' \in Seq(Name) /\ applied' \subseteq STRING
<1>1. run' = run /\ run \in Runs /\ ran \in Seq(Name) /\ applied \subseteq STRING
  BY StageFrame DEF RunType
<1>2. CASE ran' = ran /\ applied' = applied
  BY <1>1, <1>2 DEF ScriptInv
<1>3. ASSUME NEW section \in Sections, ran' = Append(ran, section), applied' = applied
      PROVE  ScriptInv' /\ ran' \in Seq(Name) /\ applied' \subseteq STRING
  <2>1. section \in Name /\ Append(ran, section) \in Seq(Name)
    BY <1>1 DEF Name
  <2>2. Elems(ran') = Elems(ran) \cup {section}
    <3>1. /\ <<section>> \in Seq(Name) /\ Append(ran, section) = ran \o <<section>>
          /\ Len(<<section>>) = 1 /\ <<section>>[1] = section
      BY <1>1, <2>1
    <3>2. Elems(<<section>>) = {section}
      BY <3>1 DEF Elems
    <3>3. Elems(ran \o <<section>>) = Elems(ran) \cup Elems(<<section>>)
      BY <1>1, <3>1, ElemsOfConcat
    <3> QED BY <1>3, <3>1, <3>2, <3>3
  <2>3. \A s \in Sections : \A i \in 1..Len(run.scripts[s]) :
            run.scripts[s][i].id # section
    BY <1>1, NamesFacts
  <2> QED BY <1>1, <1>3, <2>1, <2>2, <2>3 DEF ScriptInv
<1>4. ASSUME NEW section \in Sections, NEW when, NEW next, RunScripts(section, when, next)
      PROVE  ScriptInv' /\ ran' \in Seq(Name) /\ applied' \subseteq STRING
  <2> DEFINE all == run.scripts[section]
  <2>1. PICK did \in SUBSET (1..Len(all)), committed \in BOOLEAN :
           /\ Elems(ran') = Elems(ran) \cup {all[i].id : i \in did}
           /\ applied' = applied \cup
                 {all[i].id : i \in {k \in did : committed \/ all[k].kind = "command"}}
           /\ \A i \in did : all[i].when = when
           /\ \A i \in did : \A j \in 1..Len(all) :
                 j < i /\ all[j].when = when => j \in did
           /\ ran' \in Seq(Name) /\ applied' \subseteq STRING
    BY <1>4, ScriptsRan
  <2>2. ASSUME NEW s \in Sections, NEW i \in 1..Len(run.scripts[s]),
               NEW j \in 1..Len(run.scripts[s])
        PROVE  LET a == run.scripts[s][i]
                   b == run.scripts[s][j]
               IN  /\ a.kind = "command" /\ a.id \in Elems(ran') => a.id \in applied'
                   /\ a.id \in applied' /\ b.kind = "query" =>
                         (i <= j \/ a.kind = "command" \/ a.when # b.when \/ b.id \in applied')
    <3> DEFINE a == run.scripts[s][i]
               b == run.scripts[s][j]
    <3>1. \A k \in did : all[k].id = a.id => s = section /\ k = i
      BY <1>1, <2>1, NamesFacts
    <3>2. ASSUME a.kind = "command", a.id \in Elems(ran') PROVE a.id \in applied'
      <4>1. CASE a.id \in Elems(ran)
        BY <2>1, <3>2, <4>1 DEF ScriptInv
      <4>2. CASE a.id \notin Elems(ran)
        <5>1. PICK k \in did : all[k].id = a.id
          BY <2>1, <3>2, <4>2
        <5>2. s = section /\ k = i /\ all[k] = a
          BY <3>1, <5>1
        <5> QED BY <2>1, <3>2, <5>1, <5>2
      <4> QED BY <4>1, <4>2
    <3>3. ASSUME a.id \in applied', b.kind = "query", ~(i <= j), a.kind # "command",
                 a.when = b.when
          PROVE  b.id \in applied'
      <4>1. CASE a.id \in applied
        BY <2>1, <3>3, <4>1 DEF ScriptInv
      <4>2. CASE a.id \notin applied
        <5>1. PICK k \in did : all[k].id = a.id /\ (committed \/ all[k].kind = "command")
          BY <2>1, <3>3, <4>2
        <5>2. s = section /\ k = i /\ all[k] = a /\ b = all[j]
          BY <3>1, <5>1
        <5>3. committed /\ a.when = when
          BY <2>1, <3>3, <5>1, <5>2
        <5>4. j \in did
          <6>1. j < i /\ all[j].when = when
            BY <1>1, <3>3, <5>2, <5>3, RunFacts
          <6> QED BY <2>1, <5>1, <5>2, <6>1
        <5> QED BY <2>1, <5>2, <5>3, <5>4
      <4> QED BY <4>1, <4>2
    <3> QED BY <3>2, <3>3
  <2> QED BY <1>1, <2>1, <2>2 DEF ScriptInv
<1> QED
  BY <1>1, <1>2, <1>3, <1>4, RanMoves

-----------------------------------------------------------------------------
(* Rows *)

\* A table's rows are numbered from 1, each with its verdict.
LEMMA RowsOf ==
  ASSUME run \in Runs, NEW d \in DumpId
  PROVE  /\ Len(run.rows[d]) \in Nat
         /\ AllRows(d) \in Seq(Nat) /\ Len(AllRows(d)) = Len(run.rows[d])
         /\ \A i \in 1..Len(run.rows[d]) :
              AllRows(d)[i] = i /\ run.rows[d][i] \in {"ok", "conflict", "bad"}
<1>1. run.rows[d] \in Seq({"ok", "conflict", "bad"})
  BY RunFacts
<1>2. /\ Len(run.rows[d]) \in Nat
      /\ \A i \in 1..Len(run.rows[d]) : run.rows[d][i] \in {"ok", "conflict", "bad"}
  BY <1>1
<1> QED
  BY <1>2 DEF AllRows

\* What is stored when one more row has been sent.
LEMMA StoredFacts ==
  ASSUME run \in Runs, NEW d \in DumpId
  PROVE  /\ Stored(d, 0) = <<>>
         /\ \A k \in Nat : k < Len(run.rows[d]) =>
              Stored(d, k + 1) = IF Kind[d] = "blobs" \/ Verdict(d, k + 1) = "ok"
                                   THEN Append(Stored(d, k), k + 1) ELSE Stored(d, k)
<1> DEFINE N == Len(run.rows[d])
           F == Filters(AllRows(d), Accepted(d))
<1>0. /\ N \in Nat /\ AllRows(d) \in Seq(Nat) /\ Len(AllRows(d)) = N
      /\ \A i \in 1..N : AllRows(d)[i] = i
  BY RowsOf
<1>1. \A i \in 1..N : i \in Accepted(d) <=> Verdict(d, i) = "ok"
  BY DEF Accepted
<1>2. /\ F[0] = <<>>
      /\ \A k \in 1..N : F[k] = IF k \in Accepted(d) THEN Append(F[k - 1], k) ELSE F[k - 1]
  BY <1>0, FiltersStep
<1> HIDE DEF N, F
<1>3. CASE Kind[d] = "blobs"
  <2>1. \A k \in Nat : Stored(d, k) = [i \in 1..k |-> i]
    BY <1>3 DEF Stored
  <2>2. ASSUME NEW k \in Nat
        PROVE  [i \in 1..(k + 1) |-> i] = Append([i \in 1..k |-> i], k + 1)
    <3> DEFINE s == [i \in 1..(k + 1) |-> i]
               t == Append([i \in 1..k |-> i], k + 1)
    <3>1. /\ s \in Seq(Nat) /\ t \in Seq(Nat) /\ Len(s) = k + 1 /\ Len(t) = k + 1
          /\ \A i \in 1..(k + 1) : s[i] = i /\ t[i] = i
      <4>1. [i \in 1..k |-> i] \in Seq(Nat) /\ Len([i \in 1..k |-> i]) = k
        OBVIOUS
      <4> QED BY <4>1
    <3> HIDE DEF s, t
    <3>2. s = t
      BY <3>1, SeqEqual
    <3> QED BY <3>2 DEF s, t
  <2>3. Stored(d, 0) = <<>>
    <3>1. [i \in 1..0 |-> i] = <<>> /\ 0 \in Nat
      OBVIOUS
    <3> QED BY <2>1, <3>1
  <2>4. ASSUME NEW k \in Nat PROVE Stored(d, k + 1) = Append(Stored(d, k), k + 1)
    <3>1. k + 1 \in Nat
      OBVIOUS
    <3>2. /\ Stored(d, k + 1) = [i \in 1..(k + 1) |-> i]
          /\ Stored(d, k) = [i \in 1..k |-> i]
      BY <2>1, <3>1, Zenon
    <3> QED BY <2>2, <3>2, Zenon
  <2> QED BY <1>3, <2>3, <2>4
<1>4. CASE Kind[d] # "blobs"
  <2>1. \A k : Stored(d, k) = F[k]
    BY <1>4 DEF Stored, F
  <2>2. ASSUME NEW k \in Nat, k < N
        PROVE  F[k + 1] = IF Verdict(d, k + 1) = "ok" THEN Append(F[k], k + 1) ELSE F[k]
    <3>1. k + 1 \in 1..N /\ (k + 1) - 1 = k
      BY <1>0, <2>2
    <3> QED BY <1>1, <1>2, <3>1
  <2> QED BY <1>2, <1>4, <2>1, <2>2 DEF N
<1> QED
  BY <1>3, <1>4

\* What is stored earlier begins what is stored in the end.
LEMMA StoredPrefix ==
  ASSUME run \in Runs, NEW d \in DumpId, NEW k \in 0..Len(run.rows[d])
  PROVE  /\ Kind[d] = "blobs" => IsPrefix(Stored(d, k), AllRows(d)) /\ Final(d) = AllRows(d)
         /\ Kind[d] # "blobs" => /\ IsPrefix(Stored(d, k), Filter(AllRows(d), Accepted(d)))
                                 /\ Final(d) = Filter(AllRows(d), Accepted(d))
<1>0. /\ Len(run.rows[d]) \in Nat /\ AllRows(d) \in Seq(Nat)
      /\ Len(AllRows(d)) = Len(run.rows[d])
  BY RowsOf
<1>1. CASE Kind[d] = "blobs"
  <2>1. Stored(d, k) = [i \in 1..k |-> i] /\ Final(d) = AllRows(d)
    BY <1>1 DEF Stored, Final, AllRows
  <2>2. IsPrefix([i \in 1..k |-> i], [i \in 1..Len(run.rows[d]) |-> i])
    BY <1>0 DEF IsPrefix
  <2> QED BY <1>1, <2>1, <2>2 DEF AllRows
<1>2. CASE Kind[d] # "blobs"
  <2>1. /\ Stored(d, k) = Filters(AllRows(d), Accepted(d))[k]
        /\ Final(d) = Filters(AllRows(d), Accepted(d))[Len(run.rows[d])]
    BY <1>2 DEF Stored, Final
  <2>2. Final(d) = Filter(AllRows(d), Accepted(d))
    BY <1>0, <2>1 DEF Filter
  <2> QED BY <1>0, <1>2, <2>1, <2>2, FiltersPrefix
<1> QED
  BY <1>1, <1>2

\* What is to be stored does not change while the data are loaded, nor after.
LEMMA StoredFixed ==
  ASSUME run' = run, opt' = opt, db'["pre-data"] = db["pre-data"]
  PROVE  /\ \A d : Inserted(d)' = Inserted(d) /\ Final(d)' = Final(d)
         /\ \A d, k : Stored(d, k)' = Stored(d, k)
<1>1. \A d, i : Verdict(d, i)' = Verdict(d, i)
  BY DEF Verdict
<1>2. \A d : AllRows(d)' = AllRows(d) /\ Accepted(d)' = Accepted(d)
  BY <1>1, RunFixed DEF Accepted
<1>3. \A d, k : Stored(d, k)' = Stored(d, k)
  BY <1>2 DEF Stored
<1> QED
  BY <1>3 DEF Inserted, Final

\* LoadInv implies InsertsAreWhole.
LEMMA RowsWhole ==
  ASSUME RunType, LoadInv
  PROVE  InsertsAreWhole
<1> SUFFICES ASSUME NEW d \in DumpId, Inserted(d)
             PROVE  LET all   == [i \in 1..Len(run.rows[d]) |-> i]
                        whole == IF Kind[d] = "blobs" THEN all
                                 ELSE Filter(all, {i \in 1..Len(all) : Verdict(d, i) = "ok"})
                    IN  /\ IsPrefix(rows[d], whole)
                        /\ d \in restored \ broken => rows[d] = whole
  BY DEF InsertsAreWhole, Inserted
<1>0. run \in Runs /\ Len(run.rows[d]) \in Nat /\ Len(AllRows(d)) = Len(run.rows[d])
  BY RowsOf DEF RunType
<1> DEFINE whole == IF Kind[d] = "blobs" THEN AllRows(d) ELSE Filter(AllRows(d), Accepted(d))
<1>1. \A k \in 0..Len(run.rows[d]) : IsPrefix(Stored(d, k), whole) /\ Final(d) = whole
  BY <1>0, StoredPrefix
<1>2. PICK k \in 0..Len(run.rows[d]) : rows[d] = Stored(d, k)
  <2>1. Stored(d, 0) = <<>> /\ 0 \in 0..Len(run.rows[d])
    BY <1>0, StoredFacts
  <2> QED BY <2>1 DEF LoadInv
<1>3. d \in restored \ broken => rows[d] = Final(d)
  BY DEF LoadInv
<1>4. IsPrefix(rows[d], whole) /\ (d \in restored \ broken => rows[d] = whole)
  BY <1>1, <1>2, <1>3
<1>5. Accepted(d) = {i \in 1..Len(AllRows(d)) : Verdict(d, i) = "ok"}
  BY <1>0 DEF Accepted
<1> QED
  BY <1>4, <1>5 DEF AllRows

-----------------------------------------------------------------------------
(* The data stage keeps the invariant *)

\* What executes an entry, and what it may change.
LEMMA ExecuteFacts ==
  ASSUME TypeOK, FlowInv, NEW w \in Worker, ExecuteStep(w)
  PROVE  /\ wpc[w] = "execute" /\ held[w] \in DumpId /\ held[w] # NoEntry
         /\ held[w] \notin restored /\ held[w] \in Begun
         /\ \A v \in Worker \ {w} : wpc[v] = "execute" => held[v] # held[w]
  BY RestoreAssumption
  DEF ExecuteStep, CopyBatch, CopyCommit, CopyFails, TxFails, InsertRow, InsertEnd,
      InsertFails, RestoreLargeObject, OtherEnd, OtherFails, Executing, TypeOK, FlowInv,
      PlacesInv, Begun

\* A worker sends rows of its entry.
LEMMA SendStep ==
  ASSUME RunType, TypeOK, LoadInv, NEW w \in Worker, wpc[w] = "execute",
         CopyBatch(w) \/ InsertRow(w) \/ RestoreLargeObject(w)
  PROVE  /\ UNCHANGED vars
         /\ at' \in [Worker -> Nat] /\ rows' \in [DumpId -> Seq(Nat)]
         /\ \A v \in Worker \ {w} : at'[v] = at[v]
         /\ \A d \in DumpId \ {held[w]} : rows'[d] = rows[d]
         /\ Inserted(held[w]) =>
               /\ at[w] + 1 <= Len(run.rows[held[w]]) /\ at'[w] = at[w] + 1
               /\ rows'[held[w]] = Stored(held[w], at[w] + 1)
<1> DEFINE d == held[w]
           N == Len(run.rows[d])
<1>0. /\ d \in DumpId /\ run \in Runs /\ at \in [Worker -> Nat]
      /\ rows \in [DumpId -> Seq(Nat)] /\ at[w] \in Nat /\ rows[d] \in Seq(Nat)
  BY DEF TypeOK, RunType
<1>1. N \in Nat /\ \A i \in 1..N : run.rows[d][i] \in {"ok", "conflict", "bad"}
  BY <1>0, RowsOf
<1>2. UNCHANGED vars
  BY DEF CopyBatch, InsertRow, RestoreLargeObject, Row
<1>3. Inserted(d) => at[w] <= N /\ rows[d] = Stored(d, at[w])
  BY DEF LoadInv
<1>4. CASE CopyBatch(w)
  <2>1. PICK last : /\ last = (IF run.batch > 0 /\ at[w] + run.batch < N
                                 THEN at[w] + run.batch ELSE N)
                    /\ at' = [at EXCEPT ![w] = last]
    BY <1>4 DEF CopyBatch
  <2>2. last \in Nat
    <3>1. run.batch \in Nat
      BY <1>0, RunFacts DEF RunOption
    <3> QED BY <1>0, <1>1, <2>1, <3>1
  <2>3. rows' = rows /\ ~Inserted(d)
    BY <1>4 DEF CopyBatch, Executing, Inserted
  <2> HIDE DEF d
  <2> QED BY <1>0, <1>2, <2>1, <2>2, <2>3 DEF d
<1>5. CASE InsertRow(w) \/ RestoreLargeObject(w)
  <2>1. /\ Inserted(d) /\ at[w] # N
        /\ Kind[d] = "blobs" => RestoreLargeObject(w)
    BY <1>5 DEF InsertRow, RestoreLargeObject, Executing, Inserted, Sent
  <2>2. at[w] < N /\ at[w] + 1 \in 1..N
    BY <1>0, <1>1, <1>3, <2>1
  <2>3. PICK c \in BOOLEAN : /\ Row(w, c)
                             /\ c <=> (Kind[d] = "blobs" \/ Verdict(d, at[w] + 1) = "ok")
    <3>1. CASE RestoreLargeObject(w)
      BY <3>1 DEF RestoreLargeObject, Executing
    <3>2. CASE InsertRow(w)
      <4> DEFINE v == Verdict(d, at[w] + 1)
      <4>1. Kind[d] # "blobs" /\ ((v = "ok" /\ Row(w, TRUE))
                                  \/ ((Ignored(v) \/ IsErrorAllowed(v)) /\ Row(w, FALSE)))
        BY <3>2 DEF InsertRow, Executing
      <4>2. Ignored(v) \/ IsErrorAllowed(v) => v # "ok"
        <5>1. run.excluded \subseteq {"conflict", "bad"}
          BY <1>0, RunFacts DEF RunOption
        <5> HIDE DEF v
        <5> QED BY <5>1 DEF Ignored, IsErrorAllowed
      <4> HIDE DEF v
      <4> QED BY <4>1, <4>2 DEF v
    <3> QED BY <1>5, <3>1, <3>2
  <2>4. /\ at' = [at EXCEPT ![w] = at[w] + 1]
        /\ rows' = [rows EXCEPT ![d] = IF c THEN Append(rows[d], at[w] + 1) ELSE rows[d]]
    BY <2>3 DEF Row
  <2>5. rows'[d] = Stored(d, at[w] + 1)
    <3>1. Stored(d, at[w] + 1) = IF c THEN Append(Stored(d, at[w]), at[w] + 1)
                                      ELSE Stored(d, at[w])
      BY <1>0, <2>2, <2>3, StoredFacts
    <3> HIDE DEF d
    <3>2. rows'[d] = IF c THEN Append(rows[d], at[w] + 1) ELSE rows[d]
      BY <1>0, <2>4
    <3> QED BY <1>3, <2>1, <3>1, <3>2
  <2>6. at' \in [Worker -> Nat] /\ rows' \in [DumpId -> Seq(Nat)]
    <3> HIDE DEF d
    <3>1. Append(rows[d], at[w] + 1) \in Seq(Nat)
      BY <1>0
    <3> QED BY <1>0, <2>4, <3>1
  <2>7. at'[w] = at[w] + 1 /\ \A v \in Worker \ {w} : at'[v] = at[v]
    BY <1>0, <2>4
  <2>8. \A e \in DumpId \ {d} : rows'[e] = rows[e]
    <3> HIDE DEF d
    <3> QED BY <1>0, <2>4
  <2>9. at[w] + 1 <= N
    BY <1>0, <1>1, <2>2
  <2> HIDE DEF d
  <2> QED BY <1>2, <2>5, <2>6, <2>7, <2>8, <2>9 DEF d
<1> QED
  BY <1>4, <1>5

\* A worker leaves its entry: all of it is stored, or it failed.
LEMMA LeaveStep ==
  ASSUME RunType, TypeOK, LoadInv, NEW w \in Worker, wpc[w] = "execute",
         \/ CopyCommit(w) \/ CopyFails(w) \/ TxFails(w) \/ InsertEnd(w) \/ InsertFails(w)
         \/ OtherEnd(w) \/ OtherFails(w)
  PROVE  /\ opt' = opt /\ wpc'[w] # "execute"
         /\ at' \in [Worker -> Nat] /\ rows' \in [DumpId -> Seq(Nat)]
         /\ at'[w] = 0 /\ \A v \in Worker \ {w} : at'[v] = at[v]
         /\ \A v \in Worker \ {w} : wpc'[v] = wpc[v] /\ held'[v] = held[v]
         /\ \A d \in DumpId \ {held[w]} : rows'[d] = rows[d]
         /\ restored' \subseteq restored \cup {held[w]} /\ broken \subseteq broken'
         /\ opt.exitOnError => broken' = broken
         /\ Inserted(held[w]) =>
               /\ rows'[held[w]] = rows[held[w]]
               /\ \/ restored' = restored
                  \/ held[w] \in broken'
                  \/ rows[held[w]] = Final(held[w])
<1> DEFINE d == held[w]
<1>0. /\ d \in DumpId /\ at \in [Worker -> Nat] /\ rows \in [DumpId -> Seq(Nat)]
      /\ rows[d] \in Seq(Nat) /\ at[w] \in Nat
      /\ wpc = [v \in Worker |-> wpc[v]] /\ held = [v \in Worker |-> held[v]]
  BY DEF TypeOK, RunType
<1>1. \/ Commit(w)
      \/ Tolerate(w)
      \/ ExecuteFails(w)
  BY DEF CopyCommit, CopyFails, TxFails, InsertEnd, InsertFails, OtherEnd, OtherFails
<1>2. /\ opt' = opt /\ wpc'[w] # "execute"
      /\ \A v \in Worker \ {w} : wpc'[v] = wpc[v] /\ held'[v] = held[v]
      /\ restored' \subseteq restored \cup {d} /\ broken \subseteq broken'
      /\ opt.exitOnError => broken' = broken
      /\ \/ Commit(w)
         \/ restored' = restored
         \/ d \in broken'
  <2>1. CASE Commit(w) \/ Tolerate(w)
    BY <1>0, <2>1 DEF Commit, Tolerate, Finish
  <2>2. CASE ExecuteFails(w)
    BY <1>0, <2>2 DEF ExecuteFails, WorkerFails
  <2> QED BY <1>1, <2>1, <2>2
<1>3. PICK r \in Seq(Nat) : /\ Left(w, r)
                            /\ Inserted(d) => r = rows[d]
  <2>1. [i \in 1..at[w] |-> i] \in Seq(Nat)
    <3>1. \A k \in Nat : [i \in 1..k |-> i] \in Seq(Nat)
      OBVIOUS
    <3> QED BY <1>0, <3>1
  <2>2. CASE CopyCommit(w)
    BY <2>1, <2>2 DEF CopyCommit, Executing, Inserted
  <2>3. CASE ~CopyCommit(w)
    BY <1>0, <2>3 DEF CopyFails, TxFails, InsertEnd, InsertFails, OtherEnd, OtherFails
  <2> QED BY <2>2, <2>3
<1>4. at' = [at EXCEPT ![w] = 0] /\ rows' = [rows EXCEPT ![d] = r]
  BY <1>3 DEF Left
<1>5. ASSUME Inserted(d), Commit(w) PROVE rows[d] = Final(d) \/ restored' = restored \/ d \in broken'
  <2>1. CASE Sent(w)
    <3>1. rows[d] = Stored(d, at[w]) /\ at[w] = Len(run.rows[d])
      BY <1>5, <2>1 DEF LoadInv, Sent
    <3> QED BY <3>1 DEF Final
  <2>2. CASE ~Sent(w)
    <3>1. ~InsertEnd(w) /\ ~OtherEnd(w) /\ ~CopyCommit(w)
      BY <1>5, <2>2 DEF InsertEnd, OtherEnd, CopyCommit, Executing, Inserted
    <3>2. Tolerate(w) \/ ExecuteFails(w)
      BY <3>1 DEF CopyFails, TxFails, InsertFails, OtherFails
    <3> QED BY <3>2 DEF Tolerate, ExecuteFails, WorkerFails
  <2> QED BY <2>1, <2>2
<1> HIDE DEF d
<1>6. /\ at' \in [Worker -> Nat] /\ rows' \in [DumpId -> Seq(Nat)] /\ rows'[d] = r
      /\ at'[w] = 0 /\ \A v \in Worker \ {w} : at'[v] = at[v]
      /\ \A e \in DumpId \ {d} : rows'[e] = rows[e]
  BY <1>0, <1>3, <1>4
<1> QED
  BY <1>2, <1>3, <1>5, <1>6 DEF d

\* A worker that executes goes on until it leaves its entry.
LEMMA BeginsFresh ==
  ASSUME TypeOK, FlowInv, NEW w \in Worker, Begin(w)
  PROVE  held[w] \in DumpId /\ held[w] \notin Begun
  BY RestoreAssumption DEF Begin, TypeOK, FlowInv, PlacesInv, Begun

\* The steps that touch no entry: of the pusher, of the errgroup, and those
\* in which a worker connects, receives, begins or gives up.
LEMMA QuietStep ==
  ASSUME TypeOK, \/ RunPusher \/ RunWait
                 \/ \E w \in Worker : ChannelStep(w) /\ UNCHANGED runVars
  PROVE  /\ UNCHANGED <<opt, restored, broken, at, rows>>
         /\ \A v \in Worker : wpc'[v] = "execute" =>
               /\ held'[v] = held[v]
               /\ wpc[v] = "execute" \/ Begin(v)
         /\ \A v \in Worker : wpc[v] = "execute" => wpc'[v] = "execute"
<1>1. CASE RunPusher
  <2>1. UNCHANGED <<opt, restored, broken, wpc, held>>
    BY <1>1 DEF RunPusher, Pusher, PusherEnd, NextPhase, PusherSkip, PusherTake, PusherWaited,
         PusherDrop, PusherSend, PusherNoDefinition, PusherCancelled, workerVars
  <2> QED BY <1>1, <2>1 DEF RunPusher, runVars, dataVars
<1>2. CASE RunWait
  BY <1>2 DEF RunWait, Wait, workerVars, runVars, dataVars
<1>3. ASSUME NEW w \in Worker, ChannelStep(w), UNCHANGED runVars
      PROVE  /\ UNCHANGED <<opt, restored, broken, at, rows>>
             /\ \A v \in Worker : wpc'[v] = "execute" =>
                   /\ held'[v] = held[v]
                   /\ wpc[v] = "execute" \/ Begin(v)
             /\ \A v \in Worker : wpc[v] = "execute" => wpc'[v] = "execute"
  <2>1. UNCHANGED <<opt, restored, broken, at, rows>>
    BY <1>3 DEF ChannelStep, Connect, ConnectFails, Receive, ReceiveNil,
         WorkerCancelled, Begin, BeginFails, WorkerFails, runVars, dataVars
  <2>2. /\ wpc \in [Worker -> {"connect", "select", "begin", "execute", "done", "failed"}]
        /\ held = [v \in Worker |-> held[v]]
    BY DEF TypeOK
  <2>3. \A v \in Worker \ {w} : wpc'[v] = wpc[v] /\ held'[v] = held[v]
    BY <1>3, <2>2 DEF ChannelStep, Connect, ConnectFails, Receive, ReceiveNil,
         WorkerCancelled, Begin, BeginFails, WorkerFails
  <2>4. wpc'[w] = "execute" => Begin(w) /\ held'[w] = held[w]
    BY <1>3, <2>2 DEF ChannelStep, Connect, ConnectFails, Receive, ReceiveNil,
         WorkerCancelled, Begin, BeginFails, WorkerFails
  <2>5. wpc[w] # "execute"
    BY <1>3 DEF ChannelStep, Connect, ConnectFails, Receive, ReceiveNil,
         WorkerCancelled, Begin, BeginFails
  <2> QED BY <2>1, <2>3, <2>4, <2>5
<1> QED
  BY <1>1, <1>2, <1>3

\* A step of the data stage preserves LoadInv.
LEMMA LoadKept ==
  ASSUME TypeOK, TypeOK', FlowInv, [Next]_vars, RunType, LoadInv, DataStep
  PROVE  LoadInv' /\ at' \in [Worker -> Nat] /\ rows' \in [DumpId -> Seq(Nat)]
<1>0. /\ run' = run /\ opt' = opt /\ db' = db /\ run \in Runs
      /\ at \in [Worker -> Nat] /\ rows \in [DumpId -> Seq(Nat)]
  BY DataFrame, PlanFixed DEF RunType
<1>1. /\ \A d : Inserted(d)' = Inserted(d) /\ Final(d)' = Final(d)
      /\ \A d, k : Stored(d, k)' = Stored(d, k)
  BY <1>0, StoredFixed
<1>2. Begun \subseteq Begun'
  BY BegunStep
<1>3. \A d \in DumpId : Len(run.rows[d]) \in Nat /\ Stored(d, 0) = <<>>
  BY <1>0, RowsOf, StoredFacts
<1>4. CASE \/ RunPusher \/ RunWait
           \/ \E w \in Worker : ChannelStep(w) /\ UNCHANGED runVars
  <2>1. /\ UNCHANGED <<opt, restored, broken, at, rows>>
        /\ \A v \in Worker : wpc'[v] = "execute" =>
              /\ held'[v] = held[v]
              /\ wpc[v] = "execute" \/ Begin(v)
        /\ \A v \in Worker : wpc[v] = "execute" => wpc'[v] = "execute"
    BY <1>4, QuietStep
  <2>2. ASSUME NEW v \in Worker, wpc'[v] # "execute" PROVE at[v] = 0
    <3>1. wpc[v] # "execute"
      BY <2>1, <2>2
    <3> QED BY <3>1 DEF LoadInv
  <2>3. ASSUME NEW v \in Worker, wpc'[v] = "execute", Inserted(held[v])
        PROVE  at[v] <= Len(run.rows[held[v]]) /\ rows[held[v]] = Stored(held[v], at[v])
    <3>1. CASE wpc[v] = "execute"
      BY <2>3, <3>1 DEF LoadInv
    <3>2. CASE Begin(v)
      <4>1. held[v] \in DumpId /\ held[v] \notin Begun /\ at[v] = 0
        BY <3>2, BeginsFresh DEF LoadInv, Begin
      <4>2. rows[held[v]] = <<>>
        BY <4>1 DEF LoadInv
      <4> QED BY <1>3, <4>1, <4>2
    <3> QED BY <2>1, <2>3, <3>1, <3>2
  <2> QED BY <1>0, <1>1, <1>2, <2>1, <2>2, <2>3 DEF LoadInv
<1>5. ASSUME NEW w \in Worker, ExecuteStep(w)
      PROVE  LoadInv' /\ at' \in [Worker -> Nat] /\ rows' \in [DumpId -> Seq(Nat)]
  <2> DEFINE d == held[w]
  <2>1. /\ wpc[w] = "execute" /\ d \in DumpId /\ d \notin restored /\ d \in Begun
        /\ \A v \in Worker \ {w} : wpc[v] = "execute" => held[v] # d
    BY <1>5, ExecuteFacts
  <2>2. \A v \in Worker : wpc[v] = "execute" => held[v] \in DumpId
    BY DEF TypeOK
  <2>3. Inserted(d) => at[w] <= Len(run.rows[d]) /\ rows[d] = Stored(d, at[w])
    BY <2>1 DEF LoadInv
  <2>4. CASE CopyBatch(w) \/ InsertRow(w) \/ RestoreLargeObject(w)
    <3>1. /\ UNCHANGED vars
          /\ at' \in [Worker -> Nat] /\ rows' \in [DumpId -> Seq(Nat)]
          /\ \A v \in Worker \ {w} : at'[v] = at[v]
          /\ \A e \in DumpId \ {d} : rows'[e] = rows[e]
          /\ Inserted(d) =>
                /\ at[w] + 1 <= Len(run.rows[d]) /\ at'[w] = at[w] + 1
                /\ rows'[d] = Stored(d, at[w] + 1)
      BY <2>1, <2>4, SendStep
    <3>2. /\ wpc' = wpc /\ held' = held /\ restored' = restored /\ broken' = broken
      BY <3>1 DEF vars
    <3>3. Inserted(d) => at[w] + 1 \in 0..Len(run.rows[d])
      BY <1>0, <1>3, <2>1, <3>1
    <3> HIDE DEF d
    <3>4. /\ \A v \in Worker : wpc'[v] # "execute" => at'[v] = 0
          /\ \A e \in DumpId : rows'[e] # <<>> => e \in Begun'
      BY <1>2, <2>1, <3>1, <3>2 DEF LoadInv
    <3>5. \A v \in Worker : wpc'[v] = "execute" /\ Inserted(held[v]) =>
             at'[v] <= Len(run.rows[held[v]]) /\ rows'[held[v]] = Stored(held[v], at'[v])
      BY <2>1, <2>2, <3>1, <3>2 DEF LoadInv, d
    <3>6. \A e \in DumpId : Inserted(e) =>
             /\ rows'[e] # <<>> => \E k \in 0..Len(run.rows[e]) : rows'[e] = Stored(e, k)
             /\ e \in restored' \ broken' => rows'[e] = Final(e)
      BY <2>1, <3>1, <3>2, <3>3 DEF LoadInv
    <3>7. opt.exitOnError => broken' = {}
      BY <3>2 DEF LoadInv
    <3> QED BY <1>0, <1>1, <3>1, <3>2, <3>4, <3>5, <3>6, <3>7 DEF LoadInv
  <2>5. CASE \/ CopyCommit(w) \/ CopyFails(w) \/ TxFails(w) \/ InsertEnd(w) \/ InsertFails(w)
             \/ OtherEnd(w) \/ OtherFails(w)
    <3>1. /\ wpc'[w] # "execute"
          /\ at' \in [Worker -> Nat] /\ rows' \in [DumpId -> Seq(Nat)]
          /\ at'[w] = 0 /\ \A v \in Worker \ {w} : at'[v] = at[v]
          /\ \A v \in Worker \ {w} : wpc'[v] = wpc[v] /\ held'[v] = held[v]
          /\ \A e \in DumpId \ {d} : rows'[e] = rows[e]
          /\ restored' \subseteq restored \cup {d} /\ broken \subseteq broken'
          /\ opt.exitOnError => broken' = broken
          /\ Inserted(d) =>
                /\ rows'[d] = rows[d]
                /\ \/ restored' = restored
                   \/ d \in broken'
                   \/ rows[d] = Final(d)
      BY <2>1, <2>5, LeaveStep
    <3> HIDE DEF d
    <3>4. /\ \A v \in Worker : wpc'[v] # "execute" => at'[v] = 0
          /\ \A e \in DumpId : rows'[e] # <<>> => e \in Begun'
      BY <1>2, <2>1, <3>1 DEF LoadInv
    <3>5. ASSUME NEW v \in Worker, wpc'[v] = "execute", Inserted(held'[v])
          PROVE  /\ at'[v] <= Len(run.rows[held'[v]])
                 /\ rows'[held'[v]] = Stored(held'[v], at'[v])
      <4>1. v # w
        BY <3>1, <3>5
      <4>2. /\ wpc[v] = "execute" /\ held'[v] = held[v] /\ held[v] # d /\ held[v] \in DumpId
            /\ at'[v] = at[v]
        BY <2>1, <2>2, <3>1, <3>5, <4>1
      <4>3. rows'[held[v]] = rows[held[v]]
        BY <3>1, <4>2
      <4> QED BY <3>5, <4>2, <4>3 DEF LoadInv
    <3>6. ASSUME NEW e \in DumpId, Inserted(e)
          PROVE  /\ rows'[e] # <<>> => \E k \in 0..Len(run.rows[e]) : rows'[e] = Stored(e, k)
                 /\ e \in restored' \ broken' => rows'[e] = Final(e)
      <4>1. rows'[e] = rows[e]
        BY <3>1, <3>6
      <4>2. e \in restored' \ broken' => e \in restored \ broken \/ rows[e] = Final(e)
        BY <2>1, <3>1, <3>6
      <4> QED BY <3>6, <4>1, <4>2 DEF LoadInv
    <3>7. opt.exitOnError => broken' = {}
      BY <3>1 DEF LoadInv
    <3> QED BY <1>0, <1>1, <3>1, <3>4, <3>5, <3>6, <3>7 DEF LoadInv
  <2> QED BY <1>5, <2>4, <2>5 DEF ExecuteStep
<1> QED
  BY <1>0, <1>4, <1>5, QuietStep DEF DataStep, RunWorker

-----------------------------------------------------------------------------
(* The theorems *)

\* Where no section, script or object changes, what is said of them stays true.
LEMMA RestFrame ==
  ASSUME RanInv, ScriptInv, DatabaseInv, opt' = opt,
         UNCHANGED <<run, stage, cleanToc, db, ran, applied, result>>
  PROVE  RanInv' /\ ScriptInv' /\ DatabaseInv'
<1>1. RanInv'
  BY RunFixed DEF RanInv
<1>2. ScriptInv'
  BY DEF ScriptInv
<1>3. DatabaseInv'
  <2>1. Phased' = Phased /\ PreDataWanted' = PreDataWanted
    BY RunFixed
  <2> QED BY <2>1 DEF DatabaseInv
<1> QED
  BY <1>1, <1>2, <1>3

\* A step that leaves the rows, the workers and the tables alone preserves LoadInv.
LEMMA LoadFrame ==
  ASSUME LoadInv, UNCHANGED <<vars, at, rows, run>>, db'["pre-data"] = db["pre-data"]
  PROVE  LoadInv'
<1>1. /\ wpc' = wpc /\ held' = held /\ restored' = restored /\ broken' = broken
      /\ opt' = opt /\ at' = at /\ rows' = rows /\ run' = run
  BY DEF vars
<1>2. Begun' = Begun
  BY <1>1 DEF Begun
<1>3. /\ \A d : Inserted(d)' = Inserted(d) /\ Final(d)' = Final(d)
      /\ \A d, k : Stored(d, k)' = Stored(d, k)
  BY <1>1, StoredFixed
<1> QED
  BY <1>1, <1>2, <1>3 DEF LoadInv

\* Before the data stage nothing is stored.
LEMMA LoadBefore ==
  ASSUME TypeOK, LoadInv, StageInv, StageStep, stage \in Early
  PROVE  LoadInv'
<1>1. UNCHANGED <<vars, at, rows>> /\ restored = {} /\ rows = [d \in DumpId |-> <<>>]
      /\ \A w \in Worker : wpc[w] # "execute"
  BY StageFrame DEF StageInv, Early
<1>2. /\ wpc' = wpc /\ held' = held /\ restored' = {} /\ broken' = broken /\ broken = {}
      /\ opt' = opt /\ at' = at /\ \A d \in DumpId : rows'[d] = <<>>
  BY <1>1 DEF vars, TypeOK
<1> QED
  BY <1>1, <1>2 DEF LoadInv

\* A stage's step preserves RunType.
LEMMA TypeKept ==
  ASSUME RunType, StageStep, ran' \in Seq(Name), applied' \subseteq STRING,
         db' \in Databases
  PROVE  RunType'
<1>1. run' = run /\ at' = at /\ rows' = rows
  BY StageFrame
<1>2. stage' \in Early \cup {"tasks"} \cup Late \cup {"end"}
  BY StageMoves DEF Early, Late
<1>3. create' \in BOOLEAN /\ cleanToc' \in BOOLEAN
  BY DEF RunType, StageStep, Prepare, PrepareFails, PreDataSkip, PreDataBefore,
         PreDataRestore, PreDataAfter, DataSkip, DataBefore, DataAfter,
         PostDataSkip, PostDataBefore, PostDataRestore, PostDataAfter,
         Finished, SkipStage, BeforeStage, ConnectionFails, stageVars
<1>4. result' \in {"running", "ok", "error"}
  BY StageMoves DEF RunType
<1>5. db' \in [Objects -> {"none", "old", "new"}]
  BY DEF Databases
<1> QED
  BY <1>1, <1>2, <1>3, <1>4, <1>5 DEF RunType

\* The inductive invariant of a whole restore.
RunInv == RunType /\ RanInv /\ StageInv /\ ScriptInv /\ DatabaseInv /\ LoadInv

\* RunInv is inductive beside the invariants of the data stage.
LEMMA RunInductive ==
  ASSUME TypeOK, TypeOK', FlowInv, ControlInv, RunInv, [RunNext]_allVars
  PROVE  RunInv'
<1>0. RunType /\ RanInv /\ StageInv /\ ScriptInv /\ DatabaseInv /\ LoadInv /\ [Next]_vars
  BY StepsRefine DEF RunInv
<1>1. CASE StageStep
  <2>1. UNCHANGED <<vars, at, rows>> /\ run' = run
    BY <1>1, StageFrame
  <2>2. RanInv' /\ StageInv'
    BY <1>0, <1>1, RanStep, StageKept
  <2>3. ScriptInv' /\ ran' \in Seq(Name) /\ applied' \subseteq STRING
    BY <1>0, <1>1, ScriptKept
  <2>4. DatabaseInv' /\ db' \in Databases /\ (stage \notin Early => db'["pre-data"] = db["pre-data"])
    BY <1>0, <1>1, DatabaseKept
  <2>5. RunType'
    BY <1>0, <1>1, <2>3, <2>4, TypeKept
  <2>6. LoadInv'
    BY <1>0, <1>1, <2>1, <2>4, LoadFrame, LoadBefore
  <2> QED BY <2>2, <2>3, <2>4, <2>5, <2>6 DEF RunInv
<1>2. CASE DataStep
  <2>1. /\ stage = "tasks" /\ opt' = opt
        /\ UNCHANGED <<run, stage, create, cleanToc, db, ran, applied, result>>
    BY <1>0, <1>2, DataFrame, PlanFixed
  <2>2. RanInv' /\ ScriptInv' /\ DatabaseInv'
    BY <1>0, <2>1, RestFrame
  <2>3. LoadInv' /\ at' \in [Worker -> Nat] /\ rows' \in [DumpId -> Seq(Nat)]
    BY <1>0, <1>2, LoadKept
  <2>4. RunType'
    BY <1>0, <2>1, <2>3 DEF RunType
  <2>5. StageInv'
    <3>1. /\ DataWanted' = DataWanted /\ PreDataWanted' = PreDataWanted
          /\ PostDataWanted' = PostDataWanted
      BY <2>1, RunFixed
    <3> QED BY <1>0, <2>1, <3>1 DEF StageInv, Early, Late
  <2> QED BY <2>2, <2>3, <2>4, <2>5 DEF RunInv
<1>3. CASE UNCHANGED allVars
  <2>1. /\ UNCHANGED <<vars, at, rows>>
        /\ UNCHANGED <<run, stage, create, cleanToc, db, ran, applied, result>>
    BY <1>3 DEF allVars, runVars, stageVars, dataVars
  <2>2. opt' = opt /\ wpc' = wpc /\ outcome' = outcome /\ restored' = restored
    BY <2>1 DEF vars
  <2>3. RanInv' /\ ScriptInv' /\ DatabaseInv'
    BY <1>0, <2>1, <2>2, RestFrame
  <2>4. LoadInv'
    BY <1>0, <2>1, LoadFrame
  <2>5. RunType'
    BY <1>0, <2>1 DEF RunType
  <2>6. StageInv'
    <3>1. /\ DataWanted' = DataWanted /\ PreDataWanted' = PreDataWanted
          /\ PostDataWanted' = PostDataWanted
      BY <2>1, RunFixed
    <3> QED BY <1>0, <2>1, <2>2, <3>1 DEF StageInv
  <2> QED BY <2>3, <2>4, <2>5, <2>6 DEF RunInv
<1> QED
  BY <1>1, <1>2, <1>3 DEF RunNext, DataStep

\* RunInv holds at first.
LEMMA RunStarts == RunInit => RunInv
<1> SUFFICES ASSUME RunInit PROVE RunInv
  OBVIOUS
<1>1. /\ run \in Runs /\ stage \in {"prepare", "refuse"}
      /\ create = run.create /\ cleanToc = FALSE /\ db = run.db
      /\ ran = <<>> /\ applied = {} /\ at = [w \in Worker |-> 0]
      /\ rows = [d \in DumpId |-> <<>>] /\ result = "running"
  BY DEF RunInit, Runs
<1>2. /\ wpc = [w \in Worker |-> "connect"] /\ restored = {} /\ broken = {}
      /\ outcome = "running"
  BY DEF RunInit, Init
<1>3. run.create \in BOOLEAN /\ run.db \in Databases /\ run.db["post-data"] # "new"
  BY <1>1, OptionsType
<1>4. RunType
  <2>1. <<>> \in Seq(Name) /\ <<>> \in Seq(Nat)
    OBVIOUS
  <2> QED BY <1>1, <1>3, <2>1 DEF RunType, Databases, Early
<1>5. RanInv
  <2>1. Planned \in Seq(Name)
    BY <1>1, PlanParts DEF PlanFacts
  <2>2. IsPrefix(<<>>, <<>> \o Planned) /\ <<>> \o Planned = Planned
    BY <2>1, ConcatPrefix, BeginsFacts, EmptySeq
  <2> QED BY <1>1, <2>2 DEF RanInv
<1>6. StageInv
  BY <1>1, <1>2 DEF StageInv, Late
<1>7. ScriptInv
  <2>1. Elems(ran) = {}
    BY <1>1 DEF Elems
  <2> QED BY <1>1, <2>1 DEF ScriptInv
<1>8. DatabaseInv
  BY <1>1, <1>3 DEF DatabaseInv, Databases, Restored
<1>9. LoadInv
  BY <1>1, <1>2 DEF LoadInv
<1> QED
  BY <1>4, <1>5, <1>6, <1>7, <1>8, <1>9 DEF RunInv

\* For every dump, every choice of options, scripts and rows, every database
\* and every number of jobs, a restore keeps its invariant.
THEOREM RunInvariant == RunSpec => []RunInv
<1>1. TypeOK /\ TypeOK' /\ FlowInv /\ CompleteInv /\ RunInv /\ [RunNext]_allVars => RunInv'
  BY RunInductive DEF CompleteInv
<1>2. RunSpec => []TypeOK /\ []FlowInv /\ []CompleteInv
  BY ImplementsDataStage, TypeCorrect, FlowCorrect, CompleteCorrect, PTL
<1> QED
  BY <1>1, <1>2, RunStarts, PTL DEF RunSpec

\* Scripts and sections run in the order the options promise, without a gap,
\* whatever fails; success means all of them, and what queries and commands
\* leave is consistent.
THEOREM PlannedRuns == RunSpec => []RunsAsPlanned
<1>1. RunInv => RunsAsPlanned
  <2> SUFFICES ASSUME RunInv PROVE RunsAsPlanned
    OBVIOUS
  <2>1. IsPrefix(ran, Planned) /\ (result = "ok" => ran = Planned)
    BY DEF RunInv, RanInv
  <2>2. result = "ok" => outcome = IF DataWanted THEN "ok" ELSE "running"
    BY DEF RunInv, StageInv
  <2>3. ScriptInv
    BY DEF RunInv
  <2> QED BY <2>1, <2>2, <2>3 DEF RunsAsPlanned, ScriptInv
<1> QED
  BY <1>1, RunInvariant, PTL

\* No constraint or index of the restore exists while rows are loaded, and a
\* phased restore that tolerates no error has replaced what was there.
THEOREM CleanInPhases == RunSpec => []PhasedClean
<1>1. RunInv => PhasedClean
  BY DEF RunInv, DatabaseInv, PhasedClean, Phased, Restored
<1> QED
  BY <1>1, RunInvariant, PTL

\* The rows of a restore are whole, for every number of rows, of jobs and of
\* failures, with COPY and with INSERT.
THEOREM WholeRows == RunSpec => []RowsAreWhole
<1>1. RunInv /\ CopiesAreWhole /\ CompleteOnSuccess => RowsAreWhole
  <2> SUFFICES ASSUME RunInv, CopiesAreWhole, CompleteOnSuccess PROVE RowsAreWhole
    OBVIOUS
  <2>1. InsertsAreWhole
    BY RowsWhole DEF RunInv
  <2>2. ASSUME opt.exitOnError, ~opt.inserts, outcome = "ok", NEW d \in Plan,
               Kind[d] \in {"table", "blobs"}
        PROVE  rows[d] = [i \in 1..Len(run.rows[d]) |-> i]
    <3>1. d \in DumpId /\ d \in restored \ broken
      BY <2>2 DEF RunInv, LoadInv, CompleteOnSuccess, Plan
    <3>2. CASE Kind[d] = "table"
      BY <2>2, <3>1, <3>2 DEF CopiesAreWhole
    <3>3. CASE Kind[d] = "blobs"
      BY <2>1, <3>1, <3>3 DEF InsertsAreWhole
    <3> QED BY <2>2, <3>2, <3>3
  <2> QED BY <2>1, <2>2 DEF RowsAreWhole
<1>2. RunSpec => []CompleteOnSuccess
  BY ImplementsDataStage, SuccessIsComplete, PTL
<1> QED
  BY <1>1, <1>2, RunInvariant, CopyIsWhole, PTL
=============================================================================
