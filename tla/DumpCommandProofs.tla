-------------------------- MODULE DumpCommandProofs -------------------------
(***************************************************************************)
(* A whole dump implements the data stage of DumpRun, so all that is       *)
(* proved of it holds of the command; and what it leaves behind: one       *)
(* snapshot in the storage, no scratch schema in the source database, a    *)
(* toc.dat that reads back as it was written.                              *)
(***************************************************************************)
EXTENDS DumpCommand, DumpRunProofs, SetInduction

\* Around the data stage nothing of it changes.
LEMMA SetUpApart == SetUp => UNCHANGED vars
  BY DEF SetUp, StartMainTx, BuildContext, CreateScratch, MaterializeKeys,
         KeysMaterialized, KeysFail, ContextBuilt, SchemaOnlyDump, SetUpFails

LEMMA OthersApart == OthersCommit \/ Return \/ KillCommand => UNCHANGED vars
  BY DEF OthersCommit, Return, KillCommand

\* What the command adds to a step of the data stage.
RunFrame == /\ phase = "run"
            /\ view' = [o \in Object |->
                          IF o \notin stored' \ stored THEN view[o]
                          ELSE IF Imported THEN snapshot ELSE now]
            /\ UNCHANGED <<cmd, phase, failedIn, now, snapshot, schemaView,
                           keysView, scratch, deferred, dropFailed>>

\* A step of the command in the data stage is one of the data stage.
LEMMA RunRefines == RunData \/ RunOutside => Next /\ RunFrame
  BY DEF RunData, RunOutside, Run, RunFrame, Next

\* Every step of the command is a step of its data stage, or invisible to it.
LEMMA CommandRefines == [CommandNext]_allVars => [Next]_vars
  BY SetUpApart, OthersApart, RunRefines DEF CommandNext, allVars

\* The command implements the data stage: what is proved of DumpRun holds of
\* greenmask dump as a whole.
THEOREM ImplementsDumpRun == CommandSpec => Spec
<1>1. CommandInit => Init
  BY DEF CommandInit
<1> QED
  BY <1>1, CommandRefines, PTL DEF CommandSpec, Spec

\* A dump of a whole command with its metadata.json has its toc.dat, every
\* object's entry and every entry's data, whichever step of the command failed.
THEOREM CommandPublished == CommandSpec => []PublishedIsComplete
  BY ImplementsDumpRun, Published, PTL

\* A command whose last step succeeds has left the heartbeat "done".
THEOREM CommandDoneOnSuccess == CommandSpec => []SuccessIsDone
  BY ImplementsDumpRun, DoneOnSuccess, PTL

-----------------------------------------------------------------------------
(* Types *)

LEMMA RunTypeInit == CommandInit => RunType
<1> SUFFICES ASSUME CommandInit PROVE RunType
  OBVIOUS
<1>1. cmd \in Commands /\ cmd.commits \in Nat /\ now = 0
  BY CommandAssumption DEF CommandInit
<1>2. /\ now \in 0..cmd.commits /\ snapshot \in 0..now /\ schemaView \in 0..now
      /\ keysView \subseteq 0..now /\ view \in [Object -> 0..now]
  BY <1>1 DEF CommandInit
<1> QED
  BY <1>1, <1>2 DEF CommandInit, RunType

LEMMA RunTypeStep ==
  ASSUME RunType, [CommandNext]_allVars
  PROVE  RunType'
<1>0. RunType /\ cmd.commits \in Nat /\ now \in Nat
  BY CommandAssumption DEF RunType
<1>1. CASE OthersCommit
  <2>1. /\ now' = now + 1 /\ now' \in 0..cmd.commits
        /\ 0..now \subseteq 0..now'
    BY <1>0, <1>1 DEF OthersCommit, RunType
  <2>2. UNCHANGED <<order, noBlobs, cmd, phase, failedIn, snapshot, schemaView,
                    keysView, view, scratch, deferred, dropFailed>>
    BY <1>1 DEF OthersCommit, vars
  <2> QED BY <1>0, <2>1, <2>2 DEF RunType
<1>2. CASE SetUp
  <2>1. UNCHANGED <<order, noBlobs>>
    BY <1>2, SetUpApart DEF vars
  <2>2. CASE StartMainTx
    BY <1>0, <2>1, <2>2 DEF RunType, StartMainTx
  <2>5. CASE BuildContext
    <3>1. keysView' \subseteq 0..now
      BY <1>0, <2>5 DEF RunType, BuildContext
    <3>2. phase' \in {"schema", "create"}
      BY <2>5 DEF BuildContext
    <3>3. UNCHANGED <<cmd, failedIn, now, snapshot, schemaView, view, scratch,
                      deferred, dropFailed>>
      BY <2>5 DEF BuildContext
    <3> QED BY <1>0, <2>1, <3>1, <3>2, <3>3 DEF RunType
  <2>6. CASE CreateScratch
    BY <1>0, <2>1, <2>6 DEF RunType, CreateScratch
  <2>7. CASE MaterializeKeys
    <3>1. now \in 0..now
      BY <1>0
    <3> QED BY <1>0, <2>1, <2>7, <3>1 DEF RunType, MaterializeKeys
  <2>3. CASE KeysMaterialized
    <3>1. cmd.supported \in BOOLEAN
      BY <1>0, CommandAssumption DEF RunType
    <3> QED BY <1>0, <2>1, <2>3, <3>1 DEF RunType, KeysMaterialized
  <2>4. CASE KeysFail \/ ContextBuilt \/ SchemaOnlyDump \/ SetUpFails
    BY <1>0, <2>1, <2>4 DEF RunType, KeysFail, ContextBuilt, SchemaOnlyDump,
                            SetUpFails
  <2> QED BY <1>2, <2>2, <2>3, <2>4, <2>5, <2>6, <2>7 DEF SetUp
<1>3. CASE RunData \/ RunOutside
  <2>1. RunFrame /\ Next
    BY <1>3, RunRefines
  <2>2. UNCHANGED <<order, noBlobs>>
    BY <2>1, StageFrame, PlannerFrame, HeartBeatFrame, ProducerFrame, WorkerFrame
    DEF Next, producerVars
  <2>3. view' \in [Object -> 0..now]
    BY <1>0, <2>1 DEF RunFrame, RunType
  <2> QED BY <1>0, <2>1, <2>2, <2>3 DEF RunFrame, RunType
<1>4. CASE Return \/ KillCommand
  BY <1>0, <1>4 DEF Return, KillCommand, RunType, vars
<1>5. CASE UNCHANGED allVars
  BY <1>0, <1>5 DEF allVars, vars, runVars, RunType
<1> QED
  BY <1>1, <1>2, <1>3, <1>4, <1>5 DEF CommandNext

\* Every variable of the command keeps its type; no view is of a version
\* that is yet to come.
THEOREM CommandTypeCorrect == CommandSpec => []CommandTypeOK
<1>1. CommandSpec => []TypeOK
  BY ImplementsDumpRun, DumpTypeCorrect, PTL
<1>2. CommandSpec => []RunType
  BY RunTypeInit, RunTypeStep, PTL DEF CommandSpec
<1>3. TypeOK /\ RunType => CommandTypeOK
  BY DEF CommandTypeOK
<1> QED
  BY <1>1, <1>2, <1>3, PTL

-----------------------------------------------------------------------------
(* The set up and the scratch schema *)

SettingUp == {"connect", "context", "create", "keys", "schema", "pg_dump"}

\* Keys are to be materialized in a scratch schema.
Scratched == cmd.mode = "temp_tables" /\ cmd.supported

\* Where the scratch schema exists, and whether Run has put off its drop.
SetUpInv ==
    /\ phase \in SettingUp => stored = {} /\ md = "absent"
    /\ phase \in {"connect", "context"} => keysView = {}
    /\ phase \in {"connect", "context", "create"} => ~scratch
    /\ phase \in {"create", "keys"} => cmd.mode = "temp_tables"
    /\ phase \in {"connect", "context", "create", "keys", "schema"} => ~deferred
    /\ phase \in {"schema", "pg_dump", "run"} => (scratch <=> Scratched)
    /\ phase \in {"pg_dump", "run"} => (deferred <=> scratch)
    /\ deferred => Scratched
    /\ phase = "ending" /\ scratch =>
          dropFailed \/ failedIn = "schema" \/ deferred
    /\ phase = "over" /\ scratch => dropFailed \/ failedIn = "schema"

LEMMA SetUpInit == CommandInit => SetUpInv
  BY DEF CommandInit, Init, SetUpInv, SettingUp

LEMMA SetUpStep ==
  ASSUME RunType, SetUpInv, [CommandNext]_allVars
  PROVE  SetUpInv'
<1>. USE DEF SetUpInv, SettingUp, Scratched
<1>0. /\ cmd.supported \in BOOLEAN
      /\ scratch \in BOOLEAN /\ deferred \in BOOLEAN
  BY CommandAssumption DEF RunType
<1>1. CASE OthersCommit
  BY <1>1 DEF OthersCommit, vars, storeVars
<1>2. CASE StartMainTx \/ BuildContext \/ CreateScratch \/ MaterializeKeys
  BY <1>2 DEF StartMainTx, BuildContext, CreateScratch, MaterializeKeys, vars,
              storeVars
<1>3. CASE KeysMaterialized
  BY <1>0, <1>3 DEF KeysMaterialized, vars, storeVars
<1>4. CASE KeysFail \/ SetUpFails
  BY <1>0, <1>4 DEF KeysFail, SetUpFails, vars, storeVars
<1>5. CASE ContextBuilt \/ SchemaOnlyDump
  BY <1>0, <1>5 DEF ContextBuilt, SchemaOnlyDump, vars, storeVars
<1>6. CASE RunData \/ RunOutside
  BY <1>6, RunRefines DEF RunFrame
<1>7. CASE Return
  BY <1>0, <1>7 DEF Return, Returning, vars, storeVars
<1>8. CASE KillCommand
  BY <1>8 DEF KillCommand, vars, storeVars
<1>9. CASE UNCHANGED allVars
  BY <1>9 DEF allVars, vars, runVars, storeVars
<1> QED
  BY <1>1, <1>2, <1>3, <1>4, <1>5, <1>6, <1>7, <1>8, <1>9
  DEF CommandNext, SetUp

\* The set up and the end of a command: the scratch schema exists from its
\* creation to the drop that Run put off.
THEOREM SetUpCorrect == CommandSpec => []SetUpInv
<1>1. CommandSpec => []RunType
  BY RunTypeInit, RunTypeStep, PTL DEF CommandSpec
<1> QED
  BY <1>1, SetUpInit, SetUpStep, PTL DEF CommandSpec

-----------------------------------------------------------------------------
(* No worker is left when Run returns *)

Idle == \A w \in Worker : wpc[w] # "execute"

WorkersInv == /\ phase # "run" => Idle
              /\ stage \notin {"data", "killed"} => Idle

LEMMA WorkersInit == CommandInit => WorkersInv
  BY DEF CommandInit, Init, WorkersInv, Idle

\* A data stage that has ended has no worker at work, and starts none.
LEMMA IdleStep ==
  ASSUME TypeOK, ReturnInv, stage \notin {"data", "killed"} => Idle, Next
  PROVE  stage' \notin {"data", "killed"} => Idle'
<1>1. CASE Producer \/ Planner
  BY <1>1, ProducerFrame, PlannerFrame DEF poolVars, storageVars, Idle
<1>2. ASSUME NEW w \in Worker, WorkerStep(w)
      PROVE  stage' \notin {"data", "killed"} => Idle'
  <2>1. stage = "data"
    BY <1>2 DEF WorkerStep, Connect, ConnectFails, Receive, ReceiveClosed,
                WorkerCancelled, Dumped, DumpFails, InData
  <2> QED BY <1>2, <2>1, WorkerFrame
<1>3. CASE HeartBeat
  BY <1>3, HeartBeatFrame DEF poolVars, Idle
<1>4. CASE WaitData
  <2>1. \A w \in Worker : wpc[w] \in {"done", "failed"}
    BY <1>4 DEF WaitData, DataReturned, ReturnInv
  <2> QED BY <1>4, <2>1, StageFrame DEF Idle
<1>5. CASE WriteToc \/ WriteMetaData \/ Kill \/ Tick
  <2>1. stage' = "killed" \/ stage \notin {"data", "killed"} \/ stage' = stage
    BY <1>5 DEF WriteToc, WriteMetaData, Kill, Tick
  <2> QED BY <1>5, <2>1, StageFrame DEF Idle
<1> QED
  BY <1>1, <1>2, <1>3, <1>4, <1>5 DEF Next

LEMMA WorkersStep ==
  ASSUME TypeOK, ReturnInv, WorkersInv, [CommandNext]_allVars
  PROVE  WorkersInv'
<1>1. CASE RunData \/ RunOutside
  <2>1. Next /\ phase = "run" /\ phase' = phase
    BY <1>1, RunRefines DEF RunFrame
  <2> QED BY <2>1, IdleStep DEF WorkersInv
<1>2. CASE UNCHANGED <<wpc, stage>> /\ (phase' = "run" \/ phase # "run")
  BY <1>2 DEF WorkersInv, Idle
<1>3. CASE OthersCommit \/ UNCHANGED allVars
  BY <1>2, <1>3 DEF OthersCommit, allVars, vars, runVars, poolVars
<1>4. CASE SetUp
  <2>1. UNCHANGED <<wpc, stage>>
    BY <1>4, SetUpApart DEF vars, poolVars
  <2>2. phase # "run"
    BY <1>4 DEF SetUp, StartMainTx, BuildContext, CreateScratch,
       MaterializeKeys, KeysMaterialized, KeysFail, ContextBuilt,
       SchemaOnlyDump, SetUpFails
  <2> QED BY <1>2, <2>1, <2>2
<1>5. CASE Return \/ KillCommand
  <2>1. UNCHANGED <<wpc, stage>>
    BY <1>5, OthersApart DEF vars, poolVars
  <2>2. phase # "run" \/ stage \in {"ok", "error"}
    BY <1>5 DEF Return, KillCommand, Returning
  <2> QED BY <2>1, <2>2 DEF WorkersInv, Idle
<1> QED
  BY <1>1, <1>3, <1>4, <1>5 DEF CommandNext

THEOREM WorkersCorrect == CommandSpec => []WorkersInv
<1>1. CommandSpec => [](TypeOK /\ ReturnInv)
  <2>1. DumpInv => ReturnInv
    BY DEF DumpInv
  <2> QED BY <2>1, ImplementsDumpRun, DumpTypeCorrect, DumpInvariant, PTL
<1> QED
  BY <1>1, WorkersInit, WorkersStep, PTL DEF CommandSpec

\* For any number of workers, of commits of others and whatever fails: no
\* worker reads keys from a scratch schema that is gone, and a command that
\* ends leaves the schema behind only after a DROP or a context that failed.
THEOREM ScratchOutlives == CommandSpec => []ScratchLives
<1>1. ASSUME SetUpInv, WorkersInv PROVE ScratchLives
  BY <1>1 DEF SetUpInv, WorkersInv, Idle, Scratched, ScratchLives
<1> QED
  BY <1>1, SetUpCorrect, WorkersCorrect, PTL

-----------------------------------------------------------------------------
(* One snapshot *)

\* What pg_dump, the keys and the stored rows were taken from: nothing older
\* than the snapshot, and only the snapshot where it is shared.
SnapshotInv ==
    /\ schemaView = snapshot \/ (md # "complete" /\ phase # "run")
    /\ keysView \subseteq snapshot..now
    /\ Shared => keysView \subseteq {snapshot}
    /\ \A o \in stored : /\ view[o] \in snapshot..now
                         /\ Shared => view[o] = snapshot

LEMMA SnapshotInit == CommandInit => SnapshotInv
  BY DEF CommandInit, Init, SnapshotInv

\* A step that takes no rows keeps what is known of them.
LEMMA SnapshotFrame ==
  ASSUME RunType, SnapshotInv,
         UNCHANGED <<cmd, snapshot, stored, view>>,
         now' = now \/ now' = now + 1,
         schemaView' = snapshot \/ (md' # "complete" /\ phase' # "run"),
         keysView' = keysView \/ (keysView' = keysView \cup {now} /\ ~Shared)
  PROVE  SnapshotInv'
<1>1. /\ snapshot \in Nat /\ now \in Nat /\ snapshot <= now
  BY CommandAssumption DEF RunType
<1>2. /\ snapshot..now \subseteq snapshot..now' /\ now \in snapshot..now'
  BY <1>1
<1>3. Shared' = Shared
  BY DEF Shared
<1>4. keysView' \subseteq snapshot..now' /\ (Shared => keysView' \subseteq {snapshot})
  BY <1>2 DEF SnapshotInv
<1>5. \A o \in stored : view[o] \in snapshot..now'
  BY <1>2 DEF SnapshotInv
<1> QED
  BY <1>3, <1>4, <1>5 DEF SnapshotInv

LEMMA SnapshotStep ==
  ASSUME RunType, TypeOK', SetUpInv, SnapshotInv, [CommandNext]_allVars
  PROVE  SnapshotInv'
<1>0. /\ snapshot \in Nat /\ now \in Nat /\ snapshot <= now
      /\ {cmd.sync, cmd.supported} \subseteq BOOLEAN
  BY CommandAssumption DEF RunType
<1>1. CASE OthersCommit
  <2>1. UNCHANGED <<cmd, snapshot, stored, view, schemaView, keysView, md, phase>>
    BY <1>1 DEF OthersCommit, vars, storeVars
  <2>2. now' = now + 1
    BY <1>1 DEF OthersCommit
  <2> QED BY <2>1, <2>2, SnapshotFrame DEF SnapshotInv
<1>2. CASE StartMainTx
  <2>1. /\ stored' = {} /\ keysView' = {} /\ md' # "complete"
        /\ phase' # "run"
    BY <1>2 DEF StartMainTx, SetUpInv, SettingUp, vars, storeVars
  <2> QED BY <2>1 DEF SnapshotInv
<1>3. CASE BuildContext
  <2>1. /\ keysView = {} /\ md' # "complete" /\ phase' # "run"
        /\ UNCHANGED <<cmd, snapshot, now, stored, view>>
    BY <1>3 DEF BuildContext, SetUpInv, SettingUp, vars, storeVars
  <2>2. keysView' \subseteq {snapshot}
    BY <1>3, <2>1 DEF BuildContext
  <2>3. {snapshot} \subseteq snapshot..now
    BY <1>0
  <2>4. Shared' = Shared
    BY <2>1 DEF Shared
  <2> QED BY <2>1, <2>2, <2>3, <2>4 DEF SnapshotInv
<1>4. CASE CreateScratch \/ MaterializeKeys \/ KeysMaterialized
  <2>1. /\ UNCHANGED <<cmd, snapshot, now, stored, view, schemaView, md>>
        /\ phase' # "run" /\ phase # "run"
    BY <1>4 DEF CreateScratch, MaterializeKeys, KeysMaterialized, vars, storeVars
  <2>2. keysView' = keysView \/ (keysView' = keysView \cup {now} /\ ~Shared)
    BY <1>4 DEF CreateScratch, MaterializeKeys, KeysMaterialized, SetUpInv, Shared
  <2> QED BY <2>1, <2>2, SnapshotFrame DEF SnapshotInv
<1>5. CASE KeysFail \/ ContextBuilt \/ SetUpFails
  <2>1. /\ UNCHANGED <<cmd, snapshot, now, stored, view, schemaView, keysView, md>>
        /\ phase' # "run" /\ phase # "run"
    BY <1>5 DEF KeysFail, ContextBuilt, SetUpFails, vars, storeVars
  <2> QED BY <2>1, SnapshotFrame DEF SnapshotInv
<1>6. CASE SchemaOnlyDump
  <2>1. /\ UNCHANGED <<cmd, snapshot, now, stored, view, keysView>>
        /\ schemaView' = snapshot
    BY <1>6 DEF SchemaOnlyDump, vars, storeVars
  <2> QED BY <2>1, SnapshotFrame
<1>7. CASE RunData \/ RunOutside
  <2>1. RunFrame
    BY <1>7, RunRefines
  <2>2. /\ schemaView' = snapshot' /\ Shared' = Shared
        /\ UNCHANGED <<cmd, now, snapshot, keysView>>
    BY <2>1 DEF RunFrame, SnapshotInv, Shared
  <2>3. Shared => Imported
    BY <1>0 DEF Shared, Imported, SetUpInv, Scratched
  <2>4. ASSUME NEW o \in stored'
        PROVE  view'[o] \in snapshot..now /\ (Shared => view'[o] = snapshot)
    <3>1. o \in Object
      BY DEF TypeOK, StorageType
    <3>2. CASE o \in stored
      <4>1. view'[o] = view[o]
        BY <2>1, <3>1, <3>2 DEF RunFrame
      <4> QED BY <3>2, <4>1 DEF SnapshotInv
    <3>3. CASE o \notin stored
      <4>1. view'[o] = IF Imported THEN snapshot ELSE now
        BY <2>1, <3>1, <3>3 DEF RunFrame
      <4>2. snapshot \in snapshot..now /\ now \in snapshot..now
        BY <1>0
      <4> QED BY <2>3, <4>1, <4>2
    <3> QED BY <3>2, <3>3
  <2> QED BY <2>2, <2>4 DEF SnapshotInv
<1>8. CASE Return \/ KillCommand
  <2>1. /\ UNCHANGED <<cmd, snapshot, now, stored, view, schemaView, keysView, md>>
        /\ phase' # "run"
    BY <1>8 DEF Return, KillCommand, vars, storeVars
  <2> QED BY <2>1, SnapshotFrame DEF SnapshotInv
<1>9. CASE UNCHANGED allVars
  <2>1. UNCHANGED <<cmd, snapshot, now, stored, view, schemaView, keysView, md,
                    phase>>
    BY <1>9 DEF allVars, vars, runVars, storeVars
  <2> QED BY <2>1, SnapshotFrame DEF SnapshotInv
<1> QED
  BY <1>1, <1>2, <1>3, <1>4, <1>5, <1>6, <1>7, <1>8, <1>9
  DEF CommandNext, SetUp

\* For every command, any number of workers and of commits of others: a
\* published dump shows the database at one moment, if its snapshot is
\* shared or nobody has written since it was taken.
THEOREM SnapshotIsOne == CommandSpec => []OneSnapshot
<1>1. CommandSpec => [](RunType /\ SetUpInv)
  <2>1. CommandSpec => []RunType
    BY RunTypeInit, RunTypeStep, PTL DEF CommandSpec
  <2> QED BY <2>1, SetUpCorrect, PTL
<1>2. CommandSpec => []TypeOK
  BY ImplementsDumpRun, DumpTypeCorrect, PTL
<1>3. CommandSpec => []SnapshotInv
  BY <1>1, <1>2, SnapshotInit, SnapshotStep, PTL DEF CommandSpec
<1>4. ASSUME RunType, SnapshotInv, PublishedIsComplete PROVE OneSnapshot
  <2> SUFFICES ASSUME md = "complete", Shared \/ now = snapshot
               PROVE  /\ schemaView = snapshot
                      /\ keysView \subseteq {snapshot}
                      /\ \A o \in toc : HasData(o) => view[o] = snapshot
    BY DEF OneSnapshot
  <2>1. snapshot \in Nat
    BY <1>4, CommandAssumption DEF RunType
  <2>2. snapshot..snapshot = {snapshot}
    BY <2>1
  <2>3. \A o \in toc : HasData(o) => o \in stored
    BY <1>4 DEF PublishedIsComplete
  <2>4. CASE Shared
    BY <1>4, <2>3, <2>4 DEF SnapshotInv
  <2>5. CASE now = snapshot
    <3>1. /\ keysView \subseteq {snapshot}
          /\ \A o \in stored : view[o] \in {snapshot}
      BY <1>4, <2>2, <2>5 DEF SnapshotInv
    <3> QED BY <1>4, <2>3, <3>1 DEF SnapshotInv
  <2> QED BY <2>4, <2>5
<1> QED
  BY <1>1, <1>3, <1>4, CommandPublished, PTL

-----------------------------------------------------------------------------
(* The recursive functions of Toc *)

\* What is concatenated up to k.
LEMMA ConcatRecursion ==
  ASSUME NEW f, NEW n \in Nat
  PROVE  \E C : /\ Concat(f, n) = C[n]
                /\ C[0] = <<>>
                /\ \A k \in 1..n : C[k] = C[k - 1] \o f[k]
<1> DEFINE After(y, k) == y \o f[k]
           Is(C, m) == C = [k \in 0..m |-> IF k = 0 THEN <<>> ELSE After(C[k - 1], k)]
           Q == {m \in Nat : \E C : Is(C, m)}
<1>0. n \in Nat
  OBVIOUS
<1>1. 0 \in Q
  <2> DEFINE C == [k \in 0..0 |-> <<>>]
  <2>1. Is(C, 0)
    OBVIOUS
  <2> HIDE DEF C, Is
  <2> QED BY <2>1
<1>2. ASSUME NEW m \in Nat, m \in Q PROVE m + 1 \in Q
  <2>1. PICK C : Is(C, m)
    BY <1>2
  <2> DEFINE E == [k \in 0..(m + 1) |-> IF k = m + 1 THEN After(C[m], k) ELSE C[k]]
  <2>2. ASSUME NEW k \in 0..(m + 1)
        PROVE  E[k] = IF k = 0 THEN <<>> ELSE After(E[k - 1], k)
    <3> HIDE DEF After
    <3>1. CASE k = m + 1
      <4>1. m \in 0..(m + 1) /\ m # m + 1 /\ E[m] = C[m]
        OBVIOUS
      <4> QED BY <3>1, <4>1
    <3>2. CASE k # m + 1
      <4>1. k \in 0..m /\ E[k] = C[k]
        BY <3>2
      <4>2. k # 0 => k - 1 \in 0..(m + 1) /\ k - 1 # m + 1 /\ E[k - 1] = C[k - 1]
        BY <4>1
      <4>3. C[k] = IF k = 0 THEN <<>> ELSE After(C[k - 1], k)
        BY <2>1, <4>1
      <4> QED BY <4>1, <4>2, <4>3
    <3> QED BY <3>1, <3>2
  <2>3. Is(E, m + 1)
    BY <2>2
  <2> HIDE DEF E, Is
  <2> QED BY <2>3
<1>3. \E C : Is(C, n)
  <2>1. Nat \subseteq Q
    <3> HIDE DEF Q
    <3> QED BY <1>1, <1>2, NatSetInduction
  <2> QED BY <1>0, <2>1
<1> DEFINE W == CHOOSE C : Is(C, n)
<1>4. Is(W, n)
  BY <1>3
<1>5. Concat(f, n) = W[n]
  BY DEF Concat
<1> HIDE DEF W, After
<1>6. W[0] = <<>> /\ \A k \in 1..n : W[k] = After(W[k - 1], k)
  <2>1. 0 \in 0..n /\ \A k \in 1..n : k \in 0..n /\ k # 0
    BY <1>0
  <2> QED BY <1>4, <2>1
<1> QED
  BY <1>5, <1>6 DEF After

\* What is summed up to k.
LEMMA SumRecursion ==
  ASSUME NEW S, NEW s \in Seq(S)
  PROVE  \E C : /\ \A n : SumUpTo(s, n) = C[n]
                /\ C[0] = 0
                /\ \A k \in 1..Len(s) : C[k] = C[k - 1] + s[k]
<1> DEFINE After(y, k) == y + s[k]
           Is(C, m) == C = [k \in 0..m |-> IF k = 0 THEN 0 ELSE After(C[k - 1], k)]
           Q == {m \in Nat : \E C : Is(C, m)}
<1>0. Len(s) \in Nat
  OBVIOUS
<1>1. 0 \in Q
  <2> DEFINE C == [k \in 0..0 |-> 0]
  <2>1. Is(C, 0)
    OBVIOUS
  <2> HIDE DEF C, Is
  <2> QED BY <2>1
<1>2. ASSUME NEW m \in Nat, m \in Q PROVE m + 1 \in Q
  <2>1. PICK C : Is(C, m)
    BY <1>2
  <2> DEFINE E == [k \in 0..(m + 1) |-> IF k = m + 1 THEN After(C[m], k) ELSE C[k]]
  <2>2. ASSUME NEW k \in 0..(m + 1)
        PROVE  E[k] = IF k = 0 THEN 0 ELSE After(E[k - 1], k)
    <3> HIDE DEF After
    <3>1. CASE k = m + 1
      <4>1. m \in 0..(m + 1) /\ m # m + 1 /\ E[m] = C[m]
        OBVIOUS
      <4> QED BY <3>1, <4>1
    <3>2. CASE k # m + 1
      <4>1. k \in 0..m /\ E[k] = C[k]
        BY <3>2
      <4>2. k # 0 => k - 1 \in 0..(m + 1) /\ k - 1 # m + 1 /\ E[k - 1] = C[k - 1]
        BY <4>1
      <4>3. C[k] = IF k = 0 THEN 0 ELSE After(C[k - 1], k)
        BY <2>1, <4>1
      <4> QED BY <4>1, <4>2, <4>3
    <3> QED BY <3>1, <3>2
  <2>3. Is(E, m + 1)
    BY <2>2
  <2> HIDE DEF E, Is
  <2> QED BY <2>3
<1>3. \E C : Is(C, Len(s))
  <2>1. Nat \subseteq Q
    <3> HIDE DEF Q
    <3> QED BY <1>1, <1>2, NatSetInduction
  <2> QED BY <1>0, <2>1
<1> DEFINE W == CHOOSE C : Is(C, Len(s))
<1>4. Is(W, Len(s))
  BY <1>3
<1>5. \A n : SumUpTo(s, n) = W[n]
  BY DEF SumUpTo
<1> HIDE DEF W, After
<1>6. W[0] = 0 /\ \A k \in 1..Len(s) : W[k] = After(W[k - 1], k)
  <2>1. 0 \in 0..Len(s) /\ \A k \in 1..Len(s) : k \in 0..Len(s) /\ k # 0
    BY <1>0
  <2> QED BY <1>4, <2>1
<1> QED
  BY <1>5, <1>6 DEF After

\* What is read of the fields up to k.
LEMMA FieldsRecursion ==
  ASSUME NEW S, NEW fields \in Seq(S), NEW version, NEW file, NEW start
  PROVE  \E C : /\ ReadFields(fields, version, file, start) = C[Len(fields)]
                /\ C[0] = start
                /\ \A k \in 1..Len(fields) : C[k] = ReadNext(fields[k], version, file, C[k - 1])
<1> DEFINE After(y, k) == ReadNext(fields[k], version, file, y)
           Is(C, m) == C = [k \in 0..m |-> IF k = 0 THEN start ELSE After(C[k - 1], k)]
           Q == {m \in Nat : \E C : Is(C, m)}
<1>0. Len(fields) \in Nat
  OBVIOUS
<1>1. 0 \in Q
  <2> DEFINE C == [k \in 0..0 |-> start]
  <2>1. Is(C, 0)
    OBVIOUS
  <2> HIDE DEF C, Is
  <2> QED BY <2>1
<1>2. ASSUME NEW m \in Nat, m \in Q PROVE m + 1 \in Q
  <2>1. PICK C : Is(C, m)
    BY <1>2
  <2> DEFINE E == [k \in 0..(m + 1) |-> IF k = m + 1 THEN After(C[m], k) ELSE C[k]]
  <2>2. ASSUME NEW k \in 0..(m + 1)
        PROVE  E[k] = IF k = 0 THEN start ELSE After(E[k - 1], k)
    <3> HIDE DEF After
    <3>1. CASE k = m + 1
      <4>1. m \in 0..(m + 1) /\ m # m + 1 /\ E[m] = C[m]
        OBVIOUS
      <4> QED BY <3>1, <4>1
    <3>2. CASE k # m + 1
      <4>1. k \in 0..m /\ E[k] = C[k]
        BY <3>2
      <4>2. k # 0 => k - 1 \in 0..(m + 1) /\ k - 1 # m + 1 /\ E[k - 1] = C[k - 1]
        BY <4>1
      <4>3. C[k] = IF k = 0 THEN start ELSE After(C[k - 1], k)
        BY <2>1, <4>1
      <4> QED BY <4>1, <4>2, <4>3
    <3> QED BY <3>1, <3>2
  <2>3. Is(E, m + 1)
    BY <2>2
  <2> HIDE DEF E, Is
  <2> QED BY <2>3
<1>3. \E C : Is(C, Len(fields))
  <2>1. Nat \subseteq Q
    <3> HIDE DEF Q
    <3> QED BY <1>1, <1>2, NatSetInduction
  <2> QED BY <1>0, <2>1
<1> DEFINE W == CHOOSE C : Is(C, Len(fields))
<1>4. Is(W, Len(fields))
  BY <1>3
<1>5. ReadFields(fields, version, file, start) = W[Len(fields)]
  BY DEF ReadFields
<1> HIDE DEF W, After
<1>6. W[0] = start /\ \A k \in 1..Len(fields) : W[k] = After(W[k - 1], k)
  <2>1. 0 \in 0..Len(fields) /\ \A k \in 1..Len(fields) : k \in 0..Len(fields) /\ k # 0
    BY <1>0
  <2> QED BY <1>4, <2>1
<1> QED
  BY <1>5, <1>6 DEF After

\* What is read of the entries up to k.
LEMMA EntriesRecursion ==
  ASSUME NEW count, count.x \in Nat, count.pos # 0, NEW version, NEW file
  PROVE  \E C : /\ ReadEntries(file, count, version) = C[count.x]
                /\ C[0] = [x |-> <<>>, pos |-> count.pos]
                /\ \A k \in 1..count.x : C[k] = AddNext(C[k - 1], file, version)
<1> DEFINE After(y, k) == AddNext(y, file, version)
           Is(C, m) == C = [k \in 0..m |-> IF k = 0 THEN [x |-> <<>>, pos |-> count.pos]
                                           ELSE After(C[k - 1], k)]
           Q == {m \in Nat : \E C : Is(C, m)}
<1>0. count.x \in Nat
  OBVIOUS
<1>1. 0 \in Q
  <2> DEFINE C == [k \in 0..0 |-> [x |-> <<>>, pos |-> count.pos]]
  <2>1. Is(C, 0)
    OBVIOUS
  <2> HIDE DEF C, Is
  <2> QED BY <2>1
<1>2. ASSUME NEW m \in Nat, m \in Q PROVE m + 1 \in Q
  <2>1. PICK C : Is(C, m)
    BY <1>2
  <2> DEFINE E == [k \in 0..(m + 1) |-> IF k = m + 1 THEN After(C[m], k) ELSE C[k]]
  <2>2. ASSUME NEW k \in 0..(m + 1)
        PROVE  E[k] = IF k = 0 THEN [x |-> <<>>, pos |-> count.pos] ELSE After(E[k - 1], k)
    <3> HIDE DEF After
    <3>1. CASE k = m + 1
      <4>1. m \in 0..(m + 1) /\ m # m + 1 /\ E[m] = C[m]
        OBVIOUS
      <4> QED BY <3>1, <4>1
    <3>2. CASE k # m + 1
      <4>1. k \in 0..m /\ E[k] = C[k]
        BY <3>2
      <4>2. k # 0 => k - 1 \in 0..(m + 1) /\ k - 1 # m + 1 /\ E[k - 1] = C[k - 1]
        BY <4>1
      <4>3. C[k] = IF k = 0 THEN [x |-> <<>>, pos |-> count.pos] ELSE After(C[k - 1], k)
        BY <2>1, <4>1
      <4> QED BY <4>1, <4>2, <4>3
    <3> QED BY <3>1, <3>2
  <2>3. Is(E, m + 1)
    BY <2>2
  <2> HIDE DEF E, Is
  <2> QED BY <2>3
<1>3. \E C : Is(C, count.x)
  <2>1. Nat \subseteq Q
    <3> HIDE DEF Q
    <3> QED BY <1>1, <1>2, NatSetInduction
  <2> QED BY <1>0, <2>1
<1> DEFINE W == CHOOSE C : Is(C, count.x)
<1>4. Is(W, count.x)
  BY <1>3
<1>5. ReadEntries(file, count, version) = W[count.x]
  BY DEF ReadEntries
<1> HIDE DEF W, After
<1>6. W[0] = [x |-> <<>>, pos |-> count.pos] /\ \A k \in 1..count.x : W[k] = After(W[k - 1], k)
  <2>1. 0 \in 0..count.x /\ \A k \in 1..count.x : k \in 0..count.x /\ k # 0
    BY <1>0
  <2> QED BY <1>4, <2>1
<1> QED
  BY <1>5, <1>6 DEF After

-----------------------------------------------------------------------------
(* Sequences one behind the other *)

\* One sequence behind another, item by item.
LEMMA BehindFacts ==
  ASSUME NEW V, NEW s \in Seq(V), NEW t \in Seq(V)
  PROVE  /\ s \o t \in Seq(V) /\ Len(s) \in Nat /\ Len(t) \in Nat
         /\ Len(s \o t) = Len(s) + Len(t)
         /\ \A i \in 1..Len(s) : (s \o t)[i] = s[i]
         /\ \A i \in 1..Len(t) : (s \o t)[Len(s) + i] = t[i]
  OBVIOUS

\* Places at which pieces of the lengths l stand one behind the other.
Places(at, l, n) == /\ at \in [0..n -> Nat] /\ l \in [1..n -> Nat]
                    /\ \A k \in 1..n : at[k] = at[k - 1] + l[k]

\* They follow each other.
LEMMA PlacesFollow ==
  ASSUME NEW n \in Nat, NEW at, NEW l, Places(at, l, n)
  PROVE  /\ \A j, k \in 0..n : j <= k => at[j] <= at[k]
         /\ \A k \in 1..n : /\ k - 1 \in 0..n /\ k \in 0..n
                            /\ at[k] \in Nat /\ at[k - 1] \in Nat /\ l[k] \in Nat
                            /\ at[k] = at[k - 1] + l[k]
                            /\ at[k] <= at[n]
<1> DEFINE Q == {m \in Nat : m <= n => \A j \in 0..m : at[j] <= at[m]}
<1>0. /\ \A k \in 0..n : at[k] \in Nat
      /\ \A k \in 1..n : at[k] = at[k - 1] + l[k] /\ l[k] \in Nat
  BY DEF Places
<1>1. 0 \in Q
  BY <1>0
<1>2. ASSUME NEW m \in Nat, m \in Q PROVE m + 1 \in Q
  <2> SUFFICES ASSUME m + 1 <= n, NEW j \in 0..(m + 1) PROVE at[j] <= at[m + 1]
    OBVIOUS
  <2>1. /\ m + 1 \in 1..n /\ (m + 1) - 1 = m /\ m \in 0..n /\ j \in 0..n
        /\ j \in 0..m \/ j = m + 1
    OBVIOUS
  <2>2. at[m] <= at[m + 1]
    BY <1>0, <2>1
  <2>3. j \in 0..m => at[j] <= at[m]
    BY <1>2
  <2> QED BY <1>0, <2>1, <2>2, <2>3
<1>3. Nat \subseteq Q
  <2> HIDE DEF Q
  <2> QED BY <1>1, <1>2, NatSetInduction
<1>4. \A j, k \in 0..n : j <= k => at[j] <= at[k]
  BY <1>3
<1> QED
  BY <1>0, <1>4

\* Every position is in one of the pieces.
LEMMA PlacesCover ==
  ASSUME NEW n \in Nat, NEW at, NEW l, Places(at, l, n), at[0] = 0,
         NEW i \in 1..at[n]
  PROVE  \E k \in 1..n : i - at[k - 1] \in 1..l[k]
<1> DEFINE Q == {k \in 0..n : i <= at[k]}
<1>1. /\ \A k \in 0..n : at[k] \in Nat
      /\ \A k \in 1..n : at[k] = at[k - 1] + l[k] /\ l[k] \in Nat
  BY DEF Places
<1>2. n \in Q /\ Q \subseteq Nat /\ 0 \notin Q
  BY <1>1
<1>3. PICK k \in Q : \A m \in Q : k <= m
  <2> HIDE DEF Q
  <2> QED BY <1>2, LeastExists
<1>4. k \in 1..n /\ k - 1 \in 0..n /\ k - 1 \notin Q
  BY <1>2, <1>3
<1>5. i <= at[k] /\ ~(i <= at[k - 1]) /\ at[k] = at[k - 1] + l[k]
      /\ at[k] \in Nat /\ at[k - 1] \in Nat /\ l[k] \in Nat
  BY <1>1, <1>3, <1>4
<1>6. i - at[k - 1] \in 1..l[k]
  BY <1>5
<1> QED
  BY <1>4, <1>6

\* Longer and longer prefixes of one sequence.
LEMMA Prefixes ==
  ASSUME NEW n \in Nat, NEW at, NEW l, Places(at, l, n), NEW C,
         \A k \in 1..n : \A i \in 1..at[k - 1] : C[k][i] = C[k - 1][i]
  PROVE  \A k \in 0..n : \A i \in 1..at[k] : C[n][i] = C[k][i]
<1> DEFINE Q == {m \in Nat : m <= n => \A k \in 0..m : \A i \in 1..at[k] : C[m][i] = C[k][i]}
<1>1. 0 \in Q
  OBVIOUS
<1>2. ASSUME NEW m \in Nat, m \in Q PROVE m + 1 \in Q
  <2> SUFFICES ASSUME m + 1 <= n, NEW k \in 0..(m + 1), NEW i \in 1..at[k]
               PROVE  C[m + 1][i] = C[k][i]
    OBVIOUS
  <2>1. m + 1 \in 1..n /\ (m + 1) - 1 = m /\ m \in 0..n
    OBVIOUS
  <2>2. CASE k \in 0..m
    <3>0. k \in 0..n /\ k <= m
      BY <2>1, <2>2
    <3>1. at[k] \in Nat /\ at[m] \in Nat
      BY <2>1, <3>0 DEF Places
    <3>4. at[k] <= at[m]
      BY <2>1, <3>0, PlacesFollow
    <3>2. i \in 1..at[m]
      BY <3>1, <3>4
    <3>3. C[m][i] = C[k][i]
      BY <1>2, <2>2
    <3> QED BY <2>1, <3>2, <3>3
  <2>3. CASE k = m + 1
    BY <2>3
  <2> QED BY <2>2, <2>3
<1>3. n \in Q
  <2>1. Nat \subseteq Q
    <3> HIDE DEF Q
    <3> QED BY <1>1, <1>2, NatSetInduction
  <2> QED BY <2>1
<1> QED
  BY <1>3

\* In the file the sequences f[1] to f[n] stand one behind the other, f[k] behind
\* position at[k - 1].
Lengths(f, n) == [k \in 1..n |-> Len(f[k])]

Placed(file, at, f, n) ==
    /\ Places(at, Lengths(f, n), n) /\ at[n] <= Len(file)
    /\ \A k \in 1..n : \A j \in 1..Len(f[k]) : file[at[k - 1] + j] = f[k][j]

\* A concatenation has the sequences in their order, and nothing else.
LEMMA ConcatPlaced ==
  ASSUME NEW V, NEW n \in Nat, NEW f, \A k \in 1..n : f[k] \in Seq(V)
  PROVE  /\ Concat(f, n) \in Seq(V)
         /\ \E at : /\ Placed(Concat(f, n), at, f, n)
                    /\ at[0] = 0 /\ at[n] = Len(Concat(f, n))
<1>1. PICK C : /\ Concat(f, n) = C[n]
               /\ C[0] = <<>>
               /\ \A k \in 1..n : C[k] = C[k - 1] \o f[k]
  BY ConcatRecursion
<1>2. \A k \in 0..n : C[k] \in Seq(V)
  <2> DEFINE Q == {k \in Nat : k <= n => C[k] \in Seq(V)}
  <2>1. 0 \in Q
    <3>1. C[0] \in Seq(V)
      BY <1>1
    <3> QED BY <3>1
  <2>2. ASSUME NEW k \in Nat, k \in Q PROVE k + 1 \in Q
    <3> SUFFICES ASSUME k + 1 <= n PROVE C[k + 1] \in Seq(V)
      OBVIOUS
    <3>1. k + 1 \in 1..n /\ (k + 1) - 1 = k /\ C[k] \in Seq(V)
      BY <2>2
    <3>2. C[k + 1] = C[k] \o f[k + 1] /\ f[k + 1] \in Seq(V)
      BY <1>1, <3>1
    <3> QED BY <3>1, <3>2, BehindFacts
  <2>3. Nat \subseteq Q
    <3> HIDE DEF Q
    <3> QED BY <2>1, <2>2, NatSetInduction
  <2> QED BY <2>3
<1> DEFINE at == [k \in 0..n |-> Len(C[k])]
           l == Lengths(f, n)
<1>3. /\ at \in [0..n -> Nat] /\ l \in [1..n -> Nat]
      /\ \A k \in 0..n : at[k] = Len(C[k])
      /\ \A k \in 1..n : l[k] = Len(f[k])
  BY <1>2 DEF Lengths
<1> HIDE DEF at, l
<1>4. ASSUME NEW k \in 1..n
      PROVE  /\ k - 1 \in 0..n /\ at[k] = at[k - 1] + l[k]
             /\ \A i \in 1..at[k - 1] : C[k][i] = C[k - 1][i]
             /\ \A j \in 1..l[k] : C[k][at[k - 1] + j] = f[k][j]
  <2>1. k - 1 \in 0..n /\ k \in 0..n
    OBVIOUS
  <2>2. C[k - 1] \in Seq(V) /\ f[k] \in Seq(V) /\ C[k] = C[k - 1] \o f[k]
    BY <1>1, <1>2, <2>1
  <2>3. at[k - 1] = Len(C[k - 1]) /\ at[k] = Len(C[k]) /\ l[k] = Len(f[k])
    BY <1>3, <2>1
  <2> DEFINE s == C[k - 1]
             t == f[k]
  <2>5. s \in Seq(V) /\ t \in Seq(V)
    BY <2>2
  <2> HIDE DEF s, t
  <2>4. /\ Len(s \o t) = Len(s) + Len(t)
        /\ \A i \in 1..Len(s) : (s \o t)[i] = s[i]
        /\ \A i \in 1..Len(t) : (s \o t)[Len(s) + i] = t[i]
    BY <2>5, BehindFacts
  <2> QED BY <2>1, <2>2, <2>3, <2>4 DEF s, t
<1>5. Places(at, l, n)
  BY <1>3, <1>4 DEF Places
<1>6. \A k \in 0..n : \A i \in 1..at[k] : C[n][i] = C[k][i]
  BY <1>4, <1>5, Prefixes
<1>7. ASSUME NEW k \in 1..n, NEW j \in 1..l[k]
      PROVE  C[n][at[k - 1] + j] = f[k][j]
  <2>1. at[k - 1] + j \in 1..at[k] /\ k \in 0..n
    BY <1>5, PlacesFollow
  <2> QED BY <1>4, <1>6, <2>1
<1>8. at[n] = Len(C[n]) /\ at[0] = 0 /\ C[n] \in Seq(V)
  <2>1. 0 \in 0..n /\ n \in 0..n
    OBVIOUS
  <2>2. Len(C[0]) = 0
    BY <1>1
  <2> QED BY <1>2, <1>3, <2>1, <2>2
<1>9. at[n] <= Len(C[n])
  BY <1>8
<1>10. Placed(C[n], at, f, n)
  BY <1>3, <1>5, <1>7, <1>9 DEF Placed, l
<1> QED
  BY <1>1, <1>8, <1>10

\* The part is in the file, behind off.
Within(part, file, off) == /\ off \in Nat /\ Len(part) \in Nat /\ Len(file) \in Nat
                           /\ off + Len(part) <= Len(file)
                           /\ \A i \in 1..Len(part) : file[off + i] = part[i]

\* A part of a file has its sequences further behind in the whole file.
LEMMA PlacedBehind ==
  ASSUME NEW file, NEW part, NEW off, NEW at, NEW f, NEW n \in Nat,
         Placed(part, at, f, n), Within(part, file, off),
         NEW to, to = [k \in 0..n |-> off + at[k]]
  PROVE  Placed(file, to, f, n)
<1> DEFINE l == Lengths(f, n)
<1>0. /\ off \in Nat /\ Len(part) \in Nat /\ Len(file) \in Nat
      /\ off + Len(part) <= Len(file)
      /\ \A i \in 1..Len(part) : file[off + i] = part[i]
  BY DEF Within
<1>1. /\ Places(at, l, n) /\ \A k \in 0..n : to[k] = off + at[k]
      /\ \A k \in 1..n : l[k] = Len(f[k])
      /\ at \in [0..n -> Nat] /\ l \in [1..n -> Nat]
      /\ to \in [0..n -> Nat] /\ at[n] <= Len(part) /\ n \in 0..n
      /\ \A k \in 1..n : \A j \in 1..Len(f[k]) : part[at[k - 1] + j] = f[k][j]
  BY <1>0 DEF Placed, Places, Lengths
<1> HIDE DEF l
<1>6. ASSUME NEW k \in 1..n
      PROVE  /\ k - 1 \in 0..n /\ k \in 0..n /\ at[k] \in Nat /\ at[k - 1] \in Nat
             /\ l[k] \in Nat /\ at[k] = at[k - 1] + l[k] /\ at[k] <= at[n]
  <2>1. Places(at, l, n)
    BY <1>1
  <2> QED BY <2>1, PlacesFollow
<1>2. ASSUME NEW k \in 1..n
      PROVE  to[k] = to[k - 1] + l[k]
  BY <1>0, <1>1, <1>6
<1>3. ASSUME NEW k \in 1..n, NEW j \in 1..Len(f[k])
      PROVE  file[to[k - 1] + j] = f[k][j]
  <2>1. at[k - 1] + j \in 1..Len(part) /\ to[k - 1] + j = off + (at[k - 1] + j)
    <3>1. j \in 1..l[k] /\ at[k] <= at[n] /\ at[k] = at[k - 1] + l[k]
          /\ at[k - 1] \in Nat /\ l[k] \in Nat /\ k - 1 \in 0..n
      BY <1>0, <1>1, <1>6
    <3>2. at[n] \in Nat
      BY <1>1
    <3>5. at[n] <= Len(part)
      BY <1>1
    <3>6. Len(part) \in Nat
      BY <1>0
    <3>3. at[k - 1] + j \in 1..Len(part)
      BY <3>1, <3>2, <3>5, <3>6
    <3>4. to[k - 1] = off + at[k - 1]
      BY <1>1, <3>1
    <3> QED BY <1>0, <3>1, <3>3, <3>4
  <2> QED BY <1>0, <1>1, <2>1
<1>4. Places(to, l, n)
  BY <1>1, <1>2 DEF Places
<1>5. to[n] <= Len(file)
  BY <1>0, <1>1
<1> QED
  BY <1>3, <1>4, <1>5 DEF Placed, l

-----------------------------------------------------------------------------
(* What is written is read *)

\* A part of a sequence.
LEMMA PartFacts ==
  ASSUME NEW V, NEW s \in Seq(V), NEW a \in 1..(Len(s) + 1), NEW b \in 0..Len(s),
         a <= b + 1
  PROVE  /\ SubSeq(s, a, b) \in Seq(V) /\ Len(SubSeq(s, a, b)) = (b - a) + 1
         /\ \A i \in 1..((b - a) + 1) : SubSeq(s, a, b)[i] = s[(a + i) - 1]
<1>1. Len(s) \in Nat /\ \A i \in 1..Len(s) : s[i] \in V
  OBVIOUS
<1>2. SubSeq(s, a, b) = [i \in 1..((b - a) + 1) |-> s[(a + i) - 1]]
  BY DEF SubSeq
<1>3. (b - a) + 1 \in Nat
  BY <1>1
<1>4. \A i \in 1..((b - a) + 1) : s[(a + i) - 1] \in V
  <2>1. \A i \in 1..((b - a) + 1) : (a + i) - 1 \in 1..Len(s)
    BY <1>1
  <2> QED BY <1>1, <2>1
<1> QED
  BY <1>2, <1>3, <1>4

\* What an item holds.
LEMMA ItemFacts ==
  ASSUME NEW form, NEW y
  PROVE  Item(form, y).form = form /\ Item(form, y).x = y
  BY DEF Item

\* A single item.
LEMMA ItemRead ==
  ASSUME NEW V, NEW file \in Seq(V), NEW off \in Nat, NEW form, NEW y,
         off + 1 <= Len(file), file[off + 1] = Item(form, y)
  PROVE  ReadItem(file, off + 1, form) = [x |-> y, pos |-> off + 2]
<1>1. off + 1 \in 1..Len(file) /\ (off + 1) + 1 = off + 2
  OBVIOUS
<1> QED
  BY <1>1, ItemFacts DEF ReadItem

\* A list ends with the first string behind it, as its own items are digits.
LEMMA ListRead ==
  ASSUME NEW V, NEW file \in Seq(V), NEW off \in Nat, NEW U, NEW y \in Seq(U),
         off + Len(y) + 1 <= Len(file),
         \A i \in 1..Len(y) : file[off + i] = Item("oid", y[i]),
         file[off + Len(y) + 1] = Item("str", NULL)
  PROVE  ReadList(file, off + 1) = [x |-> y, pos |-> off + Len(y) + 2]
<1> DEFINE n == Len(y)
           start == off + 1
           last == off + n + 1
           ends == {p \in start .. Len(file) : file[p] = Item("str", NULL)}
           end == CHOOSE p \in ends : \A q \in ends : p <= q
           list == SubSeq(file, start, last - 1)
<1>1. /\ n \in Nat /\ Len(file) \in Nat /\ last \in start..Len(file) /\ start # 0
      /\ file[last] = Item("str", NULL)
      /\ \A i \in 1..n : file[off + i] = Item("oid", y[i])
      /\ y = [i \in 1..n |-> y[i]]
  OBVIOUS
<1>2. ASSUME NEW p \in ends PROVE last <= p
  <2> SUFFICES ASSUME ~(last <= p) PROVE FALSE
    OBVIOUS
  <2>1. p - off \in 1..n /\ off + (p - off) = p /\ file[p] = Item("str", NULL)
    BY <1>1
  <2>2. file[p] = Item("oid", y[p - off])
    BY <1>1, <2>1
  <2> QED BY <2>1, <2>2, ItemFacts
<1>3. last \in ends
  BY <1>1
<1>4. end = last
  <2> HIDE DEF ends, last
  <2>1. \A p \in ends : p \in Int
    BY DEF ends
  <2>2. end \in ends /\ \A q \in ends : end <= q
    BY <1>2, <1>3
  <2>3. end <= last /\ last <= end
    BY <1>2, <1>3, <2>2
  <2> QED BY <1>3, <2>1, <2>2, <2>3
<1>5. ends # {}
  BY <1>3
<1>6. ReadList(file, start) = ListOf(list, last + 1)
  <2> HIDE DEF last
  <2> QED BY <1>1, <1>4, <1>5 DEF ReadList, ReadListUpTo
<1>7. /\ DOMAIN list = 1..n /\ \A i \in 1..n : list[i] = Item("oid", y[i])
  <2> HIDE DEF n
  <2>1. /\ start \in 1..(Len(file) + 1) /\ last - 1 \in 0..Len(file)
        /\ ((last - 1) - start) + 1 = n /\ start <= (last - 1) + 1
    BY <1>1
  <2> DEFINE b == last - 1
  <2> HIDE DEF start, last, b
  <2>2. /\ SubSeq(file, start, b) \in Seq(V) /\ Len(SubSeq(file, start, b)) = n
        /\ \A i \in 1..n : SubSeq(file, start, b)[i] = file[(start + i) - 1]
    BY <2>1, PartFacts DEF b
  <2>3. \A i \in 1..n : (start + i) - 1 = off + i
    BY <1>1 DEF start
  <2>4. list = SubSeq(file, start, b)
    BY DEF b
  <2> HIDE DEF list
  <2>5. DOMAIN list = 1..n /\ \A i \in 1..n : list[i] = file[(start + i) - 1]
    BY <2>2, <2>4
  <2> QED BY <1>1, <2>3, <2>5
<1> HIDE DEF list, n
<1>8. \A i \in DOMAIN list : list[i].form = "oid" /\ list[i].x = y[i]
  BY <1>7, ItemFacts
<1>9. [i \in DOMAIN list |-> list[i].x] = y
  BY <1>1, <1>7, <1>8
<1>10. ListOf(list, last + 1) = [x |-> y, pos |-> last + 1]
  BY <1>8, <1>9 DEF ListOf
<1>11. last + 1 = off + n + 2
  BY <1>1
<1> QED
  BY <1>6, <1>10, <1>11 DEF n

\* What the writer makes of field k.
Written(fields, version, x) ==
    [k \in 1 .. Len(fields) |->
        IF version \in fields[k].from .. fields[k].to
          THEN Items(fields[k].form, x[fields[k].name]) ELSE <<>>]

\* The fields that the version has.
Has(field, version) == version \in field.from .. field.to

\* A value that can be written: a list is a sequence.
Writable(form, y) == form = "list" => \E U : y \in Seq(U)

\* A field is written as a sequence of items, a list as its strings and the one
\* that is not there.
LEMMA ItemsFacts ==
  ASSUME NEW form, NEW y, Writable(form, y)
  PROVE  /\ Items(form, y) \in Seq(Elems(Items(form, y)))
         /\ form # "list" => Len(Items(form, y)) = 1 /\ Items(form, y)[1] = Item(form, y)
         /\ form = "list" =>
              /\ Len(y) \in Nat /\ Len(Items(form, y)) = Len(y) + 1
              /\ \A i \in 1..Len(y) : Items(form, y)[i] = Item("oid", y[i])
              /\ Items(form, y)[Len(y) + 1] = Item("str", NULL)
<1>1. CASE form # "list"
  <2>1. Items(form, y) = <<Item(form, y)>>
    BY <1>1 DEF Items
  <2> QED BY <1>1, <2>1 DEF Elems
<1>2. CASE form = "list"
  <2> DEFINE n == Len(y)
             s == [k \in 1 .. n |-> Item("oid", y[k])]
             t == <<Item("str", NULL)>>
             V == {Item("oid", y[k]) : k \in 1..n} \cup {Item("str", NULL)}
  <2>1. n \in Nat
    BY <1>2 DEF Writable
  <2>2. /\ s \in Seq(V) /\ Len(s) = n /\ \A i \in 1..n : s[i] = Item("oid", y[i])
    <3> HIDE DEF n
    <3> QED BY <2>1
  <2>3. t \in Seq(V) /\ Len(t) = 1 /\ t[1] = Item("str", NULL)
    OBVIOUS
  <2>4. Items(form, y) = s \o t
    BY <1>2 DEF Items
  <2> HIDE DEF s, t, V, n
  <2>5. /\ s \o t \in Seq(V) /\ Len(s \o t) = n + 1
        /\ \A i \in 1..n : (s \o t)[i] = s[i]
        /\ (s \o t)[n + 1] = t[1]
    <3>1. /\ s \o t \in Seq(V) /\ Len(s \o t) = Len(s) + Len(t)
          /\ \A i \in 1..Len(s) : (s \o t)[i] = s[i]
          /\ \A i \in 1..Len(t) : (s \o t)[Len(s) + i] = t[i]
      BY <2>2, <2>3, BehindFacts
    <3> QED BY <2>1, <2>2, <2>3, <3>1
  <2> DEFINE w == s \o t
  <2>6. w \in Seq(Elems(w))
    <3> HIDE DEF w
    <3>1. w \in Seq(V)
      BY <2>5 DEF w
    <3>2. Len(w) \in Nat /\ w = [i \in 1..Len(w) |-> w[i]] /\ \A i \in 1..Len(w) : w[i] \in Elems(w)
      BY <3>1 DEF Elems
    <3> QED BY <3>2
  <2> QED BY <1>2, <2>1, <2>2, <2>3, <2>4, <2>5, <2>6 DEF n
<1> QED
  BY <1>1, <1>2

\* Where a field has been written it is read again.
LEMMA FieldRead ==
  ASSUME NEW V, NEW file \in Seq(V), NEW off \in Nat, NEW form, NEW y, Writable(form, y),
         off + Len(Items(form, y)) <= Len(file),
         \A i \in 1..Len(Items(form, y)) : file[off + i] = Items(form, y)[i]
  PROVE  ReadField(file, off + 1, form) = [x |-> y, pos |-> off + Len(Items(form, y)) + 1]
<1>1. CASE form # "list"
  <2>1. Len(Items(form, y)) = 1 /\ Items(form, y)[1] = Item(form, y)
    BY <1>1, ItemsFacts
  <2>2. off + 1 <= Len(file) /\ file[off + 1] = Item(form, y)
    BY <2>1
  <2>3. ReadItem(file, off + 1, form) = [x |-> y, pos |-> off + 2]
    BY <2>2, ItemRead
  <2>4. off + Len(Items(form, y)) + 1 = off + 2
    BY <2>1
  <2> QED BY <1>1, <2>3, <2>4 DEF ReadField
<1>2. CASE form = "list"
  <2>1. /\ Len(y) \in Nat /\ Len(Items(form, y)) = Len(y) + 1
        /\ \A i \in 1..Len(y) : Items(form, y)[i] = Item("oid", y[i])
        /\ Items(form, y)[Len(y) + 1] = Item("str", NULL)
    BY <1>2, ItemsFacts
  <2>2. /\ off + Len(y) + 1 <= Len(file)
        /\ \A i \in 1..Len(y) : file[off + i] = Item("oid", y[i])
        /\ file[off + Len(y) + 1] = Item("str", NULL)
    <3>1. \A i \in 1..Len(y) : i \in 1..Len(Items(form, y))
      BY <2>1
    <3>2. Len(y) + 1 \in 1..Len(Items(form, y)) /\ off + (Len(y) + 1) = off + Len(y) + 1
      BY <2>1
    <3> QED BY <2>1, <3>1, <3>2
  <2>3. PICK U : y \in Seq(U)
    BY <1>2 DEF Writable
  <2>6. /\ off + Len(y) + 1 <= Len(file)
        /\ file[off + Len(y) + 1] = Item("str", NULL)
    BY <2>2
  <2>7. \A i \in 1..Len(y) : file[off + i] = Item("oid", y[i])
    BY <2>2
  <2>4. ReadList(file, off + 1) = [x |-> y, pos |-> off + Len(y) + 2]
    <3>1. /\ file \in Seq(V) /\ off \in Nat /\ y \in Seq(U)
      BY <2>3
    <3> QED BY ONLY <3>1, <2>6, <2>7, ListRead, SMTT(60)
  <2>5. off + Len(Items(form, y)) + 1 = off + Len(y) + 2
    BY <2>1
  <2> QED BY <1>2, <2>4, <2>5 DEF ReadField
<1> QED
  BY <1>1, <1>2

\* Some field of the first k has the name, in this version.
Named(fields, version, k, name) ==
    \E j \in 1..k : Has(fields[j], version) /\ fields[j].name = name

\* A sequence, of whatever it has.
IsSequence(s) == s \in Seq(Elems(s))

\* The fields are to be read where they have been written.
FieldsReady(file, fields, version, x, at, start) ==
    /\ IsSequence(file) /\ IsSequence(fields)
    /\ Placed(file, at, Written(fields, version, x), Len(fields))
    /\ start = [x |-> start.x, pos |-> at[0] + 1]
    /\ \A k \in 1..Len(fields) :
          /\ fields[k].name \in DOMAIN start.x
          /\ Has(fields[k], version) => Writable(fields[k].form, x[fields[k].name])

\* Then they are read as they were, and nothing else is changed.
LEMMA FieldsRead ==
  ASSUME NEW file, NEW fields, NEW version, NEW x, NEW at, NEW start,
         FieldsReady(file, fields, version, x, at, start),
         NEW r, r = ReadFields(fields, version, file, start)
  PROVE  /\ r = [x |-> r.x, pos |-> at[Len(fields)] + 1] /\ DOMAIN r.x = DOMAIN start.x
         /\ \A name \in DOMAIN start.x :
               r.x[name] = IF Named(fields, version, Len(fields), name) THEN x[name]
                           ELSE start.x[name]
<1> DEFINE n == Len(fields)
           w == Written(fields, version, x)
           l == Lengths(w, n)
<1> DEFINE V == Elems(file)
<1>0. /\ file \in Seq(V) /\ fields \in Seq(Elems(fields))
      /\ Placed(file, at, Written(fields, version, x), Len(fields))
      /\ start = [x |-> start.x, pos |-> at[0] + 1]
      /\ \A k \in 1..Len(fields) :
            /\ fields[k].name \in DOMAIN start.x
            /\ Has(fields[k], version) => Writable(fields[k].form, x[fields[k].name])
  BY DEF FieldsReady, IsSequence
<1> HIDE DEF V
<1>1. PICK C : /\ ReadFields(fields, version, file, start) = C[n]
               /\ C[0] = start
               /\ \A k \in 1..n : C[k] = ReadNext(fields[k], version, file, C[k - 1])
  BY <1>0, FieldsRecursion
<1>2. n \in Nat /\ Len(file) \in Nat
  BY <1>0
<1>3. /\ Places(at, l, n) /\ at[n] <= Len(file) /\ at \in [0..n -> Nat]
      /\ \A k \in 1..n : \A j \in 1..Len(w[k]) : file[at[k - 1] + j] = w[k][j]
      /\ \A k \in 1..n : l[k] = Len(w[k])
  BY <1>0 DEF Placed, Places, Lengths
<1>4. \A k \in 1..n : w[k] = IF Has(fields[k], version)
                              THEN Items(fields[k].form, x[fields[k].name]) ELSE <<>>
  BY DEF Written, Has
<1> HIDE DEF n, w, l
<1> DEFINE Is(k) == /\ C[k] = [x |-> C[k].x, pos |-> at[k] + 1] /\ DOMAIN C[k].x = DOMAIN start.x
                    /\ \A name \in DOMAIN start.x :
                          C[k].x[name] = IF Named(fields, version, k, name) THEN x[name]
                                         ELSE start.x[name]
           Q == {k \in Nat : k <= n => Is(k)}
<1>5. 0 \in Q
  <2>1. Is(0)
    BY <1>0, <1>1 DEF Named
  <2> QED BY <2>1
<1>6. ASSUME NEW m \in Nat, m \in Q PROVE m + 1 \in Q
  <2> SUFFICES ASSUME m + 1 <= n PROVE Is(m + 1)
    OBVIOUS
  <2> DEFINE k == m + 1
             f == fields[k]
             b == C[m]
  <2>1. k \in 1..n /\ k - 1 = m /\ m \in 0..n
    BY <1>2
  <2>2. Is(m)
    BY <1>2, <1>6, <2>1
  <2>3. C[k] = ReadNext(f, version, file, b)
    BY <1>1, <2>1
  <2>4. \A name : Named(fields, version, k, name) <=>
                     Named(fields, version, m, name) \/ (Has(f, version) /\ f.name = name)
    BY <2>1 DEF Named
  <2>5. /\ at[k] = at[m] + l[k] /\ at[m] \in Nat /\ at[k] <= at[n] /\ at[n] \in Nat
        /\ l[k] = Len(w[k])
    <3>1. n \in 0..n
      BY <1>2
    <3>2. at[k] = at[k - 1] + l[k] /\ at[k - 1] \in Nat /\ at[k] <= at[n]
      <4>1. n \in Nat /\ Places(at, l, n)
        BY <1>2, <1>3
      <4>2. \A j \in 1..n : at[j] = at[j - 1] + l[j] /\ at[j - 1] \in Nat /\ at[j] <= at[n]
        BY ONLY <4>1, PlacesFollow
      <4> QED BY <2>1, <4>2
    <3> QED BY <1>3, <2>1, <3>1, <3>2
  <2>6. f.name \in DOMAIN start.x /\ (Has(f, version) => Writable(f.form, x[f.name]))
    BY <1>0, <2>1 DEF n
  <2>12. b.pos # 0
    BY <2>2, <2>5
  <2>7. CASE ~Has(f, version)
    <3>1. C[k] = b
      BY <2>3, <2>7 DEF ReadNext, Has
    <3>2. l[k] = 0
      BY <1>4, <2>1, <2>5, <2>7
    <3>3. at[k] = at[m]
      BY <2>5, <3>2
    <3> QED BY <2>2, <2>4, <2>7, <3>1, <3>3
  <2>8. CASE Has(f, version)
    <3> DEFINE y == x[f.name]
    <3>1. w[k] = Items(f.form, y)
      BY <1>4, <2>1, <2>8
    <3>2. at[m] + Len(Items(f.form, y)) <= Len(file)
      BY <1>2, <1>3, <2>5, <3>1
    <3>3. \A i \in 1..Len(Items(f.form, y)) : file[at[m] + i] = Items(f.form, y)[i]
      BY <1>3, <2>1, <3>1
    <3>4. file \in Seq(V) /\ at[m] \in Nat /\ Writable(f.form, y)
      BY <1>0, <2>5, <2>6, <2>8
    <3>5. ReadField(file, at[m] + 1, f.form)
            = [x |-> y, pos |-> at[m] + Len(Items(f.form, y)) + 1]
      <4> DEFINE off == at[m]
                 form == f.form
      <4>1. /\ file \in Seq(V) /\ off \in Nat /\ Writable(form, y)
            /\ off + Len(Items(form, y)) <= Len(file)
            /\ \A i \in 1..Len(Items(form, y)) : file[off + i] = Items(form, y)[i]
        BY <3>2, <3>3, <3>4
      <4> HIDE DEF off, form, y
      <4>2. ReadField(file, off + 1, form)
              = [x |-> y, pos |-> off + Len(Items(form, y)) + 1]
        BY ONLY <4>1, FieldRead, SMTT(60)
      <4> QED BY <4>2 DEF off, form
    <3>6. b.pos = at[m] + 1
      BY <2>2
    <3>7. C[k] = Into(b, f.name, [x |-> y, pos |-> at[m] + Len(Items(f.form, y)) + 1])
      BY <2>3, <2>8, <3>5, <3>6 DEF ReadNext, Has
    <3>9. at[m] + Len(Items(f.form, y)) + 1 = at[k] + 1
      BY <2>5, <3>1
    <3>8. C[k] = Into(b, f.name, [x |-> y, pos |-> at[k] + 1])
      BY <3>7, <3>9
    <3>10. at[k] + 1 # 0
      BY <1>3, <2>1
    <3>11. C[k] = [x |-> [b.x EXCEPT ![f.name] = y], pos |-> at[k] + 1]
      BY <3>8, <3>10 DEF Into
    <3> HIDE DEF b, f, k, y
    <3>12. C[k].pos = at[k] + 1 /\ C[k].x = [b.x EXCEPT ![f.name] = y]
      BY <3>11
    <3>13. DOMAIN C[k].x = DOMAIN b.x
      BY <3>12
    <3>14. \A name \in DOMAIN b.x : C[k].x[name] = IF name = f.name THEN y ELSE b.x[name]
      BY <3>12
    <3>15. /\ DOMAIN b.x = DOMAIN start.x
           /\ \A name \in DOMAIN start.x :
                b.x[name] = IF Named(fields, version, m, name) THEN x[name] ELSE start.x[name]
      BY <2>2 DEF b
    <3>16. y = x[f.name]
      BY DEF y
    <3>17. ASSUME NEW name \in DOMAIN start.x
           PROVE  C[k].x[name] = IF Named(fields, version, k, name) THEN x[name]
                                 ELSE start.x[name]
      BY <2>4, <2>8, <3>14, <3>15, <3>16 DEF f, k
    <3>18. C[k] = [x |-> C[k].x, pos |-> at[k] + 1]
      BY <3>11
    <3> QED BY <3>13, <3>15, <3>17, <3>18 DEF k
  <2> QED BY <2>7, <2>8
<1>7. Is(n)
  <2>1. Nat \subseteq Q
    <3> HIDE DEF Q
    <3> QED BY <1>5, <1>6, NatSetInduction
  <2> QED BY <1>2, <2>1
<1> QED
  BY <1>1, <1>7 DEF n

\* A sequence over a set is one over its elements.
LEMMA SequenceFacts ==
  ASSUME NEW V, NEW s \in Seq(V)
  PROVE  /\ IsSequence(s) /\ Len(s) \in Nat /\ Elems(s) \subseteq V
         /\ \A i \in 1..Len(s) : s[i] \in Elems(s)
         /\ DOMAIN s = 1..Len(s)
<1>1. /\ Len(s) \in Nat /\ s = [i \in 1..Len(s) |-> s[i]]
      /\ \A i \in 1..Len(s) : s[i] \in V
  OBVIOUS
<1>2. \A i \in 1..Len(s) : s[i] \in Elems(s)
  BY DEF Elems
<1>3. IsSequence(s)
  BY <1>1, <1>2 DEF IsSequence
<1> QED
  BY <1>1, <1>2, <1>3 DEF Elems

\* A sequence whose elements are in V is one over V.
LEMMA SequenceOf ==
  ASSUME NEW s, IsSequence(s), NEW V, Elems(s) \subseteq V
  PROVE  s \in Seq(V)
<1>1. /\ Len(s) \in Nat /\ s = [i \in 1..Len(s) |-> s[i]]
      /\ \A i \in 1..Len(s) : s[i] \in V
  BY DEF IsSequence
<1> QED
  BY <1>1

\* u is s with t behind it.
Joined(u, s, t) ==
    /\ IsSequence(u) /\ Len(s) \in Nat /\ Len(t) \in Nat /\ Len(u) = Len(s) + Len(t)
    /\ \A i \in 1..Len(s) : u[i] = s[i]
    /\ \A i \in 1..Len(t) : u[Len(s) + i] = t[i]
    /\ Elems(u) = Elems(s) \cup Elems(t)

\* Behind one another, two sequences are joined.
LEMMA BehindSequence ==
  ASSUME NEW s, IsSequence(s), NEW t, IsSequence(t)
  PROVE  Joined(s \o t, s, t)
<1> DEFINE u == s \o t
<1> DEFINE V == Elems(s) \cup Elems(t)
<1>1. s \in Seq(V) /\ t \in Seq(V)
  BY SequenceOf
<1>2. /\ u \in Seq(V) /\ Len(s) \in Nat /\ Len(t) \in Nat
      /\ Len(u) = Len(s) + Len(t)
      /\ \A i \in 1..Len(s) : u[i] = s[i]
      /\ \A i \in 1..Len(t) : u[Len(s) + i] = t[i]
  BY <1>1, BehindFacts
<1> HIDE DEF u
<1>3. IsSequence(u) /\ Elems(u) \subseteq V
  BY <1>2, SequenceFacts
<1>4. Elems(s) \subseteq Elems(u)
  BY <1>2 DEF Elems
<1>5. Elems(t) \subseteq Elems(u)
  <2>1. \A i \in 1..Len(t) : Len(s) + i \in 1..Len(u)
    BY <1>2
  <2> QED BY <1>2, <2>1 DEF Elems
<1>6. Elems(u) = V
  BY <1>3, <1>4, <1>5
<1> QED
  BY <1>2, <1>3, <1>6 DEF Joined, u

\* What stands one behind the other has what the sequences have.
LEMMA PlacedElems ==
  ASSUME NEW s, IsSequence(s), NEW at, NEW f, NEW n \in Nat,
         Placed(s, at, f, n), at[0] = 0, at[n] = Len(s)
  PROVE  /\ \A k \in 1..n : Elems(f[k]) \subseteq Elems(s)
         /\ \A e \in Elems(s) : \E k \in 1..n : e \in Elems(f[k])
<1> DEFINE l == Lengths(f, n)
<1>1. /\ Places(at, l, n) /\ \A k \in 1..n : l[k] = Len(f[k])
      /\ \A k \in 1..n : \A j \in 1..Len(f[k]) : s[at[k - 1] + j] = f[k][j]
  BY DEF Placed, Lengths
<1> HIDE DEF l
<1>2. \A k \in 1..n : /\ at[k - 1] \in Nat /\ l[k] \in Nat /\ at[k] \in Nat
                      /\ at[k] = at[k - 1] + l[k] /\ at[k] <= at[n]
  BY <1>1, PlacesFollow
<1>3. ASSUME NEW k \in 1..n, NEW j \in 1..Len(f[k]) PROVE f[k][j] \in Elems(s)
  <2>1. l[k] = Len(f[k]) /\ Len(s) = at[n]
    BY <1>1
  <2>2. at[k - 1] + j <= at[n] /\ at[k - 1] + j >= 1 /\ at[k - 1] + j \in Int
    <3>1. /\ at[k - 1] \in Nat /\ l[k] \in Nat /\ at[k] \in Nat
          /\ at[k] = at[k - 1] + l[k] /\ at[k] <= at[n] /\ j \in 1..l[k]
      BY <1>2, <2>1
    <3>2. at[n] \in Nat
      BY <2>1, SequenceFacts DEF IsSequence
    <3> QED BY <3>1, <3>2
  <2>3. at[k - 1] + j \in 1..Len(s)
    BY <2>1, <2>2
  <2> QED BY <1>1, <2>3 DEF Elems
<1>4. ASSUME NEW i \in 1..Len(s) PROVE \E k \in 1..n : s[i] \in Elems(f[k])
  <2>1. i \in 1..at[n]
    OBVIOUS
  <2>2. PICK k \in 1..n : i - at[k - 1] \in 1..l[k]
    BY <1>1, <2>1, PlacesCover
  <2>3. /\ i - at[k - 1] \in 1..Len(f[k]) /\ at[k - 1] \in Nat
        /\ at[k - 1] + (i - at[k - 1]) = i
    BY <1>1, <1>2, <2>2
  <2>4. s[i] = f[k][i - at[k - 1]]
    BY <1>1, <2>3
  <2>5. f[k][i - at[k - 1]] \in Elems(f[k])
    BY <2>3 DEF Elems
  <2> QED BY <2>4, <2>5
<1> QED
  BY <1>3, <1>4 DEF Elems

\* A concatenation of sequences.
LEMMA ConcatSequence ==
  ASSUME NEW n \in Nat, NEW f, \A k \in 1..n : IsSequence(f[k])
  PROVE  /\ IsSequence(Concat(f, n)) /\ Len(Concat(f, n)) \in Nat
         /\ \E at : /\ Placed(Concat(f, n), at, f, n)
                    /\ at[0] = 0 /\ at[n] = Len(Concat(f, n))
         /\ Elems(Concat(f, n)) = UNION {Elems(f[k]) : k \in 1..n}
<1> DEFINE V == UNION {Elems(f[k]) : k \in 1..n}
           s == Concat(f, n)
<1>1. \A k \in 1..n : f[k] \in Seq(V)
  BY SequenceOf
<1>2. /\ s \in Seq(V)
      /\ \E at : Placed(s, at, f, n) /\ at[0] = 0 /\ at[n] = Len(s)
  <2> HIDE DEF V
  <2> QED BY <1>1, ConcatPlaced
<1> HIDE DEF s
<1>3. IsSequence(s) /\ Len(s) \in Nat
  BY <1>2, SequenceFacts
<1>4. /\ \A k \in 1..n : Elems(f[k]) \subseteq Elems(s)
      /\ \A e \in Elems(s) : \E k \in 1..n : e \in Elems(f[k])
  BY <1>2, <1>3, PlacedElems
<1>5. Elems(s) = V
  BY <1>4
<1> QED
  BY <1>2, <1>3, <1>5 DEF s

\* What is written of the fields stands one behind the other.
LEMMA FieldsWritten ==
  ASSUME NEW fields, IsSequence(fields), NEW version, NEW x,
         \A k \in 1..Len(fields) : Has(fields[k], version) =>
             Writable(fields[k].form, x[fields[k].name]),
         NEW s, s = WriteFields(fields, version, x)
  PROVE  /\ IsSequence(s) /\ Len(s) \in Nat
         /\ \E at : /\ Placed(s, at, Written(fields, version, x), Len(fields))
                    /\ at[0] = 0 /\ at[Len(fields)] = Len(s)
<1> DEFINE w == Written(fields, version, x)
           n == Len(fields)
<1>1. n \in Nat /\ s = Concat(w, n)
  BY DEF WriteFields, Written, IsSequence
<1>2. \A k \in 1..n : IsSequence(w[k])
  <2> SUFFICES ASSUME NEW k \in 1..n PROVE IsSequence(w[k])
    OBVIOUS
  <2>1. CASE Has(fields[k], version)
    <3>1. w[k] = Items(fields[k].form, x[fields[k].name])
      BY <2>1 DEF Written, Has
    <3> QED BY <2>1, <3>1, ItemsFacts DEF IsSequence
  <2>2. CASE ~Has(fields[k], version)
    <3>1. w[k] = <<>>
      BY <2>2 DEF Written, Has
    <3>2. IsSequence(<<>>)
      BY DEF IsSequence, Elems
    <3> QED BY <3>1, <3>2
  <2> QED BY <2>1, <2>2
<1> HIDE DEF w, n
<1>3. /\ IsSequence(s) /\ Len(s) \in Nat
      /\ \E at : Placed(s, at, w, n) /\ at[0] = 0 /\ at[n] = Len(s)
  BY <1>1, <1>2, ConcatSequence
<1> QED
  BY <1>3 DEF w, n

Names(fields) == {fields[k].name : k \in DOMAIN fields}

\* A record of which nothing is set has a value for each name.
LEMMA UnsetNames == ASSUME NEW fields PROVE DOMAIN Unset(fields) = Names(fields)
  BY DEF Unset, Names

\* What a field holds.
LEMMA FieldFacts ==
  ASSUME NEW name, NEW form, NEW from, NEW to, NEW zero
  PROVE  LET f == Field(name, form, from, to, zero)
         IN  /\ f.name = name /\ f.form = form /\ f.from = from /\ f.to = to
             /\ f.zero = zero
  BY DEF Field

\* The header is read in the form it is written in; where the fields stand that
\* the reader decides by.
LEMMA HeaderFacts ==
  /\ HeaderWritten = HeaderRead /\ IsSequence(HeaderRead) /\ Len(HeaderRead) = 14
  /\ \A k \in 1..14 : HeaderRead[k].form # "list"
  /\ \A v \in 0..16 : \A k \in 1..3 : Has(HeaderRead[k], v)
  /\ \A v \in 0..16 : Has(HeaderRead[5], v) /\ Has(HeaderRead[7], v)
  /\ HeaderRead[1].name = "Magic" /\ HeaderRead[2].name = "Major"
  /\ HeaderRead[3].name = "Minor" /\ HeaderRead[5].name = "IntSize"
  /\ HeaderRead[7].name = "Format"
  /\ \A k \in 4..14 : HeaderRead[k].name \notin {"Magic", "Major", "Minor"}
<1>1. HeaderWritten = HeaderRead
  BY DEF HeaderWritten, HeaderRead
<1>2. Len(HeaderRead) = 14 /\ DOMAIN HeaderRead = 1..14
  BY DEF HeaderRead
<1>3. IsSequence(HeaderRead)
  <2>1. HeaderRead \in Seq({HeaderRead[k] : k \in 1..14})
    BY DEF HeaderRead
  <2> QED BY <1>2, <2>1 DEF IsSequence, Elems
<1>4. \A k \in 1..14 : HeaderRead[k].form # "list"
  BY FieldFacts DEF HeaderRead
<1>5. \A k \in 4..14 : HeaderRead[k].name \notin {"Magic", "Major", "Minor"}
  BY FieldFacts DEF HeaderRead
<1>6. \A v \in 0..16 : \A k \in {1, 2, 3, 5, 7} : Has(HeaderRead[k], v)
  BY FieldFacts DEF HeaderRead, Has
<1>7. /\ HeaderRead[1].name = "Magic" /\ HeaderRead[2].name = "Major"
      /\ HeaderRead[3].name = "Minor" /\ HeaderRead[5].name = "IntSize"
      /\ HeaderRead[7].name = "Format"
  BY FieldFacts DEF HeaderRead
<1> QED
  BY <1>1, <1>2, <1>3, <1>4, <1>5, <1>6, <1>7

\* Entries are read in the form they are written in; the id is in every version,
\* the section from 1.11 on.
LEMMA EntryFacts ==
  /\ EntryWritten = EntryRead /\ IsSequence(EntryRead) /\ Len(EntryRead) = 18
  /\ DOMAIN EntryRead = 1..18
  /\ \A k \in 1..18 : EntryRead[k].form = "list" <=> k = 17
  /\ \A k \in 1..18 : EntryRead[k].name = "Dependencies" <=> k = 17
  /\ EntryRead[1].name = "DumpId" /\ EntryRead[7].name = "Section"
  /\ \A v \in 0..16 : Has(EntryRead[1], v)
  /\ \A v \in 11..16 : Has(EntryRead[7], v)
  /\ EntryRead[17].zero = <<>>
<1>1. EntryWritten = EntryRead
  BY DEF EntryWritten, EntryRead
<1>2. Len(EntryRead) = 18 /\ DOMAIN EntryRead = 1..18
  BY DEF EntryRead
<1>3. IsSequence(EntryRead)
  <2>1. EntryRead \in Seq({EntryRead[k] : k \in 1..18})
    BY DEF EntryRead
  <2> QED BY <1>2, <2>1 DEF IsSequence, Elems
<1>4. \A k \in 1..18 : EntryRead[k].form = "list" <=> k = 17
  BY FieldFacts DEF EntryRead
<1>5. \A k \in 1..18 : EntryRead[k].name = "Dependencies" <=> k = 17
  BY FieldFacts DEF EntryRead
<1>6. /\ \A v \in 0..16 : Has(EntryRead[1], v)
      /\ \A v \in 11..16 : Has(EntryRead[7], v)
  BY FieldFacts DEF EntryRead, Has
<1>7. /\ EntryRead[1].name = "DumpId" /\ EntryRead[7].name = "Section"
      /\ EntryRead[17].zero = <<>>
  BY FieldFacts DEF EntryRead
<1> QED
  BY <1>1, <1>2, <1>3, <1>4, <1>5, <1>6, <1>7

\* g is f from behind a on.
Behind(g, f, a, m) == \A k \in 1..m : g[k] = f[a + k]

\* Some of the sequences of a file.
LEMMA PlacedPart ==
  ASSUME NEW file, NEW at, NEW f, NEW n \in Nat, Placed(file, at, f, n), Len(file) \in Nat,
         NEW a \in Nat, NEW m \in Nat, a + m <= n,
         NEW g, Behind(g, f, a, m),
         NEW to, to = [k \in 0..m |-> at[a + k]]
  PROVE  Placed(file, to, g, m)
<1> DEFINE l == Lengths(f, n)
           lg == Lengths(g, m)
<1>1. /\ Places(at, l, n) /\ at \in [0..n -> Nat] /\ at[n] <= Len(file)
      /\ \A k \in 1..n : l[k] = Len(f[k]) /\ l[k] \in Nat
      /\ \A k \in 1..n : \A j \in 1..Len(f[k]) : file[at[k - 1] + j] = f[k][j]
  BY DEF Placed, Places, Lengths
<1>2. \A k \in 1..n : at[k] = at[k - 1] + l[k]
  BY DEF Placed, Places
<1>3. /\ \A k \in 1..m : a + k \in 1..n /\ (a + k) - 1 = a + (k - 1) /\ k - 1 \in 0..m
      /\ \A k \in 0..m : a + k \in 0..n
      /\ m \in 0..m /\ n \in 0..n
  OBVIOUS
<1>4. \A k \in 0..m : to[k] = at[a + k] /\ to[k] \in Nat
  BY <1>1, <1>3
<1>5. \A k \in 1..m : lg[k] = l[a + k] /\ lg[k] \in Nat
  BY <1>1, <1>3 DEF Lengths, Behind
<1>6. to \in [0..m -> Nat] /\ lg \in [1..m -> Nat]
  <2>1. lg = [k \in 1..m |-> lg[k]]
    BY DEF Lengths
  <2>2. to = [k \in 0..m |-> to[k]]
    OBVIOUS
  <2> HIDE DEF lg
  <2> QED BY <1>4, <1>5, <2>1, <2>2
<1> HIDE DEF l, lg
<1>7. \A k \in 1..m : to[k] = to[k - 1] + lg[k]
  BY <1>2, <1>3, <1>4, <1>5
<1>8. at[a + m] <= at[n]
  BY <1>1, <1>3, PlacesFollow
<1>9. to[m] <= Len(file)
  <2>1. to[m] = at[a + m] /\ at[a + m] \in Nat /\ at[n] \in Nat
    BY <1>1, <1>3, <1>4
  <2> QED BY <1>1, <1>8, <2>1
<1>10. ASSUME NEW k \in 1..m, NEW j \in 1..Len(g[k])
       PROVE  file[to[k - 1] + j] = g[k][j]
  <2>1. g[k] = f[a + k] /\ a + k \in 1..n /\ to[k - 1] = at[(a + k) - 1]
    BY <1>3, <1>4 DEF Behind
  <2> QED BY <1>1, <2>1
<1>11. Places(to, lg, m)
  BY <1>6, <1>7 DEF Places
<1> QED
  BY <1>9, <1>10, <1>11 DEF Placed, lg

\* A part of a sequence.
LEMMA PartOf ==
  ASSUME NEW V, NEW s \in Seq(V), NEW a \in Nat, NEW m \in Nat, a + m <= Len(s)
  PROVE  /\ SubSeq(s, a + 1, a + m) \in Seq(V) /\ Len(SubSeq(s, a + 1, a + m)) = m
         /\ \A i \in 1..m : SubSeq(s, a + 1, a + m)[i] = s[a + i]
<1> DEFINE b == a + 1
           c == a + m
<1>1. /\ Len(s) \in Nat /\ b \in 1..(Len(s) + 1) /\ c \in 0..Len(s) /\ b <= c + 1
      /\ (c - b) + 1 = m /\ \A i \in 1..m : (b + i) - 1 = a + i
  OBVIOUS
<1> HIDE DEF b, c
<1>2. /\ SubSeq(s, b, c) \in Seq(V) /\ Len(SubSeq(s, b, c)) = (c - b) + 1
      /\ \A i \in 1..((c - b) + 1) : SubSeq(s, b, c)[i] = s[(b + i) - 1]
  BY <1>1, PartFacts
<1>3. /\ SubSeq(s, b, c) \in Seq(V) /\ Len(SubSeq(s, b, c)) = m
      /\ \A i \in 1..m : SubSeq(s, b, c)[i] = s[a + i]
  BY <1>1, <1>2
<1> QED
  BY <1>3 DEF b, c

\* The header of an archive that the reader takes.
Readable(h) == /\ h.Magic = 1 /\ h.Major = 1 /\ h.Minor \in FirstVersion..LastVersion
               /\ h.IntSize = 4 /\ h.Format = ArchTar

\* What the reader fills in leaves the version alone.
LEMMA FilledInFacts ==
  ASSUME NEW h, "Minor" \in DOMAIN h
  PROVE  FilledIn(h).Minor = h.Minor
  BY DEF FilledIn

\* One of the m fields behind field a has the name.
NamedBehind(fields, version, a, m, name) ==
    \E k \in 1..m : Has(fields[a + k], version) /\ fields[a + k].name = name

\* The m fields behind field a are to be read where they have been written.
Ready(file, fields, v, version, x, at, a, m, start) ==
    /\ IsSequence(file) /\ IsSequence(fields)
    /\ Placed(file, at, Written(fields, v, x), Len(fields))
    /\ a \in Nat /\ m \in Nat /\ a + m <= Len(fields)
    /\ \A k \in 1..m : Has(fields[a + k], version) <=> Has(fields[a + k], v)
    /\ start = [x |-> start.x, pos |-> at[a] + 1]
    /\ \A k \in 1..Len(fields) : /\ fields[k].name \in DOMAIN start.x
                                 /\ fields[k].form # "list"

\* Then these fields are read as they were, and nothing else is changed.
LEMMA PartRead ==
  ASSUME NEW file, NEW fields, NEW v, NEW version, NEW x, NEW at, NEW a, NEW m, NEW start,
         Ready(file, fields, v, version, x, at, a, m, start),
         NEW r, r = ReadFields(SubSeq(fields, a + 1, a + m), version, file, start)
  PROVE  /\ r = [x |-> r.x, pos |-> at[a + m] + 1] /\ DOMAIN r.x = DOMAIN start.x
         /\ \A name \in DOMAIN start.x :
               r.x[name] = IF NamedBehind(fields, version, a, m, name) THEN x[name]
                           ELSE start.x[name]
<1> DEFINE V == Elems(file)
           U == Elems(fields)
           part == SubSeq(fields, a + 1, a + m)
<1>0. /\ file \in Seq(V) /\ fields \in Seq(U)
      /\ Placed(file, at, Written(fields, v, x), Len(fields))
      /\ a \in Nat /\ m \in Nat /\ a + m <= Len(fields)
      /\ \A k \in 1..m : Has(fields[a + k], version) <=> Has(fields[a + k], v)
      /\ start = [x |-> start.x, pos |-> at[a] + 1]
      /\ \A k \in 1..Len(fields) : /\ fields[k].name \in DOMAIN start.x
                                   /\ fields[k].form # "list"
  BY DEF Ready, IsSequence
<1> HIDE DEF V, U
<1> DEFINE w == Written(fields, v, x)
           u == Written(part, version, x)
           n == Len(fields)
           to == [k \in 0..m |-> at[a + k]]
<1>1. /\ part \in Seq(U) /\ Len(part) = m /\ \A k \in 1..m : part[k] = fields[a + k]
  <2> HIDE DEF part
  <2>1. part = SubSeq(fields, a + 1, a + m)
    BY DEF part
  <2> QED BY <1>0, <2>1, PartOf
<1> HIDE DEF part
<1>2. n \in Nat /\ Len(file) \in Nat /\ \A k \in 1..m : a + k \in 1..n
  BY <1>0
<1>3. \A k \in 1..n : w[k] = IF Has(fields[k], v)
                              THEN Items(fields[k].form, x[fields[k].name]) ELSE <<>>
  BY DEF Written, Has
<1>4. \A k \in 1..m : u[k] = IF Has(part[k], version)
                              THEN Items(part[k].form, x[part[k].name]) ELSE <<>>
  BY <1>1 DEF Written, Has
<1>5. Placed(file, at, w, n) /\ a + m <= n
  BY <1>0
<1> HIDE DEF w, u, n
<1>6. \A k \in 1..m : u[k] = w[a + k]
  <2> SUFFICES ASSUME NEW k \in 1..m PROVE u[k] = w[a + k]
    OBVIOUS
  <2>1. a + k \in 1..n /\ part[k] = fields[a + k]
    BY <1>1, <1>2
  <2>2. Has(fields[a + k], version) <=> Has(fields[a + k], v)
    BY <1>0
  <2>3. u[k] = IF Has(fields[a + k], version)
                 THEN Items(fields[a + k].form, x[fields[a + k].name]) ELSE <<>>
    BY <1>4, <2>1
  <2> QED BY <1>3, <2>1, <2>2, <2>3
<1>8. /\ to[0] = at[a] /\ to[m] = at[a + m]
      /\ to = [k \in 0..m |-> at[a + k]] /\ a \in Nat /\ m \in Nat
  BY <1>0, <1>2
<1> HIDE DEF to
<1>7. Placed(file, to, u, m)
  <2>1. n \in Nat /\ Len(file) \in Nat /\ Placed(file, at, w, n)
    BY <1>2, <1>5
  <2>2. a \in Nat /\ m \in Nat /\ a + m <= n /\ to = [k \in 0..m |-> at[a + k]]
    BY <1>5, <1>8
  <2>3. Behind(u, w, a, m)
    BY <1>6 DEF Behind
  <2> QED BY ONLY <2>1, <2>2, <2>3, PlacedPart
<1>9. Placed(file, to, Written(part, version, x), Len(part))
  BY <1>1, <1>7 DEF u
<1>10. start = [x |-> start.x, pos |-> to[0] + 1]
  BY <1>0, <1>8
<1>11. \A k \in 1..n : fields[k].name \in DOMAIN start.x /\ fields[k].form # "list"
  BY <1>0 DEF n
<1>12. \A k \in 1..Len(part) : part[k].name \in DOMAIN start.x
  BY <1>1, <1>2, <1>11
<1>13. \A k \in 1..Len(part) : Has(part[k], version) =>
          Writable(part[k].form, x[part[k].name])
  BY <1>1, <1>2, <1>11 DEF Writable
<1>14. IsSequence(file) /\ IsSequence(part)
  BY <1>0, <1>1, SequenceFacts
<1>15. r = ReadFields(part, version, file, start)
  BY DEF part
<1>16. /\ r = [x |-> r.x, pos |-> to[Len(part)] + 1] /\ DOMAIN r.x = DOMAIN start.x
       /\ \A name \in DOMAIN start.x :
             r.x[name] = IF Named(part, version, Len(part), name) THEN x[name]
                         ELSE start.x[name]
  <2>1. FieldsReady(file, part, version, x, to, start)
    BY <1>9, <1>10, <1>12, <1>13, <1>14 DEF FieldsReady
  <2> QED BY ONLY <1>15, <2>1, FieldsRead
<1>17. \A name : Named(part, version, Len(part), name)
                   <=> NamedBehind(fields, version, a, m, name)
  BY <1>1 DEF Named, NamedBehind
<1> QED
  BY <1>1, <1>8, <1>16, <1>17

\* The header is accepted, and its version known, where it was written.
LEMMA HeaderIsRead ==
  ASSUME NEW file, IsSequence(file), NEW h, Readable(h), NEW at, at[0] = 0,
         Placed(file, at, Written(HeaderWritten, h.Minor, h), Len(HeaderWritten))
  PROVE  /\ ReadHeader(file).pos = at[14] + 1 /\ ReadHeader(file).x.Minor = h.Minor
         /\ at[14] \in Nat
<1> DEFINE H == HeaderRead
           v == h.Minor
           start == [x |-> Unset(H), pos |-> 1]
           first == ReadFields(SubSeq(H, 1, 3), 0, file, start)
           second == ReadFields(SubSeq(H, 4, Len(H)), v, file, first)
<1>1. v \in 1..16 /\ v \in 0..16 /\ 0 \in 0..16
  BY DEF Readable, FirstVersion, LastVersion
<1>2. Placed(file, at, Written(H, v, h), Len(H)) /\ IsSequence(H) /\ Len(H) = 14 /\ IsSequence(file)
  BY HeaderFacts
<1>3. \A k \in 0..14 : at[k] \in Nat
  <2>1. at \in [0..Len(H) -> Nat]
    BY <1>2 DEF Placed, Places
  <2> QED BY <1>2, <2>1
<1>4. \A k \in 1..Len(H) : H[k].name \in DOMAIN start.x /\ H[k].form # "list"
  <2>1. DOMAIN H = 1..Len(H)
    BY <1>2
  <2>2. \A k \in 1..Len(H) : H[k].name \in Names(H)
    BY <2>1 DEF Names
  <2>3. DOMAIN start.x = Names(H)
    BY UnsetNames
  <2> QED BY <1>2, <2>2, <2>3, HeaderFacts
<1>5. start = [x |-> start.x, pos |-> at[0] + 1]
  OBVIOUS
<1> HIDE DEF start
<1>6. /\ first = [x |-> first.x, pos |-> at[3] + 1] /\ DOMAIN first.x = DOMAIN start.x
      /\ \A name \in DOMAIN start.x :
            first.x[name] = IF \E k \in 1..3 : Has(H[k], 0) /\ H[k].name = name
                            THEN h[name] ELSE start.x[name]
  <2> DEFINE a == 0
             m == 3
             version == 0
             r == ReadFields(SubSeq(H, a + 1, a + m), version, file, start)
  <2>1. \A k \in 1..m : Has(H[a + k], version) <=> Has(H[a + k], v)
    BY <1>1, HeaderFacts
  <2>2. a \in Nat /\ m \in Nat /\ a + m <= Len(H)
    BY <1>2
  <2>3. start = [x |-> start.x, pos |-> at[a] + 1]
    BY <1>5
  <2>4. r = ReadFields(SubSeq(H, a + 1, a + m), version, file, start)
    OBVIOUS
  <2>5. first = r /\ at[3] = at[a + m] /\ \A k \in 1..m : H[a + k] = H[k]
    OBVIOUS
  <2> HIDE DEF a, r, version, first
  <2>7. /\ r = [x |-> r.x, pos |-> at[a + m] + 1] /\ DOMAIN r.x = DOMAIN start.x
        /\ \A name \in DOMAIN start.x :
              r.x[name] = IF NamedBehind(H, version, a, m, name) THEN h[name]
                          ELSE start.x[name]
    <3> HIDE DEF m, v, H
    <3>1. Ready(file, H, v, version, h, at, a, m, start)
      BY <1>2, <1>4, <2>1, <2>2, <2>3 DEF Ready
    <3> QED BY ONLY <2>4, <3>1, PartRead
  <2> QED BY <2>5, <2>7 DEF version, NamedBehind
<1> HIDE DEF first
<1>7. /\ second = [x |-> second.x, pos |-> at[14] + 1] /\ DOMAIN second.x = DOMAIN first.x
      /\ \A name \in DOMAIN first.x :
            second.x[name] = IF \E k \in 1..11 : Has(H[3 + k], v) /\ H[3 + k].name = name
                             THEN h[name] ELSE first.x[name]
  <2> DEFINE a == 3
             m == 11
             r == ReadFields(SubSeq(H, a + 1, a + m), v, file, first)
  <2>1. \A k \in 1..m : Has(H[a + k], v) <=> Has(H[a + k], v)
    OBVIOUS
  <2>2. a \in Nat /\ m \in Nat /\ a + m <= Len(H)
    BY <1>2
  <2>3. first = [x |-> first.x, pos |-> at[a] + 1]
    BY <1>6
  <2>4. r = ReadFields(SubSeq(H, a + 1, a + m), v, file, first)
    OBVIOUS
  <2>5. second = r /\ at[14] = at[a + m]
    BY <1>2
  <2>8. \A k \in 1..Len(H) : H[k].name \in DOMAIN first.x /\ H[k].form # "list"
    BY <1>4, <1>6
  <2> HIDE DEF r, second
  <2>7. /\ r = [x |-> r.x, pos |-> at[a + m] + 1] /\ DOMAIN r.x = DOMAIN first.x
        /\ \A name \in DOMAIN first.x :
              r.x[name] = IF NamedBehind(H, v, a, m, name) THEN h[name]
                          ELSE first.x[name]
    <3> HIDE DEF a, m, v, H
    <3>1. Ready(file, H, v, v, h, at, a, m, first)
      BY <1>2, <2>1, <2>2, <2>3, <2>8 DEF Ready
    <3> QED BY ONLY <2>4, <3>1, PartRead
  <2> QED BY <2>5, <2>7 DEF NamedBehind
<1> HIDE DEF second
<1>8. ASSUME NEW name \in {"Magic", "Major", "Minor"}
      PROVE  name \in DOMAIN start.x /\ first.x[name] = h[name]
  <2>1. \E k \in 1..3 : H[k].name = name
    <3>1. 1 \in 1..3 /\ 2 \in 1..3 /\ 3 \in 1..3
      OBVIOUS
    <3> QED BY <3>1, HeaderFacts
  <2>2. \A k \in 1..3 : Has(H[k], 0) /\ k \in 1..Len(H)
    BY <1>1, <1>2, HeaderFacts
  <2> HIDE DEF H
  <2> QED BY <1>4, <1>6, <2>1, <2>2
<1>9. ASSUME NEW name \in {"IntSize", "Format"}
      PROVE  second.x[name] = h[name]
  <2>1. PICK j \in {2, 4} : H[3 + j].name = name /\ Has(H[3 + j], v)
    <3>1. 3 + 2 = 5 /\ 3 + 4 = 7
      OBVIOUS
    <3>2. H[3 + 2] = H[5] /\ H[3 + 4] = H[7]
      BY <3>1
    <3> QED BY <1>1, <3>2, HeaderFacts
  <2>2. j \in 1..11 /\ 3 + j \in 1..Len(H)
    BY <1>2
  <2> HIDE DEF H
  <2>3. name \in DOMAIN first.x
    BY <1>4, <1>6, <2>1, <2>2
  <2> QED BY <1>7, <2>1, <2>2, <2>3
<1>10. second.x.Minor = v /\ "Minor" \in DOMAIN second.x
  <2>1. \A k \in 1..11 : 3 + k \in 4..14
    OBVIOUS
  <2>2. \A k \in 1..11 : H[3 + k].name # "Minor"
    BY <2>1, HeaderFacts
  <2>3. "Minor" \in DOMAIN first.x /\ first.x.Minor = v
    BY <1>6, <1>8
  <2> QED BY <1>7, <2>2, <2>3
<1>11. first.pos # 0 /\ second.pos # 0 /\ second.pos = at[14] + 1 /\ at[14] \in Nat
  <2>1. at[3] \in Nat /\ at[14] \in Nat
    BY <1>3
  <2> QED BY <1>6, <1>7, <2>1
<1>12. first.x.Magic = 1 /\ first.x.Major = 1 /\ first.x.Minor = v
       /\ second.x.IntSize = 4 /\ second.x.Format = ArchTar
  BY <1>8, <1>9 DEF Readable
<1>13. ReadHeader(file) = Accepted(second)
  <2>1. ReadHeader(file) = HeaderBehind(first, file)
    BY DEF ReadHeader, first, start
  <2>2. HeaderBehind(first, file) = Accepted(second)
    BY <1>1, <1>11, <1>12 DEF HeaderBehind, second, FirstVersion, LastVersion
  <2> QED BY <2>1, <2>2
<1>14. Accepted(second) = [x |-> FilledIn(second.x), pos |-> second.pos]
  <2>1. Accepted(second) = [second EXCEPT !.x = FilledIn(second.x)]
    BY <1>11, <1>12 DEF Accepted
  <2> QED BY <1>7, <2>1
<1>15. FilledIn(second.x).Minor = v
  BY <1>10, FilledInFacts
<1> QED
  BY <1>11, <1>13, <1>14, <1>15

\* An entry that can be written and read.
EntryOK(e) == e.DumpId \in Nat \ {0} /\ e.Dependencies \in Seq(Nat)

\* What was read of an entry.
SameEntry(x, e, v) ==
    /\ \A k \in DOMAIN EntryRead :
          Has(EntryRead[k], v) => x[EntryRead[k].name] = e[EntryRead[k].name]
    /\ x.DumpId = e.DumpId /\ x.Dependencies \in {<<>>, e.Dependencies}
    /\ v >= 11 => x.Section = e.Section

\* An entry is read where it was written.
LEMMA EntryIsRead ==
  ASSUME NEW file, IsSequence(file), NEW v \in 1..16, NEW e, EntryOK(e), NEW at,
         Placed(file, at, Written(EntryWritten, v, e), Len(EntryWritten)),
         NEW r, r = ReadEntry(file, at[0] + 1, v)
  PROVE  r.pos = at[18] + 1 /\ at[18] \in Nat /\ SameEntry(r.x, e, v)
<1> DEFINE E == EntryRead
           start == [x |-> Unset(E), pos |-> at[0] + 1]
           s == ReadFields(E, v, file, start)
<1>1. /\ Placed(file, at, Written(E, v, e), Len(E)) /\ E \in Seq(Elems(E)) /\ Len(E) = 18
      /\ file \in Seq(Elems(file)) /\ v \in 0..16
  BY EntryFacts DEF IsSequence
<1>2. at[18] \in Nat
  <2>1. at \in [0..Len(E) -> Nat]
    BY <1>1 DEF Placed, Places
  <2> QED BY <1>1, <2>1
<1>3. /\ DOMAIN start.x = Names(E)
      /\ \A k \in 1..Len(E) : E[k].name \in Names(E)
  BY <1>1, EntryFacts, UnsetNames DEF Names
<1>4. ASSUME NEW k \in 1..Len(E) PROVE Writable(E[k].form, e[E[k].name])
  <2>1. CASE k = 17
    <3>1. E[k].name = "Dependencies"
      BY <2>1, EntryFacts
    <3> QED BY <3>1 DEF EntryOK, Writable
  <2>2. CASE k # 17
    BY <1>1, <2>2, EntryFacts DEF Writable
  <2> QED BY <2>1, <2>2
<1>5. start = [x |-> start.x, pos |-> at[0] + 1]
  OBVIOUS
<1>6. start.x.Dependencies = <<>>
  <2> DEFINE F == {E[k] : k \in DOMAIN E}
             f == CHOOSE f \in F : f.name = "Dependencies"
  <2>1. 17 \in DOMAIN E /\ E[17].name = "Dependencies" /\ E[17].zero = <<>>
    BY EntryFacts
  <2>2. f \in F /\ f.name = "Dependencies"
    BY <2>1
  <2>3. PICK k \in DOMAIN E : f = E[k]
    BY <2>2
  <2>4. k = 17
    BY <2>2, <2>3, EntryFacts
  <2>5. "Dependencies" \in Names(E)
    BY <2>1 DEF Names
  <2>6. Unset(E)["Dependencies"] = f.zero
    BY <2>5 DEF Unset, Names
  <2> QED BY <2>1, <2>3, <2>4, <2>6
<1> HIDE DEF start, s, E
<1>7. /\ s = [x |-> s.x, pos |-> at[Len(E)] + 1] /\ DOMAIN s.x = DOMAIN start.x
      /\ \A name \in DOMAIN start.x :
            s.x[name] = IF Named(E, v, Len(E), name) THEN e[name] ELSE start.x[name]
  <2>1. s = ReadFields(E, v, file, start)
    BY DEF s
  <2>2. FieldsReady(file, E, v, e, at, start)
    <3>1. IsSequence(E)
      BY <1>1 DEF IsSequence
    <3> QED BY <1>1, <1>3, <1>4, <1>5, <3>1 DEF FieldsReady
  <2> QED BY ONLY <2>1, <2>2, FieldsRead
<1>8. ASSUME NEW k \in 1..Len(E), Has(E[k], v)
      PROVE  s.x[E[k].name] = e[E[k].name]
  <2>1. Named(E, v, Len(E), E[k].name)
    BY <1>8 DEF Named
  <2> QED BY <1>3, <1>7, <2>1
<1>9. s.x.DumpId = e.DumpId /\ (v >= 11 => s.x.Section = e.Section)
  <2>1. E[1].name = "DumpId" /\ Has(E[1], v) /\ E[7].name = "Section"
        /\ (v >= 11 => Has(E[7], v))
    BY <1>1, EntryFacts DEF E
  <2>2. 1 \in 1..Len(E) /\ 7 \in 1..Len(E)
    BY <1>1
  <2> QED BY <1>8, <2>1, <2>2
<1>10. s.x.Dependencies \in {<<>>, e.Dependencies}
  <2>1. 17 \in 1..Len(E) /\ E[17].name = "Dependencies"
    BY <1>1, EntryFacts DEF E
  <2>2. "Dependencies" \in DOMAIN start.x
    BY <1>3, <2>1
  <2> QED BY <1>6, <1>7, <2>2
<1>11. s.pos # 0 /\ s.pos = at[18] + 1
  BY <1>1, <1>2, <1>7
<1>12. r = EntryOf(s, v)
  BY DEF ReadEntry, s, start, E
<1>13. s.x.DumpId \in Nat \ {0}
  BY <1>9 DEF EntryOK
<1>14. DOMAIN EntryRead = 1..Len(E)
  BY <1>1, EntryFacts
<1>15. CASE v >= 11
  <2>1. r = s
    BY <1>11, <1>12, <1>13, <1>15 DEF EntryOf
  <2> QED BY <1>2, <1>8, <1>9, <1>10, <1>11, <1>14, <2>1 DEF SameEntry, E
<1>16. CASE ~(v >= 11)
  <2>1. r = [s EXCEPT !.x.Section = SectionOf(s.x.Desc)]
    BY <1>11, <1>12, <1>13, <1>16 DEF EntryOf
  <2> DEFINE y == [s.x EXCEPT !.Section = SectionOf(s.x.Desc)]
  <2>2. s = [x |-> s.x, pos |-> s.pos]
    BY <1>7
  <2>3. r.x = y /\ r.pos = s.pos
    BY <2>1, <2>2
  <2>4. \A name \in Names(E) : name # "Section" => y[name] = s.x[name]
    BY <1>3, <1>7
  <2>5. ~Has(E[7], v)
    BY <1>16, FieldFacts DEF E, EntryRead, Has
  <2>6. \A k \in 1..Len(E) : E[k].name = "Section" => k = 7
    BY FieldFacts DEF E, EntryRead
  <2> HIDE DEF y
  <2>7. ASSUME NEW k \in 1..Len(E), Has(E[k], v) PROVE y[E[k].name] = e[E[k].name]
    BY <1>3, <1>8, <2>4, <2>5, <2>6, <2>7
  <2>8. y.DumpId = s.x.DumpId /\ y.Dependencies = s.x.Dependencies
    <3>1. "DumpId" \in Names(E) /\ "Dependencies" \in Names(E)
      BY EntryFacts DEF Names, E
    <3> QED BY <2>4, <3>1
  <2> QED BY <1>2, <1>9, <1>10, <1>11, <1>14, <1>16, <2>3, <2>7, <2>8 DEF SameEntry, E
<1> QED
  BY <1>15, <1>16

\* An element behind a sequence.
LEMMA AppendFacts ==
  ASSUME NEW s, IsSequence(s), NEW e
  PROVE  /\ IsSequence(Append(s, e)) /\ Len(s) \in Nat /\ Len(Append(s, e)) = Len(s) + 1
         /\ \A i \in 1..Len(s) : Append(s, e)[i] = s[i]
         /\ Append(s, e)[Len(s) + 1] = e
<1> DEFINE V == Elems(s) \cup {e}
           u == Append(s, e)
<1>1. s \in Seq(V) /\ e \in V
  BY SequenceOf
<1>2. /\ u \in Seq(V) /\ Len(s) \in Nat /\ Len(u) = Len(s) + 1
      /\ \A i \in 1..Len(s) : u[i] = s[i]
      /\ u[Len(s) + 1] = e
  <2> HIDE DEF V
  <2> QED BY <1>1
<1> HIDE DEF u
<1>3. IsSequence(u)
  BY <1>2, SequenceFacts
<1> QED
  BY <1>2, <1>3 DEF u

\* What is written of the entries, one by one.
EntriesWritten(entries, v) ==
    [k \in 1..Len(entries) |-> WriteFields(EntryWritten, v, entries[k])]

\* The entries stand in the file, and are to be read there.
EntriesReady(file, entries, v, at, count) ==
    /\ IsSequence(file) /\ v \in 1..16 /\ Len(entries) \in Nat
    /\ \A k \in 1..Len(entries) : EntryOK(entries[k])
    /\ Placed(file, at, EntriesWritten(entries, v), Len(entries))
    /\ count.x = Len(entries) /\ count.pos = at[0] + 1

\* Each entry is read where it was written.
LEMMA EntryAtRead ==
  ASSUME NEW file, NEW entries, NEW v, NEW at, NEW count,
         EntriesReady(file, entries, v, at, count), NEW k \in 1..Len(entries),
         NEW r, r = ReadEntry(file, at[k - 1] + 1, v)
  PROVE  r.pos = at[k] + 1 /\ at[k] \in Nat /\ SameEntry(r.x, entries[k], v)
<1> DEFINE e == entries[k]
           n == Len(entries)
           all == EntriesWritten(entries, v)
           s == WriteFields(EntryWritten, v, e)
           w == Written(EntryWritten, v, e)
           m == Len(EntryWritten)
           off == at[k - 1]
<1>1. /\ IsSequence(file) /\ Len(file) \in Nat /\ v \in 1..16 /\ n \in Nat /\ EntryOK(e)
      /\ Placed(file, at, all, n) /\ all[k] = s /\ m = 18
      /\ IsSequence(EntryWritten) /\ m \in Nat
  BY EntryFacts, SequenceFacts DEF EntriesReady, EntriesWritten, IsSequence
<1>2. ASSUME NEW j \in 1..m, Has(EntryWritten[j], v)
      PROVE  Writable(EntryWritten[j].form, e[EntryWritten[j].name])
  <2>1. CASE j = 17
    <3>1. EntryWritten[j].name = "Dependencies"
      BY <2>1, EntryFacts
    <3> QED BY <1>1, <3>1 DEF EntryOK, Writable
  <2>2. CASE j # 17
    BY <1>1, <2>2, EntryFacts DEF Writable
  <2> QED BY <2>1, <2>2
<1>3. /\ IsSequence(s) /\ Len(s) \in Nat
      /\ \E p : Placed(s, p, w, m) /\ p[0] = 0 /\ p[m] = Len(s)
  <2>1. \A j \in 1..m : Has(EntryWritten[j], v) =>
                             Writable(EntryWritten[j].form, e[EntryWritten[j].name])
    BY <1>2
  <2>2. s = WriteFields(EntryWritten, v, e)
    OBVIOUS
  <2>3. IsSequence(EntryWritten)
    BY <1>1
  <2> HIDE DEF s, e
  <2> QED BY ONLY <2>1, <2>2, <2>3, FieldsWritten
<1>4. PICK p : Placed(s, p, w, m) /\ p[0] = 0 /\ p[m] = Len(s)
  BY <1>3
<1>5. /\ off \in Nat /\ at[k] = off + Len(s) /\ at[k] \in Nat /\ at[k] <= Len(file)
      /\ \A i \in 1..Len(s) : file[off + i] = s[i]
  <2>1. Places(at, Lengths(all, n), n) /\ at[n] <= Len(file) /\ Lengths(all, n)[k] = Len(all[k])
    BY <1>1 DEF Placed, Lengths
  <2>2. /\ at[k] \in Nat /\ at[k - 1] \in Nat /\ at[k] = at[k - 1] + Lengths(all, n)[k]
        /\ at[k] <= at[n] /\ at[n] \in Nat
    <3>1. n \in 1..n
      BY <1>1
    <3> QED BY <1>1, <2>1, <3>1, PlacesFollow
  <2>3. \A j \in 1..Len(all[k]) : file[at[k - 1] + j] = all[k][j]
    BY <1>1 DEF Placed
  <2> QED BY <1>1, <2>1, <2>2, <2>3
<1> DEFINE to == [j \in 0..m |-> off + p[j]]
<1>6. Placed(file, to, w, m)
  <2>1. off + Len(s) <= Len(file)
    BY <1>5
  <2> HIDE DEF off, s, w, m
  <2>2. Within(s, file, off)
    BY <1>1, <1>3, <1>5, <2>1 DEF Within
  <2> QED BY <1>1, <1>4, <2>2, PlacedBehind
<1>7. to[0] = off /\ to[18] = at[k]
  <2>1. to[0] = off + p[0] /\ to[18] = off + p[m]
    BY <1>1
  <2> QED BY <1>4, <1>5, <2>1
<1> HIDE DEF to, off
<1>8. r = ReadEntry(file, to[0] + 1, v)
  BY <1>7 DEF off
<1>9. r.pos = to[18] + 1 /\ to[18] \in Nat /\ SameEntry(r.x, e, v)
  <2>1. Placed(file, to, Written(EntryWritten, v, e), Len(EntryWritten))
    BY <1>6
  <2> HIDE DEF e
  <2> QED BY ONLY <1>1, <1>8, <2>1, EntryIsRead, SMTT(60)
<1> QED
  BY <1>7, <1>9

\* All entries are read.
LEMMA EntriesAreRead ==
  ASSUME NEW file, NEW entries, NEW v, NEW at, NEW count,
         EntriesReady(file, entries, v, at, count),
         NEW r, r = ReadEntries(file, count, v)
  PROVE  /\ r.pos # 0 /\ IsSequence(r.x) /\ Len(r.x) = Len(entries)
         /\ \A k \in 1..Len(entries) : SameEntry(r.x[k], entries[k], v)
<1> DEFINE n == Len(entries)
<1>1. n \in Nat /\ count.x = n /\ count.pos = at[0] + 1 /\ at \in [0..n -> Nat]
  BY DEF EntriesReady, Placed, Places
<1>2. count.pos # 0
  BY <1>1
<1>3. PICK C : /\ ReadEntries(file, count, v) = C[n]
               /\ C[0] = [x |-> <<>>, pos |-> count.pos]
               /\ \A k \in 1..n : C[k] = AddNext(C[k - 1], file, v)
  BY <1>1, <1>2, EntriesRecursion
<1>4. ASSUME NEW k \in 1..n, NEW e, e = ReadEntry(file, at[k - 1] + 1, v)
      PROVE  e.pos = at[k] + 1 /\ SameEntry(e.x, entries[k], v)
  BY <1>4, EntryAtRead
<1> HIDE DEF n
<1> DEFINE Is(k) == /\ C[k].pos = at[k] + 1 /\ IsSequence(C[k].x) /\ Len(C[k].x) = k
                    /\ \A j \in 1..k : SameEntry(C[k].x[j], entries[j], v)
           Q == {k \in Nat : k <= n => Is(k)}
<1>5. 0 \in Q
  <2>1. IsSequence(<<>>) /\ Len(<<>>) = 0
    BY DEF IsSequence, Elems
  <2>2. Is(0)
    BY <1>1, <1>3, <2>1
  <2> QED BY <2>2
<1>6. ASSUME NEW m \in Nat, m \in Q PROVE m + 1 \in Q
  <2> SUFFICES ASSUME m + 1 <= n PROVE Is(m + 1)
    OBVIOUS
  <2> DEFINE k == m + 1
             b == C[m]
             e == ReadEntry(file, at[m] + 1, v)
             s == b.x
             u == Append(s, e.x)
  <2>1. k \in 1..n /\ k - 1 = m /\ m \in 0..n /\ k \in 0..n /\ m <= n
    BY <1>1
  <2>2. b.pos = at[m] + 1 /\ IsSequence(s) /\ Len(s) = m
        /\ \A j \in 1..m : SameEntry(s[j], entries[j], v)
    BY <1>6, <2>1
  <2>3. e.pos = at[k] + 1 /\ SameEntry(e.x, entries[k], v)
    <3>1. e = ReadEntry(file, at[k - 1] + 1, v)
      BY <2>1
    <3> HIDE DEF e, k
    <3> QED BY <1>4, <2>1, <3>1
  <2>4. C[k] = AddNext(b, file, v)
    BY <1>3, <2>1
  <2>5. at[m] \in Nat /\ at[k] \in Nat
    BY <1>1, <2>1
  <2>6. e = ReadEntry(file, b.pos, v)
    BY <2>2
  <2> HIDE DEF e, b
  <2>7. C[k] = Added(b, e)
    BY <2>4, <2>6 DEF AddNext
  <2>8. C[k] = [x |-> u, pos |-> e.pos]
    BY <2>2, <2>3, <2>5, <2>7 DEF Added
  <2> HIDE DEF s
  <2>9. /\ IsSequence(u) /\ Len(u) = m + 1 /\ \A i \in 1..m : u[i] = s[i]
        /\ u[m + 1] = e.x
    BY <2>2, AppendFacts
  <2> HIDE DEF u
  <2>10. \A j \in 1..(m + 1) : SameEntry(u[j], entries[j], v)
    <3>1. \A j \in 1..(m + 1) : j \in 1..m \/ j = m + 1
      OBVIOUS
    <3> QED BY <2>2, <2>3, <2>9, <3>1
  <2>11. C[k].x = u /\ C[k].pos = at[k] + 1
    BY <2>3, <2>8
  <2> QED BY <2>9, <2>10, <2>11
<1>7. Is(n)
  <2>1. Nat \subseteq Q
    <3> HIDE DEF Q
    <3> QED BY <1>5, <1>6, NatSetInduction
  <2> QED BY <1>1, <2>1
<1>8. at[n] + 1 # 0
  BY <1>1
<1> QED
  BY <1>3, <1>7, <1>8 DEF n

\* The whole file is read as it was written.
LEMMA TocIsRead ==
  ASSUME NEW header, Readable(header), NEW entries, Len(entries) \in Nat,
         \A k \in 1..Len(entries) : EntryOK(entries[k]),
         NEW r, r = TocRead(TocFile(header, entries))
  PROVE  /\ r.pos # 0 /\ IsSequence(r.x) /\ Len(r.x) = Len(entries)
         /\ \A k \in 1..Len(entries) : SameEntry(r.x[k], entries[k], header.Minor)
<1> DEFINE v == header.Minor
           n == Len(entries)
           H == HeaderWritten
           a == WriteFields(H, v, header)
           c == Item("int", n)
           all == EntriesWritten(entries, v)
           b == Concat(all, n)
           s == a \o <<c>>
           file == TocFile(header, entries)
           w == Written(H, v, header)
<1>1. v \in 1..16 /\ n \in Nat /\ Len(H) = 14 /\ IsSequence(H) /\ Len(H) \in Nat
  BY HeaderFacts DEF Readable, FirstVersion, LastVersion
<1>2. file = s \o b
  BY DEF TocFile, EntriesWritten
<1>3. /\ IsSequence(a) /\ Len(a) \in Nat
      /\ \E p : Placed(a, p, w, Len(H)) /\ p[0] = 0 /\ p[Len(H)] = Len(a)
  <2>1. \A k \in 1..Len(H) : Has(H[k], v) => Writable(H[k].form, header[H[k].name])
    BY HeaderFacts DEF Writable
  <2>2. a = WriteFields(H, v, header)
    OBVIOUS
  <2>3. w = Written(H, v, header) /\ IsSequence(H)
    BY <1>1
  <2> HIDE DEF a, H, v, w
  <2>4. /\ IsSequence(a) /\ Len(a) \in Nat
        /\ \E p : /\ Placed(a, p, Written(H, v, header), Len(H))
                  /\ p[0] = 0 /\ p[Len(H)] = Len(a)
    BY ONLY <2>1, <2>2, <2>3, FieldsWritten
  <2> QED BY <2>3, <2>4
<1>4. PICK p : Placed(a, p, w, Len(H)) /\ p[0] = 0 /\ p[Len(H)] = Len(a)
  BY <1>3
<1>5. \A k \in 1..n : IsSequence(all[k])
  <2> SUFFICES ASSUME NEW k \in 1..n PROVE IsSequence(all[k])
    OBVIOUS
  <2> DEFINE e == entries[k]
             E == EntryWritten
             t == WriteFields(E, v, e)
  <2>1. EntryOK(e) /\ all[k] = t
    BY DEF EntriesWritten
  <2>2. ASSUME NEW j \in 1..Len(E), Has(E[j], v)
        PROVE  Writable(E[j].form, e[E[j].name])
    <3>1. CASE j = 17
      <4>1. E[j].name = "Dependencies"
        BY <3>1, EntryFacts
      <4> QED BY <2>1, <4>1 DEF EntryOK, Writable
    <3>2. CASE j # 17
      BY <3>2, EntryFacts DEF Writable
    <3> QED BY <3>1, <3>2
  <2>3. IsSequence(E) /\ \A j \in 1..Len(E) : Has(E[j], v) => Writable(E[j].form, e[E[j].name])
    BY <2>2, EntryFacts
  <2>4. t = WriteFields(E, v, e)
    OBVIOUS
  <2> HIDE DEF E, t, e
  <2>5. IsSequence(t)
    BY ONLY <2>3, <2>4, FieldsWritten
  <2> QED BY <2>1, <2>5
<1>6. /\ IsSequence(b) /\ Len(b) \in Nat
      /\ \E q : Placed(b, q, all, n) /\ q[0] = 0 /\ q[n] = Len(b)
  <2> HIDE DEF all
  <2> QED BY <1>1, <1>5, ConcatSequence
<1>7. PICK q : Placed(b, q, all, n) /\ q[0] = 0 /\ q[n] = Len(b)
  BY <1>6
<1>8. IsSequence(<<c>>) /\ Len(<<c>>) = 1 /\ <<c>>[1] = c
  <2> DEFINE t == <<c>>
  <2>1. t \in Seq({c}) /\ Len(t) = 1 /\ t[1] = c
    OBVIOUS
  <2>2. IsSequence(t)
    <3> HIDE DEF t
    <3> QED BY <2>1, SequenceFacts
  <2> QED BY <2>1, <2>2
<1> HIDE DEF a, b, c, all, w, file, H
<1>9. /\ IsSequence(s) /\ Len(s) = Len(a) + 1 /\ Within(a, s, 0) /\ s[Len(a) + 1] = c
      /\ \A i \in 1..Len(a) : s[i] = a[i]
  <2> DEFINE t == <<c>>
  <2>1. IsSequence(a) /\ IsSequence(t) /\ Len(t) = 1 /\ t[1] = c
    BY <1>3, <1>8
  <2> HIDE DEF t
  <2> DEFINE z == a \o t
  <2>3. z = s
    BY DEF t
  <2>5. z = a \o t
    OBVIOUS
  <2> HIDE DEF z, s
  <2>2. /\ IsSequence(z) /\ Len(a) \in Nat /\ Len(t) \in Nat
        /\ Len(z) = Len(a) + Len(t)
        /\ \A i \in 1..Len(a) : z[i] = a[i]
        /\ \A i \in 1..Len(t) : z[Len(a) + i] = t[i]
    <3>1. Joined(z, a, t)
      BY <2>1, <2>5, BehindSequence
    <3> QED BY <3>1 DEF Joined
  <2>4. /\ IsSequence(z) /\ Len(a) \in Nat /\ Len(z) = Len(a) + 1
        /\ \A i \in 1..Len(a) : z[i] = a[i]
        /\ z[Len(a) + 1] = c
    <3>1. 1 \in 1..Len(t)
      BY <2>1
    <3> QED BY <2>1, <2>2, <3>1
  <2> QED BY <2>3, <2>4 DEF Within
<1> HIDE DEF s
<1>10. /\ IsSequence(file) /\ Len(file) \in Nat /\ Len(s) \in Nat
       /\ Len(file) = Len(s) + Len(b)
       /\ \A i \in 1..Len(s) : file[i] = s[i]
       /\ \A i \in 1..Len(b) : file[Len(s) + i] = b[i]
  <2>1. /\ IsSequence(file) /\ Len(s) \in Nat /\ Len(b) \in Nat
        /\ Len(file) = Len(s) + Len(b)
        /\ \A i \in 1..Len(s) : file[i] = s[i]
        /\ \A i \in 1..Len(b) : file[Len(s) + i] = b[i]
    <3>1. Joined(file, s, b)
      BY <1>2, <1>6, <1>9, BehindSequence
    <3> QED BY <3>1 DEF Joined
  <2> QED BY <2>1
<1> DEFINE la == Len(a)
<1>11. /\ la \in Nat /\ Len(s) = la + 1 /\ la + 1 <= Len(file)
       /\ \A i \in 1..la : file[i] = a[i]
       /\ file[la + 1] = c
  <2>1. \A i \in 1..la : i \in 1..Len(s)
    BY <1>3, <1>9
  <2>2. la + 1 \in 1..Len(s)
    BY <1>3, <1>9
  <2> QED BY <1>3, <1>6, <1>9, <1>10, <2>1, <2>2
<1> HIDE DEF la
<1> DEFINE to == [k \in 0..Len(H) |-> 0 + p[k]]
           at == [k \in 0..n |-> (la + 1) + q[k]]
<1>12. Placed(file, to, w, Len(H))
  <2>1. Within(a, file, 0)
    BY <1>3, <1>10, <1>11 DEF Within, la
  <2>2. to = [k \in 0..Len(H) |-> 0 + p[k]]
    OBVIOUS
  <2> HIDE DEF to
  <2> QED BY <1>1, <1>4, <2>1, <2>2, PlacedBehind
<1>13. Placed(file, at, all, n)
  <2>1. Within(b, file, la + 1)
    BY <1>6, <1>10, <1>11 DEF Within
  <2> QED BY <1>1, <1>7, <2>1, PlacedBehind
<1>14. to[0] = 0 /\ to[14] = la /\ at[0] = la + 1
  <2>1. p[Len(H)] \in Nat
    BY <1>3, <1>4
  <2>2. to[0] = 0 + p[0] /\ to[14] = 0 + p[Len(H)] /\ at[0] = (la + 1) + q[0]
    BY <1>1
  <2> QED BY <1>4, <1>7, <1>11, <2>1, <2>2 DEF la
<1> HIDE DEF to, at
<1> DEFINE h == ReadHeader(file)
           count == ReadItem(file, h.pos, "int")
<1>15. h.pos = la + 1 /\ h.x.Minor = v
  <2>1. Placed(file, to, Written(HeaderWritten, v, header), Len(HeaderWritten))
    BY <1>12 DEF w, H
  <2>2. h.pos = to[14] + 1 /\ h.x.Minor = v
    BY <1>10, <1>14, <2>1, HeaderIsRead
  <2> QED BY <1>14, <2>2
<1>16. count = [x |-> n, pos |-> la + 2]
  <2>1. file \in Seq(Elems(file))
    BY <1>10 DEF IsSequence
  <2>2. ReadItem(file, la + 1, "int") = [x |-> n, pos |-> la + 2]
    <3> HIDE DEF n
    <3> QED BY <1>11, <2>1, ItemRead DEF c
  <2> QED BY <1>15, <2>2
<1>17. r = ReadEntries(file, count, v)
  <2>1. r = EntriesBehind(h, file)
    BY DEF TocRead, file
  <2>2. h.pos # 0
    BY <1>11, <1>15
  <2> QED BY <1>15, <2>1, <2>2 DEF EntriesBehind
<1> HIDE DEF count, h, v
<1>18. EntriesReady(file, entries, v, at, count)
  <2>1. count.x = n /\ count.pos = at[0] + 1
    BY <1>11, <1>14, <1>16
  <2> QED BY <1>1, <1>10, <1>13, <2>1 DEF EntriesReady, all
<1>19. /\ r.pos # 0 /\ IsSequence(r.x) /\ Len(r.x) = Len(entries)
       /\ \A k \in 1..Len(entries) : SameEntry(r.x[k], entries[k], v)
  BY ONLY <1>17, <1>18, EntriesAreRead
<1> QED
  BY <1>19 DEF v

-----------------------------------------------------------------------------
(* The entries of the data and of the large objects *)

\* Entries with ids of their own out of I.
Batch(s, I, sections) ==
    /\ IsSequence(s)
    /\ \A e \in Elems(s) : EntryOK(e) /\ e.DumpId \in I /\ e.Section \in sections
    /\ \A i, j \in 1..Len(s) : s[i].DumpId = s[j].DumpId => i = j

\* Whatever an entry depends on is among them.
Closed(s) == \A e \in Elems(s) : \A d \in Elems(e.Dependencies) :
                \E x \in Elems(s) : x.DumpId = d

\* The elements of a sequence are what stands in it.
LEMMA ElemsFacts ==
  ASSUME NEW s, IsSequence(s)
  PROVE  /\ Len(s) \in Nat /\ DOMAIN s = 1..Len(s)
         /\ \A i \in 1..Len(s) : s[i] \in Elems(s)
         /\ \A e \in Elems(s) : \E i \in 1..Len(s) : e = s[i]
<1>1. Len(s) \in Nat /\ DOMAIN s = 1..Len(s)
  BY DEF IsSequence
<1> QED
  BY <1>1 DEF Elems

\* No entry at all.
LEMMA BatchEmpty ==
  ASSUME NEW I, NEW sections
  PROVE  Batch(<<>>, I, sections) /\ Closed(<<>>) /\ Elems(<<>>) = {}
<1>1. IsSequence(<<>>) /\ Len(<<>>) = 0 /\ Elems(<<>>) = {}
  BY DEF IsSequence, Elems
<1> QED
  BY <1>1 DEF Batch, Closed

\* One entry.
LEMMA BatchOne ==
  ASSUME NEW e, EntryOK(e), NEW I, e.DumpId \in I, NEW sections, e.Section \in sections
  PROVE  Batch(<<e>>, I, sections) /\ Elems(<<e>>) = {e}
<1>1. Len(<<e>>) = 1 /\ <<e>>[1] = e /\ Elems(<<e>>) = {e}
  BY DEF Elems
<1>2. IsSequence(<<e>>)
  BY <1>1 DEF IsSequence
<1> QED
  BY <1>1, <1>2 DEF Batch

\* More ids and more sections are allowed.
LEMMA BatchWider ==
  ASSUME NEW s, NEW I, NEW J, I \subseteq J, NEW A, NEW B, A \subseteq B, Batch(s, I, A)
  PROVE  Batch(s, J, B)
  BY DEF Batch

\* Two batches, one behind the other.
LEMMA BatchBehind ==
  ASSUME NEW s, NEW t, NEW I, NEW J, NEW A, NEW B, Batch(s, I, A), Batch(t, J, B),
         I \cap J = {}
  PROVE  Batch(s \o t, I \cup J, A \cup B) /\ Joined(s \o t, s, t)
<1> DEFINE u == s \o t
<1>1. Joined(u, s, t)
  BY BehindSequence DEF Batch
<1> HIDE DEF u
<1>2. ASSUME NEW i \in 1..Len(u), NEW j \in 1..Len(u), u[i].DumpId = u[j].DumpId
      PROVE  i = j
  <2> DEFINE m == Len(s)
  <2>1. /\ m \in Nat /\ Len(t) \in Nat /\ Len(u) = m + Len(t)
        /\ \A k \in 1..m : u[k] = s[k]
        /\ \A k \in 1..Len(t) : u[m + k] = t[k]
    BY <1>1 DEF Joined
  <2>2. \A k \in 1..m : u[k].DumpId \in I
    BY <2>1 DEF Batch, Elems
  <2>3. \A k \in 1..Len(u) : k \in 1..m \/ (k - m \in 1..Len(t) /\ m + (k - m) = k)
    BY <2>1
  <2>4. \A k \in 1..Len(u) : k \notin 1..m => u[k] = t[k - m]
    BY <2>1, <2>3
  <2>5. \A k \in 1..Len(u) : k \notin 1..m => u[k].DumpId \in J
    BY <2>3, <2>4 DEF Batch, Elems
  <2>6. i \in 1..m <=> j \in 1..m
    BY <1>2, <2>2, <2>5
  <2>7. CASE i \in 1..m
    BY <1>2, <2>1, <2>6, <2>7 DEF Batch
  <2>8. CASE i \notin 1..m
    <3>1. i - m = j - m
      BY <1>2, <2>3, <2>4, <2>6, <2>8 DEF Batch
    <3> QED BY <2>1, <3>1
  <2> QED BY <2>7, <2>8
<1>3. \A e \in Elems(u) : EntryOK(e) /\ e.DumpId \in I \cup J /\ e.Section \in A \cup B
  BY <1>1 DEF Batch, Joined
<1>4. Batch(u, I \cup J, A \cup B)
  BY <1>1, <1>2, <1>3 DEF Batch, Joined
<1> QED
  BY <1>1, <1>4 DEF u

\* Joined, two closed sequences are closed.
LEMMA ClosedBehind ==
  ASSUME NEW s, NEW t, Closed(s), Closed(t), NEW u, Joined(u, s, t)
  PROVE  Closed(u)
  BY DEF Closed, Joined

\* The concatenation of batches.
LEMMA BatchConcat ==
  ASSUME NEW n \in Nat, NEW f, NEW I, NEW A,
         \A k \in 1..n : Batch(f[k], I[k], A),
         \A k, m \in 1..n : k # m => I[k] \cap I[m] = {}
  PROVE  /\ Batch(Concat(f, n), UNION {I[k] : k \in 1..n}, A)
         /\ Elems(Concat(f, n)) = UNION {Elems(f[k]) : k \in 1..n}
<1> DEFINE s == Concat(f, n)
           J == UNION {I[k] : k \in 1..n}
<1>1. /\ IsSequence(s) /\ Len(s) \in Nat
      /\ \E at : /\ Placed(s, at, f, n)
                 /\ at[0] = 0 /\ at[n] = Len(s)
      /\ Elems(s) = UNION {Elems(f[k]) : k \in 1..n}
  <2>1. \A k \in 1..n : IsSequence(f[k])
    BY DEF Batch
  <2> QED BY <2>1, ConcatSequence
<1> HIDE DEF s
<1>2. PICK at : Placed(s, at, f, n) /\ at[0] = 0 /\ at[n] = Len(s)
  BY <1>1
<1> DEFINE l == Lengths(f, n)
<1>3. /\ Places(at, l, n) /\ \A k \in 1..n : l[k] = Len(f[k])
      /\ \A k \in 1..n : \A j \in 1..Len(f[k]) : s[at[k - 1] + j] = f[k][j]
  BY <1>2 DEF Placed, Lengths
<1> HIDE DEF l
<1>4. ASSUME NEW i \in 1..Len(s)
      PROVE  \E k \in 1..n : \E p \in 1..Len(f[k]) : i = at[k - 1] + p /\ s[i] = f[k][p]
  <2>1. PICK k \in 1..n : i - at[k - 1] \in 1..l[k]
    BY <1>2, <1>3, PlacesCover
  <2>2. at[k - 1] \in Nat
    BY <1>3, PlacesFollow
  <2>3. i = at[k - 1] + (i - at[k - 1]) /\ i - at[k - 1] \in 1..Len(f[k])
    BY <1>3, <2>1, <2>2
  <2> QED BY <1>3, <2>3
<1>5. ASSUME NEW i \in 1..Len(s), NEW j \in 1..Len(s), s[i].DumpId = s[j].DumpId
      PROVE  i = j
  <2>1. PICK k \in 1..n : \E p \in 1..Len(f[k]) : i = at[k - 1] + p /\ s[i] = f[k][p]
    BY <1>4
  <2>2. PICK p \in 1..Len(f[k]) : i = at[k - 1] + p /\ s[i] = f[k][p]
    BY <2>1
  <2>3. PICK m \in 1..n : \E q \in 1..Len(f[m]) : j = at[m - 1] + q /\ s[j] = f[m][q]
    BY <1>4
  <2>4. PICK q \in 1..Len(f[m]) : j = at[m - 1] + q /\ s[j] = f[m][q]
    BY <2>3
  <2>5. f[k][p].DumpId \in I[k] /\ f[m][q].DumpId \in I[m]
    BY DEF Batch, Elems
  <2>6. k = m
    BY <1>5, <2>2, <2>4, <2>5
  <2>7. p = q
    BY <1>5, <2>2, <2>4, <2>6 DEF Batch
  <2> QED BY <2>2, <2>4, <2>6, <2>7
<1>6. \A e \in Elems(s) : EntryOK(e) /\ e.DumpId \in J /\ e.Section \in A
  BY <1>1 DEF Batch
<1> QED
  BY <1>1, <1>5, <1>6 DEF Batch, s

\* Closed sequences are closed together.
LEMMA ClosedConcat ==
  ASSUME NEW n \in Nat, NEW f, \A k \in 1..n : Closed(f[k]),
         Elems(Concat(f, n)) = UNION {Elems(f[k]) : k \in 1..n}
  PROVE  Closed(Concat(f, n))
  BY DEF Closed

\* Sums of naturals grow by one number after the other.
LEMMA SumFacts ==
  ASSUME NEW s \in Seq(Nat)
  PROVE  /\ SumUpTo(s, 0) = 0 /\ \A k \in 0..Len(s) : SumUpTo(s, k) \in Nat
         /\ \A k \in 1..Len(s) : SumUpTo(s, k) = SumUpTo(s, k - 1) + s[k]
         /\ \A j, k \in 0..Len(s) : j <= k => SumUpTo(s, j) <= SumUpTo(s, k)
<1> DEFINE n == Len(s)
<1>1. PICK C : /\ \A k : SumUpTo(s, k) = C[k]
               /\ C[0] = 0
               /\ \A k \in 1..n : C[k] = C[k - 1] + s[k]
  BY SumRecursion
<1>2. n \in Nat /\ \A k \in 1..n : s[k] \in Nat
  OBVIOUS
<1> HIDE DEF n
<1> DEFINE Q == {k \in Nat : k <= n => C[k] \in Nat}
<1>3. 0 \in Q
  BY <1>1
<1>4. ASSUME NEW k \in Nat, k \in Q PROVE k + 1 \in Q
  <2> SUFFICES ASSUME k + 1 <= n PROVE C[k + 1] \in Nat
    OBVIOUS
  <2>1. k + 1 \in 1..n /\ (k + 1) - 1 = k /\ C[k] \in Nat
    BY <1>2, <1>4
  <2>2. C[k + 1] = C[k] + s[k + 1] /\ s[k + 1] \in Nat
    BY <1>1, <1>2, <2>1
  <2> QED BY <2>1, <2>2
<1>5. \A k \in 0..n : C[k] \in Nat
  <2>1. Nat \subseteq Q
    <3> HIDE DEF Q
    <3> QED BY <1>3, <1>4, NatSetInduction
  <2> QED BY <2>1
<1> DEFINE at == [k \in 0..n |-> C[k]]
           l == [k \in 1..n |-> s[k]]
<1>6. Places(at, l, n)
  <2>1. at \in [0..n -> Nat] /\ l \in [1..n -> Nat]
    BY <1>2, <1>5
  <2>2. \A k \in 1..n : at[k] = C[k] /\ at[k - 1] = C[k - 1] /\ l[k] = s[k]
    BY <1>2
  <2> HIDE DEF at, l
  <2> QED BY <1>1, <2>1, <2>2 DEF Places
<1>7. \A k \in 0..n : at[k] = C[k]
  OBVIOUS
<1> HIDE DEF at, l
<1>8. \A j, k \in 0..n : j <= k => at[j] <= at[k]
  BY <1>2, <1>6, PlacesFollow
<1> QED
  BY <1>1, <1>5, <1>7, <1>8 DEF n

\* An entry of which nothing is set has the fields that are looked at below.
LEMMA EmptyEntryFacts ==
  /\ EmptyEntry.Dependencies = <<>>
  /\ {"DumpId", "Section", "Dependencies"} \subseteq DOMAIN EmptyEntry
<1> DEFINE E == EntryWritten
           F == {E[k] : k \in DOMAIN E}
           f == CHOOSE g \in F : g.name = "Dependencies"
<1>1. /\ DOMAIN E = 1..18 /\ E[17].name = "Dependencies" /\ E[17].zero = <<>>
      /\ E[1].name = "DumpId" /\ E[7].name = "Section"
      /\ \A k \in 1..18 : E[k].name = "Dependencies" => k = 17
  BY EntryFacts
<1>2. f \in F /\ f.name = "Dependencies"
  <2>1. 17 \in DOMAIN E
    BY <1>1
  <2> QED BY <1>1, <2>1
<1>3. PICK k \in DOMAIN E : f = E[k]
  BY <1>2
<1>4. f.zero = <<>>
  BY <1>1, <1>2, <1>3
<1>5. DOMAIN EmptyEntry = Names(E)
  BY UnsetNames DEF EmptyEntry
<1>6. {"DumpId", "Section", "Dependencies"} \subseteq Names(E)
  <2>1. 1 \in DOMAIN E /\ 7 \in DOMAIN E /\ 17 \in DOMAIN E
    BY <1>1
  <2> QED BY <1>1, <2>1 DEF Names
<1>7. EmptyEntry["Dependencies"] = f.zero
  BY <1>6 DEF EmptyEntry, Unset, Names
<1> QED
  BY <1>4, <1>5, <1>6, <1>7

\* An entry of the data has its id and its section, and depends on nothing.
LEMMA DataEntryFacts ==
  ASSUME NEW id \in Nat \ {0}, NEW kind \in {"table", "sequence", "blobs"},
         NEW e, e = DataEntry(kind, id)
  PROVE  /\ EntryOK(e) /\ e.DumpId = id /\ e.Section = SectionData
         /\ e.Dependencies = <<>>
<1> DEFINE z == EmptyEntry
<1>1. z.Dependencies = <<>> /\ {"DumpId", "Section", "Dependencies"} \subseteq DOMAIN z
  BY EmptyEntryFacts
<1> HIDE DEF z
<1>2. e.DumpId = id /\ e.Section = SectionData /\ e.Dependencies = <<>>
  <2>1. CASE kind = "table"
    BY <1>1, <2>1 DEF DataEntry, z
  <2>2. CASE kind = "sequence"
    BY <1>1, <2>2 DEF DataEntry, z
  <2>3. CASE kind = "blobs"
    BY <1>1, <2>3 DEF DataEntry, z
  <2> QED BY <2>1, <2>2, <2>3
<1>3. <<>> \in Seq(Nat)
  OBVIOUS
<1> QED
  BY <1>2, <1>3 DEF EntryOK

LargeObject == [comment : BOOLEAN, acl : BOOLEAN]

\* The entries of a large object have the ids drawn for it, and depend on its
\* first one.
LEMMA LargeObjectFacts ==
  ASSUME NEW lo \in LargeObject, NEW id \in Nat \ {0},
         NEW s, s = LargeObjectEntries(lo, id)
  PROVE  /\ IdsOf(lo) \in Nat
         /\ Batch(s, id .. (id + IdsOf(lo) - 1), {SectionNone, SectionPreData}) /\ Closed(s)
<1> DEFINE m == IdsOf(lo)
           z == EmptyEntry
           create == [z EXCEPT !.DumpId = id, !.Section = SectionPreData,
                     !.Oid = 1, !.Tag = "oid", !.Owner = "owner",
                     !.Desc = "BLOB", !.Defn = "lo_create",
                     !.DropStmt = "lo_unlink", !.FileName = <<>>]
           of(desc, n) == [z EXCEPT !.DumpId = n, !.Section = SectionNone,
                          !.Tag = "oid", !.Owner = "owner", !.Desc = desc,
                          !.Defn = desc, !.Dependencies = <<id>>, !.FileName = <<>>]
           a == <<create>>
           b == IF lo.comment THEN <<of("COMMENT", id + 1)>> ELSE <<>>
           c == IF lo.acl THEN <<of("ACL", id + m - 1)>> ELSE <<>>
           S == {SectionNone, SectionPreData}
           I == {id}
           J == IF lo.comment THEN {id + 1} ELSE {}
           K == IF lo.acl THEN {id + m - 1} ELSE {}
<1>1. z.Dependencies = <<>> /\ {"DumpId", "Section", "Dependencies"} \subseteq DOMAIN z
  BY EmptyEntryFacts
<1>2. lo.comment \in BOOLEAN /\ lo.acl \in BOOLEAN
  BY DEF LargeObject
<1>3. /\ m \in Nat \ {0} /\ (lo.comment => m >= 2) /\ (lo.acl => m >= 2)
      /\ (lo.comment /\ lo.acl => m = 3)
  BY <1>2 DEF IdsOf
<1>4. s = (a \o b) \o c
  BY DEF LargeObjectEntries, z
<1> HIDE DEF z, m
<1>5. create.DumpId = id /\ create.Section = SectionPreData /\ create.Dependencies = <<>>
  BY <1>1
<1>6. ASSUME NEW desc, NEW n
      PROVE  /\ of(desc, n).DumpId = n /\ of(desc, n).Section = SectionNone
             /\ of(desc, n).Dependencies = <<id>>
  BY <1>1
<1>7. EntryOK(create)
  <2>1. <<>> \in Seq(Nat)
    OBVIOUS
  <2> QED BY <1>5, <2>1 DEF EntryOK
<1>8. <<id>> \in Seq(Nat) /\ Elems(<<id>>) = {id} /\ Elems(<<>>) = {}
  BY DEF Elems
<1>9. \A desc : \A n \in Nat \ {0} : EntryOK(of(desc, n))
  BY <1>6, <1>8 DEF EntryOK
<1>10. Batch(a, I, S) /\ Elems(a) = {create}
  <2> HIDE DEF create
  <2> QED BY <1>5, <1>7, BatchOne
<1>11. Batch(b, J, S) /\ \A e \in Elems(b) : e.Dependencies = <<id>>
  <2>1. CASE lo.comment
    <3> DEFINE e == of("COMMENT", id + 1)
    <3>0. id + 1 \in Nat \ {0}
      OBVIOUS
    <3>1. EntryOK(e) /\ e.DumpId \in {id + 1} /\ e.Section \in S /\ e.Dependencies = <<id>>
      BY <1>6, <1>9, <3>0
    <3> HIDE DEF e
    <3>2. Batch(<<e>>, {id + 1}, S) /\ Elems(<<e>>) = {e}
      BY <3>1, BatchOne
    <3> QED BY <2>1, <3>1, <3>2 DEF e
  <2>2. CASE ~lo.comment
    BY <2>2, BatchEmpty
  <2> QED BY <1>2, <2>1, <2>2
<1>12. Batch(c, K, S) /\ \A e \in Elems(c) : e.Dependencies = <<id>>
  <2>1. CASE lo.acl
    <3> DEFINE k == id + m - 1
               e == of("ACL", k)
    <3>0. k \in Nat \ {0}
      BY <1>3
    <3> HIDE DEF k
    <3>1. EntryOK(e) /\ e.DumpId \in {k} /\ e.Section \in S /\ e.Dependencies = <<id>>
      BY <1>6, <1>9, <3>0
    <3> HIDE DEF e
    <3>2. Batch(<<e>>, {k}, S) /\ Elems(<<e>>) = {e}
      BY <3>1, BatchOne
    <3> QED BY <2>1, <3>1, <3>2 DEF e, k
  <2>2. CASE ~lo.acl
    BY <2>2, BatchEmpty
  <2> QED BY <1>2, <2>1, <2>2
<1> HIDE DEF a, b, c
<1>13. I \cap J = {} /\ (I \cup J) \cap K = {} /\ (I \cup J) \cup K \subseteq id..(id + m - 1)
  BY <1>2, <1>3
<1> DEFINE ab == a \o b
           R == id..(id + m - 1)
<1>14. Batch(ab, I \cup J, S \cup S) /\ Joined(ab, a, b)
  <2> HIDE DEF I, J, S
  <2> QED BY <1>10, <1>11, <1>13, BatchBehind
<1>15. Batch(s, (I \cup J) \cup K, (S \cup S) \cup S) /\ Joined(s, ab, c)
  <2>1. s = ab \o c /\ (I \cup J) \cap K = {}
    BY <1>4, <1>13
  <2> DEFINE L == I \cup J
             T == S \cup S
  <2>2. Batch(ab, L, T) /\ L \cap K = {}
    BY <1>13, <1>14
  <2> HIDE DEF L, T, K, S, ab
  <2>3. Batch(ab \o c, L \cup K, T \cup S) /\ Joined(ab \o c, ab, c)
    BY <1>12, <2>2, BatchBehind
  <2> QED BY <2>1, <2>3 DEF L, T
<1>16. Batch(s, R, S)
  <2> DEFINE L == (I \cup J) \cup K
             T == (S \cup S) \cup S
  <2>1. T \subseteq S /\ L \subseteq R /\ Batch(s, L, T)
    BY <1>13, <1>15
  <2> HIDE DEF L, T, R, S
  <2> QED BY <2>1, BatchWider
<1>17. Elems(s) = Elems(a) \cup Elems(b) \cup Elems(c)
  BY <1>14, <1>15 DEF Joined
<1>18. create \in Elems(s) /\ \A e \in Elems(s) : e = create \/ e.Dependencies = <<id>>
  <2> HIDE DEF create
  <2> QED BY <1>10, <1>11, <1>12, <1>17
<1>19. Closed(s)
  <2> HIDE DEF create
  <2> QED BY <1>5, <1>8, <1>18 DEF Closed
<1> QED
  BY <1>3, <1>16, <1>19 DEF m

\* The ids the k-th of them takes, when they take as many as s says from behind
\* base on.
Slot(base, s, k) == (base + SumUpTo(s, k - 1) + 1) .. (base + SumUpTo(s, k))

\* No id is taken twice, and each behind base and up to the last.
LEMMA SlotFacts ==
  ASSUME NEW s \in Seq(Nat), NEW base \in Nat
  PROVE  /\ \A k, m \in 1..Len(s) : k # m => Slot(base, s, k) \cap Slot(base, s, m) = {}
         /\ \A k \in 1..Len(s) :
               /\ Slot(base, s, k) \subseteq (base + 1)..(base + SumUpTo(s, Len(s)))
               /\ base + SumUpTo(s, k - 1) \in Nat
               /\ base + SumUpTo(s, k) = base + SumUpTo(s, k - 1) + s[k]
         /\ SumUpTo(s, Len(s)) \in Nat
<1> DEFINE n == Len(s)
           S(k) == SumUpTo(s, k)
<1>1. n \in Nat /\ \A k \in 1..n : k \in 0..n /\ k - 1 \in 0..n /\ s[k] \in Nat
  OBVIOUS
<1>2. /\ \A k \in 0..n : S(k) \in Nat
      /\ \A k \in 1..n : S(k) = S(k - 1) + s[k]
      /\ \A j, k \in 0..n : j <= k => S(j) <= S(k)
  BY SumFacts
<1> HIDE DEF n, S
<1>3. n \in 0..n /\ S(n) \in Nat
  BY <1>1, <1>2
<1>4. ASSUME NEW k \in 1..n
      PROVE  /\ base + S(k - 1) \in Nat /\ base + S(k) = base + S(k - 1) + s[k]
             /\ (base + S(k - 1) + 1)..(base + S(k)) \subseteq (base + 1)..(base + S(n))
  <2>1. /\ S(k - 1) \in Nat /\ S(k) \in Nat /\ s[k] \in Nat /\ S(k) = S(k - 1) + s[k]
        /\ S(k) <= S(n) /\ S(n) \in Nat
    <3>1. k <= n
      BY <1>1
    <3> QED BY <1>1, <1>2, <1>3, <3>1
  <2> DEFINE x == S(k - 1)
             y == S(k)
             z == S(n)
             d == s[k]
  <2>2. x \in Nat /\ y \in Nat /\ d \in Nat /\ y = x + d /\ y <= z /\ z \in Nat
    BY <2>1
  <2> HIDE DEF x, y, z, d
  <2>3. /\ base + x \in Nat /\ base + y = base + x + d
        /\ (base + x + 1)..(base + y) \subseteq (base + 1)..(base + z)
    BY <2>2
  <2> QED BY <2>3 DEF x, y, z, d
<1>5. ASSUME NEW k \in 1..n, NEW m \in 1..n, k < m
      PROVE  (base + S(k - 1) + 1)..(base + S(k)) \cap ((base + S(m - 1) + 1)..(base + S(m))) = {}
  <2>1. k <= m - 1
    BY <1>5, <1>1
  <2>2. S(k) <= S(m - 1) /\ S(k) \in Nat /\ S(m - 1) \in Nat /\ S(m) \in Nat /\ S(k - 1) \in Nat
    BY <1>1, <1>2, <2>1
  <2> QED BY <2>2
<1>6. \A k, m \in 1..n : k # m => k < m \/ m < k
  BY <1>1
<1>7. \A k, m \in 1..n : k # m =>
         (base + S(k - 1) + 1)..(base + S(k)) \cap ((base + S(m - 1) + 1)..(base + S(m))) = {}
  BY <1>5, <1>6
<1> QED
  BY <1>3, <1>4, <1>7 DEF Slot, n, S

\* The numbers of ids of the large objects.
IdsOfAll(los) == [k \in DOMAIN los |-> IdsOf(los[k])]

\* They are as many numbers as large objects.
LEMMA IdsOfAllFacts ==
  ASSUME NEW los \in Seq(LargeObject)
  PROVE  /\ IdsOfAll(los) \in Seq(Nat) /\ Len(IdsOfAll(los)) = Len(los)
         /\ \A k \in 1..Len(los) : IdsOfAll(los)[k] = IdsOf(los[k]) /\ los[k] \in LargeObject
<1>1. ASSUME NEW k \in 1..Len(los) PROVE los[k] \in LargeObject /\ IdsOf(los[k]) \in Nat
  <2>1. los[k] \in LargeObject
    OBVIOUS
  <2> QED BY <2>1 DEF IdsOf
<1>2. DOMAIN los = 1..Len(los) /\ Len(los) \in Nat
  OBVIOUS
<1> QED
  BY <1>1, <1>2 DEF IdsOfAll

\* The definitions of the large objects have the ids drawn for them, each
\* once, and depend on one another.
LEMMA AllDDLsFacts ==
  ASSUME NEW los \in Seq(LargeObject), NEW id \in Nat
  PROVE  LET last == IdAfter(los, id, Len(los))
         IN  /\ last \in Nat /\ id <= last
             /\ Batch(AllDDLs(los, id), (id + 1)..last, {SectionNone, SectionPreData})
             /\ Closed(AllDDLs(los, id))
<1> DEFINE n == Len(los)
           s == IdsOfAll(los)
           A == {SectionNone, SectionPreData}
           f == [k \in 1..n |-> LargeObjectEntries(los[k], IdAfter(los, id, k - 1) + 1)]
           I == [k \in 1..n |-> Slot(id, s, k)]
           last == IdAfter(los, id, n)
<1>1. /\ s \in Seq(Nat) /\ Len(s) = n /\ n \in Nat
      /\ \A k \in 1..n : s[k] = IdsOf(los[k]) /\ los[k] \in LargeObject
  BY IdsOfAllFacts
<1>2. \A k : IdAfter(los, id, k) = id + SumUpTo(s, k)
  BY DEF IdAfter, IdsOfAll
<1> HIDE DEF s
<1>3. /\ \A k, m \in 1..n : k # m => I[k] \cap I[m] = {}
      /\ \A k \in 1..n : I[k] \subseteq (id + 1)..last
      /\ last \in Nat /\ id <= last
  <2>1. SumUpTo(s, n) \in Nat /\ last = id + SumUpTo(s, n)
    BY <1>1, <1>2, SlotFacts
  <2>2. \A k \in 1..n : I[k] = Slot(id, s, k)
    OBVIOUS
  <2>3. /\ \A k, m \in 1..n : k # m => Slot(id, s, k) \cap Slot(id, s, m) = {}
        /\ \A k \in 1..n : Slot(id, s, k) \subseteq (id + 1)..last
    BY <1>1, <2>1, SlotFacts
  <2> HIDE DEF I, last, n
  <2>4. last \in Nat /\ id <= last
    BY <2>1
  <2> QED BY <2>2, <2>3, <2>4
<1>4. ASSUME NEW k \in 1..n PROVE Batch(f[k], I[k], A) /\ Closed(f[k])
  <2> DEFINE first == IdAfter(los, id, k - 1) + 1
  <2>1. /\ id + SumUpTo(s, k - 1) \in Nat
        /\ id + SumUpTo(s, k) = id + SumUpTo(s, k - 1) + s[k]
    BY <1>1, SlotFacts
  <2>2. first \in Nat \ {0} /\ first = id + SumUpTo(s, k - 1) + 1
    BY <1>2, <2>1
  <2>3. f[k] = LargeObjectEntries(los[k], first) /\ I[k] = Slot(id, s, k)
    OBVIOUS
  <2> HIDE DEF first, f, I, A
  <2>4. /\ IdsOf(los[k]) \in Nat
        /\ Batch(f[k], first..(first + IdsOf(los[k]) - 1), {SectionNone, SectionPreData})
        /\ Closed(f[k])
    BY <1>1, <2>2, <2>3, LargeObjectFacts
  <2>5. id + SumUpTo(s, k) = first + IdsOf(los[k]) - 1
    BY <1>1, <2>1, <2>2, <2>4
  <2> QED BY <2>2, <2>3, <2>4, <2>5 DEF Slot, A
<1>5. AllDDLs(los, id) = Concat(f, n)
  BY DEF AllDDLs
<1> HIDE DEF f, I, A, n, last
<1> DEFINE U == UNION {I[k] : k \in 1..n}
           J == (id + 1)..last
<1>6. Batch(Concat(f, n), U, A) /\ Elems(Concat(f, n)) = UNION {Elems(f[k]) : k \in 1..n}
  BY <1>1, <1>3, <1>4, BatchConcat
<1>7. U \subseteq J
  BY <1>3
<1>8. Closed(Concat(f, n))
  BY <1>1, <1>4, <1>6, ClosedConcat
<1>9. Batch(Concat(f, n), J, A)
  <2> HIDE DEF U, J
  <2> QED BY <1>6, <1>7, BatchWider
<1> QED
  BY <1>3, <1>5, <1>8, <1>9 DEF n, last, A

\* MaxDumpId is at least every id.
LEMMA MaxDumpIdFacts ==
  ASSUME NEW entries, Len(entries) \in Nat, DOMAIN entries = 1..Len(entries),
         \A k \in 1..Len(entries) : entries[k].DumpId \in Nat
  PROVE  /\ MaxDumpId(entries) \in Nat
         /\ \A k \in 1..Len(entries) : entries[k].DumpId <= MaxDumpId(entries)
<1> DEFINE n == Len(entries)
           T == {entries[k].DumpId : k \in 1..n}
           f == [k \in 1..n |-> entries[k].DumpId]
           ids == {0} \cup T
<1>1. IsFiniteSet(1..n)
  BY FS_Interval
<1>2. f \in Surjection(1..n, T)
  BY DEF Surjection
<1>3. IsFiniteSet(T)
  <2> HIDE DEF f, T, n
  <2> QED BY <1>1, <1>2, FS_Surjection
<1>4. IsFiniteSet(ids)
  <2> HIDE DEF T
  <2>1. IsFiniteSet(T \cup {0})
    BY <1>3, FS_AddElement
  <2> QED BY <2>1
<1>5. ids \subseteq Nat /\ ids # {}
  OBVIOUS
<1>6. MaxDumpId(entries) = CHOOSE m \in ids : \A i \in ids : i <= m
  BY DEF MaxDumpId
<1> HIDE DEF ids
<1>7. \E m \in ids : \A i \in ids : i <= m
  BY <1>4, <1>5, GreatestExists
<1>8. MaxDumpId(entries) \in ids /\ \A i \in ids : i <= MaxDumpId(entries)
  BY <1>6, <1>7
<1> QED
  BY <1>5, <1>8 DEF ids

-----------------------------------------------------------------------------
(* The ids of a dump *)

\* What is known of the command and its list.
Listed == order \in Seq(Object) /\ cmd \in Commands

\* The types of the variables say so.
LEMMA CommandListed == CommandTypeOK => Listed
<1> SUFFICES ASSUME CommandTypeOK PROVE Listed
  OBVIOUS
<1>1. cmd \in Commands /\ order = cmd.order
  BY DEF CommandTypeOK, RunType
<1>2. cmd.order \in Orders
  BY <1>1, CommandAssumption
<1> QED
  BY <1>1, <1>2, DumpAssumption DEF Listed

\* How many ids each object takes, and the number behind which they begin.
Counts == [j \in DOMAIN order |-> IdsOfObject(order[j])]
Base == MaxDumpId(cmd.schema) + 1

\* What the assumptions say of the command.
LEMMA CommandTocFacts ==
  ASSUME Listed
  PROVE  /\ Readable(cmd.header) /\ cmd.large \in Seq(LargeObject)
         /\ SchemaOfPgDump(cmd.schema) /\ Base \in Nat \ {0}
<1>1. /\ Readable(cmd.header) /\ cmd.large \in Seq(LargeObject)
      /\ SchemaOfPgDump(cmd.schema)
  BY TocAssumption DEF Listed, Readable, LargeObject
<1> DEFINE schema == cmd.schema
<1>2. /\ Len(schema) \in Nat /\ DOMAIN schema = 1..Len(schema)
      /\ \A k \in DOMAIN schema : schema[k].DumpId \in Nat
  <2>1. schema \in Seq(Elems(schema)) /\ \A k \in DOMAIN schema : schema[k].DumpId \in Nat \ {0}
    BY <1>1 DEF SchemaOfPgDump
  <2> HIDE DEF schema
  <2> QED BY <2>1
<1> HIDE DEF schema
<1>3. MaxDumpId(schema) \in Nat
  BY <1>2, MaxDumpIdFacts
<1> QED
  BY <1>1, <1>3 DEF Base, schema

\* Each object takes an id, and blobs one for each of their definitions.
LEMMA CountsFacts ==
  ASSUME Listed
  PROVE  /\ Counts \in Seq(Nat) /\ Len(Counts) = Len(order) /\ Len(order) \in Nat
         /\ \A k \in 1..Len(order) :
               /\ Counts[k] \in Nat \ {0} /\ order[k] \in Object
               /\ Kind[order[k]] = "blobs" =>
                     Counts[k] = 1 + IdAfter(cmd.large, 0, Len(cmd.large))
<1> DEFINE n == Len(order)
           l == IdAfter(cmd.large, 0, Len(cmd.large))
<1>1. n \in Nat /\ DOMAIN order = 1..n /\ \A k \in 1..n : order[k] \in Object
  BY DEF Listed
<1>2. l \in Nat
  BY CommandTocFacts, AllDDLsFacts
<1>3. \A k \in 1..n : Counts[k] = IF Kind[order[k]] = "blobs" THEN 1 + l ELSE 1
  BY <1>1 DEF Counts, IdsOfObject
<1> HIDE DEF l
<1>4. \A k \in 1..n : Counts[k] \in Nat \ {0}
  BY <1>2, <1>3
<1>5. Counts = [k \in 1..n |-> Counts[k]]
  BY <1>1 DEF Counts
<1>6. Counts \in Seq(Nat) /\ Len(Counts) = n
  <2> DEFINE c == Counts
  <2>1. c \in [1..n -> Nat]
    <3> HIDE DEF c
    <3> SUFFICES c = [k \in 1..n |-> c[k]] /\ \A k \in 1..n : c[k] \in Nat
      OBVIOUS
    <3> QED BY <1>4, <1>5 DEF c
  <2> HIDE DEF c
  <2>2. c \in Seq(Nat) /\ Len(c) = n
    BY <1>1, <2>1
  <2> QED BY <2>2 DEF c
<1> QED
  BY <1>1, <1>3, <1>4, <1>6 DEF l

\* The k-th object has ids of its own, behind those of the schema: its entry
\* the first, its large objects the others.
LEMMA DumpIdFacts ==
  ASSUME Listed, NEW k \in 1..Len(order)
  PROVE  /\ DumpId(k) \in Nat \ {0} /\ DumpId(k) > Base
         /\ DumpId(k) \in Slot(Base, Counts, k)
         /\ Kind[order[k]] = "blobs" =>
               /\ LastId(k) = IdAfter(cmd.large, DumpId(k), Len(cmd.large))
               /\ (DumpId(k) + 1)..LastId(k) \subseteq Slot(Base, Counts, k) \ {DumpId(k)}
<1> DEFINE s == Counts
           b == Base
           n == Len(order)
           p == SumUpTo(s, k - 1)
           l == SumUpTo(IdsOfAll(cmd.large), Len(cmd.large))
<1>1. s \in Seq(Nat) /\ Len(s) = n /\ n \in Nat /\ b \in Nat \ {0} /\ s[k] \in Nat \ {0}
  BY CountsFacts, CommandTocFacts
<1>2. \A j : LastId(j) = b + SumUpTo(s, j)
  BY DEF LastId, Counts, Base
<1>3. DumpId(k) = b + p + 1
  BY <1>2 DEF DumpId
<1>4. \A id : IdAfter(cmd.large, id, Len(cmd.large)) = id + l
  BY DEF IdAfter, IdsOfAll
<1>5. l \in Nat
  <2>1. cmd.large \in Seq(LargeObject)
    BY CommandTocFacts
  <2>2. IdsOfAll(cmd.large) \in Seq(Nat) /\ Len(IdsOfAll(cmd.large)) = Len(cmd.large)
    BY <2>1, IdsOfAllFacts
  <2> QED BY <2>2, SlotFacts
<1>6. Kind[order[k]] = "blobs" => s[k] = 1 + l
  <2>1. Kind[order[k]] = "blobs" => s[k] = 1 + (0 + l)
    BY <1>4, CountsFacts
  <2> QED BY <1>5, <2>1
<1>7. p \in Nat /\ SumUpTo(s, k) = p + s[k]
  BY <1>1, SumFacts
<1>8. /\ LastId(k) = b + (p + s[k])
      /\ Slot(b, s, k) = (b + p + 1)..(b + (p + s[k]))
  BY <1>2, <1>7 DEF Slot
<1> HIDE DEF s, b, p, l
<1> DEFINE d == s[k]
<1>9. d \in Nat \ {0} /\ b \in Nat \ {0} /\ p \in Nat
  BY <1>1, <1>7
<1> HIDE DEF d
<1>10. /\ b + p + 1 \in Nat \ {0} /\ b + p + 1 > b
       /\ b + p + 1 \in (b + p + 1)..(b + (p + d))
       /\ ((b + p + 1) + 1)..(b + (p + d)) \subseteq ((b + p + 1)..(b + (p + d))) \ {b + p + 1}
       /\ d = 1 + l => b + (p + d) = (b + p + 1) + l
  BY <1>5, <1>9
<1> QED
  BY <1>3, <1>4, <1>6, <1>8, <1>10 DEF d, s, b

\* No two objects share an id.
LEMMA SlotsApart ==
  ASSUME Listed, NEW k \in 1..Len(order), NEW m \in 1..Len(order), k # m
  PROVE  Slot(Base, Counts, k) \cap Slot(Base, Counts, m) = {}
  BY CountsFacts, CommandTocFacts, SlotFacts

\* All of them are greater than those of the schema.
LEMMA SlotBehind ==
  ASSUME Listed, NEW k \in 1..Len(order)
  PROVE  \A i \in Slot(Base, Counts, k) : i \in Nat /\ i > MaxDumpId(cmd.schema)
<1> DEFINE s == Counts
           b == Base
           n == Len(order)
           m == SumUpTo(s, n)
<1>1. /\ Slot(b, s, k) \subseteq (b + 1)..(b + m) /\ m \in Nat /\ b \in Nat \ {0}
  BY CountsFacts, CommandTocFacts, SlotFacts
<1>2. b = MaxDumpId(cmd.schema) + 1 /\ MaxDumpId(cmd.schema) \in Int
  <2>1. /\ cmd.schema \in Seq(Elems(cmd.schema))
        /\ \A j \in DOMAIN cmd.schema : cmd.schema[j].DumpId \in Nat \ {0}
    BY CommandTocFacts DEF SchemaOfPgDump
  <2> DEFINE schema == cmd.schema
  <2>2. Len(schema) \in Nat /\ DOMAIN schema = 1..Len(schema)
    <3> HIDE DEF schema
    <3> QED BY <2>1 DEF schema
  <2>3. MaxDumpId(schema) \in Nat
    <3> HIDE DEF schema
    <3> QED BY <2>1, <2>2, MaxDumpIdFacts DEF schema
  <2> QED BY <2>3 DEF Base
<1> HIDE DEF b, s, m
<1> QED
  BY <1>1, <1>2 DEF b, s

\* The positions of a kind, and the ids of their entries.
Of(kind) == {k \in 1..Len(order) : Kind[order[k]] = kind}
FirstIds(kind) == {DumpId(k) : k \in Of(kind)}

\* Those of the large objects behind each entry "BLOBS".
DdlIds == UNION {(DumpId(k) + 1)..LastId(k) : k \in Of("blobs")}

\* No sequence of entries to be written uses an id of another.
LEMMA IdsApart ==
  ASSUME Listed
  PROVE  /\ FirstIds("table") \cap FirstIds("sequence") = {}
         /\ (FirstIds("table") \cup FirstIds("sequence")) \cap FirstIds("blobs") = {}
         /\ \A kind : FirstIds(kind) \cap DdlIds = {}
         /\ \A i \in DdlIds \cup UNION {FirstIds(kind) : kind \in {"table", "sequence", "blobs"}} :
               i \in Nat /\ i > MaxDumpId(cmd.schema)
<1> DEFINE S(k) == Slot(Base, Counts, k)
           n == Len(order)
<1>1. \A k \in 1..n : DumpId(k) \in S(k)
  BY DumpIdFacts
<1>2. \A k \in Of("blobs") : (DumpId(k) + 1)..LastId(k) \subseteq S(k) \ {DumpId(k)}
  BY DumpIdFacts DEF Of
<1>3. \A k, m \in 1..n : k # m => S(k) \cap S(m) = {}
  BY SlotsApart
<1>4. \A k \in 1..n : \A i \in S(k) : i \in Nat /\ i > MaxDumpId(cmd.schema)
  BY SlotBehind
<1> HIDE DEF S, n
<1>5. \A kind : Of(kind) \subseteq 1..n
  BY DEF Of, n
<1>6. ASSUME NEW k \in 1..n, NEW m \in 1..n, DumpId(k) = DumpId(m) PROVE k = m
  BY <1>1, <1>3, <1>6
<1>7. ASSUME NEW kind, NEW other, kind # other PROVE FirstIds(kind) \cap FirstIds(other) = {}
  <2> SUFFICES ASSUME NEW k \in Of(kind), NEW m \in Of(other), DumpId(k) = DumpId(m)
               PROVE  FALSE
    BY DEF FirstIds
  <2>1. k = m
    BY <1>5, <1>6
  <2> QED BY <1>7, <2>1 DEF Of
<1>8. ASSUME NEW kind, NEW i \in FirstIds(kind), i \in DdlIds PROVE FALSE
  <2>1. PICK k \in Of(kind) : i = DumpId(k)
    BY DEF FirstIds
  <2>2. PICK m \in Of("blobs") : i \in (DumpId(m) + 1)..LastId(m)
    BY <1>8 DEF DdlIds
  <2>3. i \in S(m) \ {DumpId(m)} /\ i \in S(k) /\ k \in 1..n /\ m \in 1..n
    BY <1>1, <1>2, <1>5, <2>1, <2>2
  <2>4. k = m
    BY <1>3, <2>3
  <2> QED BY <2>1, <2>3, <2>4
<1>9. ASSUME NEW i \in DdlIds \cup UNION {FirstIds(kind) : kind \in {"table", "sequence", "blobs"}}
      PROVE  i \in Nat /\ i > MaxDumpId(cmd.schema)
  <2>1. PICK k \in 1..n : i \in S(k)
    <3>1. CASE i \in DdlIds
      <4>1. PICK m \in Of("blobs") : i \in (DumpId(m) + 1)..LastId(m)
        BY <3>1 DEF DdlIds
      <4> QED BY <1>2, <1>5, <4>1
    <3>2. CASE i \notin DdlIds
      <4>1. PICK kind \in {"table", "sequence", "blobs"} : i \in FirstIds(kind)
        BY <1>9, <3>2
      <4>2. PICK m \in Of(kind) : i = DumpId(m)
        BY <4>1 DEF FirstIds
      <4> QED BY <1>1, <1>5, <4>2
    <3> QED BY <3>1, <3>2
  <2> QED BY <1>4, <2>1
<1>10. /\ FirstIds("table") \cap FirstIds("sequence") = {}
       /\ FirstIds("table") \cap FirstIds("blobs") = {}
       /\ FirstIds("sequence") \cap FirstIds("blobs") = {}
  BY <1>7
<1> QED
  BY <1>8, <1>9, <1>10

\* The entries of one kind.
LEMMA EntriesOfFacts ==
  ASSUME Listed, NEW kind \in {"table", "sequence", "blobs"}
  PROVE  /\ Batch(EntriesOf(kind), FirstIds(kind), {SectionData})
         /\ Closed(EntriesOf(kind))
<1> DEFINE n == Len(order)
           A == {SectionData}
           f == [k \in 1..n |-> IF Kind[order[k]] = kind /\ HasEntry(order[k])
                                  THEN <<DataEntry(kind, DumpId(k))>> ELSE <<>>]
           I == [k \in 1..n |-> IF k \in Of(kind) THEN {DumpId(k)} ELSE {}]
<1>1. n \in Nat
  BY CountsFacts
<1>2. \A k, m \in 1..n : k # m => I[k] \cap I[m] = {}
  <2>1. \A k \in 1..n : DumpId(k) \in Slot(Base, Counts, k)
    BY DumpIdFacts
  <2>2. \A k, m \in 1..n : k # m => Slot(Base, Counts, k) \cap Slot(Base, Counts, m) = {}
    BY SlotsApart
  <2>3. \A k, m \in 1..n : k # m => DumpId(k) # DumpId(m)
    BY <2>1, <2>2
  <2>4. \A k \in 1..n : I[k] \subseteq {DumpId(k)}
    OBVIOUS
  <2> HIDE DEF I, n
  <2> QED BY <2>3, <2>4
<1>3. ASSUME NEW k \in 1..n PROVE Batch(f[k], I[k], A) /\ Closed(f[k])
  <2> DEFINE e == DataEntry(kind, DumpId(k))
             J == {DumpId(k)}
  <2>1. DumpId(k) \in Nat \ {0}
    BY DumpIdFacts
  <2>2. EntryOK(e) /\ e.DumpId \in J /\ e.Section \in A /\ e.Dependencies = <<>>
    BY <2>1, DataEntryFacts
  <2>3. \/ f[k] = <<e>> /\ I[k] = J
        \/ f[k] = <<>>
    BY DEF Of
  <2> HIDE DEF e, J, A, f, I
  <2>4. Batch(<<e>>, J, A) /\ Elems(<<e>>) = {e}
    BY <2>2, BatchOne
  <2>5. Elems(<<>>) = {}
    BY DEF Elems
  <2>6. Closed(<<e>>)
    BY <2>2, <2>4, <2>5 DEF Closed
  <2>7. Batch(<<>>, I[k], A) /\ Closed(<<>>)
    BY BatchEmpty
  <2> QED BY <2>3, <2>4, <2>6, <2>7
<1>4. EntriesOf(kind) = Concat(f, n)
  BY DEF EntriesOf
<1>5. UNION {I[k] : k \in 1..n} = FirstIds(kind)
  <2>1. \A k \in 1..n : I[k] = IF k \in Of(kind) THEN {DumpId(k)} ELSE {}
    OBVIOUS
  <2>2. Of(kind) \subseteq 1..n
    BY DEF Of
  <2> HIDE DEF I, n
  <2> QED BY <2>1, <2>2 DEF FirstIds
<1> HIDE DEF f, I, A, n
<1>6. /\ Batch(Concat(f, n), UNION {I[k] : k \in 1..n}, A)
      /\ Elems(Concat(f, n)) = UNION {Elems(f[k]) : k \in 1..n}
  BY <1>1, <1>2, <1>3, BatchConcat
<1>7. Closed(Concat(f, n))
  BY <1>1, <1>3, <1>6, ClosedConcat
<1> QED
  BY <1>4, <1>5, <1>6, <1>7 DEF A

\* The definitions of the large objects.
LEMMA BlobDDLsFacts ==
  ASSUME Listed
  PROVE  /\ Batch(BlobDDLs, DdlIds, {SectionNone, SectionPreData})
         /\ Closed(BlobDDLs)
<1> DEFINE n == Len(order)
           A == {SectionNone, SectionPreData}
           f == [k \in 1..n |-> IF Kind[order[k]] = "blobs"
                                  THEN AllDDLs(cmd.large, DumpId(k)) ELSE <<>>]
           I == [k \in 1..n |-> IF k \in Of("blobs") THEN (DumpId(k) + 1)..LastId(k)
                                ELSE {}]
<1>1. n \in Nat
  BY CountsFacts
<1>2. \A k, m \in 1..n : k # m => I[k] \cap I[m] = {}
  <2>1. \A k \in Of("blobs") : (DumpId(k) + 1)..LastId(k) \subseteq Slot(Base, Counts, k)
    BY DumpIdFacts DEF Of
  <2>2. \A k, m \in 1..n : k # m => Slot(Base, Counts, k) \cap Slot(Base, Counts, m) = {}
    BY SlotsApart
  <2>3. \A k \in 1..n : I[k] \subseteq Slot(Base, Counts, k)
    BY <2>1
  <2> HIDE DEF I, n
  <2> QED BY <2>2, <2>3
<1>3. ASSUME NEW k \in 1..n PROVE Batch(f[k], I[k], A) /\ Closed(f[k])
  <2>1. CASE Kind[order[k]] = "blobs"
    <3> DEFINE d == DumpId(k)
               los == cmd.large
               s == AllDDLs(los, d)
               J == (d + 1)..IdAfter(los, d, Len(los))
    <3>1. d \in Nat /\ LastId(k) = IdAfter(los, d, Len(los))
      BY <2>1, DumpIdFacts
    <3>2. f[k] = s /\ I[k] = J
      BY <2>1, <3>1 DEF Of
    <3>3. los \in Seq(LargeObject)
      BY CommandTocFacts
    <3>4. Batch(s, J, A) /\ Closed(s)
      <4> HIDE DEF d, los
      <4> QED BY <3>1, <3>3, AllDDLsFacts
    <3> HIDE DEF s, J, A, f, I
    <3> QED BY <3>2, <3>4
  <2>2. CASE Kind[order[k]] # "blobs"
    <3>1. f[k] = <<>>
      BY <2>2
    <3> HIDE DEF f, I, A
    <3> QED BY <3>1, BatchEmpty
  <2> QED BY <2>1, <2>2
<1>4. BlobDDLs = Concat(f, n)
  BY DEF BlobDDLs
<1>5. UNION {I[k] : k \in 1..n} = DdlIds
  <2>1. \A k \in 1..n : I[k] = IF k \in Of("blobs") THEN (DumpId(k) + 1)..LastId(k) ELSE {}
    OBVIOUS
  <2>2. Of("blobs") \subseteq 1..n
    BY DEF Of
  <2> HIDE DEF I, n
  <2> QED BY <2>1, <2>2 DEF DdlIds
<1> HIDE DEF f, I, A, n
<1>6. /\ Batch(Concat(f, n), UNION {I[k] : k \in 1..n}, A)
      /\ Elems(Concat(f, n)) = UNION {Elems(f[k]) : k \in 1..n}
  BY <1>1, <1>2, <1>3, BatchConcat
<1>7. Closed(Concat(f, n))
  BY <1>1, <1>3, <1>6, ClosedConcat
<1> QED
  BY <1>4, <1>5, <1>6, <1>7 DEF A

\* The entries of the data.
DataIds == (FirstIds("table") \cup FirstIds("sequence")) \cup FirstIds("blobs")

\* They have ids of their own, none of the definitions' and none of the schema's.
LEMMA DataEntriesFacts ==
  ASSUME Listed
  PROVE  /\ Batch(DataEntries, DataIds, {SectionData}) /\ Closed(DataEntries)
         /\ DataIds \cap DdlIds = {}
         /\ \A i \in DataIds \cup DdlIds : i \in Nat /\ i > MaxDumpId(cmd.schema)
<1> DEFINE t == EntriesOf("table")
           s == EntriesOf("sequence")
           b == EntriesOf("blobs")
           I == FirstIds("table")
           J == FirstIds("sequence")
           K == FirstIds("blobs")
           A == {SectionData}
           ts == t \o s
           L == I \cup J
           B == A \cup A
<1>1. /\ Batch(t, I, A) /\ Batch(s, J, A) /\ Batch(b, K, A)
      /\ Closed(t) /\ Closed(s) /\ Closed(b)
  BY EntriesOfFacts
<1>2. /\ I \cap J = {} /\ L \cap K = {}
      /\ I \cap DdlIds = {} /\ J \cap DdlIds = {} /\ K \cap DdlIds = {}
  BY IdsApart
<1>3. \A i \in DdlIds \cup UNION {FirstIds(kind) : kind \in {"table", "sequence", "blobs"}} :
         i \in Nat /\ i > MaxDumpId(cmd.schema)
  BY IdsApart
<1>4. DataEntries = ts \o b /\ DataIds = L \cup K
  BY DEF DataEntries, DataIds
<1> HIDE DEF t, s, b, A
<1>5. Batch(ts, L, B) /\ Joined(ts, t, s)
  <2> HIDE DEF I, J
  <2> QED BY <1>1, <1>2, BatchBehind
<1>6. Closed(ts)
  <2> HIDE DEF ts
  <2> QED BY <1>1, <1>5, ClosedBehind
<1> HIDE DEF ts, L, B
<1>7. Batch(ts \o b, L \cup K, B \cup A) /\ Joined(ts \o b, ts, b)
  <2> HIDE DEF K
  <2> QED BY <1>1, <1>2, <1>5, BatchBehind
<1>8. Closed(ts \o b)
  <2> DEFINE u == ts \o b
  <2> HIDE DEF u
  <2>1. Joined(u, ts, b)
    BY <1>7 DEF u
  <2> QED BY <1>1, <1>6, <2>1, ClosedBehind DEF u
<1>9. B \cup A = A
  BY DEF B
<1> QED
  BY <1>2, <1>3, <1>4, <1>7, <1>8, <1>9 DEF A, L

-----------------------------------------------------------------------------
(* The merge *)

\* What the assumptions say of the schema's entries.
LEMMA SchemaFacts ==
  ASSUME NEW schema, SchemaOfPgDump(schema)
  PROVE  /\ IsSequence(schema) /\ Len(schema) \in Nat /\ DOMAIN schema = 1..Len(schema)
         /\ \A k \in 1..Len(schema) : /\ schema[k] \in Elems(schema) /\ EntryOK(schema[k])
                                      /\ schema[k].Section \in {SectionNone, SectionPreData,
                                                                SectionPostData}
<1>1. IsSequence(schema)
  BY DEF SchemaOfPgDump, IsSequence
<1>2. Len(schema) \in Nat /\ DOMAIN schema = 1..Len(schema)
  BY <1>1, ElemsFacts
<1> QED
  BY <1>1, <1>2, ElemsFacts DEF SchemaOfPgDump, EntryOK

\* The schema is kept up to p and behind q, and nothing of a section stands
\* between them.
CutAt(schema, p, q) ==
    /\ p \in Nat /\ q \in Nat /\ p <= q /\ q <= Len(schema)
    /\ \A k \in 1..Len(schema) :
          /\ schema[k].Section = SectionPostData => k > q
          /\ schema[k].Section = SectionPreData => k <= p
    /\ q < Len(schema) => schema[q + 1].Section = SectionPostData

\* The sections are four.
LEMMA Sections ==
  /\ SectionNone = 1 /\ SectionPreData = 2
  /\ SectionData = 3 /\ SectionPostData = 4
  BY DEF SectionNone, SectionPreData, SectionData, SectionPostData

\* The first entry of the post-data.
LEMMA PostDataStartFacts ==
  ASSUME NEW schema, SchemaOfPgDump(schema), NEW q, q = PostDataStart(schema)
  PROVE  /\ q \in 0..Len(schema)
         /\ q # 0 => schema[q].Section = SectionPostData
         /\ \A k \in 1..Len(schema) :
               schema[k].Section = SectionPostData => q # 0 /\ q <= k
<1> DEFINE all == Positions(schema, SectionPostData)
<1>1. /\ Len(schema) \in Nat /\ all \subseteq Nat /\ all \subseteq 1..Len(schema)
      /\ \A k \in 1..Len(schema) : k \in all <=> schema[k].Section = SectionPostData
  BY SchemaFacts DEF Positions
<1>2. q = IF all = {} THEN 0 ELSE CHOOSE k \in all : \A l \in all : k <= l
  BY DEF PostDataStart
<1> HIDE DEF all
<1>3. CASE all = {}
  BY <1>1, <1>2, <1>3
<1>4. CASE all # {}
  <2>1. \E k \in all : \A l \in all : k <= l
    BY <1>1, <1>4, LeastExists
  <2>2. q \in all /\ \A l \in all : q <= l
    BY <1>2, <1>4, <2>1
  <2> QED BY <1>1, <2>2
<1> QED
  BY <1>3, <1>4

\* The last entry of the pre-data, which stands before it.
LEMMA PreDataEndFacts ==
  ASSUME NEW schema, SchemaOfPgDump(schema), NEW q, q = PostDataStart(schema),
         NEW p, p = PreDataEnd(schema)
  PROVE  /\ p \in 0..Len(schema) /\ (q # 0 => p < q)
         /\ \A k \in 1..Len(schema) : schema[k].Section = SectionPreData => k <= p
<1> DEFINE pre == Positions(schema, SectionPreData)
           all == {k \in pre : q = 0 \/ k < q}
<1>1. /\ Len(schema) \in Nat /\ pre \subseteq 1..Len(schema)
      /\ \A k \in 1..Len(schema) : k \in pre <=> schema[k].Section = SectionPreData
  BY SchemaFacts DEF Positions
<1>2. p = IF all = {} THEN 0 ELSE CHOOSE k \in all : \A l \in all : l <= k
  BY DEF PreDataEnd
<1>3. q \in 0..Len(schema) /\ (q # 0 => schema[q].Section = SectionPostData)
  BY PostDataStartFacts
<1>4. pre \subseteq all
  <2> SUFFICES ASSUME NEW k \in pre, q # 0 PROVE k < q
    OBVIOUS
  <2> HIDE DEF pre
  <2>1. /\ k \in 1..Len(schema) /\ q \in 1..Len(schema)
        /\ schema[k].Section = SectionPreData /\ schema[q].Section = SectionPostData
    BY <1>1, <1>3
  <2>2. ~(q < k)
    <3>1. q \in DOMAIN schema /\ k \in DOMAIN schema /\ InSections(schema)
      BY <2>1, SchemaFacts DEF SchemaOfPgDump
    <3> QED BY <2>1, <3>1 DEF InSections
  <2>3. q # k
    BY <2>1, Sections
  <2> QED BY <2>1, <2>2, <2>3, <1>1
<1>5. IsFiniteSet(all) /\ all \subseteq Nat
  <2>1. IsFiniteSet(1..Len(schema)) /\ all \subseteq 1..Len(schema) /\ 1..Len(schema) \subseteq Nat
    BY <1>1, FS_Interval
  <2> HIDE DEF all
  <2> QED BY <2>1, FS_Subset
<1>6. \A k \in all : k \in pre /\ (q = 0 \/ k < q)
  OBVIOUS
<1> HIDE DEF all, pre
<1>7. CASE all = {}
  <2>1. p = 0 /\ pre = {}
    BY <1>2, <1>4, <1>7
  <2> QED BY <1>1, <1>3, <2>1
<1>8. CASE all # {}
  <2>1. \E k \in all : \A l \in all : l <= k
    BY <1>5, <1>8, GreatestExists
  <2>2. p \in all /\ \A l \in all : l <= p
    BY <1>2, <1>8, <2>1
  <2> QED BY <1>1, <1>3, <1>4, <1>6, <2>2
<1> QED
  BY <1>7, <1>8

\* The merge cuts the schema where it may.
LEMMA MergeCuts ==
  ASSUME NEW schema, SchemaOfPgDump(schema)
  PROVE  \E p, q : /\ CutAt(schema, p, q)
                   /\ \A ddls, data : data # <<>> =>
                         MergeTocEntries(schema, ddls, data) =
                            ((SubSeq(schema, 1, p) \o ddls) \o data)
                            \o (IF q = Len(schema) THEN <<>>
                                ELSE SubSeq(schema, q + 1, Len(schema)))
<1> DEFINE n == Len(schema)
           start == PostDataStart(schema)
           p == PreDataEnd(schema)
           q == IF start = 0 THEN n ELSE start - 1
<1>1. n \in Nat
  BY SchemaFacts
<1>2. /\ start \in 0..n /\ (start # 0 => schema[start].Section = SectionPostData)
      /\ \A k \in 1..n : schema[k].Section = SectionPostData => start # 0 /\ start <= k
  BY PostDataStartFacts
<1>3. /\ p \in 0..n /\ (start # 0 => p < start)
      /\ \A k \in 1..n : schema[k].Section = SectionPreData => k <= p
  BY PreDataEndFacts
<1>4. \A ddls, data : data # <<>> =>
         MergeTocEntries(schema, ddls, data) =
            ((SubSeq(schema, 1, p) \o ddls) \o data)
            \o (IF start = 0 THEN <<>> ELSE SubSeq(schema, start, n))
  BY DEF MergeTocEntries
<1> HIDE DEF start, p, n
<1>5. CASE start = 0
  <2>1. q = n /\ CutAt(schema, p, q)
    BY <1>1, <1>2, <1>3, <1>5 DEF CutAt, n
  <2>2. \A ddls, data : data # <<>> =>
           MergeTocEntries(schema, ddls, data) =
              ((SubSeq(schema, 1, p) \o ddls) \o data)
              \o (IF q = Len(schema) THEN <<>>
                  ELSE SubSeq(schema, q + 1, Len(schema)))
    BY <1>4, <1>5 DEF n
  <2>3. CutAt(schema, p, q)
    BY <2>1
  <2> HIDE DEF q
  <2> QED BY <2>2, <2>3
<1>6. CASE start # 0
  <2>1. q \in Nat /\ q + 1 = start /\ q # n /\ p <= q /\ q <= n
    BY <1>1, <1>2, <1>3, <1>6
  <2> HIDE DEF q
  <2>2. \A k \in 1..n : schema[k].Section = SectionPostData => k > q
    BY <1>2, <2>1
  <2>3. CutAt(schema, p, q)
    BY <1>1, <1>2, <1>3, <1>6, <2>1, <2>2 DEF CutAt, n
  <2>4. \A ddls, data : data # <<>> =>
           MergeTocEntries(schema, ddls, data) =
              ((SubSeq(schema, 1, p) \o ddls) \o data)
              \o (IF q = Len(schema) THEN <<>>
                  ELSE SubSeq(schema, q + 1, Len(schema)))
    BY <1>4, <1>6, <2>1 DEF n
  <2> QED BY <2>3, <2>4
<1> QED
  BY <1>5, <1>6

\* Part of a sequence of entries, those at the positions K.
Kept(s, schema, K) ==
    /\ \A e \in Elems(s) : \E k \in K : e = schema[k]
    /\ \A k \in K : schema[k] \in Elems(s)

IdsAt(schema, K) == {schema[k].DumpId : k \in K}

\* A part of the schema has the ids and the entries of its positions.
LEMMA KeptPart ==
  ASSUME NEW schema, SchemaOfPgDump(schema), NEW a \in Nat, NEW m \in Nat,
         a + m <= Len(schema), NEW A,
         \A k \in (a + 1)..(a + m) : schema[k].Section \in A,
         NEW s, s = SubSeq(schema, a + 1, a + m)
  PROVE  /\ Batch(s, IdsAt(schema, (a + 1)..(a + m)), A)
         /\ Kept(s, schema, (a + 1)..(a + m))
<1> DEFINE K == (a + 1)..(a + m)
           V == Elems(schema)
<1>1. /\ IsSequence(schema) /\ Len(schema) \in Nat /\ DOMAIN schema = 1..Len(schema)
      /\ \A k \in 1..Len(schema) : EntryOK(schema[k])
  BY SchemaFacts
<1>2. s \in Seq(V) /\ Len(s) = m /\ \A i \in 1..m : s[i] = schema[a + i]
  <2>1. schema \in Seq(V)
    BY <1>1 DEF IsSequence
  <2> HIDE DEF V
  <2> QED BY <2>1, PartOf
<1> HIDE DEF V
<1>3. IsSequence(s)
  BY <1>2, SequenceFacts
<1>4. /\ \A i \in 1..m : a + i \in K /\ a + i \in 1..Len(schema)
      /\ \A k \in K : k - a \in 1..m /\ a + (k - a) = k
  BY <1>1
<1>5. K \subseteq 1..Len(schema) /\ \A k \in K : schema[k].Section \in A
  BY <1>1
<1> HIDE DEF K
<1>6. \A e \in Elems(s) : \E k \in K : e = schema[k]
  <2> SUFFICES ASSUME NEW e \in Elems(s) PROVE \E k \in K : e = schema[k]
    OBVIOUS
  <2>1. PICK i \in 1..m : e = s[i]
    BY <1>2, <1>3, ElemsFacts
  <2> QED BY <1>2, <1>4, <2>1
<1>7. \A k \in K : schema[k] \in Elems(s)
  <2> SUFFICES ASSUME NEW k \in K PROVE schema[k] \in Elems(s)
    OBVIOUS
  <2>1. k - a \in 1..m /\ s[k - a] = schema[k]
    BY <1>2, <1>4
  <2> QED BY <1>2, <1>3, <2>1, ElemsFacts
<1>8. \A i, j \in 1..Len(s) : s[i].DumpId = s[j].DumpId => i = j
  <2> SUFFICES ASSUME NEW i \in 1..m, NEW j \in 1..m, s[i].DumpId = s[j].DumpId PROVE i = j
    BY <1>2
  <2>1. a + i \in DOMAIN schema /\ a + j \in DOMAIN schema
    BY <1>1, <1>4
  <2>2. schema[a + i].DumpId = schema[a + j].DumpId
    BY <1>2
  <2>3. a + i = a + j
    BY <2>1, <2>2 DEF SchemaOfPgDump
  <2> QED BY <2>3
<1>9. \A e \in Elems(s) : EntryOK(e) /\ e.DumpId \in IdsAt(schema, K) /\ e.Section \in A
  BY <1>1, <1>5, <1>6 DEF IdsAt
<1> QED
  BY <1>3, <1>6, <1>7, <1>8, <1>9 DEF Batch, Kept, K

\* Entries of the sections Y may stand behind those of the sections X.
Follow(X, Y) == \A x \in X : \A y \in Y :
                   /\ x = SectionPostData => y \notin {SectionPreData, SectionData}
                   /\ x = SectionData => y # SectionPreData

\* Entries that may stand in any order are in the order of the sections.
LEMMA SectionsOf ==
  ASSUME NEW s, NEW I, NEW X, Batch(s, I, X), Follow(X, X)
  PROVE  InSections(s)
<1>1. DOMAIN s = 1..Len(s) /\ \A i \in 1..Len(s) : s[i].Section \in X
  <2>1. IsSequence(s) /\ \A e \in Elems(s) : e.Section \in X
    BY DEF Batch
  <2> QED BY <2>1, ElemsFacts
<1> QED
  BY <1>1 DEF InSections, Follow

\* So are those of two sequences, if the first may stand before the second.
LEMMA SectionsBehind ==
  ASSUME NEW s, NEW t, NEW I, NEW J, NEW X, NEW Y, Batch(s, I, X), Batch(t, J, Y),
         InSections(s), InSections(t), Follow(X, Y), NEW u, Joined(u, s, t)
  PROVE  InSections(u)
<1> DEFINE n == Len(s)
           m == Len(t)
<1>1. /\ DOMAIN s = 1..n /\ \A i \in 1..n : s[i].Section \in X
      /\ DOMAIN t = 1..m /\ \A i \in 1..m : t[i].Section \in Y
  <2>1. /\ IsSequence(s) /\ \A e \in Elems(s) : e.Section \in X
        /\ IsSequence(t) /\ \A e \in Elems(t) : e.Section \in Y
    BY DEF Batch
  <2> QED BY <2>1, ElemsFacts
<1>2. /\ n \in Nat /\ m \in Nat /\ DOMAIN u = 1..(n + m)
      /\ \A i \in 1..n : u[i] = s[i]
      /\ \A i \in 1..m : u[n + i] = t[i]
  <2>1. IsSequence(u) /\ Len(u) = n + m /\ DOMAIN u = 1..Len(u)
    BY ElemsFacts DEF Joined
  <2> QED BY <2>1 DEF Joined
<1> HIDE DEF n, m
<1> DEFINE Fit(x, y) == /\ x = SectionPostData => y \notin {SectionPreData, SectionData}
                        /\ x = SectionData => y # SectionPreData
<1>3. \A j, k \in 1..n : j < k => Fit(s[j].Section, s[k].Section)
  BY <1>1 DEF InSections
<1>4. \A j, k \in 1..m : j < k => Fit(t[j].Section, t[k].Section)
  BY <1>1 DEF InSections
<1>5. \A j \in 1..n : \A k \in 1..m : Fit(s[j].Section, t[k].Section)
  BY <1>1 DEF Follow
<1>6. ASSUME NEW j \in 1..(n + m), NEW k \in 1..(n + m), j < k
      PROVE  Fit(u[j].Section, u[k].Section)
  <2> HIDE DEF Fit
  <2>1. CASE k \in 1..n
    <3>1. j \in 1..n
      BY <1>2, <1>6, <2>1
    <3> QED BY <1>2, <1>3, <1>6, <2>1, <3>1
  <2>2. CASE j \in 1..n /\ k \notin 1..n
    <3>1. k - n \in 1..m /\ n + (k - n) = k
      BY <1>2, <2>2
    <3>2. u[k] = t[k - n]
      BY <1>2, <3>1
    <3> QED BY <1>2, <1>5, <2>2, <3>1, <3>2
  <2>3. CASE j \notin 1..n
    <3>1. /\ j - n \in 1..m /\ n + (j - n) = j /\ k - n \in 1..m /\ n + (k - n) = k
          /\ j - n < k - n
      BY <1>2, <1>6, <2>3
    <3>2. u[j] = t[j - n] /\ u[k] = t[k - n]
      BY <1>2, <3>1
    <3> QED BY <1>4, <3>1, <3>2
  <2>4. CASE j \in 1..n /\ k \in 1..n
    BY <2>1, <2>4
  <2> QED BY <2>1, <2>2, <2>3
<1> QED
  BY <1>2, <1>6 DEF InSections

\* What toc.dat is to hold when the schema's was this one.
Whole(entries, schema) ==
    /\ IsSequence(entries) /\ \A e \in Elems(entries) : EntryOK(e)
    /\ \A i, j \in 1..Len(entries) : entries[i].DumpId = entries[j].DumpId => i = j
    /\ InSections(entries)
    /\ \A e \in Elems(entries) : \A d \in Elems(e.Dependencies) :
          d \in Missing(schema) \/ \E x \in Elems(entries) : x.DumpId = d
    /\ SchemaKept(schema, Elems(entries))

\* What an entry of the schema depends on is in the schema, or missing.
LEMMA KnownOrMissing ==
  ASSUME NEW schema, NEW k \in DOMAIN schema, NEW d \in Elems(schema[k].Dependencies),
         d \notin Missing(schema)
  PROVE  \E j \in DOMAIN schema : schema[j].DumpId = d
<1> DEFINE all == {Elems(schema[i].Dependencies) : i \in DOMAIN schema}
<1>1. Elems(schema[k].Dependencies) \in all
  OBVIOUS
<1>2. d \in UNION all
  BY <1>1
<1>3. d \in Ids(schema)
  BY <1>2 DEF Missing
<1> QED
  BY <1>3 DEF Ids

\* The schema alone.
LEMMA SchemaWhole ==
  ASSUME NEW schema, SchemaOfPgDump(schema)
  PROVE  Whole(schema, schema)
<1>1. /\ IsSequence(schema) /\ Len(schema) \in Nat /\ DOMAIN schema = 1..Len(schema)
      /\ \A k \in 1..Len(schema) : schema[k] \in Elems(schema) /\ EntryOK(schema[k])
  BY SchemaFacts
<1>2. \A e \in Elems(schema) : \E k \in 1..Len(schema) : e = schema[k]
  BY DEF Elems
<1>3. SchemaKept(schema, Elems(schema))
  BY <1>1 DEF SchemaKept
<1>4. ASSUME NEW e \in Elems(schema), NEW d \in Elems(e.Dependencies), d \notin Missing(schema)
      PROVE  \E x \in Elems(schema) : x.DumpId = d
  <2>1. PICK k \in DOMAIN schema : e = schema[k]
    BY <1>1, <1>2
  <2>2. PICK j \in DOMAIN schema : schema[j].DumpId = d
    BY <1>4, <2>1, KnownOrMissing
  <2> QED BY <1>1, <2>2
<1> QED
  BY <1>1, <1>2, <1>3, <1>4 DEF Whole, SchemaOfPgDump

\* What the kept part of the schema depends on is kept.
LEMMA KeptClosed ==
  ASSUME NEW schema, SchemaOfPgDump(schema), NEW p, NEW q, CutAt(schema, p, q),
         NEW k \in 1..p \cup (q + 1)..Len(schema),
         NEW d \in Elems(schema[k].Dependencies), d \notin Missing(schema)
  PROVE  \E j \in 1..p \cup (q + 1)..Len(schema) : schema[j].DumpId = d
<1> DEFINE n == Len(schema)
<1>1. n \in Nat /\ p \in Nat /\ q \in Nat /\ p <= q /\ q <= n /\ DOMAIN schema = 1..n
  BY SchemaFacts DEF CutAt
<1>2. k \in 1..n
  BY <1>1
<1>3. PICK j \in 1..n : schema[j].DumpId = d
  BY <1>1, <1>2, KnownOrMissing
<1> SUFFICES ASSUME j \notin 1..p, j \notin (q + 1)..n PROVE FALSE
  BY <1>3
<1>4. p < j /\ j <= q
  BY <1>1
<1>5. /\ schema[j].Section # SectionPostData /\ schema[j].Section # SectionPreData
      /\ schema[j].Section \in {SectionNone, SectionPreData, SectionPostData}
  BY <1>1, <1>4, SchemaFacts DEF CutAt
<1>6. j <= k /\ \A i \in j..k : schema[i].Section = SectionNone
  <2>1. j \in DOMAIN schema /\ k \in DOMAIN schema /\ schema[j].Section = SectionNone
    BY <1>1, <1>2, <1>5
  <2>2. schema[j].DumpId \in Elems(schema[k].Dependencies)
    BY <1>3
  <2> QED BY <2>1, <2>2 DEF SchemaOfPgDump
<1>7. q < k /\ q + 1 \in j..k /\ q < n
  BY <1>1, <1>2, <1>4, <1>6
<1>8. schema[q + 1].Section = SectionPostData /\ schema[q + 1].Section = SectionNone
  BY <1>6, <1>7 DEF CutAt
<1>9. SectionPostData = SectionNone
  BY <1>8
<1> QED
  BY <1>9, Sections

\* Some entries kept of the schema, others behind them, and the others kept.
MergeOf(schema, p, q, ddls, data, before, behind, m) ==
    /\ SchemaOfPgDump(schema) /\ CutAt(schema, p, q)
    /\ before = SubSeq(schema, 1, p)
    /\ behind = IF q = Len(schema) THEN <<>> ELSE SubSeq(schema, q + 1, Len(schema))
    /\ m = ((before \o ddls) \o data) \o behind

\* The two parts of the schema, what is in them and which ids.
LEMMA MergeParts ==
  ASSUME NEW schema, NEW p, NEW q, NEW ddls, NEW data, NEW before, NEW behind, NEW m,
         MergeOf(schema, p, q, ddls, data, before, behind, m)
  PROVE  /\ Batch(before, IdsAt(schema, 1..p), {SectionNone, SectionPreData})
         /\ Kept(before, schema, 1..p)
         /\ Batch(behind, IdsAt(schema, (q + 1)..Len(schema)), {SectionNone, SectionPostData})
         /\ Kept(behind, schema, (q + 1)..Len(schema))
         /\ IdsAt(schema, 1..p) \cap IdsAt(schema, (q + 1)..Len(schema)) = {}
         /\ \A i \in IdsAt(schema, 1..p) \cup IdsAt(schema, (q + 1)..Len(schema)) :
               i \in Nat /\ i <= MaxDumpId(schema)
<1> DEFINE n == Len(schema)
<1>1. /\ n \in Nat /\ DOMAIN schema = 1..n
      /\ \A k \in 1..n : /\ EntryOK(schema[k])
                         /\ schema[k].Section \in {SectionNone, SectionPreData, SectionPostData}
  BY SchemaFacts DEF MergeOf
<1>2. /\ SchemaOfPgDump(schema) /\ p \in Nat /\ q \in Nat /\ p <= q /\ q <= n
      /\ \A k \in 1..n : /\ schema[k].Section = SectionPostData => k > q
                         /\ schema[k].Section = SectionPreData => k <= p
  BY DEF MergeOf, CutAt
<1>3. before = SubSeq(schema, 1, p) /\ behind = IF q = n THEN <<>> ELSE SubSeq(schema, q + 1, n)
  BY DEF MergeOf
<1>4. /\ Batch(before, IdsAt(schema, 1..p), {SectionNone, SectionPreData})
      /\ Kept(before, schema, 1..p)
  <2> DEFINE A == {SectionNone, SectionPreData}
             z == 0
  <2>1. z \in Nat /\ z + p <= Len(schema) /\ z + 1 = 1 /\ z + p = p
    BY <1>1, <1>2
  <2>2. \A k \in 1..p : schema[k].Section \in A
    BY <1>1, <1>2
  <2>3. before = SubSeq(schema, z + 1, z + p)
    BY <1>3, <2>1
  <2> HIDE DEF A, z
  <2>4. /\ Batch(before, IdsAt(schema, (z + 1)..(z + p)), A)
        /\ Kept(before, schema, (z + 1)..(z + p))
    BY <1>2, <2>1, <2>2, <2>3, KeptPart
  <2> QED BY <2>1, <2>4 DEF A
<1>5. /\ Batch(behind, IdsAt(schema, (q + 1)..n), {SectionNone, SectionPostData})
      /\ Kept(behind, schema, (q + 1)..n)
  <2> DEFINE A == {SectionNone, SectionPostData}
             l == n - q
  <2>1. l \in Nat /\ q + l = n
    BY <1>1, <1>2
  <2>2. \A k \in (q + 1)..n : schema[k].Section \in A
    BY <1>1, <1>2
  <2> HIDE DEF A, l
  <2>3. CASE q = n
    <3>1. (q + 1)..n = {} /\ behind = <<>>
      BY <1>1, <1>3, <2>3
    <3>2. Batch(<<>>, IdsAt(schema, {}), A) /\ Elems(<<>>) = {}
      BY BatchEmpty
    <3> QED BY <3>1, <3>2 DEF Kept, A
  <2>4. CASE q # n
    <3>1. behind = SubSeq(schema, q + 1, q + l) /\ q + l <= Len(schema)
      <4>1. behind = SubSeq(schema, q + 1, n)
        BY <1>3, <2>4
      <4>2. behind = SubSeq(schema, q + 1, q + l)
        BY <2>1, <4>1
      <4>3. q + l <= n
        BY <1>1, <2>1
      <4> QED BY <4>2, <4>3
    <3>2. \A k \in (q + 1)..(q + l) : schema[k].Section \in A
      BY <2>1, <2>2
    <3>3. /\ Batch(behind, IdsAt(schema, (q + 1)..(q + l)), A)
          /\ Kept(behind, schema, (q + 1)..(q + l))
      BY <1>2, <2>1, <3>1, <3>2, KeptPart
    <3> QED BY <2>1, <3>3 DEF A
  <2> QED BY <2>3, <2>4
<1>6. IdsAt(schema, 1..p) \cap IdsAt(schema, (q + 1)..n) = {}
  <2> SUFFICES ASSUME NEW j \in 1..p, NEW k \in (q + 1)..n, schema[j].DumpId = schema[k].DumpId
               PROVE  FALSE
    BY DEF IdsAt
  <2>1. j \in DOMAIN schema /\ k \in DOMAIN schema /\ j # k
    BY <1>1, <1>2
  <2> QED BY <1>2, <2>1 DEF SchemaOfPgDump
<1>7. ASSUME NEW i \in IdsAt(schema, 1..p) \cup IdsAt(schema, (q + 1)..n)
      PROVE  i \in Nat /\ i <= MaxDumpId(schema)
  <2>1. PICK k \in 1..p \cup (q + 1)..n : i = schema[k].DumpId
    BY DEF IdsAt
  <2>2. k \in 1..n
    BY <1>1, <1>2
  <2>3. \A j \in 1..n : schema[j].DumpId \in Nat
    BY <1>1 DEF EntryOK
  <2>4. \A j \in 1..n : schema[j].DumpId <= MaxDumpId(schema)
    BY <1>1, <2>3, MaxDumpIdFacts
  <2> QED BY <2>1, <2>2, <2>3, <2>4
<1> QED
  BY <1>4, <1>5, <1>6, <1>7

\* The entries of the data and the definitions stand between two parts of the
\* schema: all that is needed of toc.dat.
LEMMA MergeWhole ==
  ASSUME NEW schema, NEW p, NEW q, NEW ddls, NEW data, NEW before, NEW behind, NEW m,
         MergeOf(schema, p, q, ddls, data, before, behind, m),
         NEW I, Batch(ddls, I, {SectionNone, SectionPreData}), Closed(ddls),
         NEW J, Batch(data, J, {SectionData}), Closed(data), J \cap I = {},
         \A i \in J \cup I : i \in Nat /\ i > MaxDumpId(schema)
  PROVE  Whole(m, schema)
<1> DEFINE n == Len(schema)
           K == 1..p
           L == (q + 1)..n
           KI == IdsAt(schema, K)
           LI == IdsAt(schema, L)
           A == {SectionNone, SectionPreData}
           B == {SectionData}
           C == {SectionNone, SectionPostData}
           u == before \o ddls
           v == u \o data
<1>1. /\ Batch(before, KI, A) /\ Kept(before, schema, K)
      /\ Batch(behind, LI, C) /\ Kept(behind, schema, L)
      /\ KI \cap LI = {}
      /\ \A i \in KI \cup LI : i \in Nat /\ i <= MaxDumpId(schema)
  BY MergeParts
<1>2. m = v \o behind /\ SchemaOfPgDump(schema) /\ CutAt(schema, p, q)
  BY DEF MergeOf
<1>3. MaxDumpId(schema) \in Nat
  <2>1. n \in Nat /\ DOMAIN schema = 1..n /\ \A k \in 1..n : schema[k].DumpId \in Nat
    BY <1>2, SchemaFacts DEF EntryOK
  <2> QED BY <2>1, MaxDumpIdFacts
<1>4. Batch(ddls, I, A) /\ Batch(data, J, B)
  OBVIOUS
<1> HIDE DEF KI, LI
<1>5. KI \cap I = {} /\ (KI \cup I) \cap J = {} /\ ((KI \cup I) \cup J) \cap LI = {}
  <2>1. \A i \in KI \cup LI : \A j \in J \cup I : i # j
    BY <1>1, <1>3
  <2> QED BY <1>1, <2>1
<1>6. /\ Follow(A, A) /\ Follow(A \cup A, B) /\ Follow((A \cup A) \cup B, C)
      /\ Follow(B, B) /\ Follow(C, C)
  BY Sections DEF Follow
<1> HIDE DEF A, B, C
<1>7. InSections(before) /\ InSections(ddls) /\ InSections(data) /\ InSections(behind)
  BY <1>1, <1>4, <1>6, SectionsOf
<1>8. Batch(u, KI \cup I, A \cup A) /\ Joined(u, before, ddls)
  BY <1>1, <1>4, <1>5, BatchBehind
<1> HIDE DEF u
<1>9. InSections(u)
  BY <1>1, <1>4, <1>6, <1>7, <1>8, SectionsBehind
<1> DEFINE KJ == KI \cup I
           D == A \cup A
<1>10. Batch(v, KJ \cup J, D \cup B) /\ Joined(v, u, data)
  <2>1. KJ \cap J = {} /\ Batch(u, KJ, D)
    BY <1>5, <1>8
  <2> HIDE DEF KJ, D
  <2> QED BY <1>4, <2>1, BatchBehind
<1> HIDE DEF v
<1>11. InSections(v)
  <2>1. Batch(u, KJ, D) /\ Follow(D, B)
    BY <1>6, <1>8
  <2> HIDE DEF KJ, D
  <2> QED BY <1>4, <1>7, <1>9, <1>10, <2>1, SectionsBehind
<1> DEFINE KK == KJ \cup J
           E == D \cup B
<1>12. Batch(m, KK \cup LI, E \cup C) /\ Joined(m, v, behind) /\ InSections(m)
  <2>1. KK \cap LI = {} /\ Batch(v, KK, E) /\ Follow(E, C)
    BY <1>5, <1>6, <1>10
  <2> HIDE DEF KK, E
  <2>2. Batch(v \o behind, KK \cup LI, E \cup C) /\ Joined(v \o behind, v, behind)
    BY <1>1, <2>1, BatchBehind
  <2>3. Batch(m, KK \cup LI, E \cup C) /\ Joined(m, v, behind)
    BY <1>2, <2>2
  <2> QED BY <1>1, <1>7, <1>11, <2>1, <2>3, SectionsBehind
<1>13. Elems(m) = ((Elems(before) \cup Elems(ddls)) \cup Elems(data)) \cup Elems(behind)
  BY <1>8, <1>10, <1>12 DEF Joined
<1>14. \A k \in K \cup L : schema[k] \in Elems(m)
  BY <1>1, <1>13 DEF Kept
<1>15. \A e \in Elems(m) : \/ e \in Elems(ddls) \/ e \in Elems(data)
                           \/ \E k \in K \cup L : e = schema[k]
  BY <1>1, <1>13 DEF Kept
<1>16. ASSUME NEW e \in Elems(m), NEW d \in Elems(e.Dependencies), d \notin Missing(schema)
       PROVE  \E x \in Elems(m) : x.DumpId = d
  <2>1. CASE e \in Elems(ddls)
    BY <1>13, <2>1 DEF Closed
  <2>2. CASE e \in Elems(data)
    BY <1>13, <2>2 DEF Closed
  <2>3. ASSUME NEW k \in K \cup L, e = schema[k] PROVE \E x \in Elems(m) : x.DumpId = d
    <3>1. \E j \in K \cup L : schema[j].DumpId = d
      BY <1>2, <1>16, <2>3, KeptClosed
    <3> QED BY <1>14, <3>1
  <2> QED BY <1>15, <2>1, <2>2, <2>3
<1>17. SchemaKept(schema, Elems(m))
  <2> SUFFICES ASSUME NEW k \in DOMAIN schema, NEW l \in DOMAIN schema, schema[k] \notin Elems(m)
               PROVE  /\ schema[k].Section = SectionNone
                      /\ schema[l].Section = SectionPreData => l < k
                      /\ schema[l].Section = SectionPostData => k < l
    BY DEF SchemaKept
  <2>1. /\ k \in 1..n /\ l \in 1..n /\ n \in Nat
        /\ schema[k].Section \in {SectionNone, SectionPreData, SectionPostData}
    BY <1>2, SchemaFacts
  <2>2. /\ p \in Nat /\ q \in Nat /\ p <= q /\ q <= n
        /\ \A i \in 1..n : /\ schema[i].Section = SectionPostData => i > q
                           /\ schema[i].Section = SectionPreData => i <= p
    BY <1>2 DEF CutAt
  <2>3. k \notin K /\ k \notin L
    BY <1>14
  <2>4. p < k /\ k <= q
    BY <2>1, <2>2, <2>3
  <2> HIDE DEF n
  <2> QED BY <2>1, <2>2, <2>4
<1> QED
  BY <1>12, <1>16, <1>17 DEF Whole, Batch

-----------------------------------------------------------------------------
(* toc.dat *)

\* What is merged is all that is needed.
LEMMA MergedWhole == Listed => Whole(Merged, cmd.schema)
<1> SUFFICES ASSUME Listed PROVE Whole(Merged, cmd.schema)
  OBVIOUS
<1> DEFINE schema == cmd.schema
           ddls == BlobDDLs
           data == DataEntries
           m == MergeTocEntries(schema, ddls, data)
<1>1. SchemaOfPgDump(schema)
  BY CommandTocFacts
<1>2. Merged = m
  BY DEF Merged
<1>3. /\ Batch(ddls, DdlIds, {SectionNone, SectionPreData}) /\ Closed(ddls)
      /\ Batch(data, DataIds, {SectionData}) /\ Closed(data)
      /\ DataIds \cap DdlIds = {}
      /\ \A i \in DataIds \cup DdlIds : i \in Nat /\ i > MaxDumpId(schema)
  BY BlobDDLsFacts, DataEntriesFacts
<1> HIDE DEF schema, ddls, data
<1>4. CASE data = <<>>
  <2>1. m = schema
    BY <1>4 DEF MergeTocEntries
  <2> QED BY <1>1, <1>2, <2>1, SchemaWhole DEF schema
<1>5. CASE data # <<>>
  <2>1. PICK p, q : /\ CutAt(schema, p, q)
                    /\ \A d, e : e # <<>> =>
                         MergeTocEntries(schema, d, e) =
                            ((SubSeq(schema, 1, p) \o d) \o e)
                            \o (IF q = Len(schema) THEN <<>>
                                ELSE SubSeq(schema, q + 1, Len(schema)))
    BY <1>1, MergeCuts
  <2> DEFINE before == SubSeq(schema, 1, p)
             behind == IF q = Len(schema) THEN <<>> ELSE SubSeq(schema, q + 1, Len(schema))
  <2>2. m = ((before \o ddls) \o data) \o behind
    BY <1>5, <2>1
  <2>3. MergeOf(schema, p, q, ddls, data, before, behind, m)
    <3> HIDE DEF m
    <3> QED BY <1>1, <2>1, <2>2 DEF MergeOf
  <2> HIDE DEF m, before, behind
  <2>4. Whole(m, schema)
    BY <1>3, <2>3, MergeWhole
  <2> QED BY <1>2, <2>4 DEF schema
<1> QED
  BY <1>4, <1>5

\* As many entries as ids, when no two of them share one.
LEMMA IdsCount ==
  ASSUME NEW s, IsSequence(s), \A i, j \in 1..Len(s) : s[i].DumpId = s[j].DumpId => i = j
  PROVE  Cardinality(Ids(s)) = Len(s)
<1> DEFINE n == Len(s)
           T == Ids(s)
           f == [k \in 1..n |-> s[k].DumpId]
<1>1. n \in Nat /\ DOMAIN s = 1..n
  BY ElemsFacts
<1>2. T = {s[k].DumpId : k \in 1..n}
  BY <1>1 DEF Ids
<1>3. f \in Surjection(1..n, T) /\ f \in Injection(1..n, T)
  <2> HIDE DEF T, n
  <2>1. f \in [1..n -> T]
    BY <1>2
  <2>2. \A i, j \in 1..n : f[i] = f[j] => i = j
    BY DEF n
  <2>4. DOMAIN f = 1..n
    OBVIOUS
  <2>3. \A t \in T : \E k \in 1..n : f[k] = t
    BY <1>2
  <2> QED BY <2>1, <2>2, <2>3, <2>4 DEF Surjection, Injection, IsInjective
<1>4. IsFiniteSet(1..n) /\ Cardinality(1..n) = n
  <2>1. 1 \in Int /\ n \in Int /\ (IF 1 > n THEN 0 ELSE n - 1 + 1) = n
    BY <1>1
  <2> QED BY <2>1, FS_Interval
<1> HIDE DEF f, T, n
<1>5. Cardinality(T) = Cardinality(1..n)
  BY <1>3, <1>4, FS_Surjection
<1> QED
  BY <1>4, <1>5 DEF T, n

\* Whatever is written like this reads back like this.
LEMMA WholeRead ==
  ASSUME Listed, NEW written, Whole(written, cmd.schema),
         NEW r, r = TocRead(TocFile(cmd.header, written))
  PROVE  WholeToc(r, written)
<1> DEFINE v == cmd.header.Minor
           x == r.x
           n == Len(written)
<1>1. /\ IsSequence(written) /\ \A e \in Elems(written) : EntryOK(e)
      /\ \A i, j \in 1..n : written[i].DumpId = written[j].DumpId => i = j
      /\ InSections(written)
      /\ \A e \in Elems(written) : \A d \in Elems(e.Dependencies) :
            d \in Missing(cmd.schema) \/ \E y \in Elems(written) : y.DumpId = d
      /\ SchemaKept(cmd.schema, Elems(written))
  BY DEF Whole
<1>2. /\ n \in Nat /\ DOMAIN written = 1..n /\ \A k \in 1..n : written[k] \in Elems(written)
      /\ \A e \in Elems(written) : \E k \in 1..n : e = written[k]
  BY <1>1, ElemsFacts
<1>3. /\ r.pos # 0 /\ IsSequence(x) /\ Len(x) = n
      /\ \A k \in 1..n : SameEntry(x[k], written[k], v)
  <2> DEFINE h == cmd.header
  <2>1. Readable(h) /\ r = TocRead(TocFile(h, written)) /\ \A k \in 1..n : EntryOK(written[k])
    BY <1>1, <1>2, CommandTocFacts
  <2> HIDE DEF h, x
  <2>2. /\ r.pos # 0 /\ IsSequence(r.x) /\ Len(r.x) = n
        /\ \A k \in 1..n : SameEntry(r.x[k], written[k], h.Minor)
    BY <1>2, <2>1, TocIsRead
  <2> QED BY <2>2 DEF h, x
<1> HIDE DEF x, v, n
<1>4. DOMAIN x = 1..n /\ \A e \in Elems(x) : \E k \in 1..n : e = x[k]
  BY <1>3, ElemsFacts
<1>5. ReadAs(x, written, v)
  <2> SUFFICES ASSUME NEW k \in 1..n, NEW f \in Elems(EntryWritten), v \in f.from..f.to
               PROVE  x[k][f.name] = written[k][f.name]
    BY <1>2, <1>3 DEF ReadAs, n
  <2>1. PICK i \in DOMAIN EntryRead : f = EntryRead[i]
    BY EntryFacts DEF Elems
  <2>2. Has(EntryRead[i], v)
    BY <2>1 DEF Has
  <2> QED BY <1>3, <2>1, <2>2 DEF SameEntry
<1>6. v >= 11 => InSections(x)
  <2> SUFFICES ASSUME v >= 11 PROVE InSections(x)
    OBVIOUS
  <2>1. \A k \in 1..n : x[k].Section = written[k].Section
    BY <1>3 DEF SameEntry
  <2> QED BY <1>1, <1>2, <1>4, <2>1 DEF InSections
<1>7. \A k \in 1..n : x[k].DumpId = written[k].DumpId
  BY <1>3 DEF SameEntry
<1>8. Cardinality(Ids(x)) = Len(x)
  <2>1. \A i, j \in 1..Len(x) : x[i].DumpId = x[j].DumpId => i = j
    BY <1>1, <1>3, <1>7
  <2> QED BY <1>3, <2>1, IdsCount
<1>9. ASSUME NEW e \in Elems(x), NEW d \in Elems(e.Dependencies)
      PROVE  d \in Ids(x) \cup Missing(cmd.schema)
  <2>1. PICK k \in 1..n : e = x[k]
    BY <1>4
  <2>2. e.Dependencies \in {<<>>, written[k].Dependencies}
    BY <1>3, <2>1 DEF SameEntry
  <2>3. d \in Elems(written[k].Dependencies)
    <3>1. Elems(<<>>) = {}
      BY DEF Elems
    <3> QED BY <1>9, <2>2, <3>1
  <2>4. CASE d \in Missing(cmd.schema)
    BY <2>4
  <2>5. ASSUME NEW y \in Elems(written), y.DumpId = d PROVE d \in Ids(x)
    <3>1. PICK j \in 1..n : y = written[j]
      BY <1>2
    <3>2. x[j].DumpId = d
      BY <1>7, <2>5, <3>1
    <3> QED BY <1>4, <3>2 DEF Ids
  <2> QED BY <1>1, <1>2, <2>3, <2>4, <2>5
<1>10. \A e \in Elems(x) : Elems(e.Dependencies) \subseteq Ids(x) \cup Missing(cmd.schema)
  BY <1>9
<1> QED
  BY <1>1, <1>3, <1>5, <1>6, <1>8, <1>10 DEF WholeToc, x, v

\* For every command, order of objects, schema and archive version: toc.dat as
\* it is written reads back as it was merged, with no id twice, nothing
\* pointing nowhere, the sections in order and the schema kept.
THEOREM TocWhole == CommandSpec => []TocIsWhole
<1>1. ASSUME CommandTypeOK PROVE TocIsWhole
  <2>1. Listed
    BY <1>1, CommandListed
  <2>2. Whole(Merged, cmd.schema)
    BY <2>1, MergedWhole
  <2> DEFINE m == Merged
             r == TocRead(TocFile(cmd.header, m))
  <2>3. WholeToc(r, m)
    <3>1. r = TocRead(TocFile(cmd.header, m)) /\ Whole(m, cmd.schema)
      BY <2>2
    <3> HIDE DEF r, m
    <3> QED BY <2>1, <3>1, WholeRead
  <2>4. TocRead(TocDat) = r
    BY DEF TocDat
  <2> QED BY <2>3, <2>4 DEF TocIsWhole
<1> QED
  BY <1>1, CommandTypeCorrect, PTL
=============================================================================
