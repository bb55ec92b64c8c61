--------------------------- MODULE RetentionProofs --------------------------
(***************************************************************************)
(* What the reader of DumpStatus and the deletes of Retention ensure for   *)
(* every dump, every number of jobs, every set of dumps in the storage and *)
(* every delete.                                                           *)
(***************************************************************************)
EXTENDS Retention, DumpRunProofs, SetInduction, SequenceTheorems

(* The inductive invariant *)

\* The run has failed, though its goroutines may go on for a while.
Lost == \/ stage \in {"error", "killed"}
        \/ stage = "data" /\ cancelled

\* No one writes the heartbeat any more.
HbOver == stage # "data" \/ hpc \in {"done", "failed"}

\* A heartbeat older than half an hour has no writer: the ticker and the end
\* of a write keep it younger.
HbInv ==
    /\ hpc = "start" => hb = "absent"
    /\ hb = "absent" => age = 0
    /\ HbAlive => age <= 2

\* A storage that shows no object before it is complete shows none in part.
AtomicInv == AtomicPut => hb # "empty" /\ md # "partial"

\* What the reader knows at each of its steps.
ReaderInv ==
    /\ rpc # "idle" => verdict = "none"
    /\ rpc = "content" =>
         /\ hb # "absent"
         /\ Expired(seenAge) => HbOver
         /\ seenDead => Expired(seenAge)
    /\ seenDead => ~Live
    /\ verdict = "done" => stage = "ok"
    /\ AtomicPut /\ verdict = "failed" => Lost
    /\ EndIsSeen

\* Why a delete takes a dump.
Condemned(d) ==
    /\ d \in listed
    /\ cmd.mode = "id" => d = cmd.id
    /\ cmd.mode \in {"recent", "before"} => Valid(d)
    /\ cmd.mode = "recent" =>
         Cardinality({e \in listed : Valid(e) /\ e > d}) >= cmd.n
    /\ cmd.mode = "failed" =>
         IF d = This THEN verdict = "failed" ELSE Other[d] = "failed"

DeleteType ==
    /\ present \subseteq DOMAIN Other
    /\ cpc \in {"idle", "status", "remove", "batches", "ended", "error"}
    /\ cpc # "idle" => cmd \in Commands
    /\ listed \subseteq DOMAIN Other \cup {This}
    /\ doomed \in Seq(listed)
    /\ walked # {} => cpc = "batches"

\* What a delete has taken and is about to take, and why.
DeleteInv ==
    /\ cpc \in {"idle", "status"} =>
         present = DOMAIN Other /\ taken = "no" /\ doomed = <<>>
    /\ cpc = "status" => cmd.mode # "id"
    /\ cpc = "batches" => doomed # <<>> /\ Head(doomed) = This /\ taken # "no"
    /\ cpc \notin {"idle", "status"} /\ This \in listed => rpc = "idle"
    /\ \A d \in DOMAIN Other \cup {This} :
         ~Here(d) \/ d \in ToSet(doomed) => Condemned(d)
    /\ cpc # "idle" /\ Spared => taken = "no" /\ present = DOMAIN Other
    /\ cpc # "idle" /\ cmd.mode \in {"recent", "before"} => taken \in {"no", "ok"}

\* A delete by an id has one dump to remove, whatever --dry-run says.
IdInv ==
    cpc \in {"remove", "batches", "ended"} /\ cmd.mode = "id" =>
        \/ doomed = <<cmd.id>> /\ cpc # "ended"
        \/ doomed = <<>> /\ ~Here(cmd.id)

\* As long as no file of the dump is removed it is a dump of DumpRun; what the
\* reader knows and what the delete does hold on.
RetentionInv ==
    /\ StatusTypeOK /\ DeleteType
    /\ taken = "no" => DumpInv
    /\ HbInv /\ AtomicInv /\ ReaderInv /\ DeleteInv /\ IdInv

-----------------------------------------------------------------------------
(* The heartbeat and the end of a run *)

LEMMA HbInit == Init => HbInv /\ AtomicInv
  BY DEF Init, HbInv, AtomicInv, HbAlive, InData

\* Only the time ages the heartbeat, and not beyond half an hour while the
\* writer is at work; a writer that has not begun finds no heartbeat.
LEMMA HbStep ==
  ASSUME TypeOK, HbInv, AtomicInv, [Next]_vars
  PROVE  HbInv' /\ AtomicInv'
<1>. USE DEF HbInv, AtomicInv, HbAlive, InData
<1>0. /\ age \in Nat
      /\ hpc \in {"start", "idle", "put-in-progress", "put-done", "done", "failed"}
  BY DEF TypeOK, StorageType, StateType, ExpiredAge
<1>1. ASSUME UNCHANGED <<hb, age, hpc, md>>, stage' = "data" => stage = "data"
      PROVE  HbInv' /\ AtomicInv'
  BY <1>1
<1>2. CASE HeartBeat
  <2>1. md' = md /\ stage' = "data" /\ stage = "data"
    BY <1>2, HeartBeatFrame
    DEF HeartBeat, HbStart, HbTick, HbDone, HbPutEnd, HbPutFails, HbCancelled
  <2>2. ASSUME NEW at \in {"put-in-progress", "put-done"}, HbPut(at),
               hpc \in {"start", "idle"}
        PROVE  HbInv' /\ AtomicInv'
    BY <2>1, <2>2 DEF HbPut
  <2>3. CASE HbPutEnd
    BY <2>1, <2>3 DEF HbPutEnd, HbContent
  <2>4. CASE HbPutFails
    BY <2>1, <2>4 DEF HbPutFails, HbContent
  <2>5. CASE HbCancelled
    BY <2>1, <2>5 DEF HbCancelled, storeVars
  <2> QED
    BY <1>2, <2>2, <2>3, <2>4, <2>5 DEF HeartBeat, HbStart, HbTick, HbDone
<1>3. CASE Producer \/ Planner
  BY <1>1, <1>3, ProducerFrame, PlannerFrame DEF storageVars, stateVars
<1>4. ASSUME NEW w \in Worker, WorkerStep(w) PROVE HbInv' /\ AtomicInv'
  BY <1>1, <1>4, WorkerFrame
<1>5. CASE WaitData \/ WriteToc \/ Kill
  <2>1. UNCHANGED <<hb, age, md>> /\ stage' # "data"
    BY <1>5 DEF WaitData, WriteToc, Kill, storeVars
  <2> QED BY <1>1, <1>5, <2>1, StageFrame DEF stateVars
<1>6. CASE WriteMetaData
  BY <1>6 DEF WriteMetaData
<1>7. CASE Tick
  BY <1>0, <1>7 DEF Tick
<1>8. CASE UNCHANGED vars
  BY <1>1, <1>8 DEF vars, storeVars
<1> QED
  BY <1>2, <1>3, <1>4, <1>5, <1>6, <1>7, <1>8 DEF Next

\* What no step of the run takes back: its end, its failure, the end of the
\* heartbeat writer and the heartbeat file.
LEMMA StableStep ==
  ASSUME TypeOK, [Next]_vars
  PROVE  /\ ~Live => stage' = stage
         /\ Lost => Lost'
         /\ HbOver => HbOver'
         /\ hb # "absent" => hb' # "absent"
<1>. DEFINE Stable == /\ ~Live => stage' = stage
                      /\ Lost => Lost'
                      /\ HbOver => HbOver'
                      /\ hb # "absent" => hb' # "absent"
<1>. USE DEF Live, Lost, HbOver
<1>1. ASSUME UNCHANGED <<stage, hpc, hb>>, cancelled => cancelled'
      PROVE  Stable
  BY <1>1
<1>2. CASE HeartBeat
  <2>1. stage = "data" /\ stage' = stage /\ hpc \notin {"done", "failed"}
    BY <1>2, HeartBeatFrame
    DEF HeartBeat, HbStart, HbTick, HbDone, HbPutEnd, HbPutFails, HbCancelled, InData
  <2>2. (cancelled => cancelled') /\ (hb # "absent" => hb' # "absent")
    <3>1. CASE HbStart \/ HbTick \/ HbDone
      BY <3>1 DEF HbStart, HbTick, HbDone, HbPut
    <3>2. CASE HbPutEnd \/ HbPutFails \/ HbCancelled
      BY <3>2 DEF HbPutEnd, HbPutFails, HbCancelled, HbContent, storeVars
    <3> QED BY <1>2, <3>1, <3>2 DEF HeartBeat
  <2> QED BY <2>1, <2>2
<1>3. CASE Producer
  BY <1>1, <1>3, ProducerFrame DEF storageVars, stateVars
<1>4. CASE Planner
  <2>1. cancelled => cancelled'
    BY <1>4 DEF Planner, PlannerClose, PlannerReturn
  <2> QED BY <1>1, <1>4, <2>1, PlannerFrame DEF storageVars
<1>5. ASSUME NEW w \in Worker, WorkerStep(w) PROVE Stable
  BY <1>1, <1>5, WorkerFrame
<1>6. CASE WaitData
  BY <1>6 DEF WaitData, InData, storeVars
<1>7. CASE WriteToc
  BY <1>7 DEF WriteToc
<1>8. CASE WriteMetaData
  BY <1>8 DEF WriteMetaData
<1>9. CASE Kill \/ Tick
  BY <1>9 DEF Kill, Tick, storeVars
<1>10. CASE UNCHANGED vars
  BY <1>1, <1>10 DEF vars, storeVars
<1> QED
  BY <1>2, <1>3, <1>4, <1>5, <1>6, <1>7, <1>8, <1>9, <1>10 DEF Next

-----------------------------------------------------------------------------
(* The reader *)

LEMMA ReaderInit == StatusInit => ReaderInv
  BY DEF StatusInit, ReaderInv, EndIsSeen

\* What the reader knows stays true while the dump goes on.
LEMMA ReaderDumpStep ==
  ASSUME TypeOK, ReaderInv, [Next]_vars, UNCHANGED rvars
  PROVE  ReaderInv'
<1>1. UNCHANGED <<rpc, seenAge, seenDead, verdict>>
  BY DEF rvars
<1>2. /\ ~Live => stage' = stage
      /\ Lost => Lost'
      /\ HbOver => HbOver'
      /\ hb # "absent" => hb' # "absent"
  BY StableStep
<1>3. (~Live => ~Live') /\ (stage = "ok" => stage' = "ok")
  BY <1>2 DEF Live
<1> QED
  BY <1>1, <1>2, <1>3 DEF ReaderInv, EndIsSeen, Expired

\* A reading of a dump from which nothing is removed: a heartbeat that is old
\* and not "done" is that of a run that fails.
LEMMA ReaderStep ==
  ASSUME TypeOK, rpc # "idle" => DumpInv, HbInv, AtomicInv, ReaderInv, Reader
  PROVE  ReaderInv'
<1>1. /\ UNCHANGED vars
      /\ hb \in {"absent", "empty", "in-progress", "done"}
      /\ md \in {"absent", "partial", "complete"}
      /\ stage \in {"data", "toc", "metadata", "ok", "error", "killed"}
  BY DEF Reader, Stat, ReadLegacy, ReadContent, ReadMetadata, TypeOK, StorageType
<1>2. UNCHANGED <<stage, hb, md, cancelled, hpc, age>>
  BY <1>1 DEF vars, storeVars
<1>3. (Live' <=> Live) /\ (Lost' <=> Lost) /\ (HbOver' <=> HbOver)
  BY <1>2 DEF Live, Lost, HbOver
<1>4. rpc # "idle" => /\ stage = "ok" <=> md = "complete"
                      /\ stage = "ok" => hb = "done"
                      /\ HbOver /\ hb = "in-progress" => Lost
  <2> SUFFICES ASSUME rpc # "idle"
               PROVE  /\ stage = "ok" <=> md = "complete"
                      /\ stage = "ok" => hb = "done"
                      /\ HbOver /\ hb = "in-progress" => Lost
    OBVIOUS
  <2>1. ReturnInv /\ StageInv
    BY DEF DumpInv
  <2>2. /\ hpc = "failed" => cancelled
        /\ hpc = "done" => cancelled \/ hb = "done"
    BY <2>1 DEF ReturnInv
  <2>3. /\ stage \in {"toc", "metadata", "ok"} => hb = "done"
        /\ stage = "ok" <=> md = "complete"
    BY <2>1 DEF StageInv
  <2> QED BY <1>1, <2>2, <2>3 DEF HbOver, Lost
<1>5. CASE Stat
  <2>1. HbOver \/ ~Expired(age) \/ hb = "absent"
    BY <1>1 DEF HbInv, HbAlive, InData, HbOver, Expired, TypeOK, StateType,
                StorageType, ExpiredAge
  <2>2. /\ verdict' = "none" /\ seenAge' = age
        /\ seenDead' = (~Live /\ (hb = "absent" \/ Expired(age)))
        /\ rpc' = IF hb = "absent" THEN "legacy" ELSE "content"
    BY <1>5 DEF Stat
  <2> QED BY <1>2, <1>3, <2>1, <2>2 DEF ReaderInv, EndIsSeen, Expired
<1>6. ASSUME NEW status, Return(status), rpc # "idle",
             status = "done" => stage = "ok",
             AtomicPut /\ status = "failed" => Lost,
             seenDead => status # "in-progress" /\ (stage = "ok" => status = "done")
      PROVE  ReaderInv'
  BY <1>2, <1>3, <1>6 DEF Return, ReaderInv, EndIsSeen
<1>7. ASSUME rpc # "idle", rpc' = "metadata", UNCHANGED <<seenAge, seenDead, verdict>>
      PROVE  ReaderInv'
  BY <1>2, <1>3, <1>7 DEF ReaderInv, EndIsSeen
<1>8. CASE ReadLegacy
  <2>1. CASE md = "absent"
    <3>1. Return("unknown-or-failed") /\ rpc # "idle" /\ stage # "ok"
      BY <1>4, <1>8, <2>1 DEF ReadLegacy
    <3> QED BY <1>6, <3>1
  <2>2. CASE md # "absent"
    BY <1>7, <1>8, <2>2 DEF ReadLegacy
  <2> QED BY <2>1, <2>2
<1>9. CASE ReadContent
  <2>1. rpc = "content"
    BY <1>9 DEF ReadContent
  <2>2. /\ hb \in {"empty", "in-progress", "done"}
        /\ Expired(seenAge) => HbOver
        /\ seenDead => Expired(seenAge)
    BY <1>1, <2>1 DEF ReaderInv
  <2>3. CASE hb = "empty"
    <3>1. Return("failed") /\ ~AtomicPut /\ stage # "ok"
      BY <1>4, <1>9, <2>1, <2>3 DEF ReadContent, AtomicInv
    <3> QED BY <1>6, <2>1, <3>1
  <2>4. CASE hb = "done"
    BY <1>7, <1>9, <2>1, <2>4 DEF ReadContent
  <2>5. CASE hb = "in-progress"
    <3>1. stage # "ok"
      BY <1>4, <2>1, <2>5
    <3>2. CASE Expired(seenAge)
      <4>1. Lost /\ Return("failed")
        BY <1>4, <1>9, <2>1, <2>2, <2>5, <3>2 DEF ReadContent
      <4> QED BY <1>6, <2>1, <3>1, <4>1
    <3>3. CASE ~Expired(seenAge)
      <4>1. Return("in-progress") /\ ~seenDead
        BY <1>9, <2>2, <2>5, <3>3 DEF ReadContent
      <4> QED BY <1>6, <2>1, <4>1
    <3> QED BY <3>2, <3>3
  <2> QED BY <2>2, <2>3, <2>4, <2>5
<1>10. CASE ReadMetadata
  <2>1. rpc = "metadata"
    BY <1>10 DEF ReadMetadata
  <2>2. CASE md = "complete"
    <3>1. Return("done") /\ stage = "ok"
      BY <1>4, <1>10, <2>1, <2>2 DEF ReadMetadata
    <3> QED BY <1>6, <2>1, <3>1
  <2>3. CASE md # "complete"
    <3>1. (Return("unknown-or-failed") \/ Return("error")) /\ stage # "ok"
      BY <1>4, <1>10, <2>1, <2>3 DEF ReadMetadata
    <3> QED BY <1>6, <2>1, <3>1
  <2> QED BY <2>2, <2>3
<1> QED
  BY <1>5, <1>8, <1>9, <1>10 DEF Reader

-----------------------------------------------------------------------------
(* Dumps in the order of their ids *)

LEMMA SeqOfSubset ==
  ASSUME NEW L, NEW T \in SUBSET L, NEW s \in Seq(T)
  PROVE  s \in Seq(L)
<1>1. /\ Len(s) \in Nat /\ DOMAIN s = 1..Len(s) /\ \A i \in 1..Len(s) : s[i] \in T
      /\ s = [i \in 1..Len(s) |-> s[i]]
  OBVIOUS
<1>2. [i \in 1..Len(s) |-> s[i]] \in Seq(L)
  BY <1>1
<1> QED
  BY <1>1, <1>2

\* The ids of a finite set can be put in descending order, without gap or
\* repetition: the longest order begins with that of the set without its least.
LEMMA DescendingExists ==
  ASSUME NEW S \in SUBSET Nat, IsFiniteSet(S)
  PROVE  \E f \in [1..Cardinality(S) -> S] :
           \A i, j \in 1..Cardinality(S) : i < j => f[i] > f[j]
<1> DEFINE Ordered(T) == \E f \in [1..Cardinality(T) -> T] :
                           \A i, j \in 1..Cardinality(T) : i < j => f[i] > f[j]
           P == {T \in SUBSET S : Ordered(T)}
<1>1. {} \in P
  <2>1. Cardinality({}) = 0
    BY FS_EmptySet
  <2>2. [i \in 1..0 |-> 0] \in [1..0 -> {}]
    OBVIOUS
  <2> QED BY <2>1, <2>2
<1>2. ASSUME NEW T \in SUBSET S, T # {}, \A U \in SUBSET T : U # T => U \in P
      PROVE  T \in P
  <2>1. PICK x \in T : \A y \in T : x <= y
    BY <1>2, LeastExists
  <2> DEFINE U == T \ {x}
             n == Cardinality(U)
  <2>2. IsFiniteSet(T) /\ IsFiniteSet(U) /\ Cardinality(T) \in Nat /\ n \in Nat
    BY FS_Subset, FS_CardinalityType
  <2>3. Cardinality(T) = n + 1
    BY <2>1, <2>2, FS_RemoveElement
  <2>4. U \in P
    BY <1>2, <2>1
  <2>5. PICK f \in [1..n -> U] : \A i, j \in 1..n : i < j => f[i] > f[j]
    BY <2>4
  <2> HIDE DEF n
  <2> DEFINE g == [i \in 1..(n + 1) |-> IF i = n + 1 THEN x ELSE f[i]]
  <2>6. g \in [1..(n + 1) -> T]
    BY <2>1, <2>2, <2>5
  <2>7. ASSUME NEW i \in 1..(n + 1), NEW j \in 1..(n + 1), i < j
        PROVE  g[i] > g[j]
    <3>0. i \in 1..n
      BY <2>2, <2>7
    <3>1. g[i] = f[i] /\ f[i] \in U /\ f[i] \in Nat
      <4>1. i # n + 1 /\ g[i] = f[i]
        BY <2>2, <3>0
      <4>2. f[i] \in U
        BY <2>5, <3>0
      <4> QED BY <4>1, <4>2
    <3>2. CASE j = n + 1
      <4>1. g[j] = x /\ x \in Nat /\ x <= f[i] /\ x # f[i]
        BY <2>1, <3>1, <3>2
      <4> QED BY <3>1, <4>1
    <3>3. CASE j # n + 1
      <4>1. j \in 1..n /\ g[j] = f[j]
        BY <2>2, <3>3
      <4> QED BY <2>5, <2>7, <3>0, <3>1, <4>1
    <3> QED BY <3>2, <3>3
  <2>8. Ordered(T)
    <3> HIDE DEF g
    <3> QED BY <2>3, <2>6, <2>7
  <2> QED BY <2>8
<1>3. S \in P
  <2> HIDE DEF P
  <2> QED BY <1>1, <1>2, SubsetInduction
<1> QED
  BY <1>3

\* The order holds each dump of the set once, and no other.
LEMMA DescendingFacts ==
  ASSUME NEW S \in SUBSET Nat, IsFiniteSet(S)
  PROVE  /\ Cardinality(S) \in Nat
         /\ Descending(S) \in Seq(S) /\ Len(Descending(S)) = Cardinality(S)
         /\ ToSet(Descending(S)) = S
         /\ \A i, j \in 1..Cardinality(S) : i < j => Descending(S)[i] > Descending(S)[j]
<1> DEFINE n == Cardinality(S)
           f == Descending(S)
<1>1. n \in Nat
  BY FS_CardinalityType
<1>2. f \in [1..n -> S] /\ \A i, j \in 1..n : i < j => f[i] > f[j]
  BY DescendingExists DEF Descending
<1>. HIDE DEF f, n
<1>3. ASSUME NEW i \in 1..n, NEW j \in 1..n, f[i] = f[j] PROVE i = j
  <2>1. f[i] \in Nat
    BY <1>2
  <2>2. ~(i < j) /\ ~(j < i)
    BY <1>2, <1>3, <2>1
  <2> QED BY <1>1, <2>2
<1>4. f \in Injection(1..n, S)
  BY <1>2, <1>3 DEF Injection, IsInjective
<1>5. Cardinality(1..n) = n
  BY <1>1, FS_Interval
<1>6. f \in Surjection(1..n, S)
  BY <1>4, <1>5, FS_Injection DEF n
<1>7. ToSet(f) = S
  BY <1>2, <1>6 DEF Surjection, ToSet
<1>8. f \in Seq(S) /\ Len(f) = n
  BY <1>1, <1>2
<1> QED
  BY <1>1, <1>2, <1>7, <1>8 DEF f, n

\* What the statuses say of a dump that is to be removed.
Fits(c, status, d) ==
    /\ c.mode \in {"recent", "before"} => status[d] = "done"
    /\ c.mode = "recent" =>
         Cardinality({e \in DOMAIN status : status[e] = "done" /\ e > d}) >= c.n
    /\ c.mode = "failed" => status[d] = "failed"

\* What is left of a sequence behind its first k elements.
LEMMA TailOf ==
  ASSUME NEW S, NEW s \in Seq(S), NEW k \in Nat
  PROVE  /\ SubSeq(s, k + 1, Len(s)) \in Seq(S)
         /\ \A i \in 1..Len(SubSeq(s, k + 1, Len(s))) :
              /\ SubSeq(s, k + 1, Len(s))[i] = s[k + i]
              /\ k + i \in 1..Len(s)
<1> DEFINE n == Len(s)
           tail == SubSeq(s, k + 1, n)
<1>1. n \in Nat /\ k + 1 \in Int /\ \A i \in 1..n : s[i] \in S
  OBVIOUS
<1> HIDE DEF n
<1>2. /\ tail \in Seq(S)
      /\ Len(tail) = IF k + 1 <= n THEN n - (k + 1) + 1 ELSE 0
      /\ \A i \in 1..n - (k + 1) + 1 : tail[i] = s[k + 1 + i - 1]
  <2>1. \A i \in k + 1..n : s[i] \in S
    BY <1>1
  <2> QED BY <1>1, <2>1, SubSeqProperties
<1> HIDE DEF tail
<1>3. \A i \in 1..Len(tail) : i \in 1..n - (k + 1) + 1 /\ k + 1 + i - 1 = k + i /\ k + i \in 1..n
  BY <1>1, <1>2
<1>4. \A i \in 1..Len(tail) : tail[i] = s[k + i]
  BY <1>2, <1>3
<1> QED BY <1>2, <1>3, <1>4 DEF n, tail

\* Which dumps a delete decides to remove: of those it retains some, the ones
\* with enough valid dumps after them; else those of the status it is about.
LEMMA DoomedFacts ==
  ASSUME NEW L \in SUBSET Nat, IsFiniteSet(L), NEW c \in Commands, c.mode # "id",
         NEW status, DOMAIN status = L
  PROVE  /\ Doomed(c, status) \in Seq(L)
         /\ \A d \in ToSet(Doomed(c, status)) : Fits(c, status, d)
<1> DEFINE Of(s) == {d \in DOMAIN status : status[d] = s}
           valid == Descending(Of("done"))
           old == {d \in Of("done") : d < c.n}
<1>1. c.mode \in {"recent", "before", "failed", "unsafe"} /\ c.n \in Nat
  BY RetentionAssumption
<1>2. /\ Of("done") \in SUBSET L /\ Of("failed") \in SUBSET L
      /\ Of("unknown-or-failed") \in SUBSET L /\ old \in SUBSET L
  OBVIOUS
<1>3. ASSUME NEW T \in SUBSET L
      PROVE  /\ IsFiniteSet(T) /\ Descending(T) \in Seq(T) /\ Descending(T) \in Seq(L)
             /\ ToSet(Descending(T)) = T
             /\ Cardinality(T) \in Nat /\ Len(Descending(T)) = Cardinality(T)
             /\ \A i, j \in 1..Cardinality(T) : i < j => Descending(T)[i] > Descending(T)[j]
  <2>1. IsFiniteSet(T) /\ T \in SUBSET Nat
    BY FS_Subset
  <2>2. /\ Cardinality(T) \in Nat
        /\ Descending(T) \in Seq(T) /\ Len(Descending(T)) = Cardinality(T)
        /\ ToSet(Descending(T)) = T
        /\ \A i, j \in 1..Cardinality(T) : i < j => Descending(T)[i] > Descending(T)[j]
    BY <2>1, DescendingFacts
  <2>3. Descending(T) \in Seq(L)
    BY <2>2, SeqOfSubset
  <2> QED BY <2>1, <2>2, <2>3
<1>4. CASE c.mode = "recent"
  <2> DEFINE n == Len(valid)
  <2>1. /\ valid \in Seq(L) /\ n \in Nat /\ ToSet(valid) = Of("done")
        /\ \A i, j \in 1..n : i < j => valid[i] > valid[j]
    BY <1>2, <1>3
  <2>2. Doomed(c, status) = SubSeq(valid, c.n + 1, n)
    BY <1>4 DEF Doomed
  <2>. HIDE DEF valid
  <2>3. /\ SubSeq(valid, c.n + 1, n) \in Seq(L)
        /\ \A i \in 1..Len(SubSeq(valid, c.n + 1, n)) :
             /\ SubSeq(valid, c.n + 1, n)[i] = valid[c.n + i]
             /\ c.n + i \in 1..n
    BY <1>1, <2>1, TailOf DEF n
  <2>4. ASSUME NEW k \in (c.n + 1)..n
        PROVE  /\ status[valid[k]] = "done"
               /\ Cardinality({e \in L : status[e] = "done" /\ e > valid[k]}) >= c.n
    <3> DEFINE later == {e \in L : status[e] = "done" /\ e > valid[k]}
               f == [i \in 1..c.n |-> valid[i]]
    <3>1. k \in 1..n
      BY <1>1, <2>1, <2>4
    <3>2. \A i \in 1..n : valid[i] \in Of("done") /\ valid[i] \in Nat
      <4>1. \A i \in 1..n : valid[i] \in ToSet(valid)
        BY <2>1 DEF ToSet
      <4> QED BY <1>2, <2>1, <4>1
    <3>3. ASSUME NEW i \in 1..c.n
          PROVE  i \in 1..n /\ i < k /\ valid[i] \in later
      <4>1. i \in 1..n /\ i < k
        BY <1>1, <2>1, <2>4
      <4>2. valid[i] > valid[k]
        BY <2>1, <3>1, <4>1
      <4> QED BY <3>2, <4>1, <4>2
    <3>4. ASSUME NEW i \in 1..c.n, NEW j \in 1..c.n, f[i] = f[j] PROVE i = j
      <4>1. i \in 1..n /\ j \in 1..n /\ valid[i] = valid[j]
        BY <3>3, <3>4
      <4>2. valid[i] \in Nat /\ ~(valid[i] > valid[j]) /\ ~(valid[j] > valid[i])
        BY <3>2, <4>1
      <4>3. ~(i < j) /\ ~(j < i)
        BY <2>1, <4>1, <4>2
      <4> QED BY <1>1, <4>3
    <3>5. f \in Injection(1..c.n, later)
      <4>1. f \in [1..c.n -> later]
        BY <3>3
      <4> QED BY <3>4, <4>1 DEF Injection, IsInjective
    <3>6. IsFiniteSet(later) /\ later \in SUBSET L
      BY FS_Subset
    <3>7. Cardinality(1..c.n) = c.n
      BY <1>1, FS_Interval
    <3>8. c.n <= Cardinality(later) /\ Cardinality(later) \in Nat
      BY <3>5, <3>6, <3>7, FS_Injection, FS_CardinalityType
    <3> QED BY <1>1, <3>1, <3>2, <3>8
  <2>5. ASSUME NEW d \in ToSet(Doomed(c, status))
        PROVE  /\ status[d] = "done"
               /\ Cardinality({e \in L : status[e] = "done" /\ e > d}) >= c.n
    <3>1. PICK i \in 1..Len(SubSeq(valid, c.n + 1, n)) :
            d = SubSeq(valid, c.n + 1, n)[i]
      BY <2>2, <2>3 DEF ToSet
    <3>2. d = valid[c.n + i] /\ c.n + i \in (c.n + 1)..n
      BY <1>1, <2>1, <2>3, <3>1
    <3> QED BY <2>4, <3>2
  <2> QED BY <1>4, <2>2, <2>3, <2>5 DEF Fits
<1>5. CASE c.mode = "before"
  <2>1. Doomed(c, status) = Descending(old)
    BY <1>5 DEF Doomed
  <2> QED BY <1>2, <1>3, <1>5, <2>1 DEF Fits
<1>6. CASE c.mode = "failed"
  <2>1. Doomed(c, status) = Descending(Of("failed"))
    BY <1>6 DEF Doomed
  <2> QED BY <1>2, <1>3, <1>6, <2>1 DEF Fits
<1>7. CASE c.mode = "unsafe"
  <2>1. Doomed(c, status) = Descending(Of("failed")) \o Descending(Of("unknown-or-failed"))
    BY <1>7 DEF Doomed
  <2>2. Descending(Of("failed")) \in Seq(L) /\ Descending(Of("unknown-or-failed")) \in Seq(L)
    BY <1>2, <1>3
  <2>3. Doomed(c, status) \in Seq(L)
    BY <2>1, <2>2
  <2> QED BY <1>7, <2>3 DEF Fits
<1> QED
  BY <1>1, <1>4, <1>5, <1>6, <1>7

-----------------------------------------------------------------------------
(* The delete *)

\* A delete takes files away and lets the run go on where it is.
LEMMA DeleteFrame ==
  ASSUME Delete
  PROVE  /\ UNCHANGED <<producerVars, wpc, held, stateVars, stage>>
         /\ UNCHANGED <<rpc, seenAge, seenDead>>
         /\ verdict' = verdict \/ (rpc = "idle" /\ verdict' = "none")
         /\ DeleteBatch \/ UNCHANGED storageVars
<1>1. CASE StartDelete
  BY <1>1 DEF StartDelete, vars, poolVars, storeVars, producerVars, stateVars, storageVars
<1>2. CASE Decide \/ BatchesEnd \/ DeleteFails \/ DeleteEnds
  BY <1>2 DEF Decide, BatchesEnd, DeleteFails, DeleteEnds, allVars, rvars, vars, poolVars,
              storeVars, producerVars, stateVars, storageVars
<1>3. CASE RemoveDump
  BY <1>3 DEF RemoveDump, allVars, rvars, vars, poolVars, storeVars, producerVars,
              stateVars, storageVars
<1>4. CASE DeleteBatch
  BY <1>4 DEF DeleteBatch, rvars, poolVars, producerVars, stateVars
<1> QED
  BY <1>1, <1>2, <1>3, <1>4 DEF Delete

\* A batch removes files of the dump that was taken, while no one reads.
LEMMA BatchFacts ==
  ASSUME DeleteBatch
  PROVE  /\ cpc = "batches" /\ rpc = "idle"
         /\ stored' \subseteq stored
         /\ (hb' = hb /\ age' = age) \/ (hb' = "absent" /\ age' = 0)
         /\ md' = md \/ md' = "absent"
         /\ tocFile' = tocFile \/ tocFile' = "absent"
         /\ toc' = toc \/ toc' = {}
  BY DEF DeleteBatch

LEMMA DeleteStorageStep ==
  ASSUME TypeOK, HbInv, AtomicInv, ReaderInv, Delete
  PROVE  TypeOK' /\ HbInv' /\ AtomicInv' /\ ReaderInv'
<1>1. /\ UNCHANGED <<order, noBlobs, pos, ppc, tasks, closed, wpc, held>>
      /\ UNCHANGED <<failing, done, cancelled, plan, hpc, stage>>
      /\ UNCHANGED <<rpc, seenAge, seenDead>>
      /\ verdict' = verdict \/ (rpc = "idle" /\ verdict' = "none")
  BY DeleteFrame DEF producerVars, stateVars
<1>2. /\ stored' \subseteq stored
      /\ (hb' = hb /\ age' = age) \/ (hb' = "absent" /\ age' = 0 /\ rpc = "idle")
      /\ md' = md \/ md' = "absent"
      /\ tocFile' = tocFile \/ tocFile' = "absent"
      /\ toc' = toc \/ toc' = {}
  <2>1. CASE DeleteBatch
    BY <2>1, BatchFacts
  <2>2. CASE UNCHANGED storageVars
    BY <2>2 DEF storageVars
  <2> QED BY <2>1, <2>2, DeleteFrame
<1>3. TypeOK'
  <2>1. ProducerType' /\ WorkerType' /\ StateType'
    BY <1>1 DEF TypeOK, ProducerType, WorkerType, StateType
  <2>2. age' \in 0..ExpiredAge
    BY <1>2 DEF TypeOK, StorageType, ExpiredAge
  <2>3. StorageType'
    BY <1>1, <1>2, <2>2 DEF TypeOK, StorageType
  <2> QED BY <2>1, <2>3 DEF TypeOK
<1>4. HbInv' /\ AtomicInv'
  BY <1>1, <1>2 DEF HbInv, AtomicInv, HbAlive, InData
<1>5. ReaderInv'
  BY <1>1, <1>2 DEF ReaderInv, EndIsSeen, Lost, HbOver, Live, Expired
<1> QED
  BY <1>3, <1>4, <1>5

\* A reason to take a dump stays as long as the verdict on this dump does, if
\* it is among those the delete has listed.
LEMMA CondemnedKept ==
  ASSUME UNCHANGED <<cmd, listed>>, This \in listed => verdict' = verdict,
         NEW d, Condemned(d)
  PROVE  Condemned(d)'
<1>1. \A e \in listed : Valid(e)' = Valid(e)
  BY DEF Valid
<1>2. {e \in listed : Valid(e) /\ e > d}' = {e \in listed : Valid(e) /\ e > d}
  BY <1>1
<1> QED
  BY <1>1, <1>2 DEF Condemned

LEMMA QueueFacts ==
  ASSUME NEW S, NEW s \in Seq(S), s # <<>>
  PROVE  /\ Head(s) \in ToSet(s) /\ Head(s) \in S
         /\ Tail(s) \in Seq(S) /\ ToSet(Tail(s)) \subseteq ToSet(s)
<1>1. /\ Len(s) \in Nat \ {0} /\ Head(s) = s[1] /\ Tail(s) \in Seq(S)
      /\ Len(Tail(s)) = Len(s) - 1
      /\ \A i \in 1..Len(Tail(s)) : Tail(s)[i] = s[i + 1] /\ i + 1 \in 1..Len(s)
      /\ DOMAIN s = 1..Len(s) /\ DOMAIN Tail(s) = 1..Len(Tail(s))
      /\ s[1] \in S
  OBVIOUS
<1>2. Head(s) \in ToSet(s)
  BY <1>1 DEF ToSet
<1>3. ToSet(Tail(s)) \subseteq ToSet(s)
  BY <1>1 DEF ToSet
<1> QED
  BY <1>1, <1>2, <1>3

\* The statuses a delete decides on are those of the dumps it has listed.
LEMMA DecideFacts ==
  ASSUME DeleteType, DeleteInv, Decide
  PROVE  /\ doomed' \in Seq(listed)
         /\ \A d \in ToSet(doomed') : Condemned(d)
<1> DEFINE status == [d \in listed |-> IF d = This THEN verdict ELSE Other[d]]
<1>1. cpc = "status" /\ cmd \in Commands /\ cmd.mode # "id" /\ doomed' = Doomed(cmd, status)
  BY DEF Decide, DeleteType, DeleteInv
<1>2. listed \in SUBSET Nat /\ IsFiniteSet(listed)
  <2>1. DOMAIN Other \cup {This} \in SUBSET Nat /\ IsFiniteSet(DOMAIN Other \cup {This})
    BY RetentionAssumption, FS_AddElement
  <2> QED BY <2>1, FS_Subset DEF DeleteType
<1>3. DOMAIN status = listed
  OBVIOUS
<1>4. \A d \in listed : (status[d] = "done" <=> Valid(d))
  BY DEF Valid
<1>5. ASSUME NEW d
      PROVE  {e \in listed : status[e] = "done" /\ e > d} = {e \in listed : Valid(e) /\ e > d}
  BY <1>4
<1>. HIDE DEF status
<1>6. /\ Doomed(cmd, status) \in Seq(listed)
      /\ \A d \in ToSet(Doomed(cmd, status)) : Fits(cmd, status, d)
  BY <1>1, <1>2, <1>3, DoomedFacts
<1>7. ASSUME NEW d \in ToSet(doomed') PROVE Condemned(d)
  <2>1. d \in listed
    BY <1>1, <1>6, <1>7 DEF ToSet
  <2>2. cmd.mode = "failed" => IF d = This THEN verdict = "failed" ELSE Other[d] = "failed"
    BY <1>1, <1>6, <1>7, <2>1 DEF Fits, status
  <2>3. cmd.mode \in {"recent", "before"} => Valid(d)
    BY <1>1, <1>4, <1>6, <1>7, <2>1 DEF Fits
  <2>4. cmd.mode = "recent" => Cardinality({e \in listed : Valid(e) /\ e > d}) >= cmd.n
    BY <1>1, <1>3, <1>5, <1>6, <1>7 DEF Fits
  <2> QED BY <1>1, <2>1, <2>2, <2>3, <2>4 DEF Condemned
<1> QED
  BY <1>1, <1>6, <1>7

LEMMA DeleteTypeStep ==
  ASSUME DeleteType, DeleteInv, Delete
  PROVE  DeleteType'
<1>. USE DEF DeleteType
<1>1. CASE StartDelete
  <2>1. PICK c \in Commands :
          LET dirs == present \cup (IF Listed THEN {This} ELSE {}) IN
          /\ cmd' = c
          /\ listed' = dirs
          /\ cpc' = IF c.mode # "id" THEN "status" ELSE IF c.id \in dirs THEN "remove" ELSE "error"
          /\ doomed' = IF c.mode = "id" /\ c.id \in dirs THEN <<c.id>> ELSE <<>>
    BY <1>1 DEF StartDelete
  <2>2. present' = present /\ walked' = walked /\ walked = {}
    BY <1>1 DEF StartDelete
  <2>3. listed' \subseteq DOMAIN Other \cup {This}
    BY <2>1
  <2>4. doomed' \in Seq(listed')
    <3>1. CASE c.mode = "id" /\ c.id \in listed'
      <4>1. doomed' = <<c.id>>
        BY <2>1, <3>1
      <4> QED BY <3>1, <4>1
    <3>2. CASE ~(c.mode = "id" /\ c.id \in listed')
      <4>1. doomed' = <<>>
        BY <2>1, <3>2
      <4> QED BY <4>1
    <3> QED BY <3>1, <3>2
  <2> QED BY <2>1, <2>2, <2>3, <2>4
<1>2. CASE Decide
  BY <1>2, DecideFacts DEF Decide
<1>3. CASE RemoveDump
  BY <1>3, QueueFacts DEF RemoveDump
<1>4. CASE DeleteBatch
  BY <1>4 DEF DeleteBatch
<1>5. CASE BatchesEnd
  <2>1. Tail(doomed) \in Seq(listed)
    BY <1>5, QueueFacts DEF BatchesEnd, DeleteInv
  <2> QED BY <1>5, <2>1 DEF BatchesEnd
<1>6. CASE DeleteFails
  BY <1>6 DEF DeleteFails
<1>7. CASE DeleteEnds
  BY <1>7 DEF DeleteEnds
<1> QED
  BY <1>1, <1>2, <1>3, <1>4, <1>5, <1>6, <1>7 DEF Delete

\* A delete takes a dump only for the reason it was listed to be removed for,
\* and keeps the others.
LEMMA DeleteInvStep ==
  ASSUME TypeOK, DeleteType, DeleteInv, ReaderInv, Delete
  PROVE  DeleteInv'
<1>0. /\ stage' = stage /\ rpc' = rpc
      /\ \A d : Here(d) <=> IF d = This THEN taken = "no" ELSE d \in present
  BY DeleteFrame DEF Here
<1>1. CASE StartDelete
  <2>1. /\ present = DOMAIN Other /\ taken = "no" /\ rpc = "idle"
        /\ UNCHANGED <<present, taken>>
    BY <1>1 DEF StartDelete, DeleteInv
  <2>2. \A d \in DOMAIN Other \cup {This} : Here(d)'
    BY <2>1 DEF Here
  <2>3. PICK c \in Commands :
          LET dirs == present \cup (IF Listed THEN {This} ELSE {}) IN
          /\ cmd' = c
          /\ listed' = dirs
          /\ cpc' = IF c.mode # "id" THEN "status" ELSE IF c.id \in dirs THEN "remove" ELSE "error"
          /\ doomed' = IF c.mode = "id" /\ c.id \in dirs THEN <<c.id>> ELSE <<>>
    BY <1>1 DEF StartDelete
  <2>4. CASE c.mode # "id"
    BY <1>0, <2>1, <2>2, <2>3, <2>4 DEF DeleteInv, ToSet
  <2>5. CASE c.mode = "id"
    <3>1. ToSet(doomed') \subseteq listed' /\ ToSet(doomed') \subseteq {c.id}
      BY <2>3, <2>5 DEF ToSet
    <3>2. \A d \in ToSet(doomed') : Condemned(d)'
      BY <2>3, <2>5, <3>1 DEF Condemned
    <3> QED BY <1>0, <2>1, <2>2, <2>3, <2>5, <3>2 DEF DeleteInv
  <2> QED BY <2>4, <2>5
<1>2. ASSUME UNCHANGED <<cmd, listed, verdict>>, cpc \notin {"idle", "status"},
             cpc' \in {"remove", "batches", "ended", "error"},
             ToSet(doomed') \subseteq ToSet(doomed),
             \A d \in DOMAIN Other \cup {This} : Here(d)' \/ ~Here(d) \/ d \in ToSet(doomed),
             ~Spared \/ UNCHANGED <<present, taken>>,
             taken' = taken \/ (~Live /\ taken' = stage) \/ (Live /\ taken' = "live"),
             taken' = taken \/ This \in ToSet(doomed),
             cpc' = "batches" => doomed' # <<>> /\ Head(doomed') = This /\ taken' # "no"
      PROVE  DeleteInv'
  <2>1. \A d \in DOMAIN Other \cup {This} :
          ~Here(d)' \/ d \in ToSet(doomed') => Condemned(d)'
    <3>1. ASSUME NEW d \in DOMAIN Other \cup {This}, ~Here(d)' \/ d \in ToSet(doomed')
          PROVE  Condemned(d)'
      <4>1. Condemned(d)
        BY <1>2, <3>1 DEF DeleteInv
      <4> QED BY <1>2, <4>1, CondemnedKept
    <3> QED BY <3>1
  <2>2. cmd.mode \in {"recent", "before"} => taken' \in {"no", "ok"}
    <3> SUFFICES ASSUME cmd.mode \in {"recent", "before"}, taken' # taken
                 PROVE  taken' = "ok"
      BY <1>2 DEF DeleteInv
    <3>1. Condemned(This)
      BY <1>2 DEF DeleteInv
    <3>2. stage = "ok"
      BY <3>1 DEF Condemned, Valid, ReaderInv
    <3> QED BY <1>2, <3>2 DEF Live
  <2>3. Spared => taken' = "no" /\ present' = DOMAIN Other
    BY <1>2 DEF DeleteInv
  <2>4. This \in listed => rpc' = "idle"
    BY <1>0, <1>2 DEF DeleteInv
  <2> QED BY <1>2, <2>1, <2>2, <2>3, <2>4 DEF DeleteInv, Spared
<1>3. CASE Decide
  <2>1. /\ cpc = "status" /\ cpc' = "remove" /\ (This \in listed => rpc = "idle")
        /\ UNCHANGED <<allVars, present, cmd, listed, walked, taken>>
    BY <1>3 DEF Decide
  <2>2. /\ present = DOMAIN Other /\ taken = "no"
        /\ UNCHANGED <<verdict, rpc>>
    BY <2>1 DEF DeleteInv, allVars, rvars
  <2>3. \A d \in ToSet(doomed') : Condemned(d)
    BY <1>3, DecideFacts
  <2>4. \A d \in ToSet(doomed') : Condemned(d)'
    BY <2>1, <2>2, <2>3, CondemnedKept
  <2>5. \A d \in DOMAIN Other \cup {This} : Here(d)'
    BY <2>1, <2>2 DEF Here
  <2> QED BY <2>1, <2>2, <2>4, <2>5 DEF DeleteInv
<1>4. CASE RemoveDump
  <2> DEFINE d == Head(doomed)
  <2>1. /\ cpc = "remove" /\ doomed # <<>> /\ rpc = "idle"
        /\ UNCHANGED <<allVars, cmd, listed>>
    BY <1>4 DEF RemoveDump
  <2>2. verdict' = verdict
    BY <2>1 DEF allVars, rvars
  <2>3. d \in ToSet(doomed) /\ ToSet(Tail(doomed)) \subseteq ToSet(doomed)
    BY <2>1, QueueFacts DEF DeleteType
  <2>4. CASE Spared
    <3>1. doomed' = Tail(doomed) /\ UNCHANGED <<cpc, present, walked, taken>>
      BY <1>4, <2>4 DEF RemoveDump
    <3>2. \A e : Here(e)' = Here(e)
      BY <3>1 DEF Here
    <3> QED BY <1>2, <2>1, <2>2, <2>3, <3>1, <3>2
  <2>5. CASE ~Spared /\ d # This
    <3>1. /\ doomed' = Tail(doomed) /\ present' = present \ {d}
          /\ UNCHANGED <<cpc, walked, taken>>
      BY <1>4, <2>5 DEF RemoveDump
    <3>2. \A e : Here(e)' \/ ~Here(e) \/ e = d
      BY <3>1 DEF Here
    <3> QED BY <1>2, <2>1, <2>2, <2>3, <2>5, <3>1, <3>2
  <2>6. CASE ~Spared /\ d = This
    <3>1. /\ taken' = IF Live THEN "live" ELSE stage
          /\ cpc' = "batches" /\ UNCHANGED <<doomed, present>>
      BY <1>4, <2>6 DEF RemoveDump
    <3>2. \A e : Here(e)' \/ ~Here(e) \/ e = This
      BY <3>1 DEF Here
    <3>3. taken' # "no"
      BY <3>1 DEF TypeOK, StorageType
    <3> QED BY <1>2, <2>1, <2>2, <2>3, <2>6, <3>1, <3>2, <3>3
  <2> QED BY <2>4, <2>5, <2>6
<1>5. ASSUME UNCHANGED <<verdict, present, cmd, listed, taken>>,
             cpc \notin {"idle", "status"},
             cpc' \in {"remove", "batches", "ended", "error"},
             cpc' = "batches" => cpc = "batches" /\ doomed' = doomed,
             ToSet(doomed') \subseteq ToSet(doomed)
      PROVE  DeleteInv'
  <2>1. \A d : Here(d)' = Here(d)
    BY <1>5 DEF Here
  <2> QED BY <1>2, <1>5, <2>1 DEF DeleteInv
<1>6. CASE DeleteBatch
  BY <1>5, <1>6 DEF DeleteBatch, rvars
<1>7. CASE BatchesEnd
  <2>1. ToSet(Tail(doomed)) \subseteq ToSet(doomed)
    BY <1>7, QueueFacts DEF BatchesEnd, DeleteInv, DeleteType
  <2>2. verdict' = verdict
    BY <1>7 DEF BatchesEnd, allVars, rvars
  <2> QED BY <1>5, <1>7, <2>1, <2>2 DEF BatchesEnd
<1>8. CASE DeleteFails
  <2>1. ToSet(<<>>) = {}
    BY DEF ToSet
  <2>2. verdict' = verdict
    BY <1>8 DEF DeleteFails, allVars, rvars
  <2> QED BY <1>5, <1>8, <2>1, <2>2 DEF DeleteFails
<1>9. CASE DeleteEnds
  <2>1. verdict' = verdict
    BY <1>9 DEF DeleteEnds, allVars, rvars
  <2> QED BY <1>5, <1>9, <2>1 DEF DeleteEnds
<1> QED
  BY <1>1, <1>3, <1>4, <1>6, <1>7, <1>8, <1>9 DEF Delete

\* A delete by id has its dump still to remove, or the dump is gone, whatever
\* the flag says (IdInv): each step of the delete keeps it.
LEMMA IdInvStep ==
  ASSUME TypeOK, DeleteInv, IdInv, Delete
  PROVE  IdInv'
<1>. USE DEF IdInv
<1>1. CASE StartDelete
  BY <1>1 DEF StartDelete
<1>2. CASE Decide
  BY <1>2 DEF Decide, DeleteInv
<1>3. CASE RemoveDump
  <2>1. /\ cpc = "remove" /\ doomed # <<>> /\ UNCHANGED <<cmd, listed>>
        /\ cpc' \in {"remove", "batches"}
    BY <1>3 DEF RemoveDump
  <2> SUFFICES ASSUME cmd.mode = "id"
               PROVE  \/ doomed' = <<cmd.id>>
                      \/ doomed' = <<>> /\ ~Here(cmd.id)'
    BY <2>1
  <2>2. doomed = <<cmd.id>> /\ ~Spared
    BY <2>1 DEF Spared
  <2>3. Head(doomed) = cmd.id /\ Tail(doomed) = <<>>
    BY <2>2
  <2>4. CASE cmd.id # This
    BY <1>3, <2>1, <2>2, <2>3, <2>4 DEF RemoveDump, Here
  <2>5. CASE cmd.id = This
    BY <1>3, <2>2, <2>3, <2>5 DEF RemoveDump
  <2> QED BY <2>4, <2>5
<1>4. CASE DeleteBatch
  BY <1>4 DEF DeleteBatch, Here
<1>5. CASE BatchesEnd
  <2>1. /\ cpc = "batches" /\ cpc' = "remove" /\ doomed' = Tail(doomed)
        /\ UNCHANGED <<present, cmd, taken>>
    BY <1>5 DEF BatchesEnd
  <2>2. doomed # <<>> /\ Head(doomed) = This /\ taken # "no"
    BY <2>1 DEF DeleteInv
  <2> SUFFICES ASSUME cmd.mode = "id"
               PROVE  doomed' = <<>> /\ ~Here(cmd.id)'
    BY <2>1
  <2>3. doomed = <<cmd.id>>
    BY <2>1, <2>2
  <2> QED BY <2>1, <2>2, <2>3 DEF Here
<1>6. CASE DeleteFails
  BY <1>6 DEF DeleteFails
<1>7. CASE DeleteEnds
  BY <1>7 DEF DeleteEnds, Here
<1> QED
  BY <1>1, <1>2, <1>3, <1>4, <1>5, <1>6, <1>7 DEF Delete

\* The dump and the reader go on beside a delete without its ground changing.
LEMMA DeleteKept ==
  ASSUME DeleteType, DeleteInv, StatusNext, UNCHANGED dvars,
         cpc \notin {"idle", "status"} => rpc' = "idle"
  PROVE  DeleteType' /\ DeleteInv'
<1>1. UNCHANGED <<present, cmd, cpc, listed, doomed, walked, taken>>
  BY DEF dvars
<1>2. rpc = "idle" /\ rpc' = "idle" => verdict' = verdict
  <2>1. CASE Reader
    BY <2>1 DEF Reader, Stat, ReadLegacy, ReadContent, ReadMetadata
  <2>2. CASE UNCHANGED rvars
    BY <2>2 DEF rvars
  <2> QED BY <2>1, <2>2 DEF StatusNext
<1>3. DeleteType'
  BY <1>1 DEF DeleteType
<1>4. \A d : Here(d)' = Here(d)
  BY <1>1 DEF Here
<1>5. CASE cpc \in {"idle", "status"}
  <2>1. ToSet(doomed) = {}
    BY <1>5 DEF DeleteInv, ToSet
  <2>2. \A d \in DOMAIN Other \cup {This} : Here(d)
    BY <1>5 DEF DeleteInv, Here
  <2> QED BY <1>1, <1>3, <1>4, <1>5, <2>1, <2>2 DEF DeleteInv
<1>6. CASE cpc \notin {"idle", "status"}
  <2>1. This \in listed => rpc = "idle" /\ rpc' = "idle" /\ verdict' = verdict
    BY <1>2, <1>6 DEF DeleteInv
  <2>2. \A d : Condemned(d) => Condemned(d)'
    BY <1>1, <2>1, CondemnedKept
  <2> QED BY <1>1, <1>3, <1>4, <1>6, <2>1, <2>2 DEF DeleteInv, Spared
<1> QED
  BY <1>3, <1>5, <1>6

-----------------------------------------------------------------------------
(* The invariant *)

\* No one reads a dump from which files were removed.
LEMMA ReadsWhole ==
  ASSUME DeleteInv, rpc # "idle"
  PROVE  taken = "no"
<1> SUFFICES ASSUME taken # "no" PROVE FALSE
  OBVIOUS
<1>1. ~Here(This)
  BY DEF Here
<1>2. This \in listed
  BY <1>1 DEF DeleteInv, Condemned
<1> QED
  BY <1>2 DEF DeleteInv

LEMMA InvariantInit == RetentionInit => RetentionInv
<1> SUFFICES ASSUME RetentionInit PROVE RetentionInv
  OBVIOUS
<1>1. Init /\ StatusInit
  BY DEF RetentionInit, StatusInit
<1>2. StatusTypeOK
  <2>1. seenAge \in 0..ExpiredAge
    BY <1>1 DEF StatusInit, ExpiredAge
  <2> QED BY <1>1, <2>1, TypeInit DEF StatusInit, StatusTypeOK
<1>3. DumpInv
  BY <1>1, ReturnInit, TaskInit, StageInit DEF DumpInv
<1>4. DeleteType
  BY DEF RetentionInit, DeleteType
<1>5. DeleteInv
  <2>1. \A d \in DOMAIN Other \cup {This} : Here(d) /\ d \notin ToSet(doomed)
    BY DEF RetentionInit, Here, ToSet
  <2> QED BY <2>1 DEF RetentionInit, DeleteInv
<1>6. IdInv
  BY DEF RetentionInit, IdInv
<1> QED
  BY <1>1, <1>2, <1>3, <1>4, <1>5, <1>6, HbInit, ReaderInit DEF RetentionInv

LEMMA StatusStep ==
  ASSUME StatusTypeOK, rpc # "idle" => DumpInv, HbInv, AtomicInv, ReaderInv, StatusNext
  PROVE  /\ StatusTypeOK' /\ HbInv' /\ AtomicInv' /\ ReaderInv'
         /\ DumpInv => DumpInv'
<1>. USE DEF StatusTypeOK
<1>1. [Next]_vars /\ (Reader \/ UNCHANGED rvars)
  BY DEF StatusNext, Reader, Stat, ReadLegacy, ReadContent, ReadMetadata
<1>2. TypeOK'
  BY <1>1, ProducerTypeStep, WorkerTypeStep, StateTypeStep, StorageTypeStep DEF TypeOK
<1>3. HbInv' /\ AtomicInv'
  BY <1>1, HbStep
<1>4. DumpInv => DumpInv'
  BY <1>1, ReturnStep, TaskStep, StageStep DEF DumpInv
<1>5. ReaderInv'
  BY <1>1, ReaderStep, ReaderDumpStep
<1>6. StatusTypeOK'
  <2>1. CASE UNCHANGED rvars
    BY <1>2, <2>1 DEF rvars
  <2>2. CASE Stat
    BY <1>2, <2>2 DEF Stat, TypeOK, StorageType
  <2>3. CASE ReadLegacy \/ ReadContent \/ ReadMetadata
    BY <1>2, <2>3 DEF ReadLegacy, ReadContent, ReadMetadata, Return
  <2> QED BY <1>1, <2>1, <2>2, <2>3 DEF Reader
<1> QED
  BY <1>3, <1>4, <1>5, <1>6

LEMMA RetentionStep ==
  ASSUME RetentionInv, [RetentionNext]_retentionVars
  PROVE  RetentionInv'
<1>. USE DEF RetentionInv
<1>1. rpc # "idle" => DumpInv
  BY ReadsWhole
<1>2. CASE Delete
  <2>1. TypeOK' /\ HbInv' /\ AtomicInv' /\ ReaderInv'
    BY <1>2, DeleteStorageStep DEF StatusTypeOK
  <2>2. StatusTypeOK'
    BY <1>2, <2>1, DeleteFrame DEF StatusTypeOK
  <2>3. DeleteType' /\ DeleteInv' /\ IdInv'
    BY <1>2, DeleteTypeStep, DeleteInvStep, IdInvStep DEF StatusTypeOK
  <2>4. taken' = "no" => DumpInv'
    <3> SUFFICES ASSUME taken' = "no" PROVE DumpInv'
      OBVIOUS
    <3>1. taken = "no"
      <4>1. CASE RemoveDump
        BY <4>1 DEF RemoveDump, StatusTypeOK, TypeOK, StorageType
      <4>2. CASE ~RemoveDump
        BY <1>2, <4>2 DEF Delete, StartDelete, Decide, DeleteBatch, BatchesEnd, DeleteFails,
                          DeleteEnds
      <4> QED BY <4>1, <4>2
    <3>2. ~DeleteBatch
      BY <3>1 DEF DeleteBatch, DeleteInv
    <3>3. UNCHANGED vars
      BY <1>2, <3>2, DeleteFrame
      DEF vars, poolVars, storeVars, producerVars, stateVars, storageVars
    <3>4. [Next]_vars
      BY <3>3
    <3> QED BY <3>1, <3>4, ReturnStep, TaskStep, StageStep DEF DumpInv, StatusTypeOK
  <2> QED BY <2>1, <2>2, <2>3, <2>4
<1>3. CASE StatusNext /\ UNCHANGED dvars /\ (cpc \notin {"idle", "status"} => rpc' = "idle")
  <2>1. taken' = taken
    BY <1>3 DEF dvars
  <2>2. IdInv'
    BY <1>3 DEF dvars, IdInv, Here
  <2> QED BY <1>1, <1>3, <2>1, <2>2, StatusStep, DeleteKept
<1>4. CASE UNCHANGED retentionVars
  <2>1. UNCHANGED vars /\ UNCHANGED rvars /\ UNCHANGED dvars
    BY <1>4 DEF retentionVars, allVars
  <2>2. [Next]_vars
    BY <2>1
  <2>3. TypeOK' /\ HbInv' /\ AtomicInv' /\ (DumpInv => DumpInv') /\ ReaderInv'
    BY <2>1, <2>2, ProducerTypeStep, WorkerTypeStep, StateTypeStep, StorageTypeStep, HbStep,
       ReturnStep, TaskStep, StageStep, ReaderDumpStep
    DEF TypeOK, DumpInv, StatusTypeOK
  <2>4. StatusTypeOK'
    BY <2>1, <2>3 DEF StatusTypeOK, rvars
  <2>5. UNCHANGED <<present, cmd, cpc, listed, doomed, walked, taken, rpc, verdict>>
    BY <2>1 DEF dvars, rvars
  <2>6. DeleteType'
    BY <2>5 DEF DeleteType
  <2>7. DeleteInv'
    <3>1. \A d : (Here(d)' = Here(d)) /\ (Condemned(d) => Condemned(d)')
      BY <2>5, CondemnedKept DEF Here
    <3> QED BY <2>5, <3>1 DEF DeleteInv, Spared
  <2>8. IdInv'
    BY <2>5 DEF IdInv, Here
  <2> QED BY <2>3, <2>4, <2>5, <2>6, <2>7, <2>8
<1> QED
  BY <1>2, <1>3, <1>4 DEF RetentionNext

-----------------------------------------------------------------------------
(* Theorems *)

\* Through every interleaving of a dump, a reader and a delete, with crashes
\* and failed puts and removals: RetentionInv.
THEOREM RetentionInvariant == RetentionSpec => []RetentionInv
<1>1. RetentionInv /\ [RetentionNext]_retentionVars => RetentionInv'
  BY RetentionStep
<1> QED
  BY InvariantInit, <1>1, PTL DEF RetentionSpec

\* The types of the reader and of the delete; a delete is to remove only what
\* it has listed.
THEOREM RetentionTypeCorrect == RetentionSpec => []RetentionTypeOK
<1>1. RetentionInv => RetentionTypeOK
  <2> SUFFICES ASSUME RetentionInv PROVE RetentionTypeOK
    OBVIOUS
  <2>1. StatusTypeOK /\ DeleteType
    BY DEF RetentionInv
  <2>2. ToSet(doomed) \subseteq listed
    BY <2>1 DEF DeleteType, ToSet
  <2> QED BY <2>1, <2>2 DEF DeleteType, RetentionTypeOK
<1> QED
  BY <1>1, RetentionInvariant, PTL

\* A dump that list-dumps reports "done", while it runs or after it, has ended
\* with success and has the data of every object, unless files of it were
\* removed.
THEOREM RetainedComplete == RetentionSpec => []RetainedIsComplete
<1>1. RetentionInv => RetainedIsComplete
  <2> SUFFICES ASSUME RetentionInv, taken = "no", verdict = "done"
               PROVE  /\ stage = "ok"
                      /\ \A o \in Elems(order) : HasTask(o) /\ HasData(o) => o \in stored
    BY DEF RetainedIsComplete, DoneIsComplete
  <2>1. stage = "ok" /\ DumpInv
    BY DEF RetentionInv, ReaderInv
  <2> QED BY <2>1 DEF DumpInv, StageInv
<1> QED
  BY <1>1, RetentionInvariant, PTL

\* In a storage that shows only complete objects a dump reported "failed"
\* never succeeds later, whatever its goroutines still do.
THEOREM FailedStays ==
  ASSUME AtomicPut
  PROVE  RetentionSpec => []FailedIsFinal
<1>1. RetentionInv => FailedIsFinal
  BY DEF RetentionInv, ReaderInv, FailedIsFinal, Lost
<1> QED
  BY <1>1, RetentionInvariant, PTL

\* A dump that was over, with its heartbeat old, when a reading began is
\* reported as what it is: "done" exactly if it succeeded.
THEOREM EndSeen == RetentionSpec => []EndIsSeen
<1>1. RetentionInv => EndIsSeen
  BY DEF RetentionInv, ReaderInv
<1> QED
  BY <1>1, RetentionInvariant, PTL

\* What a delete that has ended has kept, for every number of dumps and every
\* number to retain.
THEOREM DeleteKeeps ==
  ASSUME AtomicPut
  PROVE  RetentionSpec => []RetentionKeeps
<1>1. RetentionInv => RetentionKeeps
  <2> SUFFICES ASSUME RetentionInv, cpc = "ended" PROVE RetentionKeeps
    BY DEF RetentionKeeps
  <2>1. /\ cmd \in Commands /\ listed \subseteq DOMAIN Other \cup {This}
        /\ DeleteInv /\ ReaderInv
    BY DEF RetentionInv, DeleteType
  <2>2. ASSUME NEW d \in DOMAIN Other \cup {This}, ~Here(d) PROVE Condemned(d)
    BY <2>1, <2>2 DEF DeleteInv
  <2>3. \A d \in DOMAIN Other : d # This
    BY RetentionAssumption
  <2>4. /\ Spared => \A d \in listed : Here(d)
        /\ cmd.mode = "id" => \A d \in listed : Here(d) <=> d # cmd.id
    <3>1. Spared => \A d \in listed : Here(d)
      BY <2>1 DEF DeleteInv, Here
    <3>2. cmd.mode = "id" => ~Here(cmd.id)
      BY DEF RetentionInv, IdInv
    <3> QED BY <2>1, <2>2, <3>1, <3>2 DEF Condemned
  <2>5. ASSUME cmd.mode = "recent", NEW d \in listed,
               Cardinality({e \in listed : Valid(e) /\ e > d}) < cmd.n
        PROVE  Here(d)
    <3> DEFINE later == {e \in listed : Valid(e) /\ e > d}
    <3>1. IsFiniteSet(listed)
      <4>1. IsFiniteSet(DOMAIN Other \cup {This})
        BY RetentionAssumption, FS_AddElement
      <4> QED BY <2>1, <4>1, FS_Subset
    <3>2. Cardinality(later) \in Nat
      BY <3>1, FS_Subset, FS_CardinalityType
    <3>3. cmd.n \in Nat
      BY <2>1, RetentionAssumption
    <3>4. ~(Cardinality(later) >= cmd.n)
      <4> HIDE DEF later
      <4>1. Cardinality(later) < cmd.n
        BY <2>5 DEF later
      <4> QED BY <3>2, <3>3, <4>1
    <3> QED BY <2>1, <2>2, <2>5, <3>4 DEF Condemned
  <2>6. ASSUME cmd.mode = "failed"
        PROVE  /\ taken # "no" => stage # "ok"
               /\ \A d \in DOMAIN Other : Other[d] # "failed" => Here(d)
    <3>1. taken # "no" => stage # "ok"
      <4> SUFFICES ASSUME taken # "no" PROVE stage # "ok"
        OBVIOUS
      <4>1. Condemned(This)
        BY <2>2 DEF Here
      <4>2. Lost
        BY <2>1, <2>6, <4>1 DEF Condemned, ReaderInv
      <4> QED BY <4>2 DEF Lost
    <3> QED BY <2>2, <2>3, <2>6, <3>1 DEF Condemned
  <2>7. ASSUME cmd.mode \in {"recent", "before"}
        PROVE  /\ taken \in {"no", "ok"}
               /\ \A d \in DOMAIN Other : Other[d] # "done" => Here(d)
    <3>1. taken \in {"no", "ok"}
      BY <2>1, <2>7 DEF DeleteInv
    <3> QED BY <2>2, <2>3, <2>7, <3>1 DEF Condemned, Valid
  <2> QED BY <2>4, <2>5, <2>6, <2>7 DEF RetentionKeeps
<1> QED
  BY <1>1, RetentionInvariant, PTL

\* restore latest finds the greatest dump with a metadata.json, if any.
LEMMA LatestFacts ==
  ASSUME RetentionInv
  PROVE  LatestDump \in {d \in present \cup {This} : HasMetadata(d)} \cup {0}
<1> DEFINE dumps == {d \in present \cup {This} : HasMetadata(d)}
<1>1. dumps \subseteq DOMAIN Other \cup {This}
  BY DEF RetentionInv, DeleteType
<1>2. dumps \subseteq Nat /\ IsFiniteSet(dumps)
  <2>1. IsFiniteSet(DOMAIN Other \cup {This}) /\ DOMAIN Other \cup {This} \subseteq Nat
    BY RetentionAssumption, FS_AddElement
  <2>. HIDE DEF dumps
  <2> QED BY <1>1, <2>1, FS_Subset
<1>3. \E d \in dumps \cup {0} : \A e \in dumps : e <= d
  <2>. HIDE DEF dumps
  <2>1. CASE dumps = {}
    BY <2>1
  <2>2. CASE dumps # {}
    BY <1>2, <2>2, GreatestExists
  <2> QED BY <2>1, <2>2
<1> QED
  BY <1>3 DEF LatestDump

\* restore latest takes a dump that is complete, or one from which files were
\* removed, while dumps are made and deleted.
THEOREM LatestComplete ==
  ASSUME AtomicPut
  PROVE  RetentionSpec => []LatestIsComplete
<1>1. RetentionInv => LatestIsComplete
  <2> SUFFICES ASSUME RetentionInv PROVE LatestIsComplete
    OBVIOUS
  <2>1. LatestDump \in {0, This} \/ (LatestDump \in present /\ HasMetadata(LatestDump))
    BY LatestFacts
  <2>2. LatestDump \notin {0, This} => Other[LatestDump] = "done"
    BY <2>1 DEF HasMetadata
  <2>3. ASSUME LatestDump = This, taken = "no"
        PROVE  /\ stage = "ok"
               /\ \A o \in Elems(order) : HasTask(o) /\ HasData(o) => o \in stored
    <3>1. HasMetadata(This)
      BY <2>3, LatestFacts, RetentionAssumption
    <3>2. md = "complete"
      BY <3>1 DEF HasMetadata, RetentionInv, AtomicInv, StatusTypeOK, TypeOK, StorageType
    <3> QED BY <2>3, <3>2 DEF RetentionInv, DumpInv, StageInv
  <2> QED BY <2>2, <2>3 DEF LatestIsComplete
<1> QED
  BY <1>1, RetentionInvariant, PTL
=============================================================================
