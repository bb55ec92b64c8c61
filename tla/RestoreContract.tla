-------------------------- MODULE RestoreContract ---------------------------
(***************************************************************************)
(* What the data stage of a restore promises, without goroutines, channel  *)
(* or polling: every entry of the plan is executed at most once and only   *)
(* after what it needs, and success means that nothing is left.            *)
(***************************************************************************)
EXTENDS FiniteSets

CONSTANT DumpId

VARIABLES
    plan,      \* the entries to restore
    needs,     \* DumpId -> the entries of the plan that must come first
    begun,     \* the entries whose execution has begun
    finished,  \* the entries that have been executed
    outcome    \* "running", "ok" or "error"

vars == <<plan, needs, begun, finished, outcome>>

Init ==
    /\ plan \subseteq DumpId
    /\ needs \in [DumpId -> SUBSET plan]
    /\ begun = {} /\ finished = {}
    /\ outcome = "running"

Begin(d) ==
    /\ outcome = "running"
    /\ d \in plan \ begun
    /\ needs[d] \subseteq finished
    /\ begun' = begun \cup {d}
    /\ UNCHANGED <<plan, needs, finished, outcome>>

Finish(d) ==
    /\ outcome = "running"
    /\ d \in begun \ finished
    /\ finished' = finished \cup {d}
    /\ UNCHANGED <<plan, needs, begun, outcome>>

Succeed ==
    /\ outcome = "running" /\ finished = plan
    /\ outcome' = "ok"
    /\ UNCHANGED <<plan, needs, begun, finished>>

\* A restore may fail at any time, and leaves what it has restored.
Fail ==
    /\ outcome = "running"
    /\ outcome' = "error"
    /\ UNCHANGED <<plan, needs, begun, finished>>

Next == (\E d \in DumpId : Begin(d) \/ Finish(d)) \/ Succeed \/ Fail

Spec == Init /\ [][Next]_vars
=============================================================================
