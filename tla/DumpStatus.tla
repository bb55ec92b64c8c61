----------------------------- MODULE DumpStatus -----------------------------
(***************************************************************************)
(* What list-dumps, delete --prune-failed and restore see of a dump that   *)
(* may still be running: GetDumpStatusAndMetadata reads the heartbeat's    *)
(* time, then its content, then metadata.json, while DumpRun goes on.      *)
(*                                                                         *)
(* Code: internal/utils/dumpstatus/status.go.                              *)
(***************************************************************************)
EXTENDS DumpRun

CONSTANT NotFoundMapped  \* GetObject of this storage returns ErrFileNotFound

ASSUME StatusAssumption == NotFoundMapped \in BOOLEAN

VARIABLES
    rpc,     \* where the reader is
    seenAge, \* objectInfo.LastModified: the age of the heartbeat at Stat
    seenDead,\* the dump was over, and its heartbeat old, when the reader began
    verdict  \* the status the last reading returned

rvars == <<rpc, seenAge, seenDead, verdict>>
allVars == <<vars, rvars>>

\* A mutant: one interval without a heartbeat is enough.
Expired_Early(a) == a > 0

\* failedTimeoutMultiplayer
Expired(a) == a > 2

StatusInit == Init /\ rpc = "idle" /\ seenAge = 0 /\ seenDead = FALSE
                   /\ verdict = "none"

-----------------------------------------------------------------------------
\* The storage lists the dump: its directory holds something.
Listed == hb # "absent" \/ stored # {}

Stat ==
    /\ rpc = "idle" /\ Listed
    /\ verdict' = "none"
    /\ seenAge' = age
    /\ seenDead' = (~Live /\ (hb = "absent" \/ Expired(age)))
    /\ rpc' = IF hb = "absent" THEN "legacy" ELSE "content"
    /\ UNCHANGED vars

Return(status) == /\ rpc' = "idle" /\ verdict' = status
                  /\ UNCHANGED <<seenAge, seenDead>>

\* A dump without a heartbeat: a dump of an old version if it has metadata.
ReadLegacy ==
    /\ rpc = "legacy"
    /\ IF md = "absent" THEN Return("unknown-or-failed")
                        ELSE /\ rpc' = "metadata"
                             /\ UNCHANGED <<seenAge, seenDead, verdict>>
    /\ UNCHANGED vars

\* A mutant: the time of the heartbeat is not looked at.
ReadContent_NoTimeout ==
    /\ rpc = "content"
    /\ CASE hb = "empty" -> Return("failed")
         [] hb = "done"  -> /\ rpc' = "metadata"
                            /\ UNCHANGED <<seenAge, seenDead, verdict>>
         [] OTHER        -> Return("in-progress")
    /\ UNCHANGED vars

ReadContent ==
    /\ rpc = "content"
    /\ CASE hb = "empty" -> Return("failed")
         [] hb = "done"  -> /\ rpc' = "metadata"
                            /\ UNCHANGED <<seenAge, seenDead, verdict>>
         [] OTHER        -> Return(IF Expired(seenAge) THEN "failed"
                                                       ELSE "in-progress")
    /\ UNCHANGED vars

\* A mutant: the metadata is not looked at.
ReadMetadata_Trusting ==
    /\ rpc = "metadata"
    /\ Return("done")
    /\ UNCHANGED vars

ReadMetadata ==
    /\ rpc = "metadata"
    /\ Return(CASE md = "complete" -> "done"
                [] md = "absent" /\ NotFoundMapped -> "unknown-or-failed"
                [] OTHER -> "error")
    /\ UNCHANGED vars

Reader == Stat \/ ReadLegacy \/ ReadContent \/ ReadMetadata

\* No quarter of an hour passes between Stat and the verdict.
StatusNext == \/ Reader
              \/ Next /\ (rpc # "idle" => age' <= age) /\ UNCHANGED rvars

StatusSpec == StatusInit /\ [][StatusNext]_allVars

-----------------------------------------------------------------------------
(* Properties *)

\* Every variable has its type.
StatusTypeOK ==
    /\ TypeOK
    /\ rpc \in {"idle", "legacy", "content", "metadata"}
    /\ seenAge \in 0..ExpiredAge /\ seenDead \in BOOLEAN
    /\ verdict \in {"none", "in-progress", "failed", "unknown-or-failed",
                    "done", "error"}

\* A dump reported "done" is finished: its metadata is there, and the data of
\* every object that has some.  The heartbeat alone does not say so: it turns
\* "done" when the workers end, before toc.dat and metadata.json are written,
\* and also when a worker fails.
DoneIsComplete ==
    verdict = "done" =>
        /\ stage = "ok"
        /\ \A o \in Elems(order) : HasTask(o) /\ HasData(o) => o \in stored

\* A dump reported "failed", which delete --prune-failed removes, never
\* succeeds later: the verdict stays until the next reading begins, and the
\* run is not over with success in any state before that.
FailedIsFinal == verdict = "failed" => stage # "ok"

\* Once a dump is over and its heartbeat is older than half an hour, it is
\* reported as what it is, however it ended: "done" exactly if it succeeded,
\* and never "in-progress".
EndIsSeen ==
    seenDead /\ verdict # "none" =>
        /\ verdict # "in-progress"
        /\ verdict = "done" <=> stage = "ok"

\* The documented meaning of "failed": a dump whose process failed, and that
\* has a heartbeat (since v0.1.14), is reported so once the heartbeat is old.
FailureIsSeen ==
    seenDead /\ stage = "error" /\ hb # "absent" =>
        verdict \in {"none", "failed"}
=============================================================================
