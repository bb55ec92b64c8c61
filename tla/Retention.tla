------------------------------ MODULE Retention -----------------------------
(***************************************************************************)
(* The commands that work on a storage with several dumps: greenmask       *)
(* delete in all its modes, and the choice of restore latest.  The dump of *)
(* DumpStatus may be running meanwhile; the others are over.               *)
(*                                                                         *)
(* A delete lists the directories, reads the status of each, decides, and  *)
(* then removes one dump after the other: the names of its files are       *)
(* listed and deleted in batches, in their order.                          *)
(*                                                                         *)
(* Code: cmd/greenmask/cmd/delete/, restore/ and list_dumps/, DeleteAll of *)
(* the storages.                                                           *)
(***************************************************************************)
EXTENDS DumpStatus, SequencesExt

CONSTANTS
    This,     \* the id of the dump that may be running
    Other,    \* the ids of the others, to their statuses
    Commands  \* the deletes considered: mode, n, id, dryRun

ASSUME RetentionAssumption ==
    /\ This \in Nat \ {0} /\ DOMAIN Other \subseteq Nat \ {This} /\ IsFiniteSet(DOMAIN Other)
    /\ \A d \in DOMAIN Other : Other[d] \in {"done", "failed", "unknown-or-failed", "error"}
    /\ \A c \in Commands :
         /\ c.mode \in {"id", "recent", "before", "failed", "unsafe"}
         /\ c.n \in Nat /\ c.dryRun \in BOOLEAN

VARIABLES
    present, \* the other dumps that are in the storage
    cmd,     \* the delete, or "none"
    cpc,     \* "idle", "status", "remove", "batches", "ended" or "error"
    listed,  \* the directories that were listed
    doomed,  \* the dumps to remove, in their order
    walked,  \* the files of this dump that are still to be deleted
    taken    \* what this dump was when it was removed, or "no"

dvars == <<present, cmd, cpc, listed, doomed, walked, taken>>
retentionVars == <<allVars, dvars>>

\* The names in a dump's directory, in the order of a listing: the data of
\* the objects, then heartbeat, metadata.json and toc.dat.
Files ==
    stored \cup (IF hb # "absent" THEN {"heartbeat"} ELSE {})
           \cup (IF md # "absent" THEN {"metadata.json"} ELSE {})
           \cup (IF tocFile # "absent" THEN {"toc.dat"} ELSE {})

After(f) ==
    CASE f = "toc.dat" -> {}
      [] f = "metadata.json" -> {"toc.dat"}
      [] f = "heartbeat" -> {"metadata.json", "toc.dat"}
      [] OTHER -> {"heartbeat", "metadata.json", "toc.dat"}

\* A mutant: the heartbeat is looked at in the place of metadata.json.
HasMetadata_HeartBeat(d) == IF d = This THEN hb = "done" ELSE Other[d] = "done"

HasMetadata(d) == IF d = This THEN md # "absent" ELSE Other[d] = "done"

\* getDumpId of restore latest: the greatest id with a metadata.json
LatestDump ==
    LET dumps == {d \in present \cup {This} : HasMetadata(d)} IN
    CHOOSE d \in dumps \cup {0} : \A e \in dumps : e <= d

-----------------------------------------------------------------------------
(* greenmask delete *)

RetentionInit ==
    /\ StatusInit
    /\ present = DOMAIN Other
    /\ cmd = "none" /\ cpc = "idle" /\ listed = {} /\ doomed = <<>>
    /\ walked = {} /\ taken = "no"

\* Only one delete is considered.  By its id a dump is removed at once,
\* whatever its status is.
StartDelete ==
    /\ cpc = "idle" /\ rpc = "idle"
    /\ \E c \in Commands :
         LET dirs == present \cup (IF Listed THEN {This} ELSE {}) IN
         /\ cmd' = c
         /\ listed' = dirs
         /\ cpc' = IF c.mode # "id" THEN "status" ELSE IF c.id \in dirs THEN "remove" ELSE "error"
         /\ doomed' = IF c.mode = "id" /\ c.id \in dirs THEN <<c.id>> ELSE <<>>
    /\ verdict' = "none"
    /\ UNCHANGED <<vars, rpc, seenAge, seenDead, present, walked, taken>>

Descending(s) == CHOOSE f \in [1..Cardinality(s) -> s] :
                   \A i, j \in 1..Cardinality(s) : i < j => f[i] > f[j]

\* A mutant: the dumps are sorted the other way.
Doomed_Ascending(c, status) ==
    LET valid == {d \in DOMAIN status : status[d] = "done"}
        ids   == Reverse(Descending(valid))
    IN  CASE c.mode = "recent" -> SubSeq(ids, c.n + 1, Len(ids))
          [] c.mode = "before" -> Descending({d \in valid : d < c.n})
          [] OTHER -> Descending({d \in DOMAIN status : status[d] = "failed"})

\* getSortedBackupWithStatuses and the modes: retainRecentNDumps,
\* deleteBeforeDate and retainForDumps, pruneFailedDumps.  An id is the time
\* at which the dump began.
Doomed(c, status) ==
    LET Of(s) == {d \in DOMAIN status : status[d] = s}
        valid == Descending(Of("done"))
    IN  CASE c.mode = "recent" -> SubSeq(valid, c.n + 1, Len(valid))
          [] c.mode = "before" -> Descending({d \in Of("done") : d < c.n})
          [] c.mode = "failed" -> Descending(Of("failed"))
          [] c.mode = "unsafe" -> Descending(Of("failed")) \o Descending(Of("unknown-or-failed"))

\* All statuses are read; an error is a status of no list.
Decide ==
    /\ cpc = "status"
    /\ This \in listed => rpc = "idle" /\ verdict # "none"
    /\ doomed' = Doomed(cmd, [d \in listed |-> IF d = This THEN verdict ELSE Other[d]])
    /\ cpc' = "remove"
    /\ UNCHANGED <<allVars, present, cmd, listed, walked, taken>>

\* --dry-run is looked at in deleteDumpById; deleteDump, which takes an id from
\* the command line, calls DeleteAll whatever the flag is.
Spared == cmd.dryRun /\ cmd.mode # "id"

\* deleteDumpById and deleteDump: DeleteAll first walks through the directory.
RemoveDump ==
    /\ cpc = "remove" /\ doomed # <<>> /\ rpc = "idle"
    /\ LET d == Head(doomed) IN
       IF Spared
       THEN doomed' = Tail(doomed) /\ UNCHANGED <<cpc, present, walked, taken>>
       ELSE IF d # This
       THEN doomed' = Tail(doomed) /\ present' = present \ {d} /\ UNCHANGED <<cpc, walked, taken>>
       ELSE /\ walked' = Files
            /\ taken' = IF Live THEN "live" ELSE stage
            /\ cpc' = "batches"
            /\ UNCHANGED <<doomed, present>>
    /\ UNCHANGED <<allVars, cmd, listed>>

\* One call of the storage deletes the next files; what is written between the
\* listing and this call stays, and so do the files of a name not listed.
DeleteBatch ==
    /\ cpc = "batches" /\ walked # {} /\ rpc = "idle"
    /\ \E batch \in (SUBSET walked) \ {{}} :
         /\ \A f \in walked \ batch : After(f) \cap batch = {}
         /\ walked' = walked \ batch
         /\ stored' = stored \ batch
         /\ hb' = IF "heartbeat" \in batch THEN "absent" ELSE hb
         /\ age' = IF "heartbeat" \in batch THEN 0 ELSE age
         /\ md' = IF "metadata.json" \in batch THEN "absent" ELSE md
         /\ tocFile' = IF "toc.dat" \in batch THEN "absent" ELSE tocFile
         /\ toc' = IF "toc.dat" \in batch THEN {} ELSE toc
    /\ UNCHANGED <<order, noBlobs, pos, ppc, tasks, closed, poolVars, plan, done, hpc,
                   cancelled, stage, rvars, present, cmd, cpc, listed, doomed, taken>>

BatchesEnd ==
    /\ cpc = "batches" /\ walked = {}
    /\ cpc' = "remove" /\ doomed' = Tail(doomed)
    /\ UNCHANGED <<allVars, present, cmd, listed, walked, taken>>

\* The first error of the storage ends the command.
DeleteFails ==
    /\ cpc \in {"remove", "batches"} /\ doomed # <<>> /\ ~Spared
    /\ cpc' = "error" /\ doomed' = <<>> /\ walked' = {}
    /\ UNCHANGED <<allVars, present, cmd, listed, taken>>

DeleteEnds ==
    /\ cpc = "remove" /\ doomed = <<>>
    /\ cpc' = "ended"
    /\ UNCHANGED <<allVars, present, cmd, listed, doomed, walked, taken>>

Delete == \/ StartDelete \/ Decide \/ RemoveDump \/ DeleteBatch \/ BatchesEnd
          \/ DeleteFails \/ DeleteEnds

\* The reader goes on; while a delete removes files no one reads, and a verdict
\* is decided on before the next reading begins.
RetentionNext ==
    \/ Delete
    \/ StatusNext /\ UNCHANGED dvars
         /\ (cpc = "status" /\ verdict # "none" => verdict' = verdict)
         /\ (cpc \notin {"idle", "status"} => rpc' = "idle")

RetentionSpec == RetentionInit /\ [][RetentionNext]_retentionVars

-----------------------------------------------------------------------------
(* Properties *)

\* The types of the reader and of the delete.
RetentionTypeOK ==
    /\ StatusTypeOK
    /\ present \subseteq DOMAIN Other
    /\ cpc \in {"idle", "status", "remove", "batches", "ended", "error"}
    /\ ToSet(doomed) \subseteq listed
    /\ walked # {} => cpc = "batches"

\* A dump that is reported "done" is complete, however the dump, the reading
\* and a delete of other dumps go on together.  It is not so once files of it
\* were removed: by its id or by --prune-unsafe while it ran, in the moment
\* between the heartbeat "done" and metadata.json, or by a delete that failed
\* halfway, after the data and before metadata.json.
RetainedIsComplete == taken = "no" => DoneIsComplete

\* What a delete that ended has left: --retain-recent the most recent valid
\* dumps, as many as it says; and no delete took a dump that is valid, or that
\* ever succeeds, where it had to remove failed ones, nor one that is not valid where
\* it had to thin out the valid ones.  A delete by an id took that dump and no
\* other, with --dry-run as well; in the other modes --dry-run took nothing.
Here(d) == IF d = This THEN taken = "no" ELSE d \in present
Valid(d) == IF d = This THEN verdict = "done" ELSE Other[d] = "done"

RetentionKeeps ==
    cpc = "ended" =>
        /\ Spared => \A d \in listed : Here(d)
        /\ cmd.mode = "id" => \A d \in listed : Here(d) <=> d # cmd.id
        /\ cmd.mode = "recent" =>
             \A d \in listed :
               Cardinality({e \in listed : Valid(e) /\ e > d}) < cmd.n => Here(d)
        /\ cmd.mode = "failed" =>
             /\ taken # "no" => stage # "ok"
             /\ \A d \in DOMAIN Other : Other[d] # "failed" => Here(d)
        /\ cmd.mode \in {"recent", "before"} =>
             /\ taken \in {"no", "ok"}
             /\ \A d \in DOMAIN Other : Other[d] # "done" => Here(d)

\* restore latest takes a dump that is complete, while dumps are made and
\* deleted: a failed or a running dump is passed over.  As above, not once
\* files of it were removed: the data goes before metadata.json.
LatestIsComplete ==
    /\ LatestDump \notin {0, This} => Other[LatestDump] = "done"
    /\ LatestDump = This /\ taken = "no" =>
        /\ stage = "ok"
        /\ \A o \in Elems(order) : HasTask(o) /\ HasData(o) => o \in stored
=============================================================================
