---------------------------- MODULE MCRetention -----------------------------
(* A dump of one worker between older and younger ones, and one delete.      *)
EXTENDS Retention, MCDumpRun

MCOneWorker == {w1}
MCFewObjects == {table, root, blobs}
MCFewKinds == (table :> "table") @@ (root :> "root") @@ (blobs :> "blobs")
MCFewOrders == {<<table, root, blobs>>}

MCOther == 1 :> "done" @@ 2 :> "done" @@ 4 :> "failed" @@ 5 :> "unknown-or-failed"
Command(mode, n, dryRun) == [mode |-> mode, n |-> n, id |-> n, dryRun |-> dryRun]
MCCommands ==
    {Command("recent", n, FALSE) : n \in 0 .. 2}
    \cup {Command("before", n, FALSE) : n \in {2, 5}}
    \cup {Command(mode, 0, FALSE) : mode \in {"failed", "unsafe"}}
    \cup {Command("id", n, FALSE) : n \in {3, 9}}
    \cup {Command("recent", 0, TRUE), Command("unsafe", 0, TRUE)}
    \cup {Command("id", n, TRUE) : n \in {1, 3}}
=============================================================================
