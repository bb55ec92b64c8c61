----------------------------- MODULE MCDumpRun ------------------------------
(* Two workers dump a table, a partitioned table's root, a sequence and the  *)
(* blobs, in the order DataSectionObjects lists them.                        *)
EXTENDS DumpRun, TLC

CONSTANTS table, root, sequence, blobs, w1, w2

MCObject == {table, root, sequence, blobs}
MCKind == (table :> "table") @@ (root :> "root") @@
          (sequence :> "sequence") @@ (blobs :> "blobs")
MCOrders == {<<table, root, sequence, blobs>>}
MCWorker == {w1, w2}
=============================================================================
