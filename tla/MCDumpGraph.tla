---------------------------- MODULE MCDumpGraph -----------------------------
(* Every graph of four tables with at most five references, self-references  *)
(* included.  One partition has the oid of its root, which comes before it,  *)
(* or after it (the larger table first).                                     *)
EXTENDS DumpGraph, TLC

CONSTANTS t1, t2, t3, t4

MCTable == {t1, t2, t3, t4}
MCTables == <<t1, t2, t3, t4>>
NoRoots == [t \in MCTable |-> NoTable]

RootFirst == {[tables |-> MCTables, root |-> [NoRoots EXCEPT ![t2] = t1]]}
PartitionFirst == {[tables |-> MCTables, root |-> [NoRoots EXCEPT ![t1] = t2]]}
=============================================================================
