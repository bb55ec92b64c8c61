--------------------------- MODULE MCRestoreOrder ---------------------------
(* Instances of RestoreOrder: three tables, a sequence, the blobs, an ACL.  *)
EXTENDS RestoreOrder

CONSTANTS w1, w2, none

MCDumpId == 1..6

MCKind == [d \in MCDumpId |-> CASE d <= 3 -> "table"
                                [] d = 4  -> "sequence"
                                [] d = 5  -> "blobs"
                                [] d = 6  -> "acl"]

\* The order of metadata.json is topological and has each table once; the
\* one of toc.dat is the order in which the tables were dumped.  A dump
\* whose toc.dat lacks table 1 has it as the root of a partitioned table.
Dumps(tocs, graphs) ==
    {[toc |-> t, acl |-> <<6>>, order |-> <<1, 2, 3>>,
      deps |-> [d \in MCDumpId |-> IF d <= 3 THEN g[d] ELSE {}],
      defs |-> {1, 2}] : t \in tocs, g \in graphs}

Chain == <<{}, {1}, {2}>>
Fork  == <<{}, {1}, {1}>>
Join  == <<{}, {}, {1, 2}>>

MCArchives == Dumps({<<3, 2, 1, 4, 5>>}, {Chain, Fork, Join})
RootArchives == Dumps({<<3, 2, 4>>}, {Fork})
AllArchives == MCArchives \cup RootArchives

Opt(inOrder, exitOnError, inserts, noBlobs, noPrivileges, selected) ==
    [inOrder |-> inOrder, exitOnError |-> exitOnError, inserts |-> inserts,
     noBlobs |-> noBlobs, noPrivileges |-> noPrivileges,
     selected |-> selected]

MCOptions ==
    {Opt(o, e, FALSE, FALSE, FALSE, 1..4) : o, e \in BOOLEAN}
    \cup {Opt(TRUE, TRUE, TRUE, FALSE, FALSE, 1..4),
          Opt(TRUE, TRUE, FALSE, TRUE, TRUE, {1, 3, 4})}

\* docs/configuration.md: jobs above one, restore-in-order, inserts, no
\* exit-on-error, and one table, which refers to others.
DocumentedOptions == {Opt(TRUE, FALSE, TRUE, FALSE, FALSE, {2})}

Two == {w1, w2}
One == {w1}
=============================================================================
