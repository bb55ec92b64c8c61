---------------------------- MODULE MCDumpCommand ---------------------------
(* Two workers.  Commands with all kinds of objects, with little to dump but *)
(* every way to a subset, and with little to dump but every kind of schema. *)
EXTENDS DumpCommand, TLC

CONSTANTS table, root, sequence, blobs, w1, w2

MCObject == {table, root, sequence, blobs}
MCKind == (table :> "table") @@ (root :> "root") @@
          (sequence :> "sequence") @@ (blobs :> "blobs")
MCWorker == {w1, w2}

Everything == <<table, root, sequence, blobs>>
TableAndBlobs == <<table, blobs>>
MCOrders == {Everything, TableAndBlobs, <<table>>, <<sequence>>, <<root, blobs>>,
             <<>>}

\* The toc.dat of pg_dump of a version, and a schema with entries in these
\* sections: their ids are not in order, and permissions depend on another
\* entry, or on one that was left out.
Header(version) ==
    [Magic |-> 1, Major |-> 1, Minor |-> version, Rev |-> 0, IntSize |-> 4,
     OffSize |-> IF version < 7 THEN 4 ELSE 8, Format |-> ArchTar,
     Algorithm |-> IF version \in 2..14 THEN 1 ELSE 0,
     Level |-> IF version < 15 THEN 1 ELSE 0, Crtm |-> 1,
     ArchDbName |-> "db", RemoteVersion |-> "16", DumpVersion |-> NULL]

Schema(sections) ==
    [k \in 1..Len(sections) |->
       [EmptyEntry EXCEPT
          !.DumpId = IF k = 1 THEN 7 ELSE k, !.Tag = "tag", !.Section = sections[k],
          !.Desc = CASE sections[k] = SectionPreData -> "TABLE"
                     [] sections[k] = SectionPostData -> "INDEX"
                     [] OTHER -> "ACL",
          !.Dependencies = IF sections[k] # SectionNone THEN <<>>
                           ELSE IF k = 1 THEN <<1>> ELSE <<7>>,
          !.FileName = <<>>]]

n == SectionNone
a == SectionPreData
z == SectionPostData
Schemas == {<<>>, <<a>>, <<z>>, <<n>>, <<a, n>>, <<a, z>>, <<a, n, z>>,
            <<a, n, a, n, z, n>>, <<a, a, n, n, z, z>>}

LargeObjects == << [comment |-> TRUE, acl |-> FALSE],
                   [comment |-> TRUE, acl |-> TRUE] >>

Command ==
    [order |-> Everything, noBlobs |-> FALSE, given |-> FALSE, sync |-> TRUE,
     mode |-> "none", supported |-> TRUE, badReferences |-> FALSE,
     header |-> Header(14), schema |-> Schema(<<a, n, z>>),
     large |-> LargeObjects, commits |-> 1]

Whole == [Command EXCEPT !.commits = 0]

OfSnapshots ==
    {[Command EXCEPT !.order = TableAndBlobs, !.given = g, !.sync = s] :
        g \in BOOLEAN, s \in BOOLEAN}
    \cup {[Command EXCEPT !.order = TableAndBlobs, !.mode = m] :
             m \in {"inline", "temp_tables"}}

OfSubsets ==
    {[Command EXCEPT !.order = <<table>>, !.mode = "temp_tables", !.supported = s,
                     !.badReferences = b] : s \in BOOLEAN, b \in BOOLEAN}

OfTocs ==
    {[Command EXCEPT !.order = <<root, blobs>>, !.noBlobs = (Len(s) # 3),
                     !.schema = Schema(s), !.commits = 0] : s \in Schemas}
    \cup {[Command EXCEPT !.order = o, !.schema = Schema(s), !.commits = 0] :
             o \in {<<>>, <<sequence>>}, s \in Schemas}
    \cup {[Command EXCEPT !.order = <<table>>, !.header = Header(v), !.commits = 0] :
             v \in FirstVersion..LastVersion}

MCCommands == {Whole} \cup OfSnapshots \cup OfSubsets \cup OfTocs
=============================================================================
