--------------------------------- MODULE Toc --------------------------------
(***************************************************************************)
(* toc.dat, the table of contents in the format of pg_dump: what the       *)
(* writer puts into it, what the reader takes out, and how the entries of  *)
(* the schema and of the data become one list.                             *)
(*                                                                         *)
(* A file is a sequence of items: bytes, integers, strings, and strings of *)
(* digits ("oid").  How many bytes an item takes is left out; the seven    *)
(* numbers of a time are one item.  A version is the minor number of an    *)
(* archive version 1.x from 1.1 on (integers of 1.0 had no sign).          *)
(*                                                                         *)
(* Code: internal/db/postgres/toc, entries, and the merge in cmd/dump.go.  *)
(***************************************************************************)
EXTENDS Integers, Sequences

CONSTANT NULL   \* the string that is not there

SectionNone == 1
SectionPreData == 2
SectionData == 3
SectionPostData == 4
ArchTar == 3
FirstVersion == 1
LastVersion == 16

\* A field of a header or of an entry, its form, the versions that have it
\* and its value when nothing was set.
Field(name, form, from, to, zero) ==
    [name |-> name, form |-> form, from |-> from, to |-> to, zero |-> zero]

\* Writer.writeHeader
HeaderWritten ==
    << Field("Magic", "byte", 0, 16, 0), Field("Major", "byte", 0, 16, 0),
       Field("Minor", "byte", 0, 16, 0), Field("Rev", "byte", 1, 16, 0),
       Field("IntSize", "byte", 0, 16, 0), Field("OffSize", "byte", 7, 16, 0),
       Field("Format", "byte", 0, 16, 0), Field("Algorithm", "byte", 15, 16, 0),
       Field("Level", "byte", 2, 3, 0), Field("Level", "int", 4, 14, 0),
       Field("Crtm", "int", 4, 16, 0), Field("ArchDbName", "str", 4, 16, NULL),
       Field("RemoteVersion", "str", 10, 16, NULL),
       Field("DumpVersion", "str", 10, 16, NULL) >>

\* Reader.readHeader
HeaderRead ==
    << Field("Magic", "byte", 0, 16, 0), Field("Major", "byte", 0, 16, 0),
       Field("Minor", "byte", 0, 16, 0), Field("Rev", "byte", 1, 16, 0),
       Field("IntSize", "byte", 0, 16, 0), Field("OffSize", "byte", 7, 16, 0),
       Field("Format", "byte", 0, 16, 0), Field("Algorithm", "byte", 15, 16, 0),
       Field("Level", "byte", 2, 3, 0), Field("Level", "int", 4, 14, 0),
       Field("Crtm", "int", 4, 16, 0), Field("ArchDbName", "str", 4, 16, NULL),
       Field("RemoteVersion", "str", 10, 16, NULL),
       Field("DumpVersion", "str", 10, 16, NULL) >>

\* Writer.writeEntries: whether a table is WITH OIDS is always "false".
EntryWritten ==
    << Field("DumpId", "int", 0, 16, 0), Field("HadDumper", "int", 0, 16, 0),
       Field("TableOid", "oid", 8, 16, 0), Field("Oid", "oid", 0, 16, 0),
       Field("Tag", "str", 0, 16, NULL), Field("Desc", "str", 0, 16, NULL),
       Field("Section", "int", 11, 16, 0), Field("Defn", "str", 0, 16, NULL),
       Field("DropStmt", "str", 0, 16, NULL), Field("CopyStmt", "str", 3, 16, NULL),
       Field("Namespace", "str", 6, 16, NULL), Field("Tablespace", "str", 10, 16, NULL),
       Field("Tableam", "str", 14, 16, NULL), Field("Relkind", "int", 16, 16, 0),
       Field("Owner", "str", 0, 16, NULL), Field("WithOids", "str", 9, 16, "false"),
       Field("Dependencies", "list", 5, 16, <<>>), Field("FileName", "str", 0, 16, NULL) >>

\* A mutant: the table access method is looked for one version later.
EntryRead_LateTableam ==
    [EntryWritten EXCEPT ![13] = Field("Tableam", "str", 15, 16, NULL)]

\* Reader.readEntries
EntryRead ==
    << Field("DumpId", "int", 0, 16, 0), Field("HadDumper", "int", 0, 16, 0),
       Field("TableOid", "oid", 8, 16, 0), Field("Oid", "oid", 0, 16, 0),
       Field("Tag", "str", 0, 16, NULL), Field("Desc", "str", 0, 16, NULL),
       Field("Section", "int", 11, 16, 0), Field("Defn", "str", 0, 16, NULL),
       Field("DropStmt", "str", 0, 16, NULL), Field("CopyStmt", "str", 3, 16, NULL),
       Field("Namespace", "str", 6, 16, NULL), Field("Tablespace", "str", 10, 16, NULL),
       Field("Tableam", "str", 14, 16, NULL), Field("Relkind", "int", 16, 16, 0),
       Field("Owner", "str", 0, 16, NULL), Field("WithOids", "str", 9, 16, "false"),
       Field("Dependencies", "list", 5, 16, <<>>), Field("FileName", "str", 0, 16, NULL) >>

Unset(fields) ==
    [n \in {fields[k].name : k \in DOMAIN fields} |->
       (CHOOSE f \in {fields[k] : k \in DOMAIN fields} : f.name = n).zero]

EmptyEntry == Unset(EntryWritten)

Item(form, x) == [form |-> form, x |-> x]

-----------------------------------------------------------------------------
(* The writer *)

\* The concatenation of f[1], ..., f[n].
Concat(f, n) ==
    LET upTo[k \in 0 .. n] == IF k = 0 THEN <<>> ELSE upTo[k - 1] \o f[k]
    IN upTo[n]

\* A list is its strings and one that is not there; an oid is its digits.
Items(form, x) ==
    CASE form = "list" -> [k \in 1 .. Len(x) |-> Item("oid", x[k])]
                          \o <<Item("str", NULL)>>
      [] OTHER -> <<Item(form, x)>>

WriteFields(fields, version, x) ==
    Concat([k \in 1 .. Len(fields) |->
              IF version \in fields[k].from .. fields[k].to
                THEN Items(fields[k].form, x[fields[k].name]) ELSE <<>>],
           Len(fields))

TocFile(header, entries) ==
    WriteFields(HeaderWritten, header.Minor, header)
    \o <<Item("int", Len(entries))>>
    \o Concat([k \in 1 .. Len(entries) |->
                 WriteFields(EntryWritten, header.Minor, entries[k])],
              Len(entries))

-----------------------------------------------------------------------------
(* The reader.  Position 0 of what was read says that it failed.             *)

Failure == [x |-> 0, pos |-> 0]

\* An item of another form than the one looked for is an error.  (In bytes it
\* would be read as something else, and sooner or later be one.)
ReadItem(file, pos, form) ==
    IF pos \in 1 .. Len(file) /\ file[pos].form = form
      THEN [x |-> file[pos].x, pos |-> pos + 1]
      ELSE Failure

ListOf(list, next) ==
    IF \E k \in DOMAIN list : list[k].form # "oid" THEN Failure
    ELSE [x |-> [k \in DOMAIN list |-> list[k].x], pos |-> next]

\* A list begins at pos and ends with the first string that is not there.
ReadListUpTo(file, pos, ends) ==
    IF ends = {} THEN Failure
    ELSE LET end == CHOOSE p \in ends : \A q \in ends : p <= q
         IN  ListOf(SubSeq(file, pos, end - 1), end + 1)

ReadList(file, pos) ==
    IF pos = 0 THEN Failure
    ELSE ReadListUpTo(file, pos,
                      {p \in pos .. Len(file) : file[p] = Item("str", NULL)})

ReadField(file, pos, form) ==
    IF form = "list" THEN ReadList(file, pos) ELSE ReadItem(file, pos, form)

\* A field goes into the record of what was read before it.
Into(before, name, r) ==
    IF r.pos = 0 THEN Failure
    ELSE [x |-> [before.x EXCEPT ![name] = r.x], pos |-> r.pos]

ReadNext(field, version, file, before) ==
    IF version \notin field.from .. field.to THEN before
    ELSE Into(before, field.name, ReadField(file, before.pos, field.form))

ReadFields(fields, version, file, start) ==
    LET upTo[k \in 0 .. Len(fields)] ==
            IF k = 0 THEN start
            ELSE ReadNext(fields[k], version, file, upTo[k - 1])
    IN upTo[Len(fields)]

\* What the reader fills in for older versions.
FilledIn(h) ==
    [h EXCEPT !.OffSize = IF h.Minor < 7 THEN h.IntSize ELSE @,
              !.Level = IF h.Minor < 2 THEN 1 ELSE @,
              !.Algorithm = IF h.Minor \in 2 .. 14 /\ h.Level # 0 THEN 1 ELSE @]

Accepted(r) ==
    IF \/ r.pos = 0 \/ r.x.IntSize # 4 \/ r.x.Format # ArchTar
      THEN Failure ELSE [r EXCEPT !.x = FilledIn(@)]

\* What follows the version depends on it.
HeaderBehind(first, file) ==
    IF \/ first.pos = 0 \/ first.x.Magic # 1 \/ first.x.Major # 1
       \/ first.x.Minor \notin FirstVersion .. LastVersion
      THEN Failure
      ELSE Accepted(ReadFields(SubSeq(HeaderRead, 4, Len(HeaderRead)),
                               first.x.Minor, file, first))

ReadHeader(file) ==
    HeaderBehind(ReadFields(SubSeq(HeaderRead, 1, 3), 0, file,
                            [x |-> Unset(HeaderRead), pos |-> 1]), file)

\* The section of an entry, which older versions do not have.
SectionOf(desc) ==
    IF desc \in {"COMMENT", "ACL", "ACL LANGUAGE"} THEN SectionNone
    ELSE IF desc \in {"TABLE DATA", "BLOBS", "BLOB COMMENTS"} THEN SectionData
    ELSE IF desc \in {"CONSTRAINT", "CHECK CONSTRAINT", "FK CONSTRAINT", "INDEX",
                      "RULE", "TRIGGER"} THEN SectionPostData
    ELSE SectionPreData

EntryOf(r, version) ==
    IF r.pos = 0 \/ r.x.DumpId <= 0 THEN Failure
    ELSE IF version >= 11 THEN r
    ELSE [r EXCEPT !.x.Section = SectionOf(r.x.Desc)]

ReadEntry(file, pos, version) ==
    EntryOf(ReadFields(EntryRead, version, file,
                       [x |-> Unset(EntryRead), pos |-> pos]), version)

Added(before, r) ==
    IF before.pos = 0 \/ r.pos = 0 THEN Failure
    ELSE [x |-> Append(before.x, r.x), pos |-> r.pos]

AddNext(before, file, version) ==
    Added(before, ReadEntry(file, before.pos, version))

ReadEntries(file, count, version) ==
    LET upTo[k \in 0 .. count.x] ==
            IF k = 0 THEN [x |-> <<>>, pos |-> count.pos]
            ELSE AddNext(upTo[k - 1], file, version)
    IN  IF count.pos = 0 THEN Failure ELSE upTo[count.x]

\* Reader.Read: the header, and as many entries as the count behind it says.
EntriesBehind(header, file) ==
    IF header.pos = 0 THEN Failure
    ELSE ReadEntries(file, ReadItem(file, header.pos, "int"), header.x.Minor)

TocRead(file) == EntriesBehind(ReadHeader(file), file)

\* A mutant: the id of the last entry.
MaxDumpId_Last(entries) ==
    IF entries = <<>> THEN 0 ELSE entries[Len(entries)].DumpId

\* Header.MaxDumpId
MaxDumpId(entries) ==
    LET ids == {0} \cup {entries[k].DumpId : k \in DOMAIN entries}
    IN  CHOOSE m \in ids : \A i \in ids : i <= m

-----------------------------------------------------------------------------
(* The entries of the data *)

\* Table.Entry, Sequence.Entry, Blobs.Entry.  The file of a table has the
\* entry's id for its name.
DataEntry(kind, id) ==
    CASE kind = "table" ->
           [EmptyEntry EXCEPT !.DumpId = id, !.HadDumper = 1, !.Oid = 1,
              !.Section = SectionData, !.Desc = "TABLE DATA", !.Tag = "name",
              !.Namespace = "schema", !.Owner = "", !.CopyStmt = "COPY",
              !.FileName = <<id>>, !.Defn = "", !.DropStmt = ""]
      [] kind = "sequence" ->
           [EmptyEntry EXCEPT !.DumpId = id, !.Section = SectionData,
              !.Desc = "SEQUENCE SET", !.Tag = "name", !.Namespace = "schema",
              !.Owner = "", !.Defn = "setval", !.FileName = <<>>, !.DropStmt = ""]
      [] kind = "blobs" ->
           [EmptyEntry EXCEPT !.DumpId = id, !.HadDumper = 1,
              !.Section = SectionData, !.Desc = "BLOBS", !.Tag = "BLOBS",
              !.FileName = <<"blobs.toc">>]

\* The ids LargeObject.SetDumpId draws: one, and one each for a comment and
\* for permissions.
IdsOf(lo) == 1 + (IF lo.comment THEN 1 ELSE 0) + (IF lo.acl THEN 1 ELSE 0)

\* CreateDdl, CommentDdl and AclDdl of a large object whose first id is id.
LargeObjectEntries(lo, id) ==
    LET create == [EmptyEntry EXCEPT !.DumpId = id, !.Section = SectionPreData,
                     !.Oid = 1, !.Tag = "oid", !.Owner = "owner",
                     !.Desc = "BLOB", !.Defn = "lo_create",
                     !.DropStmt = "lo_unlink", !.FileName = <<>>]
        of(desc, n) == [EmptyEntry EXCEPT !.DumpId = n, !.Section = SectionNone,
                          !.Tag = "oid", !.Owner = "owner", !.Desc = desc,
                          !.Defn = desc, !.Dependencies = <<id>>, !.FileName = <<>>]
    IN <<create>>
       \o (IF lo.comment THEN <<of("COMMENT", id + 1)>> ELSE <<>>)
       \o (IF lo.acl THEN <<of("ACL", id + IdsOf(lo) - 1)>> ELSE <<>>)

\* The sum of the first n numbers of a sequence.
SumUpTo(s, n) ==
    LET upTo[k \in 0 .. Len(s)] == IF k = 0 THEN 0 ELSE upTo[k - 1] + s[k]
    IN upTo[n]

\* Blobs.SetDumpId: the id after those of the first n large objects.
IdAfter(los, id, n) == id + SumUpTo([k \in DOMAIN los |-> IdsOf(los[k])], n)

\* Blobs.GetAllDDLs, for a blobs entry of that id.
AllDDLs(los, id) ==
    Concat([k \in 1 .. Len(los) |->
              LargeObjectEntries(los[k], IdAfter(los, id, k - 1) + 1)], Len(los))

-----------------------------------------------------------------------------
(* MergeTocEntries *)

Positions(entries, section) ==
    {k \in 1 .. Len(entries) : entries[k].Section = section}

\* The first entry of the post-data, or 0.
PostDataStart(schema) ==
    LET all == Positions(schema, SectionPostData)
    IN IF all = {} THEN 0 ELSE CHOOSE k \in all : \A l \in all : k <= l

\* A mutant: the position of the last entry is taken for the number of those
\* kept, counted from 0.
PreDataEnd_Before(schema) ==
    LET post == PostDataStart(schema)
        all == {k \in Positions(schema, SectionPreData) : post = 0 \/ k < post}
    IN IF all = {} THEN 0 ELSE (CHOOSE k \in all : \A l \in all : l <= k) - 1

\* The last entry of the pre-data that stands before it, or 0.
PreDataEnd(schema) ==
    LET post == PostDataStart(schema)
        all == {k \in Positions(schema, SectionPreData) : post = 0 \/ k < post}
    IN IF all = {} THEN 0 ELSE CHOOSE k \in all : \A l \in all : l <= k

\* Without an entry of the data the schema stays as it is, and the large
\* objects' definitions are left out.
MergeTocEntries(schema, ddls, data) ==
    IF data = <<>> THEN schema
    ELSE SubSeq(schema, 1, PreDataEnd(schema)) \o ddls \o data
         \o (IF PostDataStart(schema) = 0 THEN <<>>
             ELSE SubSeq(schema, PostDataStart(schema), Len(schema)))
=============================================================================
