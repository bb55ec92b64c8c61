---------------------------- MODULE MCRestoreRun ----------------------------
(* Instances of RestoreRun: the archives and options of MCRestoreOrder in   *)
(* runs of the data section, and one small archive in runs of every kind.   *)
EXTENDS RestoreRun

CONSTANTS w1, w2, none

MCDumpId == 1..6

MCKind == [d \in MCDumpId |-> CASE d <= 3 -> "table"
                                [] d = 4  -> "sequence"
                                [] d = 5  -> "blobs"
                                [] d = 6  -> "acl"]

Dump(toc, acl, order, deps) ==
    [toc |-> toc, acl |-> acl, order |-> order,
     deps |-> [d \in MCDumpId |-> IF d <= 3 THEN deps[d] ELSE {}],
     defs |-> {1, 2}]

Chain == <<{}, {1}, {2}>>
Fork  == <<{}, {1}, {1}>>
Join  == <<{}, {}, {1, 2}>>

\* toc.dat has the order in which the tables were dumped; one that lacks
\* table 1 has it as the root of a partitioned table.
OrderArchives ==
    {Dump(<<3, 2, 1, 4, 5>>, <<6>>, <<1, 2, 3>>, g) : g \in {Chain, Fork, Join}}
    \cup {Dump(<<3, 2, 4>>, <<6>>, <<1, 2, 3>>, Fork)}

Opt(inOrder, exitOnError, inserts, noBlobs, noPrivileges, selected) ==
    [inOrder |-> inOrder, exitOnError |-> exitOnError, inserts |-> inserts,
     noBlobs |-> noBlobs, noPrivileges |-> noPrivileges,
     selected |-> selected]

OrderOptions ==
    {Opt(o, e, FALSE, FALSE, FALSE, 1..4) : o, e \in BOOLEAN}
    \cup {Opt(TRUE, TRUE, TRUE, FALSE, FALSE, 1..4),
          Opt(TRUE, TRUE, FALSE, TRUE, TRUE, {1, 3, 4})}

Database(d, pre, post) ==
    [o \in {"database", "pre-data", "post-data"} |->
       CASE o = "database" -> d [] o = "pre-data" -> pre [] OTHER -> post]

Full == Database("old", "old", "old")

NoRows == [d \in MCDumpId |-> <<>>]
NoScripts == [s \in {"pre-data", "data", "post-data"} |-> <<>>]

\* A run of the data section into a database that has its schema.
DataRun ==
    [create |-> FALSE, clean |-> FALSE, ifExists |-> FALSE,
     schemaOnly |-> FALSE, dataOnly |-> FALSE, section |-> "data",
     format |-> "none", lines |-> <<>>, batch |-> 0, onConflict |-> FALSE,
     excluded |-> {}, rows |-> NoRows, scripts |-> NoScripts, named |-> TRUE,
     db |-> Full]

Case(a, o, r) == [archive |-> a, opt |-> o, run |-> r]

OrderCases == {Case(a, o, DataRun) : a \in OrderArchives, o \in OrderOptions}

-----------------------------------------------------------------------------
(* One sequence, and all ways to restore the schema around it.  *)

Small == Dump(<<4>>, <<>>, <<>>, <<{}, {}, {}>>)
Plain(exitOnError) == Opt(FALSE, exitOnError, FALSE, FALSE, FALSE, 1..4)

Databases == {Database("none", "none", "none"), Database("old", "none", "none"),
              Database("old", "old", "none"), Full}

Modes == {<<"", FALSE, FALSE>>, <<"", TRUE, FALSE>>, <<"", FALSE, TRUE>>,
          <<"pre-data", FALSE, FALSE>>, <<"data", FALSE, FALSE>>,
          <<"post-data", FALSE, FALSE>>}

\* <<create, clean, if-exists>>
Cleanings == {<<FALSE, FALSE, FALSE>>, <<FALSE, TRUE, FALSE>>,
              <<FALSE, TRUE, TRUE>>, <<TRUE, FALSE, FALSE>>,
              <<TRUE, TRUE, TRUE>>}

SchemaRuns ==
    {[DataRun EXCEPT !.section = m[1], !.schemaOnly = m[2], !.dataOnly = m[3],
                     !.create = c[1], !.clean = c[2], !.ifExists = c[3],
                     !.db = d] : m \in Modes, c \in Cleanings, d \in Databases}

SchemaCases == {Case(Small, Plain(e), r) : e \in BOOLEAN, r \in SchemaRuns}

\* Scripts in every section, queries and commands.
Scr(i, w, k) == [id |-> i, when |-> w, kind |-> k]

SomeScripts ==
    [s \in {"pre-data", "data", "post-data"} |->
       CASE s = "pre-data"  -> <<Scr("s1", "before", "query"),
                                 Scr("s2", "after", "query")>>
         [] s = "data"      -> <<Scr("s5", "after", "command"),
                                 Scr("s3", "before", "query"),
                                 Scr("s4", "before", "command"),
                                 Scr("s8", "before", "query")>>
         [] s = "post-data" -> <<Scr("s6", "before", "command"),
                                 Scr("s7", "after", "query")>>]

ScriptCases ==
    {Case(Small, Plain(TRUE),
          [DataRun EXCEPT !.section = m[1], !.schemaOnly = m[2],
                          !.dataOnly = m[3], !.create = c, !.clean = TRUE,
                          !.ifExists = TRUE, !.scripts = SomeScripts]) :
       m \in Modes, c \in BOOLEAN}

-----------------------------------------------------------------------------
(* Two tables with rows, and large objects.  *)

RowArchive == Dump(<<1, 5, 2>>, <<>>, <<1, 2>>, <<{}, {1}, {}>>)

ManyRows(one) == [d \in MCDumpId |-> CASE d = 1 -> one
                                       [] d = 2 -> <<"ok">>
                                       [] d = 5 -> <<"ok", "ok">>
                                       [] OTHER -> <<>>]

\* <<inserts, batch size, excluded errors>>
Loads == {<<FALSE, 0, {}>>, <<FALSE, 2, {}>>, <<TRUE, 0, {}>>,
          <<TRUE, 0, {"bad"}>>}

RowCase(exitOnError, load, one, d) ==
    Case(RowArchive, Opt(FALSE, exitOnError, load[1], FALSE, FALSE, 1..2),
         [DataRun EXCEPT !.rows = ManyRows(one), !.batch = load[2],
                         !.onConflict = load[1], !.excluded = load[3],
                         !.db = d])

RowCases ==
    {RowCase(e, l, one, Full) : e \in BOOLEAN, l \in Loads,
       one \in {<<"ok", "ok", "ok">>, <<"ok", "ok", "bad", "ok">>,
                <<"ok", "conflict", "ok">>}}
    \cup {RowCase(FALSE, l, <<"ok">>, Database("old", "none", "none")) :
            l \in Loads}

\* Lists of entries: text with lines that name none, and json.
ListCases ==
    {Case(Dump(<<1, 4>>, <<>>, <<1>>, <<{}, {}, {}>>), Plain(TRUE),
          [DataRun EXCEPT !.format = f, !.lines = l, !.named = n,
                          !.create = TRUE]) :
       f \in {"text", "json"}, n \in BOOLEAN,
       l \in {<<4, 1>>, <<none, 4>>, <<none>>, <<2, 1>>}}

MCCases == OrderCases \cup SchemaCases \cup ScriptCases \cup RowCases
                      \cup ListCases

MCArchives == {[c.archive EXCEPT !.toc = ListToc(c.run, @)] : c \in MCCases}
MCOptions == {c.opt : c \in MCCases}

Two == {w1, w2}
=============================================================================
