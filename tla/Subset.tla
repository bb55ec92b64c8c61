------------------------------- MODULE Subset -------------------------------
(***************************************************************************)
(* The subset of a database that a dump with subset_conds takes.  Every    *)
(* component of the table graph that a condition reaches has a path: the   *)
(* edges to it, in scopes.  A scope is one query, which joins a table once *)
(* at most; a table met again, and a cycle, begin a scope of their own, a  *)
(* subquery.  With subset_materialization the keys of each table are       *)
(* computed once, and the tables that refer to it are filtered by them.    *)
(*                                                                         *)
(* The graph comes from DumpGraph.  Its order and dependencies, which do   *)
(* not depend on the conditions, are left to graphs without any.           *)
(*                                                                         *)
(* Code: internal/db/postgres/subset/ and NewRuntimeContext of             *)
(* internal/db/postgres/context/context.go.                                *)
(***************************************************************************)
EXTENDS SubsetCycles

CONSTANTS
    Unset,
    Failed,  \* no subset: the query cannot be made, or is refused
    Schemas,      \* the edges and conds of a database, and what Databases needs
    Databases(_)  \* the contents of a database with a schema

VARIABLES
    paths,  \* Graph.paths, for all components
    mode,   \* subset_materialization
    kept    \* the rows that the dump takes of each table, or Failed

subsetVars == <<edges, conds, db, paths, mode, kept>>

allVars == <<vars, subsetVars>>

-----------------------------------------------------------------------------
(* Paths *)

Outgoing(c) == SelectSeq([i \in DOMAIN edges |-> i],
                         LAMBDA e : comp[From(e)] = c /\ comp[To(e)] # c)

Conditioned(c) == \E t \in conds : comp[t] = c

InnerPoly(c) == \E e \in DOMAIN edges :
                   comp[From(e)] = c /\ comp[To(e)] = c /\ edges[e].poly

\* A scope: scopeEdges, the components that scopeEdgesNullable has as nullable,
\* scopeGraph
NewScope(es) == [edges |-> es, nullable |-> {}, children |-> <<>>]

\* Scope 1 is the root scope; home is vertexScopes.  A path that is not used
\* is no path of Graph.paths.
NewPath(c) == [used |-> Conditioned(c) \/ InnerPoly(c),
               scopes |-> <<NewScope(<<>>)>>, home |-> [v \in {} |-> 1]]

\* addEdge, createScopeWithParent.  What the nullability of the edge before is
\* looked up by is the number of a component, compared with a table's.
AddEdge(path, e, given) ==
    LET from == comp[From(e)]
        to == comp[To(e)]
        scope == IF from \in DOMAIN path.home THEN path.home[from] ELSE given
        s == path.scopes[scope]
        fork == HasCycle(to) \/ \E d \in Range(s.edges) : to \in {comp[From(d)], comp[To(d)]}
        target == IF fork THEN Len(path.scopes) + 1 ELSE scope
        nullable == \/ edges[e].nullable
                    \/ \E d \in Range(s.edges) : Position(To(d)) - 1 = from /\ edges[d].nullable
        child == [scope |-> target, edge |-> e,
                  nullable |-> edges[e].nullable \/ from \in s.nullable]
    IN  [scope |-> target,
         path |-> [path EXCEPT
           !.used = TRUE,
           !.home = @ @@ (to :> target),
           !.scopes = IF fork
             THEN Append([@ EXCEPT ![scope].children = Append(@, child)], NewScope(<<e>>))
             ELSE [@ EXCEPT ![scope].edges = Append(@, e),
                            ![scope].nullable = IF nullable THEN @ \cup {to} ELSE @]]]

AddEdges(path, es, given) ==
    LET added[i \in 0..Len(es)] ==
          IF i = 0 THEN [path |-> path, scope |-> given]
          ELSE AddEdge(added[i - 1].path, es[i], added[i - 1].scope)
    IN  added[Len(es)]

\* subsetDfs: from has the edges since the last that was added.
RECURSIVE SubsetDfs(_, _, _)

SubsetDfs(es, s, scope) ==
    IF es = <<>> THEN s ELSE
    LET e == Head(es)
        from == Append(s.from, e)
        below == IF Conditioned(comp[To(e)]) \/ edges[e].poly
                 THEN LET a == AddEdges(s.path, from, scope)
                      IN  SubsetDfs(Outgoing(comp[To(e)]), [path |-> a.path, from |-> <<>>], a.scope)
                 ELSE SubsetDfs(Outgoing(comp[To(e)]), [s EXCEPT !.from = from], scope)
    IN  SubsetDfs(Tail(es), [below EXCEPT !.from = IF @ = <<>> THEN @ ELSE Front(@)], scope)

\* findSubsetVertexes
FindPath(c) == SubsetDfs(Outgoing(c), [path |-> NewPath(c), from |-> <<>>], 1).path

-----------------------------------------------------------------------------
(* The queries without materialization *)

NoCte == [t \in {} |-> {}]

\* The edges of a scope's joins: the first one of a nested scope leads to it.
JoinedEdges(path, s) == IF s = 1 THEN path.scopes[s].edges ELSE Tail(path.scopes[s].edges)

\* The scopes whose tables get a CTE, in the order of generateQueriesSccDfs
RECURSIVE Ctes(_, _)

Ctes(path, s) ==
    LET children == path.scopes[s].children IN
    FlattenSeq([i \in DOMAIN children |->
      IF HasCycle(comp[To(children[i].edge)])
      THEN <<children[i]>> \o Ctes(path, children[i].scope) ELSE <<children[i]>>])

RECURSIVE ScopeRows(_, _, _), ScopeKeys(_, _, _), InChild(_, _, _), Cte(_, _)

\* generateQueryForTables, generateIdsCteForAcyclicScope
ScopeRows(path, s, t) ==
    LET es == JoinedEdges(path, s)
        children == path.scopes[s].children
    IN  {x \in Rows(t) :
           /\ Accepts(t, x)
           /\ \E j \in Joined(es, {}, t, x) :
                /\ IntegrityChecks(es, NoCte, j)
                /\ \A i \in DOMAIN children : InChild(path, children[i], j)}

\* The subquery of a nested scope.  A cycle has the query of its own path.
InChild(path, child, j) ==
    LET e == child.edge
        t == To(e)
        keys == IF HasCycle(comp[t]) THEN ScopeKeys(paths[comp[t]], 1, comp[t])[t]
                ELSE ScopeRows(path, child.scope, t)
    IN  \/ Ref(e, j[From(e)]) \in keys
        \/ child.nullable /\ Ref(e, j[From(e)]) = Null

\* The CTE of a table: the first of this name stays.
Cte(path, t) ==
    LET all == Ctes(path, 1)
        i == Min({k \in DOMAIN all :
                    IF HasCycle(comp[t]) THEN comp[To(all[k].edge)] = comp[t]
                    ELSE To(all[k].edge) = t})
    IN  IF HasCycle(comp[t]) THEN ScopeKeys(path, all[i].scope, comp[t])[t]
        ELSE ScopeRows(path, all[i].scope, t)

\* generateQueriesSccDfs of the scope of a component with cycles
ScopeKeys(path, s, c) ==
    LET children == path.scopes[s].children
    IN  ComponentKeys(c,
          [rest  |-> JoinedEdges(path, s) \o [i \in DOMAIN children |-> children[i].edge],
           over  |-> [t \in {To(children[i].edge) : i \in DOMAIN children} |-> Cte(path, t)],
           extra |-> {}])

Children(path, s) == Range(path.scopes[s].children)

\* Whether the queries can be made: a cycle is queried along its own path, and
\* no polymorphic reference leads from a cycle to a nested scope.
RECURSIVE CanBeMade(_, _, _), CanBeRun(_, _, _)

CanBeMade(path, s, c) ==
    \A child \in Children(path, s) :
        LET d == comp[To(child.edge)]
        IN  /\ HasCycle(c) => ~edges[child.edge].poly
            /\ IF HasCycle(d) /\ ~HasCycle(c)
               THEN paths[d].used /\ CanBeMade(paths[d], 1, d)
               ELSE CanBeMade(path, child.scope, d)

\* Whether PostgreSQL takes them: the subquery of a polymorphic reference is
\* no Boolean.
CanBeRun(path, s, c) ==
    /\ HasCycle(c) => Accepted(c, JoinedEdges(path, s) \o
                          [i \in DOMAIN path.scopes[s].children |->
                             path.scopes[s].children[i].edge])
    /\ \A child \in Children(path, s) :
         LET d == comp[To(child.edge)]
         IN  /\ edges[child.edge].poly => HasCycle(d)
             /\ IF HasCycle(d) /\ ~HasCycle(c) THEN CanBeRun(paths[d], 1, d)
                ELSE CanBeRun(path, child.scope, d)

Used == {c \in DOMAIN paths : paths[c].used}

\* SetSubsetQueries: what the queries of the tables select
PlainSubset ==
    IF \E c \in Used : ~CanBeMade(paths[c], 1, c) \/ ~CanBeRun(paths[c], 1, c) THEN Failed
    ELSE [t \in Table |->
            LET c == comp[t] IN
            IF c \notin Used THEN Rows(t)
            ELSE IF HasCycle(c) THEN ScopeKeys(paths[c], 1, c)[t]
            ELSE ScopeRows(paths[c], 1, t)]

-----------------------------------------------------------------------------
(* Materialization *)

\* A mutant: a reference that may be NULL must not be NULL.
EdgeConds_NotNull(c, keys) ==
    {[table |-> From(e), edge |-> 0, keys |-> {x \in Rows(From(e)) : Ref(e, x) \in keys[To(e)]}] :
       e \in {d \in Range(Outgoing(c)) : comp[To(d)] \in Used}}

\* edgeCond, for the edges that leave a component
EdgeConds(c, keys) ==
    {[table |-> From(e), edge |-> e, keys |-> keys[To(e)]] :
       e \in {d \in Range(Outgoing(c)) : comp[To(d)] \in Used}}

\* The keys of the tables of a component and of those it depends on:
\* condsForVertex, componentCte; ensureIdsTable.  A reference is not asked
\* whether it is polymorphic.
RECURSIVE Keys(_)

Keys(c) ==
    LET next == {comp[To(e)] : e \in Range(Outgoing(c))} \cap Used
        below == FoldSet(LAMBDA d, f : Keys(d) @@ f, NoCte, next)
        extra == EdgeConds(c, below)
    IN  (IF HasCycle(c)
         THEN ComponentKeys(c, [rest |-> <<>>, over |-> NoCte, extra |-> extra])
         ELSE [t \in {u \in Table : comp[u] = c} |->
                 {x \in Rows(t) : Accepts(t, x) /\ \A y \in extra : ExtraHolds(y, t :> x) = TRUE}])
        @@ below

\* MaterializeSubsetQueries, MaterializeSubsetQueriesTempTables
MaterializedSubset ==
    IF \E c \in Used : InnerPoly(c) THEN PlainSubset
    ELSE IF \E c \in Used : \/ ~CanBeMade(paths[c], 1, c)
                            \/ HasCycle(c) /\ ~Accepted(c, <<>>) THEN Failed
    ELSE [t \in Table |-> IF comp[t] \in Used THEN Keys(comp[t])[t] ELSE Rows(t)]

-----------------------------------------------------------------------------
(* The specification *)

SubsetInit ==
    /\ paths = Unset /\ mode = Unset /\ kept = Unset /\ db = Unset
    /\ \/ edges = <<>> /\ conds = {} /\ Init
       \/ \E s \in Schemas :
            /\ edges = s.edges /\ conds = s.conds
            /\ refs = {<<s.edges[i].from, s.edges[i].to>> : i \in DOMAIN s.edges}
            /\ Init

BuildGraph ==
    /\ phase \in {"order", "mark"} \/ conds = {}
    /\ Next
    /\ UNCHANGED subsetVars

\* The condensed graph is built; the database is seen from here on.
SetSubsetQueries ==
    /\ phase = "sort" /\ conds # {} /\ paths = Unset
    /\ paths' = [c \in 0..(count - 1) |-> FindPath(c)]
    /\ \E s \in Schemas : s.edges = edges /\ s.conds = conds /\ db' \in Databases(s)
    /\ UNCHANGED <<vars, edges, conds, mode, kept>>

DumpSubset(modes, rows) ==
    /\ paths # Unset /\ mode = Unset
    /\ kept' = rows /\ mode' \in modes
    /\ UNCHANGED <<vars, edges, conds, db, paths>>

DumpPlain == DumpSubset({"none"}, PlainSubset)

DumpMaterialized == DumpSubset({"inline", "temp_tables"}, MaterializedSubset)

SubsetNext == BuildGraph \/ SetSubsetQueries \/ DumpPlain \/ DumpMaterialized

SubsetSpec == SubsetInit /\ [][SubsetNext]_allVars

-----------------------------------------------------------------------------
(* What a subset should be *)

\* The rows that meet the conditions and refer to nothing that is left out.
Supported(rows, t) ==
    {x \in rows[t] :
       /\ Accepts(t, x)
       /\ \A e \in Range(EdgesFrom(t)) :
            Ref(e, x) \in Rows(To(e)) /\ About(e, x) => Ref(e, x) \in rows[To(e)]}

Closed(rows) == \A t \in Table : Supported(rows, t) = rows[t]

\* The largest part of the database that is closed
Largest ==
    LET all == FoldSet(LAMBDA t, n : n + Cardinality(Rows(t)), 0, Table)
        part[n \in 0..all] ==
          IF n = 0 THEN [t \in Table |-> Rows(t)]
          ELSE [t \in Table |-> Supported(part[n - 1], t)]
    IN  part[all]

(***************************************************************************)
(* The schemas for which the queries do not do it.  The README says what   *)
(* happens then; the run subset_cycle shows it for InnerJoined.            *)
(***************************************************************************)
Leaves(e) == comp[From(e)] # comp[To(e)]

Selected(t) == comp[t] \in Used

\* There are two ways from a table, or a cycle, to t.
Twice(t) ==
    \E d, e \in DOMAIN edges :
        /\ d # e /\ comp[From(d)] = comp[From(e)] /\ Leaves(d) /\ Leaves(e)
        /\ t \in Reachable(To(d)) \cap Reachable(To(e))

\* What is behind such a table is only looked at on the first way, since its
\* edges are put into the scope that has it first.
SecondWay ==
    \E e \in DOMAIN edges :
        /\ Leaves(e) /\ Selected(To(e))
        /\ ~HasCycle(comp[From(e)]) /\ Twice(From(e))

\* Cycles of different tables in one component, which the documentation has as
\* a limitation; two cycles of the same tables with conditions; a cycle that
\* findCycles does not find.
Overlapping ==
    \E c \in Used :
        /\ HasCycle(c)
        /\ \/ Cardinality(Groups(c)) # 1
           \/ Conditioned(c) /\ Len(Cycles(c)) # 1
           \/ \E e \in DOMAIN edges :
                /\ comp[From(e)] = c /\ comp[To(e)] = c
                /\ \A i \in DOMAIN Cycles(c) : e \notin Range(Cycles(c)[i])

\* A NOT NULL reference is an INNER JOIN, also in the recursive part: the row
\* that it leaves out is not seen to be invalid.
InnerJoined ==
    \E e \in DOMAIN edges :
        /\ HasCycle(comp[From(e)]) /\ ~edges[e].nullable /\ From(e) # To(e)
        /\ Leaves(e) => mode = "none" /\ Selected(To(e))

\* A polymorphic reference is followed outside of cycles, within a scope.
Polymorphic ==
    \E e \in DOMAIN edges :
        /\ edges[e].poly
        /\ \/ mode # "none" \/ ~edges[e].nullable \/ Twice(To(e))
           \/ HasCycle(comp[From(e)]) \/ HasCycle(comp[To(e)])

Covered == ~Overlapping /\ ~InnerJoined /\ ~Polymorphic /\ (mode = "none" => ~SecondWay)

\* The conditions on a table of a cycle must hold of a row of each table of it,
\* joined or not: what refers to none is left out.
OnlyJoined ==
    \E c \in Used :
        /\ \E cycle \in Range(Cycles(c)) : Len(cycle) > 1
        /\ \/ Conditioned(c)
           \/ \E e \in Range(Outgoing(c)) : ~edges[e].nullable /\ Selected(To(e))

\* createScopeWithParent forgets that a reference before the last one, of a
\* chain to the table, may be NULL; a reference partly NULL is checked.
NullForgotten ==
    /\ mode = "none"
    /\ \/ \E e \in DOMAIN edges : Partial \in Range(db.ref[e])
       \/ \E e, d, f \in DOMAIN edges :
            /\ edges[e].nullable /\ ~edges[d].nullable /\ From(d) = To(e)
            /\ From(f) \in Reachable(To(d)) /\ Twice(To(f))

(* Properties *)

\* database_subset.md: the rows of a subset refer to rows of the subset, so that
\* the foreign keys can be restored; whatever the schema, no row is dumped that
\* does not meet the conditions of its own table.
SubsetIsClosed ==
    mode # Unset =>
        /\ kept # Failed => \A t \in conds : \A x \in kept[t] : db.ok[t][x]
        /\ Covered => kept # Failed /\ Closed(kept)

\* A row is left out only if it does not meet a condition or if a row that it
\* needs is left out, with materialization and without.
NoRowIsLost ==
    mode # Unset /\ Covered /\ ~OnlyJoined /\ ~NullForgotten => kept = Largest

\* database_subset.md: "If a record does not meet the subset condition, it will
\* be excluded along with its parent records, preventing constraint violations."
ParentsAreExcluded == mode # Unset /\ kept # Failed => Closed(kept)
=============================================================================
