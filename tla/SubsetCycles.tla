---------------------------- MODULE SubsetCycles ----------------------------
(***************************************************************************)
(* The queries of a subset, by what they select.  A query joins tables     *)
(* along references, which lead to one row at most, so that a row of its   *)
(* first table has one joined row, or none.  The tables of a cycle of      *)
(* references get recursive queries: one walks the cycle from each of its  *)
(* tables, and the rows from which it comes to a row that does not meet    *)
(* the conditions are left out.                                            *)
(*                                                                         *)
(* Code: internal/db/postgres/subset/graph.go, component.go, query.go.     *)
(***************************************************************************)
EXTENDS DumpGraph

CONSTANTS
    Null,    \* NULL
    Partial  \* the value of a reference of two columns, one of them NULL

VARIABLES
    edges,  \* Graph.edges: records from, to, nullable, poly, by their ids
    conds,  \* the tables with subset_conds
    db      \* ok: the rows that meet the conditions; ref; poly

Rows(t) == DOMAIN db.ok[t]

From(e) == edges[e].from
To(e) == edges[e].to

EdgesFrom(t) == SelectSeq([i \in DOMAIN edges |-> i], LAMBDA e : From(e) = t)

(***************************************************************************)
(* The values of columns and conditions of a joined row: x is a row of the *)
(* table, or Null where a LEFT JOIN found none.  A condition is Null then. *)
(***************************************************************************)
Ref(e, x) == IF x = Null THEN Null ELSE db.ref[e][x]

Accepts(t, x) == IF t \notin conds THEN TRUE ELSE IF x = Null THEN Null ELSE db.ok[t][x]

\* polymorphicExprs: which rows the reference is about
About(e, x) == IF ~edges[e].poly THEN TRUE ELSE IF x = Null THEN Null ELSE db.poly[e][x]

\* AND of SQL
And(values) == IF FALSE \in values THEN FALSE ELSE IF Null \in values THEN Null ELSE TRUE

-----------------------------------------------------------------------------
(* Joins *)

\* nullabilityMap, after the first i edges: what is reached through a
\* reference that may be NULL may be NULL.
Nullability(es) ==
    LET map[i \in 0..Len(es)] ==
          IF i = 0 THEN [t \in Table |-> FALSE]
          ELSE [map[i - 1] EXCEPT ![To(es[i])] =
                  edges[es[i]].nullable \/ map[i - 1][From(es[i])]]
    IN  map[Len(es)]

Optional(es, i) == Nullability(SubSeq(es, 1, i))[To(es[i])]

\* detachedVertexes: the tables that are not joined, since a CTE of an
\* overridden table stands for them
Detached(es, over) ==
    LET set[i \in 0..Len(es)] ==
          IF i = 0 THEN {}
          ELSE IF From(es[i]) \in set[i - 1] \/ To(es[i]) \in over
               THEN set[i - 1] \cup {To(es[i])} ELSE set[i - 1]
    IN  set[Len(es)]

Skipped(es, i, over) == From(es[i]) \in Detached(SubSeq(es, 1, i - 1), over)

\* nullabilityMap of buildJoinsForEdges, which leaves skipped edges out
Reduced(es, over) ==
    LET kept[i \in 0..Len(es)] ==
          IF i = 0 THEN <<>>
          ELSE IF Skipped(es, i, over) THEN kept[i - 1] ELSE Append(kept[i - 1], es[i])
    IN  kept[Len(es)]

\* The row joined to row x of table t along the edges, {} if there is none.
Joined(es, over, t, x) ==
    LET Reaches(e, y) == /\ Ref(e, y) \in Rows(To(e))
                         /\ Accepts(To(e), Ref(e, y)) = TRUE
                         /\ About(e, y) = TRUE
        joined[i \in 0..Len(es)] ==
          IF i = 0 THEN {t :> x}
          ELSE IF To(es[i]) \in over THEN joined[i - 1]
          ELSE {(To(es[i]) :> IF Reaches(es[i], j[From(es[i])])
                              THEN Ref(es[i], j[From(es[i])]) ELSE Null) @@ j :
                  j \in {k \in joined[i - 1] :
                           \/ Reaches(es[i], k[From(es[i])])
                           \/ Optional(es, i)}}
    IN  joined[Len(es)]

\* generateOverriddenTableInClause
InOverridden(e, keys, j, nullable) ==
    \/ Ref(e, j[From(e)]) \in keys
    \/ nullable /\ Ref(e, j[From(e)]) \in {Null, Partial}

\* A mutant: only the last reference is checked.
IntegrityChecks_Last(es, over, j) ==
    es # <<>> =>
        LET e == Last(es)
        IN  Nullability(es)[To(e)] /\ To(e) \notin DOMAIN over =>
                Ref(e, j[From(e)]) = Null \/ j[To(e)] # Null

\* generateIntegrityChecksForNullableEdges; over gives the keys of a CTE.
IntegrityChecks(es, over, j) ==
    \A i \in DOMAIN es :
        LET e == es[i] IN
        Nullability(es)[To(e)] =>
            IF To(e) \in DOMAIN over THEN InOverridden(e, over[To(e)], j, TRUE)
            ELSE \/ Ref(e, j[From(e)]) = Null
                 \/ j[To(e)] # Null
                 \/ About(e, j[From(e)]) = FALSE

\* pruneConds
Pruned(es, over, j) ==
    \A i \in DOMAIN es :
        To(es[i]) \in DOMAIN over /\ ~Optional(es, i) =>
            InOverridden(es[i], over[To(es[i])], j, FALSE)

-----------------------------------------------------------------------------
(* The cycles of a component *)

HasCycle(c) == \E e \in DOMAIN edges : comp[From(e)] = c /\ comp[To(e)] = c

\* The edges of t in its component, sorted by the table they lead to
Inner(t) == SortSeq(SelectSeq(EdgesFrom(t), LAMBDA e : comp[To(e)] = comp[t]),
                    LAMBDA d, e : Before(To(d), To(e)))

\* findAllCyclesDfs: s has the tables visited and the cycles found; a table
\* that has been left is not visited again, on whatever way it is reached.
RECURSIVE CyclesDfs(_, _, _), CyclesAlong(_, _, _, _)

CyclesDfs(t, s, path) ==
    CyclesAlong(t, Inner(t), [s EXCEPT !.visited = @ \cup {t}], path)

CyclesAlong(t, es, s, path) ==
    IF es = <<>> THEN s ELSE
    LET e == Head(es)
        way == Append(path, e)
        onWay == {i \in DOMAIN way : From(way[i]) = To(e)}
        cycle == SubSeq(way, Max(onWay), Len(way))
        next == CASE To(e) \notin s.visited -> CyclesDfs(To(e), s, way)
                  [] To(e) \in s.visited /\ onWay # {} /\
                       \A k \in DOMAIN s.cycles : Range(s.cycles[k]) # Range(cycle) ->
                         [s EXCEPT !.cycles = Append(@, cycle)]
                  [] OTHER -> s
    IN  CyclesAlong(t, Tail(es), next, path)

\* findCycles
Cycles(c) ==
    LET found[i \in 0..Len(layout.tables)] ==
          IF i = 0 THEN [visited |-> {}, cycles |-> <<>>]
          ELSE LET t == layout.tables[i] s == found[i - 1]
               IN  IF comp[t] # c \/ t \in s.visited THEN s ELSE CyclesDfs(t, s, <<>>)
    IN  found[Len(layout.tables)].cycles

TablesOf(cycle) == {To(cycle[i]) : i \in DOMAIN cycle}

\* groupCycles: the sets of tables of the cycles
Groups(c) == {TablesOf(Cycles(c)[i]) : i \in DOMAIN Cycles(c)}

InGroup(c, group) == SelectSeq(Cycles(c), LAMBDA cycle : TablesOf(cycle) = group)

\* The groups' ids, strings of positions, in their order
IdBefore(g, h) ==
    LET a == SetToSortSeq({Position(t) : t \in g}, <)
        b == SetToSortSeq({Position(t) : t \in h}, <)
        same == {n \in 0..Min({Len(a), Len(b)}) : SubSeq(a, 1, n) = SubSeq(b, 1, n)}
        n == Max(same) + 1
    IN  n \in DOMAIN b /\ (n \in DOMAIN a => a[n] < b[n])

\* getSortedGroupIds: the groups with conditions first, then those that share
\* tables with a group before them; a pass takes the groups in their order.
SortedFrom(sorted0) ==
    LET own == SelectSeq(sorted0, LAMBDA g : g \cap conds # {})
        pass(done) ==
          LET take[i \in 0..Len(sorted0)] ==
                IF i = 0 THEN done
                ELSE LET g == sorted0[i] IN
                     IF /\ g \notin Range(take[i - 1])
                        /\ \E h \in Range(take[i - 1]) : g \cap h # {}
                     THEN Append(take[i - 1], g) ELSE take[i - 1]
              all == take[Len(sorted0)]
              left == SelectSeq(sorted0, LAMBDA g : g \notin Range(all))
          IN  IF all = done /\ left # <<>> THEN Append(all, Head(left)) ELSE all
        passes[n \in 0..Len(sorted0)] == IF n = 0 THEN own ELSE pass(passes[n - 1])
    IN  passes[Len(sorted0)]

SortedGroups(c) == SortedFrom(SetToSortSeq(Groups(c), IdBefore))

-----------------------------------------------------------------------------
(***************************************************************************)
(* The recursive queries.  What restricts the rows of the cycle is a       *)
(* record: rest, the edges that leave the component; over, the overridden  *)
(* tables with their keys; extra, conditions on tables of the component: a *)
(* reference, or the key (edge 0), of a table is in a set of keys.         *)
(***************************************************************************)
ExtraHolds(x, j) ==
    LET v == IF x.edge = 0 THEN j[x.table] ELSE Ref(x.edge, j[x.table]) IN
    IF x.edge # 0 /\ edges[x.edge].nullable /\ v \in {Null, Partial} THEN TRUE
    ELSE IF v \in {Null, Partial} /\ x.keys # {} THEN Null ELSE v \in x.keys

Along(cycle, by) == Reduced(Front(cycle) \o by.rest, DOMAIN by.over)

RowsFrom(cycle, by, x) ==
    {j \in Joined(Along(cycle, by), DOMAIN by.over, From(Head(cycle)), x) :
       Pruned(Along(cycle, by), by.over, j)}

\* The conditions of the cycle and the checks, together the column "valid"
Valid(cycle, by, j) ==
    And({Accepts(t, j[t]) : t \in TablesOf(cycle)}
        \cup {ExtraHolds(x, j) : x \in {y \in by.extra : y.table \in TablesOf(cycle)}}
        \cup {IntegrityChecks(Along(cycle, by), by.over, j)})

\* The recursive part: over the edge that the joins leave out.  What it is
\* about is asked of the row that it leads to: of a table that refers to itself.
NextRows(cycle, by, q) ==
    LET e == Last(cycle)
        x == Ref(e, q.row[From(e)])
    IN  IF q.valid = TRUE /\ x \in Rows(To(e)) \ q.path /\ About(e, x) = TRUE
        THEN {[start |-> x, row |-> j, path |-> q.path \cup {x},
               valid |-> Valid(cycle, by, j)] : j \in RowsFrom(cycle, by, x)}
        ELSE {}

\* At most n steps from the rows that it has come to.
RECURSIVE Steps(_, _, _, _)

Steps(cycle, by, rows, n) ==
    IF n = 0 THEN rows
    ELSE Steps(cycle, by, rows \cup UNION {NextRows(cycle, by, q) : q \in rows}, n - 1)

Walk(cycle, by, initial) ==
    Steps(cycle, by, initial, Cardinality(Rows(From(Head(cycle)))))

Start(cycle, by, x) ==
    {[start |-> x, row |-> j, path |-> {x}, valid |-> Valid(cycle, by, j)] :
       j \in RowsFrom(cycle, by, x)}

\* generateQuery: it begins at the rows that are valid
CycleQuery(cycle, by) ==
    Walk(cycle, by, {q \in UNION {Start(cycle, by, x) : x \in Rows(From(Head(cycle)))} :
                       q.valid = TRUE})

\* shiftCycle
Shift(cycle) == <<Last(cycle)>> \o Front(cycle)

\* shiftUntilVertexWillBeFirst
ShiftTo(cycle, t) ==
    LET shifted[n \in 0..Len(cycle)] == IF n = 0 THEN cycle ELSE Shift(shifted[n - 1])
        first == {n \in 0..Len(cycle) : From(Head(shifted[n])) = t}
    IN  shifted[Min(first)]

\* generateOverlapQuery: it begins at the rows that the other cycles came to
OverlapQuery(cycle, others, by) ==
    Walk(cycle, by,
         UNION {Start(cycle, by, x) :
                  x \in {q.start : q \in UNION {CycleQuery(ShiftTo(o, From(Head(cycle))), by) :
                                               o \in others}}})

\* generateFilteredQueries, generateIntegrityCheckJoinConds: the cycles shifted
\* alike need not begin at the same table.
NotRefused(rows, t) ==
    LET refused == UNION {q.path : q \in {r \in rows : r.valid = FALSE}}
    IN  {q.row : q \in {r \in rows : refused = {} \/ r.row[t] \notin refused \cup {Null}}}

Filtered(cycles, by) ==
    NotRefused(UNION {CycleQuery(cycles[i], by) : i \in DOMAIN cycles}
               \cup IF Len(cycles) = 1 THEN {}
                    ELSE UNION {OverlapQuery(cycles[i],
                                   {cycles[k] : k \in DOMAIN cycles \ {i}}, by) :
                                i \in DOMAIN cycles},
               From(Head(cycles[1])))

\* generateAllTablesValidPkSelection: of each start, then all together
GroupKeys(cycles, by, t) ==
    LET shifted[n \in 0..Len(cycles[1])] ==
          IF n = 0 THEN cycles ELSE [i \in DOMAIN cycles |-> Shift(shifted[n - 1][i])]
    IN  UNION {{j[t] : j \in Filtered(shifted[n], by)} : n \in 0..(Len(cycles[1]) - 1)}
        \ {Null}

\* Whether PostgreSQL takes the queries of a component: each table is in a cycle
\* that was found, a group joins only what its own tables refer to, and the
\* recursive part joins no polymorphic reference of a table that it joins later.
Accepted(c, rest) ==
    /\ \A t \in Table : comp[t] = c => \E g \in Groups(c) : t \in g
    /\ \A cycle \in Range(Cycles(c)), e \in DOMAIN edges :
         e \in Range(cycle) /\ edges[e].poly => Len(cycle) = 1
    /\ \A g \in Groups(c), i \in DOMAIN rest : comp[From(rest[i])] = c => From(rest[i]) \in g

\* generateQueryForScc, generateQueriesForMultiGroupScc: the keys of the tables
\* of a component, group after group
GroupAfterGroup(groups, c, by) ==
    LET keys[n \in 0..Len(groups)] ==
          IF n = 0 THEN [t \in {u \in Table : comp[u] = c} |-> Rows(t)]
          ELSE LET g == groups[n]
                   before == UNION {groups[k] : k \in 1..(n - 1)}
                   prior == [by EXCEPT !.extra = @ \cup
                              {[table |-> t, edge |-> 0, keys |-> keys[n - 1][t]] :
                                 t \in g \cap before}]
               IN  [t \in DOMAIN keys[n - 1] |->
                      IF t \in g THEN keys[n - 1][t] \cap GroupKeys(InGroup(c, g), prior, t)
                      ELSE keys[n - 1][t]]
    IN  keys[Len(groups)]

ComponentKeys(c, by) == GroupAfterGroup(SortedGroups(c), c, by)
=============================================================================
