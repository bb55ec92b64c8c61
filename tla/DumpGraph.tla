----------------------------- MODULE DumpGraph ------------------------------
(***************************************************************************)
(* How a dump computes DumpIdsOrder and DependenciesGraph of metadata.json *)
(* from the references between its tables: Kosaraju's algorithm numbers    *)
(* the strongly connected components, a depth-first search of the          *)
(* condensed graph sorts them, and setDumpDependenciesGraph translates the *)
(* oids of the tables into dump ids.                                       *)
(*                                                                         *)
(* The searches are explicit here: a stack, and a choice among the edges   *)
(* of its top, since the order in which PostgreSQL returns the foreign     *)
(* keys is arbitrary; and so is the numbering of the tables.               *)
(*                                                                         *)
(* Code: internal/db/postgres/subset/graph.go, condenced_edge.go and       *)
(* setDumpDependenciesGraph of internal/db/postgres/cmd/dump.go.           *)
(***************************************************************************)
EXTENDS Naturals, Sequences, FiniteSets, SequencesExt

CONSTANTS
    Table,      \* the tables of the dump; each has an oid and a dump id
    Layouts,    \* the order of the tables in DataSectionObjects, their roots
    NoTable,    \* "no table"
    MaxRefs     \* a bound on the number of references

\* root: RootPtOid, which the partitions have to whose root a transformer with
\* apply_for_inherited was given.
LayoutType == [tables : {s \in Seq(Table) : IsInjective(s)},
               root   : [Table -> Table \cup {NoTable}]]

ASSUME GraphAssumption ==
    /\ IsFiniteSet(Table) /\ NoTable \notin Table /\ MaxRefs \in Nat
    /\ \A l \in Layouts : l \in LayoutType /\ Range(l.tables) = Table

VARIABLES
    layout,
    refs,     \* the references: <<from, to>>, between tables of the dump
    phase,    \* "order", "mark", "sort", "list", "ids" or "done"
    stack,    \* the calls of the depth-first search under way
    visited,  \* the vertices it has reached
    order,    \* Graph.order; then the sorted components
    comp,     \* originalVertexesToComponents
    count,    \* sscCount
    sorted,   \* the sorted tables
    dumpDeps, \* dumpDependenciesGraph
    dumpOrder \* sortedTablesDumpIds

vars == <<layout, refs, phase, stack, visited, order, comp, count, sorted,
          dumpDeps, dumpOrder>>

input == <<layout, refs>>
results == <<sorted, dumpDeps, dumpOrder>>

NotVisited == Cardinality(Table)

Init ==
    /\ layout \in Layouts
    /\ refs \in {r \in SUBSET (Table \X Table) : Cardinality(r) <= MaxRefs}
    /\ phase = "order" /\ stack = <<>> /\ visited = {} /\ order = <<>>
    /\ comp = [t \in Table |-> NotVisited] /\ count = 0
    /\ sorted = <<>> /\ dumpDeps = [t \in Table |-> {}] /\ dumpOrder = <<>>

(* A depth-first search that appends to order each vertex it leaves *)

Enter(v) == /\ stack' = Append(stack, v) /\ visited' = visited \cup {v}
            /\ UNCHANGED <<input, phase, order, comp, count, results>>

\* succ: the edges of the top of the stack.
Descend(succ) == /\ stack # <<>>
                 /\ \E v \in succ \ visited : Enter(v)

Leave(succ) == /\ stack # <<>> /\ succ \subseteq visited
               /\ order' = Append(order, Last(stack))
               /\ stack' = Front(stack)
               /\ UNCHANGED <<input, phase, visited, comp, count, results>>

(* findScc: topologicalSortDfs, then markComponentDfs *)

Position(t) == CHOOSE i \in DOMAIN layout.tables : layout.tables[i] = t

\* The loops over the tables take them in their order.
Before(t, u) == Position(t) < Position(u)

References(t) == {u \in Table : <<t, u>> \in refs}

\* A mutant: the outer loop does not check for visited tables.
Order_Again ==
    /\ phase = "order"
    /\ \/ stack = <<>> /\ \E v \in Table : Enter(v)
       \/ stack # <<>> /\ Descend(References(Last(stack)))
       \/ stack # <<>> /\ Leave(References(Last(stack)))

Order ==
    /\ phase = "order"
    /\ \/ stack = <<>> /\ \E v \in Table \ visited : /\ Enter(v)
                                                   /\ \A u \in Table \ visited : ~Before(u, v)
       \/ stack # <<>> /\ Descend(References(Last(stack)))
       \/ stack # <<>> /\ Leave(References(Last(stack)))

\* A mutant: the order is not reversed.
Ordered_NotReversed ==
    /\ phase = "order" /\ stack = <<>> /\ visited = Table
    /\ phase' = "mark"
    /\ UNCHANGED <<input, stack, visited, order, comp, count, results>>

Ordered ==
    /\ phase = "order" /\ stack = <<>> /\ visited = Table
    /\ phase' = "mark" /\ order' = Reverse(order)
    /\ UNCHANGED <<input, stack, visited, comp, count, results>>

Unmarked == {t \in Table : comp[t] = NotVisited}

\* The tables that markComponentDfs has still to visit: the search goes
\* against the references.
ToMark == {t \in Unmarked : count > 0 /\
              \E u \in Table : comp[u] = count - 1 /\ <<t, u>> \in refs}

\* The whole of a search marks the same tables in any order.
Mark ==
    /\ phase = "mark"
    /\ \E t \in ToMark : comp' = [comp EXCEPT ![t] = count - 1]
    /\ UNCHANGED <<input, phase, stack, visited, order, count, results>>

\* The next component begins at the first table of the order without one.
MarkNext ==
    /\ phase = "mark" /\ ToMark = {}
    /\ \E i \in DOMAIN order :
          /\ order[i] \in Unmarked
          /\ \A j \in 1..(i - 1) : order[j] \notin Unmarked
          /\ comp' = [comp EXCEPT ![order[i]] = count]
    /\ count' = count + 1
    /\ UNCHANGED <<input, phase, stack, visited, order, results>>

Marked ==
    /\ phase = "mark" /\ Unmarked = {}
    /\ phase' = "sort" /\ visited' = {} /\ order' = <<>>
    /\ UNCHANGED <<input, stack, comp, count, results>>

(* buildCondensedGraph, sortCondensedEdges *)

\* The components that refer to component c: reversedCondensedGraph.
Referencing(c) == {comp[r[1]] : r \in {x \in refs : comp[x[2]] = c}} \ {c}

\* The components are numbered from 0; the outer loop takes them in order.
Sort ==
    /\ phase = "sort"
    /\ \/ /\ stack = <<>>
          /\ \E c \in 0..(count - 1) :
                /\ c \notin visited /\ \A d \in 0..(c - 1) : d \in visited
                /\ Enter(c)
       \/ stack # <<>> /\ Descend(Referencing(Last(stack)))
       \/ stack # <<>> /\ Leave(Referencing(Last(stack)))

Sorted ==
    /\ phase = "sort" /\ stack = <<>> /\ visited = 0..(count - 1)
    /\ phase' = "list"
    /\ UNCHANGED <<input, stack, visited, order, comp, count, results>>

(* GetSortedTablesAndDependenciesGraph *)

\* A mutant: the list is not reversed.
List_NotReversed ==
    /\ phase = "list" /\ Len(sorted) < Cardinality(Table)
    /\ \E t \in Table \ Range(sorted) :
          /\ \A i \in DOMAIN order :
                (\E u \in Table \ Range(sorted) : comp[u] = order[i]) =>
                    \E j \in 1..i : order[j] = comp[t]
          /\ sorted' = Append(sorted, t)
    /\ UNCHANGED <<input, phase, stack, visited, order, comp, count,
                   dumpDeps, dumpOrder>>

\* The tables of the components in their order, those of one component in
\* any order (a map); the list is then reversed.
List ==
    /\ phase = "list" /\ Len(sorted) < Cardinality(Table)
    /\ \E t \in Table \ Range(sorted) :
          /\ \A i \in DOMAIN order :
                (\E u \in Table \ Range(sorted) : comp[u] = order[i]) =>
                    \E j \in 1..i : order[j] = comp[t]
          /\ sorted' = <<t>> \o sorted
    /\ UNCHANGED <<input, phase, stack, visited, order, comp, count,
                   dumpDeps, dumpOrder>>

Listed ==
    /\ phase = "list" /\ Len(sorted) = Cardinality(Table)
    /\ phase' = "ids"
    /\ UNCHANGED <<input, stack, visited, order, comp, count, results>>

\* dependenciesGraph[t]: the tables of the components that t's refers to.  The
\* loop over the components empties the list of t when it comes to t's own:
\* what a component with a smaller number had put there would be lost.
Dependencies(t) ==
    {u \in Table : /\ comp[u] # comp[t] /\ comp[t] \in Referencing(comp[u])
                   /\ comp[u] >= comp[t]}

(* setDumpDependenciesGraph *)

\* The first table of DataSectionObjects with this oid or this root's oid.
Lookup(oid) ==
    LET found(i) == oid \in {layout.tables[i], layout.root[layout.tables[i]]}
    IN  layout.tables[CHOOSE i \in DOMAIN layout.tables :
                          found(i) /\ \A j \in 1..(i - 1) : ~found(j)]

\* A mutant: the dependencies of the last table are kept for the next one.
SetDependencies_NotReset ==
    /\ phase = "ids" /\ Len(dumpOrder) < Len(sorted)
    /\ LET oid == sorted[Len(dumpOrder) + 1] IN
          /\ dumpOrder' = Append(dumpOrder, Lookup(oid))
          /\ dumpDeps' = [dumpDeps EXCEPT ![Lookup(oid)] =
                 Dependencies(oid) \cup
                 (IF dumpOrder = <<>> THEN {} ELSE dumpDeps[Last(dumpOrder)])]
    /\ UNCHANGED <<input, phase, stack, visited, order, comp, count, sorted>>

SetDependencies ==
    /\ phase = "ids" /\ Len(dumpOrder) < Len(sorted)
    /\ LET oid == sorted[Len(dumpOrder) + 1] IN
          /\ dumpOrder' = Append(dumpOrder, Lookup(oid))
          /\ dumpDeps' = [dumpDeps EXCEPT ![Lookup(oid)] = Dependencies(oid)]
    /\ UNCHANGED <<input, phase, stack, visited, order, comp, count, sorted>>

Finish ==
    /\ phase = "ids" /\ Len(dumpOrder) = Len(sorted)
    /\ phase' = "done"
    /\ UNCHANGED <<input, stack, visited, order, comp, count, results>>

Next == \/ Order \/ Ordered \/ Mark \/ MarkNext \/ Marked
        \/ Sort \/ Sorted \/ List \/ Listed \/ SetDependencies \/ Finish

Spec == Init /\ [][Next]_vars

-----------------------------------------------------------------------------
(* The reference definitions *)

\* What table t refers to over at most n references, and t.
Reach(t) ==
    LET reach[n \in 0..Cardinality(Table)] ==
            IF n = 0 THEN {t}
            ELSE LET before == reach[n - 1]
                 IN  before \cup UNION {References(u) : u \in before}
    IN  reach

\* What table t refers to, directly or through others, and t.
Reachable(t) == Reach(t)[Cardinality(Table)]

\* The tables of the reference cycles through t, and t.
Cycle(t) == {u \in Reachable(t) : t \in Reachable(u)}

\* A partition comes before its root, and carries the root's oid.
Aliased == \E i, j \in DOMAIN layout.tables :
               i < j /\ layout.root[layout.tables[i]] = layout.tables[j]

(* Properties *)

\* Every variable has its type.
TypeOK ==
    /\ layout \in Layouts /\ refs \subseteq Table \X Table
    /\ phase \in {"order", "mark", "sort", "list", "ids", "done"}
    /\ Range(stack) \subseteq visited
    /\ visited \subseteq Table \/ visited \subseteq 0..(count - 1)
    /\ IsInjective(order) /\ Range(order) \subseteq visited \cup Table
    /\ comp \in [Table -> 0..NotVisited] /\ count \in 0..NotVisited
    /\ IsInjective(sorted)
    /\ dumpDeps \in [Table -> SUBSET Table] /\ Range(dumpOrder) \subseteq Table

\* findScc: two tables are in one component exactly if each refers, directly
\* or through others, to the other one.
ComponentsAreCycles ==
    phase = "sort" /\ order = <<>> =>
        \A t \in Table : {u \in Table : comp[u] = comp[t]} = Cycle(t)

\* What restore relies on: the order has every table of the dump once, and
\* after everything it depends on; and a table depends on all the tables that
\* its cycle refers to, and on nothing else.
OrderIsTopological ==
    phase = "done" /\ ~Aliased =>
        /\ IsInjective(dumpOrder) /\ Range(dumpOrder) = Table
        /\ \A i \in DOMAIN dumpOrder :
               dumpDeps[dumpOrder[i]] \subseteq Range(SubSeq(dumpOrder, 1, i - 1))

DependenciesAreReferences ==
    phase = "done" /\ ~Aliased =>
        \A t \in Table : LET cycle == Cycle(t) IN
            dumpDeps[t] =
                (UNION {Cycle(u) : u \in UNION {References(x) : x \in cycle}}) \ cycle

\* The comment of setDumpDependenciesGraph: a topological order of dump ids,
\* which has every id once, whatever transformers the tables have.
EveryIdOnce == phase = "done" => IsInjective(dumpOrder)
=============================================================================
