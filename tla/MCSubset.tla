------------------------------ MODULE MCSubset ------------------------------
(* Small schemas and all databases of one to three rows in each table.       *)
EXTENDS Subset, MCDumpGraph

Edge(f, t) == [from |-> f, to |-> t, nullable |-> FALSE, poly |-> FALSE]
Maybe(f, t) == [Edge(f, t) EXCEPT !.nullable = TRUE]
Poly(f, t) == [Maybe(f, t) EXCEPT !.poly = TRUE]

\* Of the tables with a condition row 1 meets it.  A reference leads to some row,
\* or is NULL; of a pair of columns one may be NULL.
MCDatabases(s) ==
    LET Values(e) == 1..s.size[s.edges[e].to]
                     \cup (IF s.edges[e].nullable THEN {Null} ELSE {})
                     \cup (IF e \in s.wide THEN {Partial} ELSE {})
        cells == {<<e, x>> \in (DOMAIN s.edges) \X (1..3) : x <= s.size[s.edges[e].from]}
        values == {f \in [cells -> 1..3 \cup {Null, Partial}] : \A c \in cells : f[c] \in Values(c[1])}
        ofRows(e) == 1..s.size[s.edges[e].from]
    IN  {[ok   |-> [t \in MCTable |-> [x \in 1..s.size[t] |-> x = 1]],
          ref  |-> [e \in DOMAIN s.edges |-> [x \in ofRows(e) |-> f[<<e, x>>]]],
          poly |-> [e \in DOMAIN s.edges |-> [x \in ofRows(e) |-> x % 2 = e % 2]]] : f \in values}

Schema(es, cs, size) == [edges |-> es, conds |-> cs, size |-> size, wide |-> {}]

Size(a, b, c, d) == t1 :> a @@ t2 :> b @@ t3 :> c @@ t4 :> d

Plain == {
    Schema(<<Maybe(t1, t2), Edge(t2, t3), Maybe(t2, t4)>>, {t3, t4}, Size(2, 2, 2, 2)),
    Schema(<<Maybe(t1, t2), Edge(t1, t3), Maybe(t2, t4), Maybe(t3, t4)>>, {t4}, Size(1, 2, 2, 2)),
    Schema(<<Maybe(t1, t2), Edge(t1, t2)>>, {t2}, Size(2, 2, 1, 1)),
    [Schema(<<Maybe(t1, t2), Edge(t2, t3)>>, {t3}, Size(2, 2, 2, 1)) EXCEPT !.wide = {1}],
    Schema(<<Edge(t1, t2), Edge(t1, t2), Edge(t2, t3)>>, {t3}, Size(2, 2, 2, 1)),
    Schema(<<Poly(t1, t2), Poly(t1, t3), Edge(t2, t4)>>, {t3, t4}, Size(2, 2, 2, 2)),
    Schema(<<Poly(t1, t2), Edge(t1, t2)>>, {t2}, Size(2, 2, 1, 1))}

Cyclic == {
    Schema(<<Maybe(t1, t1), Edge(t2, t1)>>, {t1}, Size(3, 1, 1, 1)),
    Schema(<<Edge(t1, t1), Edge(t1, t2)>>, {t2}, Size(2, 2, 1, 1)),
    Schema(<<Maybe(t1, t2), Maybe(t2, t1)>>, {t1}, Size(2, 2, 1, 1)),
    Schema(<<Maybe(t1, t2), Maybe(t2, t1), Maybe(t2, t3)>>, {t3}, Size(2, 2, 2, 1)),
    Schema(<<Maybe(t1, t2), Maybe(t2, t3), Maybe(t3, t1), Edge(t4, t1)>>, {t2}, Size(1, 2, 1, 1)),
    Schema(<<Maybe(t1, t2), Maybe(t2, t1), Maybe(t2, t1), Maybe(t1, t3)>>, {t3}, Size(1, 2, 2, 1)),
    Schema(<<Maybe(t1, t2), Maybe(t1, t1), Maybe(t2, t1)>>, {t2}, Size(2, 1, 1, 1)),
    Schema(<<Maybe(t1, t2), Maybe(t2, t3), Maybe(t3, t2), Maybe(t2, t1)>>, {t3}, Size(1, 1, 2, 1)),
    Schema(<<Maybe(t1, t1), Maybe(t1, t2), Maybe(t1, t2)>>, {t2}, Size(2, 2, 1, 1)),
    Schema(<<Maybe(t1, t1), Maybe(t1, t2), Maybe(t2, t2)>>, {t2}, Size(2, 2, 1, 1)),
    Schema(<<Maybe(t1, t1), Poly(t1, t2), Poly(t1, t2)>>, {t2}, Size(1, 2, 1, 1)),
    Schema(<<Poly(t1, t1), Edge(t2, t1)>>, {t1}, Size(2, 2, 1, 1))}

\* All pairs of references between three tables, one to a table with a condition
References3 == [from : {t1, t2, t3}, to : {t1, t2, t3}, nullable : BOOLEAN, poly : {FALSE}]

Pairs == {Schema(<<d, e>>, {t3}, Size(2, 2, 2, 1)) :
            d \in References3, e \in {r \in References3 : r.to = t3}}

MCSchemas == Plain \cup Cyclic \cup Pairs

\* Employees with a manager and a department.
Hierarchy == {Schema(<<Maybe(t1, t1), Edge(t1, t2)>>, {t2}, Size(2, 2, 1, 1))}
=============================================================================
