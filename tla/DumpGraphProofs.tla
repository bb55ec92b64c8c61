--------------------------- MODULE DumpGraphProofs --------------------------
(***************************************************************************)
(* The order and the dependencies that a dump writes into its metadata,    *)
(* for every number of tables and every graph of references: Kosaraju's    *)
(* algorithm finds the cycles, the order is topological, and a table       *)
(* depends on what its cycle refers to.                                    *)
(***************************************************************************)
EXTENDS DumpGraph, SetInduction

N == Cardinality(Table)

-----------------------------------------------------------------------------
(* Reachability *)

\* The tables can be counted.
LEMMA TableFinite == IsFiniteSet(Table) /\ N \in Nat
  BY GraphAssumption, FS_CardinalityType DEF N

\* What is reached over n references is given by what is over one fewer.
LEMMA ReachRecursion ==
  ASSUME NEW t \in Table
  PROVE  Reach(t) = [n \in 0..N |->
             IF n = 0 THEN {t}
             ELSE Reach(t)[n - 1] \cup UNION {References(u) : u \in Reach(t)[n - 1]}]
<1> DEFINE After(x) == x \cup UNION {References(u) : u \in x}
           Is(f, k) == f = [i \in 0..k |-> IF i = 0 THEN {t} ELSE After(f[i - 1])]
           Q == {k \in Nat : \E f : Is(f, k)}
<1>0. N \in Nat
  BY TableFinite
<1>1. 0 \in Q
  <2> DEFINE f == [i \in 0..0 |-> {t}]
  <2>1. Is(f, 0)
    OBVIOUS
  <2> HIDE DEF f, Is
  <2> QED BY <2>1
<1>2. ASSUME NEW k \in Nat, k \in Q PROVE k + 1 \in Q
  <2>1. PICK f : Is(f, k)
    BY <1>2
  <2> DEFINE g == [i \in 0..(k + 1) |-> IF i = k + 1 THEN After(f[k]) ELSE f[i]]
  <2>2. ASSUME NEW i \in 0..(k + 1)
        PROVE  g[i] = IF i = 0 THEN {t} ELSE After(g[i - 1])
    <3> HIDE DEF After
    <3>1. CASE i = k + 1
      <4>1. k \in 0..(k + 1) /\ k # k + 1 /\ g[k] = f[k]
        OBVIOUS
      <4> QED BY <3>1, <4>1
    <3>2. CASE i # k + 1
      <4>1. i \in 0..k /\ g[i] = f[i]
        BY <3>2
      <4>2. i # 0 => i - 1 \in 0..(k + 1) /\ i - 1 # k + 1 /\ g[i - 1] = f[i - 1]
        BY <4>1
      <4>3. f[i] = IF i = 0 THEN {t} ELSE After(f[i - 1])
        BY <2>1, <4>1
      <4> QED BY <4>1, <4>2, <4>3
    <3> QED BY <3>1, <3>2
  <2>3. Is(g, k + 1)
    BY <2>2
  <2> HIDE DEF g, Is
  <2> QED BY <2>3
<1>3. \E f : Is(f, N)
  <2>1. Nat \subseteq Q
    <3> HIDE DEF Q
    <3> QED BY <1>1, <1>2, NatSetInduction
  <2> QED BY <1>0, <2>1
<1> DEFINE W == CHOOSE f : Is(f, N)
<1>4. Is(W, N)
  BY <1>3
<1>5. Reach(t) = W
  BY DEF Reach, N
<1> QED
  BY <1>4, <1>5

\* S holds with each table what it refers to.
Holds(S) == \A u \in S : References(u) \subseteq S

\* What is reached in N steps is closed, since each step before reaches a
\* further table; and it is in every closed set that t is in.
LEMMA ReachableFacts ==
  ASSUME NEW t \in Table
  PROVE  /\ t \in Reachable(t) /\ Reachable(t) \subseteq Table /\ Holds(Reachable(t))
         /\ \A S : t \in S /\ Holds(S) => Reachable(t) \subseteq S
<1> DEFINE A == Reach(t)
           After(x) == x \cup UNION {References(u) : u \in x}
           Q == {k \in Nat : k <= N => /\ t \in A[k] /\ A[k] \subseteq Table
                                       /\ \/ Holds(A[k])
                                          \/ Cardinality(A[k]) >= k + 1
                                       /\ \A S : t \in S /\ Holds(S) => A[k] \subseteq S}
<1>0. N \in Nat /\ IsFiniteSet(Table)
  BY TableFinite
<1>1. A[0] = {t} /\ \A k \in 1..N : A[k] = After(A[k - 1])
  <2>1. A = [n \in 0..N |-> IF n = 0 THEN {t} ELSE After(A[n - 1])]
    BY ReachRecursion
  <2> HIDE DEF A, After
  <2>2. 0 \in 0..N /\ \A k \in 1..N : k \in 0..N /\ k # 0
    BY <1>0
  <2> QED BY <2>1, <2>2
<1> HIDE DEF A
<1>2. 0 \in Q
  <2>1. Cardinality({t}) = 1
    BY FS_Singleton
  <2> QED BY <1>1, <2>1
<1>3. ASSUME NEW k \in Nat, k \in Q PROVE k + 1 \in Q
  <2> SUFFICES ASSUME k + 1 <= N
               PROVE  /\ t \in A[k + 1] /\ A[k + 1] \subseteq Table
                      /\ \/ Holds(A[k + 1])
                         \/ Cardinality(A[k + 1]) >= k + 2
                      /\ \A S : t \in S /\ Holds(S) => A[k + 1] \subseteq S
    OBVIOUS
  <2>1. A[k + 1] = After(A[k])
    <3>1. k + 1 \in 1..N /\ (k + 1) - 1 = k
      BY <1>0
    <3> QED BY <1>1, <3>1
  <2>2. /\ t \in A[k] /\ A[k] \subseteq Table
        /\ Holds(A[k]) \/ Cardinality(A[k]) >= k + 1
        /\ \A S : t \in S /\ Holds(S) => A[k] \subseteq S
    BY <1>0, <1>3
  <2>3. t \in A[k + 1] /\ A[k] \subseteq A[k + 1]
    BY <2>1, <2>2
  <2>4. A[k + 1] \subseteq Table
    BY <2>1, <2>2 DEF References
  <2>5. ASSUME NEW S, t \in S, Holds(S) PROVE A[k + 1] \subseteq S
    BY <2>1, <2>2, <2>5 DEF Holds
  <2>6. CASE A[k + 1] = A[k]
    <3>1. Holds(A[k])
      BY <2>1, <2>6 DEF Holds
    <3> QED BY <2>3, <2>4, <2>5, <2>6, <3>1
  <2>7. CASE A[k + 1] # A[k]
    <3>1. ~Holds(A[k])
      BY <2>1, <2>7 DEF Holds
    <3>2. IsFiniteSet(A[k + 1]) /\ A[k] \in SUBSET A[k + 1]
      BY <1>0, <2>3, <2>4, FS_Subset
    <3>3. /\ Cardinality(A[k]) <= Cardinality(A[k + 1])
          /\ Cardinality(A[k]) # Cardinality(A[k + 1])
          /\ Cardinality(A[k]) \in Nat /\ Cardinality(A[k + 1]) \in Nat
      BY <2>7, <3>2, FS_Subset, FS_CardinalityType
    <3>4. Cardinality(A[k + 1]) >= k + 2
      BY <2>2, <3>1, <3>3
    <3> QED BY <2>3, <2>4, <2>5, <3>4
  <2> QED BY <2>6, <2>7
<1>4. Nat \subseteq Q
  <2> HIDE DEF Q
  <2> QED BY <1>2, <1>3, NatSetInduction
<1>5. /\ t \in A[N] /\ A[N] \subseteq Table
      /\ Holds(A[N]) \/ Cardinality(A[N]) >= N + 1
      /\ \A S : t \in S /\ Holds(S) => A[N] \subseteq S
  BY <1>0, <1>4
<1>6. ~(Cardinality(A[N]) >= N + 1)
  <2>1. Cardinality(A[N]) <= N /\ Cardinality(A[N]) \in Nat
    BY <1>0, <1>5, FS_Subset, FS_CardinalityType DEF N
  <2> QED BY <1>0, <2>1
<1> QED
  BY <1>5, <1>6 DEF A, Reachable, N

\* Reachability is transitive and holds each reference.
LEMMA ReachableOn ==
  ASSUME NEW t \in Table, NEW u \in Reachable(t)
  PROVE  /\ u \in Table /\ Reachable(u) \subseteq Reachable(t)
         /\ References(u) \subseteq Reachable(t)
<1>1. u \in Table /\ Holds(Reachable(t))
  BY ReachableFacts
<1>2. Reachable(u) \subseteq Reachable(t)
  BY <1>1, ReachableFacts
<1> QED
  BY <1>1, <1>2 DEF Holds

-----------------------------------------------------------------------------
(* A depth-first search of the vertices V whose edges lead from v to S[v] *)

\* A sequence with an element more.
LEMMA AppendFacts ==
  ASSUME NEW V, NEW s \in Seq(V), NEW x \in V
  PROVE  LET t == Append(s, x)
         IN  /\ t \in Seq(V) /\ Len(s) \in Nat /\ Len(t) = Len(s) + 1
             /\ \A i \in 1..Len(s) : t[i] = s[i]
             /\ t[Len(s) + 1] = x /\ Range(t) = Range(s) \cup {x}
             /\ IsInjective(s) /\ x \notin Range(s) => IsInjective(t)
<1> DEFINE t == Append(s, x)
<1>1. /\ t \in Seq(V) /\ Len(s) \in Nat /\ Len(t) = Len(s) + 1
      /\ \A i \in 1..Len(s) : t[i] = s[i]
      /\ t[Len(s) + 1] = x
      /\ DOMAIN s = 1..Len(s) /\ DOMAIN t = 1..(Len(s) + 1)
  OBVIOUS
<1> HIDE DEF t
<1>2. \A i \in DOMAIN t : (i \in DOMAIN s /\ t[i] = s[i]) \/ i = Len(s) + 1
  BY <1>1
<1>3. Len(s) + 1 \in DOMAIN t /\ \A i \in DOMAIN s : i \in DOMAIN t
  BY <1>1
<1>4. Range(t) = Range(s) \cup {x}
  BY <1>1, <1>2, <1>3 DEF Range
<1>5. IsInjective(s) /\ x \notin Range(s) => IsInjective(t)
  BY <1>1, <1>2 DEF Range, IsInjective
<1> QED
  BY <1>1, <1>4, <1>5 DEF t

\* A sequence without its last element.
LEMMA FrontFacts ==
  ASSUME NEW V, NEW s \in Seq(V), s # <<>>
  PROVE  /\ Len(s) \in Nat /\ Len(s) > 0 /\ Last(s) = s[Len(s)] /\ Last(s) \in V
         /\ Front(s) \in Seq(V) /\ Len(Front(s)) = Len(s) - 1
         /\ \A i \in 1..(Len(s) - 1) : Front(s)[i] = s[i]
         /\ Last(s) \in Range(s) /\ Range(s) = Range(Front(s)) \cup {Last(s)}
         /\ IsInjective(s) => IsInjective(Front(s)) /\ Last(s) \notin Range(Front(s))
<1> DEFINE t == Front(s)
           n == Len(s)
<1>1. n \in Nat /\ n > 0 /\ DOMAIN s = 1..n /\ \A i \in 1..n : s[i] \in V
  OBVIOUS
<1>2. /\ t \in Seq(V) /\ Len(t) = n - 1 /\ DOMAIN t = 1..(n - 1)
      /\ \A i \in 1..(n - 1) : t[i] = s[i]
  BY <1>1 DEF Front
<1>3. Last(s) = s[n]
  BY DEF Last
<1> HIDE DEF t, n
<1>4. /\ n \in DOMAIN s /\ n \notin DOMAIN t
      /\ \A i \in DOMAIN s : i \in DOMAIN t \/ i = n
      /\ \A i \in DOMAIN t : i \in DOMAIN s /\ t[i] = s[i]
  BY <1>1, <1>2
<1>5. Last(s) \in Range(s) /\ Range(s) = Range(t) \cup {Last(s)}
  BY <1>3, <1>4 DEF Range
<1>6. IsInjective(s) => IsInjective(t) /\ Last(s) \notin Range(t)
  BY <1>3, <1>4 DEF Range, IsInjective
<1> QED
  BY <1>1, <1>2, <1>3, <1>5, <1>6 DEF t, n

\* What has been reached is on the stack or, once, in the order; what has been
\* left has its successors reached.
Search(V, S, st, vis, ord) ==
    /\ vis \subseteq V /\ st \in Seq(V) /\ ord \in Seq(V)
    /\ IsInjective(st) /\ IsInjective(ord)
    /\ Range(st) \cap Range(ord) = {} /\ vis = Range(st) \cup Range(ord)
    /\ \A v \in Range(ord) : S[v] \subseteq vis

\* A vertex that has not been reached can be entered.
LEMMA Entered ==
  ASSUME NEW V, NEW S, NEW st, NEW vis, NEW ord, Search(V, S, st, vis, ord),
         NEW v \in V \ vis
  PROVE  Search(V, S, Append(st, v), vis \cup {v}, ord)
<1>1. /\ Append(st, v) \in Seq(V) /\ Range(Append(st, v)) = Range(st) \cup {v}
      /\ IsInjective(st) /\ v \notin Range(st) => IsInjective(Append(st, v))
  BY AppendFacts DEF Search
<1> QED
  BY <1>1 DEF Search

\* A vertex whose successors have been reached can be left.
LEMMA Left ==
  ASSUME NEW V, NEW S, NEW st, NEW vis, NEW ord, Search(V, S, st, vis, ord),
         st # <<>>, S[Last(st)] \subseteq vis
  PROVE  Search(V, S, Front(st), vis, Append(ord, Last(st)))
<1>1. /\ Front(st) \in Seq(V) /\ Range(st) = Range(Front(st)) \cup {Last(st)}
      /\ IsInjective(st) => IsInjective(Front(st)) /\ Last(st) \notin Range(Front(st))
      /\ Last(st) \in V /\ Last(st) \in Range(st)
  BY FrontFacts DEF Search
<1>2. /\ Append(ord, Last(st)) \in Seq(V)
      /\ Range(Append(ord, Last(st))) = Range(ord) \cup {Last(st)}
      /\ IsInjective(ord) /\ Last(st) \notin Range(ord) =>
            IsInjective(Append(ord, Last(st)))
  BY <1>1, AppendFacts DEF Search
<1> QED
  BY <1>1, <1>2 DEF Search

\* Above v: D[v] is what was reached since v was and before v was left, v
\* included.  A vertex that is left before v is one of them if a successor of
\* it is.
Tree(R, S, D, st, vis, ord) ==
    /\ \A v \in vis : v \in D[v] /\ D[v] \subseteq vis /\ D[v] \subseteq R[v]
    /\ \A i, j \in 1..Len(st) : i <= j => st[j] \in D[st[i]]
    /\ \A k \in 1..Len(ord) : \A w \in S[ord[k]] : \A v \in vis :
          /\ w \in D[v]
          /\ v \in Range(st) \/ \E m \in k..Len(ord) : ord[m] = v
          => ord[k] \in D[v]

\* R holds the edges and is transitive over them.
Reaches(V, S, R) == \A u \in V : u \in R[u] /\ \A x \in R[u] : S[x] \subseteq R[u]

\* A vertex that is entered comes below all that are on the stack.
LEMMA TreeEntered ==
  ASSUME NEW V, NEW S, NEW R, NEW D \in [V -> SUBSET V], NEW st, NEW vis, NEW ord,
         Search(V, S, st, vis, ord), Reaches(V, S, R), Tree(R, S, D, st, vis, ord),
         NEW v \in V \ vis, st = <<>> \/ v \in S[Last(st)]
  PROVE  \E E \in [V -> SUBSET V] : Tree(R, S, E, Append(st, v), vis \cup {v}, ord)
<1> DEFINE E == [u \in V |->
                    IF u = v THEN {v} ELSE IF u \in Range(st) THEN D[u] \cup {v}
                                                              ELSE D[u]]
           t == Append(st, v)
           n == Len(st)
<1>0. E \in [V -> SUBSET V] /\ vis \cup {v} \subseteq V
  BY DEF Search
<1>1. /\ n \in Nat /\ Len(t) = n + 1 /\ Range(t) = Range(st) \cup {v}
      /\ \A i \in 1..n : t[i] = st[i]
      /\ t[n + 1] = v /\ DOMAIN st = 1..n
  BY AppendFacts DEF Search
<1>2. \A i \in 1..n : st[i] \in Range(st) /\ st[i] \in vis /\ st[i] \in V
  BY <1>1 DEF Range, Search
<1>3. ASSUME NEW u \in Range(st) PROVE v \in R[u]
  <2>1. PICK i \in 1..n : u = st[i]
    BY <1>1, <1>3 DEF Range
  <2>2. st # <<>>
    BY <1>1, <2>1
  <2>3. Last(st) = st[n] /\ n \in 1..n /\ i <= n
    BY <1>1, <2>1, <2>2 DEF Last
  <2>4. Last(st) \in D[u]
    BY <2>1, <2>3 DEF Tree
  <2>5. Last(st) \in R[u] /\ u \in V
    BY <1>2, <2>1, <2>4 DEF Tree
  <2> QED BY <2>2, <2>5 DEF Reaches
<1> HIDE DEF t, n
<1>4. ASSUME NEW u \in vis \cup {v}
      PROVE  u \in E[u] /\ E[u] \subseteq vis \cup {v} /\ E[u] \subseteq R[u]
  <2>1. CASE u = v
    BY <1>0, <2>1 DEF Reaches
  <2>2. CASE u # v
    <3>1. u \in D[u] /\ D[u] \subseteq vis /\ D[u] \subseteq R[u]
      BY <2>2 DEF Tree
    <3> QED BY <1>0, <1>3, <2>2, <3>1
  <2> QED BY <2>1, <2>2
<1>5. ASSUME NEW i \in 1..Len(t), NEW j \in 1..Len(t), i <= j PROVE t[j] \in E[t[i]]
  <2>1. CASE i = n + 1
    <3>1. j = n + 1
      BY <1>1, <1>5, <2>1
    <3> QED BY <1>1, <2>1, <3>1
  <2>2. CASE i # n + 1
    <3>1. i \in 1..n /\ t[i] = st[i] /\ st[i] # v
      BY <1>1, <1>2, <2>2
    <3>2. E[t[i]] = D[st[i]] \cup {v}
      BY <1>2, <3>1
    <3>3. CASE j = n + 1
      BY <1>1, <3>2, <3>3
    <3>4. CASE j # n + 1
      <4>1. j \in 1..n /\ t[j] = st[j]
        BY <1>1, <3>4
      <4>2. st[j] \in D[st[i]]
        BY <1>5, <3>1, <4>1 DEF Tree, n
      <4> QED BY <3>2, <4>1, <4>2
    <3> QED BY <3>3, <3>4
  <2> QED BY <2>1, <2>2
<1>6. ASSUME NEW k \in 1..Len(ord), NEW w \in S[ord[k]], NEW u \in vis \cup {v},
             w \in E[u], u \in Range(t) \/ \E m \in k..Len(ord) : ord[m] = u
      PROVE  ord[k] \in E[u]
  <2>1. ord[k] \in Range(ord)
    BY DEF Range, Search
  <2>2. w \in vis /\ w # v
    BY <2>1 DEF Search
  <2>3. u # v
    BY <1>6, <2>2
  <2>4. w \in D[u] /\ D[u] \subseteq E[u] /\ u \in vis
    BY <1>0, <1>6, <2>2, <2>3
  <2>5. u \in Range(st) \/ \E m \in k..Len(ord) : ord[m] = u
    BY <1>1, <1>6, <2>3
  <2>6. ord[k] \in D[u]
    BY <2>4, <2>5 DEF Tree
  <2> QED BY <2>4, <2>6
<1> HIDE DEF E
<1>7. Tree(R, S, E, t, vis \cup {v}, ord)
  BY <1>4, <1>5, <1>6 DEF Tree
<1> QED
  BY <1>0, <1>7 DEF t

\* A vertex that is left was below all that are on the stack.
LEMMA TreeLeft ==
  ASSUME NEW V, NEW S, NEW R, NEW D, NEW st, NEW vis, NEW ord,
         Search(V, S, st, vis, ord), Tree(R, S, D, st, vis, ord), st # <<>>
  PROVE  Tree(R, S, D, Front(st), vis, Append(ord, Last(st)))
<1> DEFINE t == Front(st)
           last == Last(st)
           o == Append(ord, last)
           n == Len(st)
           l == Len(ord)
<1>1. /\ n \in Nat /\ n > 0 /\ last = st[n] /\ last \in V
      /\ Len(t) = n - 1 /\ \A i \in 1..(n - 1) : t[i] = st[i]
      /\ last \in Range(st) /\ Range(st) = Range(t) \cup {last}
      /\ DOMAIN st = 1..n
  BY FrontFacts DEF Search
<1>2. /\ l \in Nat /\ Len(o) = l + 1 /\ o[l + 1] = last
      /\ \A i \in 1..l : o[i] = ord[i]
  BY <1>1, AppendFacts DEF Search
<1> HIDE DEF t, last, o, n, l
<1>3. ASSUME NEW i \in 1..Len(t), NEW j \in 1..Len(t), i <= j PROVE t[j] \in D[t[i]]
  <2>1. i \in 1..n /\ j \in 1..n /\ t[i] = st[i] /\ t[j] = st[j]
    BY <1>1
  <2> QED BY <1>3, <2>1 DEF Tree, n
<1>4. ASSUME NEW u \in Range(st) PROVE last \in D[u]
  <2>1. PICK i \in 1..n : u = st[i]
    BY <1>1, <1>4 DEF Range
  <2>2. n \in 1..n /\ i <= n
    BY <1>1, <2>1
  <2> QED BY <1>1, <2>1, <2>2 DEF Tree, n
<1>5. ASSUME NEW k \in 1..Len(o), NEW w \in S[o[k]], NEW u \in vis,
             w \in D[u], u \in Range(t) \/ \E m \in k..Len(o) : o[m] = u
      PROVE  o[k] \in D[u]
  <2>1. CASE k = l + 1
    <3>1. \A m \in k..Len(o) : m = l + 1
      BY <1>2, <2>1
    <3>2. u \in Range(st)
      BY <1>1, <1>2, <1>5, <3>1
    <3> QED BY <1>2, <1>4, <2>1, <3>2
  <2>2. CASE k # l + 1
    <3>1. k \in 1..l /\ o[k] = ord[k]
      BY <1>2, <2>2
    <3>2. u \in Range(st) \/ \E m \in k..l : ord[m] = u
      <4>1. ASSUME NEW m \in k..Len(o), o[m] = u
            PROVE  u \in Range(st) \/ \E i \in k..l : ord[i] = u
        <5>1. m = l + 1 \/ (m \in k..l /\ m \in 1..l)
          BY <1>2, <3>1
        <5> QED BY <1>1, <1>2, <4>1, <5>1
      <4> QED BY <1>1, <1>5, <4>1
    <3> QED BY <1>5, <3>1, <3>2 DEF Tree, l
  <2> QED BY <1>2, <2>1, <2>2
<1>6. Tree(R, S, D, t, vis, o)
  BY <1>3, <1>5 DEF Tree
<1> QED
  BY <1>6 DEF t, o, last

-----------------------------------------------------------------------------
(* The inductive invariant *)

Refs == [t \in Table |-> References(t)]
Reached == [t \in Table |-> Reachable(t)]
Trees == [Table -> SUBSET Table]

\* The types of what the phases hand on.
GraphType ==
    /\ layout \in Layouts /\ refs \subseteq Table \X Table
    /\ phase \in {"order", "mark", "sort", "list", "ids", "done"}
    /\ comp \in [Table -> 0..N] /\ count \in 0..N
    /\ sorted \in Seq(Table) /\ dumpOrder \in Seq(Table)
    /\ dumpDeps \in [Table -> SUBSET Table]

\* The first search: the tables in the order in which it leaves them.
OrderInv ==
    phase = "order" =>
        /\ Search(Table, Refs, stack, visited, order)
        /\ \E D \in Trees : Tree(Reached, Refs, D, stack, visited, order)
        /\ count = 0 /\ \A t \in Table : comp[t] = N

\* What the first search has found of the order, now reversed, the latest
\* first: a table that comes behind m and refers to one below m is below m.
Postorder(D) ==
    /\ \A t \in Table : t \in D[t] /\ D[t] \subseteq Reachable(t)
    /\ \A k \in 1..Len(order) : \A w \in References(order[k]) : \A m \in 1..k :
           w \in D[order[m]] => order[k] \in D[order[m]]

\* The second search: the component under way is the tables that are below
\* its first one, in the first search, and refer to it; no table before it in
\* the order is left.
MarkInv ==
    phase = "mark" =>
        /\ stack = <<>> /\ visited = Table
        /\ order \in Seq(Table) /\ IsInjective(order) /\ Range(order) = Table
        /\ \E D \in Trees :
              /\ Postorder(D)
              /\ count > 0 =>
                   \E m \in 1..Len(order) :
                      /\ \A j \in 1..m : order[j] \notin Unmarked
                      /\ \A t \in Table : comp[t] = count - 1 =>
                             t \in D[order[m]] /\ order[m] \in Reachable(t)
        /\ count <= Cardinality(Table \ Unmarked)

\* The components: their tables reach each other, and they are numbered along
\* the references; what refers to the component under way is still to come.
ComponentInv ==
    phase # "order" =>
        /\ \A t \in Table : comp[t] = N \/ comp[t] < count
        /\ \A t, u \in Table : comp[t] = comp[u] /\ comp[t] < count => u \in Reachable(t)
        /\ \A t \in Table : \A u \in References(t) : comp[u] < count =>
              \/ comp[t] <= comp[u]
              \/ t \in Unmarked /\ comp[u] = count - 1
        /\ phase # "mark" => Unmarked = {}

Components == 0..(count - 1)
Successors == [c \in Components |-> Referencing(c)]

\* Each component comes after all that refer to it.
Topological(o) == \A k \in 1..Len(o) : \A d \in Referencing(o[k]) :
                      \E m \in 1..(k - 1) : o[m] = d

\* The search of the condensed graph: it goes to smaller and smaller numbers.
SortInv ==
    phase = "sort" =>
        /\ Search(Components, Successors, stack, visited, order)
        /\ \A i, j \in 1..Len(stack) : i < j => stack[j] < stack[i]
        /\ Topological(order)

SortedInv ==
    phase \in {"list", "ids", "done"} =>
        /\ order \in Seq(Components) /\ IsInjective(order) /\ Range(order) = Components
        /\ Topological(order) /\ stack = <<>> /\ visited = Components

\* The component of t is not after that of u.
NotAfter(t, u) == \A i, j \in 1..Len(order) :
                      order[i] = comp[t] /\ order[j] = comp[u] => i <= j

\* The list has the tables of the last component first.
ListInv ==
    /\ IsInjective(sorted)
    /\ phase \in {"order", "mark", "sort"} => sorted = <<>>
    /\ phase \in {"list", "ids", "done"} =>
          /\ \A i, j \in 1..Len(sorted) : i < j => NotAfter(sorted[j], sorted[i])
          /\ \A t \in Range(sorted), u \in Table \ Range(sorted) : NotAfter(t, u)
    /\ phase \in {"ids", "done"} => Len(sorted) = N

\* The dump ids are those of the sorted tables.
IdsInv ==
    /\ phase \notin {"ids", "done"} => dumpOrder = <<>>
    /\ Len(dumpOrder) <= Len(sorted)
    /\ phase = "done" => Len(dumpOrder) = Len(sorted)
    /\ ~Aliased => \A i \in 1..Len(dumpOrder) :
          /\ dumpOrder[i] = sorted[i]
          /\ dumpDeps[dumpOrder[i]] = Dependencies(dumpOrder[i])

GraphInv == /\ GraphType /\ OrderInv /\ MarkInv /\ ComponentInv /\ SortInv
            /\ SortedInv /\ ListInv /\ IdsInv

\* The references and the layout are the input.
LEMMA InputFixed == [Next]_vars => layout' = layout /\ refs' = refs
  BY DEF Next, vars, Order, Ordered, Mark, MarkNext, Marked, Sort, Sorted, List, Listed,
         SetDependencies, Finish, Enter, Descend, Leave, input

\* So what a table reaches does not change.
LEMMA ReachFixed ==
  ASSUME refs' = refs
  PROVE  /\ \A t : Reachable(t)' = Reachable(t) /\ References(t)' = References(t)
         /\ Refs' = Refs /\ Reached' = Reached
<1>1. \A t : References(t)' = References(t)
  BY DEF References
<1>2. \A t : Reachable(t)' = Reachable(t)
  BY DEF Reachable, Reach, References
<1> QED
  BY <1>1, <1>2 DEF Refs, Reached

\* Reachability holds the references and is closed under them.
LEMMA RefsReach ==
  ASSUME refs \subseteq Table \X Table
  PROVE  /\ Reaches(Table, Refs, Reached)
         /\ \A t \in Table : Refs[t] = References(t) /\ Refs[t] \subseteq Table
<1>1. \A t \in Table : Refs[t] = References(t) /\ Refs[t] \subseteq Table
  BY DEF Refs, References
<1>2. ASSUME NEW t \in Table PROVE t \in Reachable(t)
  BY ReachableFacts
<1>3. ASSUME NEW t \in Table, NEW u \in Reachable(t) PROVE Refs[u] \subseteq Reachable(t)
  BY <1>1, ReachableOn
<1> QED
  BY <1>1, <1>2, <1>3 DEF Reaches, Reached

\* At first nothing is reached.
LEMMA GraphStarts == Init => GraphInv
<1> SUFFICES ASSUME Init PROVE GraphInv
  OBVIOUS
<1>1. /\ layout \in Layouts /\ refs \subseteq Table \X Table
      /\ phase = "order" /\ stack = <<>> /\ visited = {} /\ order = <<>>
      /\ comp = [t \in Table |-> N] /\ count = 0
      /\ sorted = <<>> /\ dumpDeps = [t \in Table |-> {}] /\ dumpOrder = <<>>
  BY DEF Init, NotVisited, N
<1>2. N \in Nat
  BY TableFinite
<1>3. GraphType
  BY <1>1, <1>2 DEF GraphType
<1>4. OrderInv
  <2>1. Search(Table, Refs, <<>>, {}, <<>>)
    BY DEF Search, Range, IsInjective
  <2> DEFINE D == [t \in Table |-> {}]
  <2>2. D \in Trees /\ Tree(Reached, Refs, D, <<>>, {}, <<>>)
    BY DEF Tree, Trees
  <2> HIDE DEF D
  <2> QED BY <1>1, <2>1, <2>2 DEF OrderInv
<1>5. MarkInv /\ ComponentInv /\ SortInv /\ SortedInv
  BY <1>1 DEF MarkInv, ComponentInv, SortInv, SortedInv
<1>6. ListInv /\ IdsInv
  BY <1>1 DEF ListInv, IdsInv, IsInjective
<1> QED
  BY <1>3, <1>4, <1>5, <1>6 DEF GraphInv

-----------------------------------------------------------------------------
(* The first search *)

\* Before the sort nothing is listed, and only the phase counts.
LEMMA NothingListed ==
  ASSUME GraphInv, phase \in {"order", "mark", "sort"},
         phase' \in {"order", "mark", "sort"}, UNCHANGED <<layout, results>>
  PROVE  ListInv' /\ IdsInv'
<1>1. sorted = <<>> /\ dumpOrder = <<>> /\ IsInjective(sorted)
  BY DEF GraphInv, ListInv, IdsInv
<1>2. sorted' = <<>> /\ dumpOrder' = <<>>
  BY <1>1 DEF results
<1> QED
  BY <1>1, <1>2 DEF ListInv, IdsInv

\* The first search enters a table: from the loop, or from the top of the stack.
LEMMA OrderEntered ==
  ASSUME GraphInv, phase = "order", NEW v \in Table \ visited, Enter(v),
         stack = <<>> \/ v \in References(Last(stack))
  PROVE  GraphInv'
<1>1. /\ stack' = Append(stack, v) /\ visited' = visited \cup {v}
      /\ UNCHANGED <<layout, refs, phase, order, comp, count, results>>
  BY DEF Enter, input
<1>2. Refs' = Refs /\ Reached' = Reached
  BY <1>1, ReachFixed
<1>3. Search(Table, Refs, stack, visited, order)
  BY DEF GraphInv, OrderInv
<1>4. PICK D \in Trees : Tree(Reached, Refs, D, stack, visited, order)
  BY DEF GraphInv, OrderInv
<1>5. stack = <<>> \/ v \in Refs[Last(stack)]
  <2>1. stack # <<>> => Last(stack) \in Table
    BY <1>3, FrontFacts DEF Search
  <2> QED BY <2>1 DEF Refs
<1>6. Reaches(Table, Refs, Reached)
  BY RefsReach DEF GraphInv, GraphType
<1>7. Search(Table, Refs, stack', visited', order)
  BY <1>1, <1>3, Entered
<1>8. \E E \in Trees : Tree(Reached, Refs, E, stack', visited', order)
  BY <1>1, <1>3, <1>4, <1>5, <1>6, TreeEntered DEF Trees
<1>9. OrderInv'
  BY <1>1, <1>2, <1>7, <1>8 DEF OrderInv, GraphInv, Trees
<1>10. GraphType'
  BY <1>1 DEF GraphType, GraphInv, results
<1> QED
  BY <1>1, <1>9, <1>10, NothingListed
     DEF GraphInv, MarkInv, ComponentInv, SortInv, SortedInv

\* The first search leaves a table.
LEMMA OrderLeft ==
  ASSUME GraphInv, phase = "order", Leave(References(Last(stack)))
  PROVE  GraphInv'
<1>1. /\ stack # <<>> /\ References(Last(stack)) \subseteq visited
      /\ order' = Append(order, Last(stack)) /\ stack' = Front(stack)
      /\ UNCHANGED <<layout, refs, phase, visited, comp, count, results>>
  BY DEF Leave, input
<1>2. Refs' = Refs /\ Reached' = Reached
  BY <1>1, ReachFixed
<1>3. Search(Table, Refs, stack, visited, order)
  BY DEF GraphInv, OrderInv
<1>4. PICK D \in Trees : Tree(Reached, Refs, D, stack, visited, order)
  BY DEF GraphInv, OrderInv
<1>5. Refs[Last(stack)] \subseteq visited
  <2>1. Last(stack) \in Table
    BY <1>1, <1>3, FrontFacts DEF Search
  <2> QED BY <1>1, <2>1 DEF Refs
<1>6. Search(Table, Refs, stack', visited, order')
  BY <1>1, <1>3, <1>5, Left
<1>7. Tree(Reached, Refs, D, stack', visited, order')
  BY <1>1, <1>3, <1>4, TreeLeft
<1>8. OrderInv'
  BY <1>1, <1>2, <1>6, <1>7 DEF OrderInv, GraphInv, Trees
<1>9. GraphType'
  BY <1>1 DEF GraphType, GraphInv, results
<1> QED
  BY <1>1, <1>8, <1>9, NothingListed
     DEF GraphInv, MarkInv, ComponentInv, SortInv, SortedInv

\* The steps of the first search.
LEMMA OrderKept ==
  ASSUME GraphInv, Order
  PROVE  GraphInv'
<1>1. CASE stack = <<>> /\ \E v \in Table \ visited : Enter(v)
  BY <1>1, OrderEntered DEF Order
<1>2. CASE Descend(References(Last(stack)))
  <2>1. PICK v \in References(Last(stack)) \ visited : Enter(v)
    BY <1>2 DEF Descend
  <2> QED BY <2>1, OrderEntered DEF Order, References
<1>3. CASE Leave(References(Last(stack)))
  BY <1>3, OrderLeft DEF Order
<1> QED
  BY <1>1, <1>2, <1>3 DEF Order

\* When the first search is over, the tables are in the order it left them,
\* the latest first.
LEMMA OrderedKept ==
  ASSUME GraphInv, Ordered
  PROVE  GraphInv'
<1>1. /\ phase = "order" /\ stack = <<>> /\ visited = Table /\ phase' = "mark"
      /\ order' = Reverse(order)
      /\ UNCHANGED <<layout, refs, stack, visited, comp, count, results>>
  BY DEF Ordered, input
<1>2. Search(Table, Refs, stack, visited, order)
  BY <1>1 DEF GraphInv, OrderInv
<1>3. PICK D \in Trees : Tree(Reached, Refs, D, stack, visited, order)
  BY <1>1 DEF GraphInv, OrderInv
<1>4. count = 0 /\ (\A t \in Table : comp[t] = N) /\ N \in Nat
  BY <1>1, TableFinite DEF GraphInv, OrderInv
<1> DEFINE n == Len(order)
<1>5. /\ n \in Nat /\ order \in Seq(Table) /\ DOMAIN order = 1..n
      /\ \A i \in 1..n : order[i] \in Table
      /\ IsInjective(order) /\ Range(order) = Table
  BY <1>1, <1>2 DEF Search, Range
<1>6. /\ order' \in Seq(Table) /\ Len(order') = n /\ DOMAIN order' = 1..n
      /\ \A i \in 1..n : order'[i] = order[(n - i) + 1]
  BY <1>1, <1>5 DEF Reverse
<1> HIDE DEF n
<1>7. \A i \in 1..n : (n - i) + 1 \in 1..n /\ (n - ((n - i) + 1)) + 1 = i
  BY <1>5
<1>8. IsInjective(order')
  <2> SUFFICES ASSUME NEW i \in 1..n, NEW j \in 1..n, order'[i] = order'[j]
               PROVE  i = j
    BY <1>6 DEF IsInjective
  <2>1. (n - i) + 1 = (n - j) + 1
    BY <1>5, <1>6, <1>7 DEF IsInjective
  <2> QED BY <1>5, <2>1
<1>9. Range(order') = Table
  <2>1. ASSUME NEW t \in Table PROVE t \in Range(order')
    <3>1. PICK i \in 1..n : t = order[i]
      BY <1>5 DEF Range
    <3>2. order'[(n - i) + 1] = t /\ (n - i) + 1 \in 1..n
      BY <1>6, <1>7, <3>1
    <3> QED BY <1>6, <3>2 DEF Range
  <2>2. Range(order') \subseteq Table
    BY <1>5, <1>6, <1>7 DEF Range
  <2> QED BY <2>1, <2>2
<1>10. \A t : Reachable(t)' = Reachable(t) /\ References(t)' = References(t)
  BY <1>1, ReachFixed
<1>11. Postorder(D)'
  <2>1. ASSUME NEW t \in Table PROVE t \in D[t] /\ D[t] \subseteq Reachable(t)
    BY <1>1, <1>3, <2>1 DEF Tree, Reached
  <2>2. ASSUME NEW k \in 1..n, NEW w \in References(order'[k]), NEW m \in 1..k,
               w \in D[order'[m]]
        PROVE  order'[k] \in D[order'[m]]
    <3> DEFINE l == (n - k) + 1
               p == (n - m) + 1
    <3>1. l \in 1..n /\ m \in 1..n /\ p \in l..n /\ p \in 1..n
      BY <1>5
    <3>2. order'[k] = order[l] /\ order'[m] = order[p]
      BY <1>6, <3>1
    <3> HIDE DEF l, p
    <3>3. order[l] \in Table /\ w \in Refs[order[l]]
      BY <1>5, <2>2, <3>1, <3>2 DEF Refs
    <3>4. order[p] \in visited
      BY <1>1, <1>5, <3>1
    <3> QED BY <1>3, <2>2, <3>1, <3>2, <3>3, <3>4 DEF Tree, n
  <2> QED BY <1>6, <1>10, <2>1, <2>2 DEF Postorder
<1>12. MarkInv'
  <2>1. Cardinality(Table \ Unmarked') >= 0
    BY TableFinite, FS_Subset, FS_CardinalityType
  <2> QED BY <1>1, <1>3, <1>4, <1>6, <1>8, <1>9, <1>11, <2>1 DEF MarkInv, Trees
<1>13. ComponentInv'
  BY <1>1, <1>4 DEF ComponentInv, References
<1>14. GraphType'
  BY <1>1 DEF GraphType, GraphInv, results
<1> QED
  BY <1>1, <1>12, <1>13, <1>14, NothingListed
     DEF GraphInv, OrderInv, SortInv, SortedInv

-----------------------------------------------------------------------------
(* The second search *)

\* The phases before the sort have nothing to say of it.
LEMMA BeforeSort ==
  ASSUME GraphInv, phase = "mark", phase' = "mark", UNCHANGED <<layout, results>>,
         GraphType', MarkInv', ComponentInv'
  PROVE  GraphInv'
  BY NothingListed DEF GraphInv, OrderInv, SortInv, SortedInv

\* What is marked, counted.
LEMMA UnmarkedFacts ==
  ASSUME comp \in [Table -> 0..N], NEW t \in Table, NEW c \in 0..N, c # N,
         comp' = [comp EXCEPT ![t] = c]
  PROVE  /\ comp' \in [Table -> 0..N] /\ comp'[t] = c
         /\ \A u \in Table : u # t => comp'[u] = comp[u]
         /\ \A u : u \in Unmarked <=> u \in Table /\ comp[u] = N
         /\ Unmarked' = Unmarked \ {t}
         /\ Cardinality(Table \ Unmarked) \in Nat
         /\ Cardinality(Table \ Unmarked') \in Nat
         /\ Cardinality(Table \ Unmarked) <= Cardinality(Table \ Unmarked')
         /\ t \in Unmarked =>
              /\ Cardinality(Table \ Unmarked') = Cardinality(Table \ Unmarked) + 1
              /\ Cardinality(Table \ Unmarked) < N
<1>1. /\ comp' \in [Table -> 0..N] /\ comp'[t] = c
      /\ \A u \in Table : u # t => comp'[u] = comp[u]
  OBVIOUS
<1>2. Unmarked = {u \in Table : comp[u] = N} /\ Unmarked' = {u \in Table : comp'[u] = N}
  BY DEF Unmarked, NotVisited, N
<1>3. Unmarked' = Unmarked \ {t}
  BY <1>1, <1>2
<1> DEFINE M == Table \ Unmarked
<1>4. IsFiniteSet(M) /\ IsFiniteSet(Table \ Unmarked') /\ M \subseteq Table
      /\ IsFiniteSet(Table) /\ N \in Nat
  BY TableFinite, FS_Subset
<1>5. Table \ Unmarked' = M \cup {t}
  BY <1>3
<1>6. Cardinality(M \cup {t}) = IF t \in M THEN Cardinality(M) ELSE Cardinality(M) + 1
  BY <1>4, FS_AddElement
<1>7. Cardinality(M) \in Nat /\ Cardinality(M \cup {t}) \in Nat
  BY <1>4, <1>5, FS_CardinalityType
<1>8. t \in Unmarked => Cardinality(M) < N
  <2> SUFFICES ASSUME t \in Unmarked PROVE Cardinality(M) < N
    OBVIOUS
  <2>1. M # Table /\ Cardinality(M) <= N
    BY <1>4, FS_Subset DEF N
  <2>2. Cardinality(M) # N
    BY <1>4, <2>1, FS_Subset DEF N
  <2> QED BY <1>4, <1>7, <2>1, <2>2
<1> QED
  BY <1>1, <1>2, <1>3, <1>5, <1>6, <1>7, <1>8

\* A table that refers to the component under way joins it: it comes behind
\* the component's first table, below which it therefore is.
LEMMA MarkKept ==
  ASSUME GraphInv, Mark
  PROVE  GraphInv'
<1>1. PICK t \in ToMark : comp' = [comp EXCEPT ![t] = count - 1]
  BY DEF Mark
<1>2. /\ phase = "mark" /\ phase' = "mark"
      /\ UNCHANGED <<layout, refs, stack, visited, order, count, results>>
  BY DEF Mark, input
<1>3. PICK w \in Table : count > 0 /\ t \in Unmarked /\ comp[w] = count - 1 /\ <<t, w>> \in refs
  BY <1>1 DEF ToMark
<1>4. /\ comp \in [Table -> 0..N] /\ count \in 0..N /\ N \in Nat /\ t \in Table
      /\ refs \subseteq Table \X Table
  BY <1>3, TableFinite DEF GraphInv, GraphType, Unmarked
<1>5. /\ comp' \in [Table -> 0..N] /\ comp'[t] = count - 1
      /\ \A u \in Table : u # t => comp'[u] = comp[u]
      /\ \A u : u \in Unmarked <=> u \in Table /\ comp[u] = N
      /\ Unmarked' = Unmarked \ {t}
      /\ Cardinality(Table \ Unmarked) <= Cardinality(Table \ Unmarked')
      /\ Cardinality(Table \ Unmarked) \in Nat /\ Cardinality(Table \ Unmarked') \in Nat
  <2>1. count - 1 \in 0..N /\ count - 1 # N
    BY <1>3, <1>4
  <2> QED BY <1>1, <1>3, <1>4, <2>1, UnmarkedFacts
<1>6. \A u : Reachable(u)' = Reachable(u) /\ References(u)' = References(u)
  BY <1>2, ReachFixed
<1>7. /\ order \in Seq(Table) /\ IsInjective(order) /\ Range(order) = Table
      /\ DOMAIN order = 1..Len(order) /\ Len(order) \in Nat
      /\ stack = <<>> /\ visited = Table /\ count <= Cardinality(Table \ Unmarked)
  BY <1>2 DEF GraphInv, MarkInv
<1>8. PICK D \in Trees, m \in 1..Len(order) :
        /\ Postorder(D)
        /\ \A j \in 1..m : order[j] \notin Unmarked
        /\ \A u \in Table : comp[u] = count - 1 =>
               u \in D[order[m]] /\ order[m] \in Reachable(u)
  BY <1>2, <1>3 DEF GraphInv, MarkInv
<1>9. order[m] \in Table /\ D[order[m]] \subseteq Reachable(order[m])
  BY <1>7, <1>8 DEF Postorder
<1>10. w \in References(t) /\ t \in References(t) \cup {t} /\ w \in Table
  BY <1>3 DEF References
<1>11. t \in D[order[m]]
  <2>1. PICK k \in 1..Len(order) : t = order[k]
    BY <1>4, <1>7 DEF Range
  <2>2. ~(k \in 1..m)
    BY <1>3, <1>8, <2>1
  <2>3. m \in 1..k
    BY <1>7, <2>2
  <2>4. w \in D[order[m]]
    BY <1>3, <1>8
  <2> QED BY <1>8, <1>10, <2>1, <2>3, <2>4 DEF Postorder
<1>12. order[m] \in Reachable(t)
  <2>1. t \in Reachable(t) /\ References(t) \subseteq Reachable(t)
    BY <1>4, ReachableFacts, ReachableOn
  <2>2. Reachable(w) \subseteq Reachable(t)
    BY <1>4, <1>10, <2>1, ReachableOn
  <2> QED BY <1>3, <1>8, <2>2
<1>13. ASSUME NEW u \in Table, comp'[u] = count - 1
       PROVE  u \in D[order[m]] /\ order[m] \in Reachable(u)
  BY <1>5, <1>8, <1>11, <1>12, <1>13
<1>14. MarkInv'
  <2>1. Postorder(D)'
    BY <1>2, <1>6, <1>8 DEF Postorder
  <2>2. \A j \in 1..m : order[j] \notin Unmarked'
    BY <1>5, <1>8
  <2>3. count <= Cardinality(Table \ Unmarked')
    BY <1>4, <1>5, <1>7
  <2> QED BY <1>2, <1>6, <1>7, <1>8, <1>13, <2>1, <2>2, <2>3 DEF MarkInv, Trees
<1>15. ComponentInv'
  <2>1. \A u \in Table : comp[u] = N \/ comp[u] < count
    BY <1>2 DEF GraphInv, ComponentInv
  <2>2. \A u \in Table : comp'[u] = N \/ comp'[u] < count
    BY <1>4, <1>5, <2>1
  <2>3. ASSUME NEW u \in Table, NEW v \in Table, comp'[u] = comp'[v], comp'[u] < count
        PROVE  v \in Reachable(u)
    <3>1. CASE comp'[u] = count - 1
      <4>1. order[m] \in Reachable(u) /\ v \in Reachable(order[m])
        BY <1>9, <1>13, <2>3, <3>1
      <4> QED BY <4>1, ReachableOn
    <3>2. CASE comp'[u] # count - 1
      <4>1. comp[u] = comp[v] /\ comp[u] < count
        BY <1>5, <2>3, <3>2
      <4> QED BY <1>2, <4>1 DEF GraphInv, ComponentInv
    <3> QED BY <3>1, <3>2
  <2>4. ASSUME NEW u \in Table, NEW v \in References(u), comp'[v] < count
        PROVE  comp'[u] <= comp'[v] \/ (u \in Unmarked' /\ comp'[v] = count - 1)
    <3>1. v \in Table
      BY <2>4 DEF References
    <3>2. CASE comp'[v] = count - 1
      <4>1. comp'[u] = N \/ comp'[u] <= count - 1
        BY <1>4, <1>5, <2>2
      <4>2. comp'[u] = N => u \in Unmarked'
        BY <1>3, <1>4, <1>5
      <4> QED BY <3>2, <4>1, <4>2
    <3>3. CASE comp'[v] # count - 1
      <4>1. comp[v] = comp'[v] /\ comp[v] < count
        BY <1>5, <2>4, <3>1, <3>3
      <4>2. comp[u] <= comp[v]
        BY <1>2, <2>4, <3>3, <4>1 DEF GraphInv, ComponentInv
      <4>3. u # t
        BY <1>3, <1>4, <1>5, <4>1, <4>2, <3>1
      <4> QED BY <1>5, <4>1, <4>2, <4>3
    <3> QED BY <3>2, <3>3
  <2> QED BY <1>2, <1>6, <2>2, <2>3, <2>4 DEF ComponentInv
<1>16. GraphType'
  BY <1>2, <1>5 DEF GraphType, GraphInv, results
<1> QED
  BY <1>2, <1>14, <1>15, <1>16, BeforeSort

\* The next component begins when nothing is left that refers to the last.
LEMMA MarkNextKept ==
  ASSUME GraphInv, MarkNext
  PROVE  GraphInv'
<1>1. PICK i \in DOMAIN order :
          /\ order[i] \in Unmarked
          /\ \A j \in 1..(i - 1) : order[j] \notin Unmarked
          /\ comp' = [comp EXCEPT ![order[i]] = count]
  BY DEF MarkNext
<1>2. /\ phase = "mark" /\ phase' = "mark" /\ ToMark = {} /\ count' = count + 1
      /\ UNCHANGED <<layout, refs, stack, visited, order, results>>
  BY DEF MarkNext, input
<1> DEFINE t == order[i]
<1>3. /\ comp \in [Table -> 0..N] /\ count \in 0..N /\ N \in Nat /\ t \in Table
      /\ t \in Unmarked /\ refs \subseteq Table \X Table
  BY <1>1, TableFinite DEF GraphInv, GraphType, Unmarked
<1>4. /\ order \in Seq(Table) /\ IsInjective(order) /\ Range(order) = Table
      /\ DOMAIN order = 1..Len(order) /\ Len(order) \in Nat
      /\ stack = <<>> /\ visited = Table /\ count <= Cardinality(Table \ Unmarked)
  BY <1>2 DEF GraphInv, MarkInv
<1>5. i \in 1..Len(order)
  BY <1>4
<1> HIDE DEF t
<1>6. count < N /\ comp' = [comp EXCEPT ![t] = count]
  <2>1. IsFiniteSet(Table \ Unmarked) /\ Table \ Unmarked \in SUBSET Table /\ Table \ Unmarked # Table
    BY <1>3, TableFinite, FS_Subset
  <2>2. Cardinality(Table \ Unmarked) <= N /\ Cardinality(Table \ Unmarked) # N
        /\ Cardinality(Table \ Unmarked) \in Nat
    BY <2>1, TableFinite, FS_Subset, FS_CardinalityType DEF N
  <2> QED BY <1>1, <1>3, <1>4, <2>2 DEF t
<1>7. /\ comp' \in [Table -> 0..N] /\ comp'[t] = count
      /\ \A u \in Table : u # t => comp'[u] = comp[u]
      /\ \A u : u \in Unmarked <=> u \in Table /\ comp[u] = N
      /\ Unmarked' = Unmarked \ {t}
      /\ Cardinality(Table \ Unmarked') = Cardinality(Table \ Unmarked) + 1
      /\ Cardinality(Table \ Unmarked) \in Nat
  <2>1. count # N
    BY <1>3, <1>6
  <2> QED BY <1>3, <1>6, <2>1, UnmarkedFacts
<1>8. \A u : Reachable(u)' = Reachable(u) /\ References(u)' = References(u)
  BY <1>2, ReachFixed
<1>9. PICK D \in Trees : Postorder(D)
  BY <1>2 DEF GraphInv, MarkInv
<1>10. \A u \in Table : comp[u] = N \/ comp[u] < count
  BY <1>2 DEF GraphInv, ComponentInv
<1>11. \A u \in Table : comp'[u] = count => u = t
  BY <1>3, <1>6, <1>7, <1>10
<1>12. MarkInv'
  <2>1. Postorder(D)'
    BY <1>2, <1>8, <1>9 DEF Postorder
  <2>2. \A j \in 1..i : order[j] \notin Unmarked'
    <3> SUFFICES ASSUME NEW j \in 1..i PROVE order[j] \notin Unmarked'
      OBVIOUS
    <3>1. j = i \/ j \in 1..(i - 1)
      BY <1>5
    <3> QED BY <1>1, <1>7, <3>1 DEF t
  <2>3. \A u \in Table : comp'[u] = count' - 1 => u \in D[order[i]] /\ order[i] \in Reachable(u)
    <3>1. t \in D[t] /\ t \in Reachable(t)
      BY <1>3, <1>9, ReachableFacts DEF Postorder
    <3>2. count' - 1 = count
      BY <1>2, <1>3
    <3> QED BY <1>11, <3>1, <3>2 DEF t
  <2>4. count' <= Cardinality(Table \ Unmarked')
    BY <1>2, <1>3, <1>4, <1>7
  <2> QED BY <1>2, <1>4, <1>5, <1>8, <2>1, <2>2, <2>3, <2>4 DEF MarkInv, Trees
<1>13. ComponentInv'
  <2>1. \A u \in Table : comp'[u] = N \/ comp'[u] < count'
    BY <1>2, <1>3, <1>7, <1>10
  <2>2. ASSUME NEW u \in Table, NEW v \in Table, comp'[u] = comp'[v], comp'[u] < count'
        PROVE  v \in Reachable(u)
    <3>1. CASE comp'[u] = count
      BY <1>3, <1>11, <2>2, <3>1, ReachableFacts
    <3>2. CASE comp'[u] # count
      <4>1. u # t /\ v # t /\ comp[u] = comp[v] /\ comp[u] < count
        BY <1>2, <1>3, <1>7, <2>2, <3>2
      <4> QED BY <1>2, <4>1 DEF GraphInv, ComponentInv
    <3> QED BY <3>1, <3>2
  <2>3. ASSUME NEW u \in Table, NEW v \in References(u), comp'[v] < count'
        PROVE  comp'[u] <= comp'[v] \/ (u \in Unmarked' /\ comp'[v] = count' - 1)
    <3>1. v \in Table /\ <<u, v>> \in refs
      BY <2>3 DEF References
    <3>2. CASE comp'[v] = count
      <4>1. comp'[u] <= count \/ (comp'[u] = N /\ u # t)
        BY <1>2, <1>3, <1>6, <1>7, <2>1
      <4>2. comp'[u] = N /\ u # t => u \in Unmarked'
        BY <1>7
      <4>3. count' - 1 = count
        BY <1>2, <1>3
      <4> QED BY <3>2, <4>1, <4>2, <4>3
    <3>3. CASE comp'[v] # count
      <4>1. v # t /\ comp[v] = comp'[v] /\ comp[v] < count
        BY <1>2, <1>3, <1>7, <2>3, <3>1, <3>3
      <4>2. ~(u \in Unmarked /\ comp[v] = count - 1)
        <5> SUFFICES ASSUME u \in Unmarked, comp[v] = count - 1 PROVE FALSE
          OBVIOUS
        <5>1. count > 0
          BY <1>3, <3>1
        <5> QED BY <1>2, <3>1, <5>1 DEF ToMark
      <4>3. comp[u] <= comp[v]
        BY <1>2, <2>3, <4>1, <4>2 DEF GraphInv, ComponentInv
      <4>4. u # t
        BY <1>3, <1>6, <1>7, <3>1, <4>1, <4>3
      <4> QED BY <1>7, <4>1, <4>3, <4>4
    <3> QED BY <3>2, <3>3
  <2> QED BY <1>2, <1>8, <2>1, <2>2, <2>3 DEF ComponentInv
<1>14. GraphType'
  <2>1. count' \in 0..N
    BY <1>2, <1>3, <1>6
  <2> QED BY <1>2, <1>7, <2>1 DEF GraphType, GraphInv, results
<1> QED
  BY <1>2, <1>12, <1>13, <1>14, BeforeSort

\* Every table has a component: the sort begins.
LEMMA MarkedKept ==
  ASSUME GraphInv, Marked
  PROVE  GraphInv'
<1>1. /\ phase = "mark" /\ phase' = "sort" /\ Unmarked = {}
      /\ visited' = {} /\ order' = <<>>
      /\ UNCHANGED <<layout, refs, stack, comp, count, results>>
  BY DEF Marked, input
<1>2. stack = <<>>
  BY <1>1 DEF GraphInv, MarkInv
<1>3. \A t : Reachable(t)' = Reachable(t) /\ References(t)' = References(t)
  BY <1>1, ReachFixed
<1>4. Unmarked' = {}
  BY <1>1 DEF Unmarked
<1>5. SortInv'
  <2>1. \A V, S : Search(V, S, <<>>, {}, <<>>)
    BY DEF Search, Range, IsInjective
  <2> QED BY <1>1, <1>2, <2>1 DEF SortInv, Topological
<1>6. ComponentInv'
  <2>1. \A t \in Table : comp[t] = N \/ comp[t] < count
    BY <1>1 DEF GraphInv, ComponentInv
  <2>2. \A t, u \in Table : comp[t] = comp[u] /\ comp[t] < count => u \in Reachable(t)
    BY <1>1 DEF GraphInv, ComponentInv
  <2>3. \A t \in Table : \A u \in References(t) :
           comp[u] < count => comp[t] <= comp[u]
    BY <1>1 DEF GraphInv, ComponentInv
  <2> QED BY <1>1, <1>3, <1>4, <2>1, <2>2, <2>3 DEF ComponentInv
<1>7. GraphType'
  BY <1>1 DEF GraphType, GraphInv, results
<1> QED
  BY <1>1, <1>5, <1>6, <1>7, NothingListed
     DEF GraphInv, OrderInv, MarkInv, SortedInv

-----------------------------------------------------------------------------
(* The sort of the components *)

\* After the second search: the components are those of tables that reach each
\* other, and a table's is not after that of what it refers to.
LEMMA ComponentFacts ==
  ASSUME GraphInv, phase \notin {"order", "mark"}
  PROVE  /\ refs \subseteq Table \X Table /\ count \in Nat
         /\ \A t \in Table : comp[t] \in Components
         /\ \A t, u \in Table : comp[t] = comp[u] => u \in Reachable(t)
         /\ \A t \in Table : \A u \in References(t) : u \in Table /\ comp[t] <= comp[u]
         /\ \A c \in Components : \A d \in Referencing(c) : d \in Components /\ d < c
<1>1. /\ refs \subseteq Table \X Table /\ count \in Nat /\ N \in Nat
      /\ comp \in [Table -> 0..N] /\ Unmarked = {}
      /\ phase \in {"order", "mark", "sort", "list", "ids", "done"}
  BY TableFinite DEF GraphInv, GraphType, ComponentInv
<1>2. \A t \in Table : comp[t] # N
  BY <1>1 DEF Unmarked, NotVisited, N
<1>3. \A t \in Table : comp[t] < count /\ comp[t] \in Components
  BY <1>1, <1>2 DEF GraphInv, ComponentInv, Components
<1>4. \A t, u \in Table : comp[t] = comp[u] => u \in Reachable(t)
  BY <1>1, <1>3 DEF GraphInv, ComponentInv
<1>5. ASSUME NEW t \in Table, NEW u \in References(t)
      PROVE  u \in Table /\ comp[t] <= comp[u]
  <2>1. u \in Table
    BY <1>5 DEF References
  <2> QED BY <1>1, <1>3, <1>5, <2>1 DEF GraphInv, ComponentInv
<1>6. ASSUME NEW c \in Components, NEW d \in Referencing(c)
      PROVE  d \in Components /\ d < c
  <2>1. d # c /\ \E x \in refs : comp[x[2]] = c /\ d = comp[x[1]]
    BY <1>6 DEF Referencing
  <2>2. PICK x \in refs : comp[x[2]] = c /\ d = comp[x[1]]
    BY <2>1
  <2>3. x[1] \in Table /\ x[2] \in Table /\ x = <<x[1], x[2]>>
    BY <1>1
  <2>4. x[2] \in References(x[1])
    BY <2>2, <2>3 DEF References
  <2>5. d <= c /\ d \in Components
    BY <1>3, <1>5, <2>2, <2>3, <2>4
  <2> QED BY <1>1, <2>1, <2>5 DEF Components
<1> QED
  BY <1>1, <1>3, <1>4, <1>5, <1>6

\* A step that leaves the components alone.
LEMMA ComponentsKept ==
  ASSUME GraphInv, phase \notin {"order", "mark"}, phase' \notin {"order", "mark"},
         UNCHANGED <<refs, comp, count>>
  PROVE  /\ ComponentInv' /\ Components' = Components /\ Successors' = Successors
         /\ \A c : Referencing(c)' = Referencing(c)
         /\ \A t : Dependencies(t)' = Dependencies(t)
<1>1. \A t : Reachable(t)' = Reachable(t) /\ References(t)' = References(t)
  BY ReachFixed
<1>2. Unmarked' = Unmarked
  BY DEF Unmarked
<1>3. phase # "mark" /\ phase # "order"
  OBVIOUS
<1>4. ComponentInv'
  <2>1. /\ \A t \in Table : comp[t] = N \/ comp[t] < count
        /\ \A t, u \in Table : comp[t] = comp[u] /\ comp[t] < count => u \in Reachable(t)
        /\ \A t \in Table : \A u \in References(t) : comp[u] < count =>
              comp[t] <= comp[u] \/ (t \in Unmarked /\ comp[u] = count - 1)
        /\ Unmarked = {}
    BY <1>3 DEF GraphInv, ComponentInv
  <2> QED BY <1>1, <1>2, <2>1 DEF ComponentInv
<1>5. /\ \A c : Referencing(c)' = Referencing(c)
      /\ Components' = Components
  BY DEF Referencing, Components
<1>6. Successors' = Successors
  BY <1>5 DEF Successors
<1>7. \A t : Dependencies(t)' = Dependencies(t)
  BY <1>5 DEF Dependencies
<1> QED
  BY <1>4, <1>5, <1>6, <1>7

\* The search of the condensed graph enters a component.
LEMMA SortEntered ==
  ASSUME GraphInv, phase = "sort", NEW c \in Components \ visited, Enter(c),
         stack = <<>> \/ c \in Referencing(Last(stack))
  PROVE  GraphInv'
<1>1. /\ stack' = Append(stack, c) /\ visited' = visited \cup {c}
      /\ UNCHANGED <<layout, refs, phase, order, comp, count, results>>
  BY DEF Enter, input
<1>2. /\ ComponentInv' /\ Components' = Components /\ Successors' = Successors
      /\ \A d : Referencing(d)' = Referencing(d)
  BY <1>1, ComponentsKept
<1>3. /\ Search(Components, Successors, stack, visited, order)
      /\ \A i, j \in 1..Len(stack) : i < j => stack[j] < stack[i]
      /\ Topological(order)
  BY DEF GraphInv, SortInv
<1>4. Search(Components, Successors, stack', visited', order)
  BY <1>1, <1>3, Entered
<1>5. /\ Len(stack) \in Nat /\ Len(stack') = Len(stack) + 1
      /\ \A i \in 1..Len(stack) : stack'[i] = stack[i] /\ stack[i] \in Components
      /\ stack'[Len(stack) + 1] = c
  BY <1>1, <1>3, AppendFacts DEF Search
<1>6. ASSUME NEW i \in 1..Len(stack) PROVE c < stack[i]
  <2>1. stack # <<>> /\ Last(stack) = stack[Len(stack)] /\ Len(stack) \in 1..Len(stack)
    BY <1>5 DEF Last
  <2>2. c < Last(stack)
    BY <1>5, <2>1, ComponentFacts
  <2>3. i = Len(stack) \/ Last(stack) < stack[i]
    BY <1>3, <1>5, <2>1
  <2> QED BY <1>5, <2>1, <2>2, <2>3 DEF Components
<1>7. ASSUME NEW i \in 1..Len(stack'), NEW j \in 1..Len(stack'), i < j
      PROVE  stack'[j] < stack'[i]
  <2>1. i \in 1..Len(stack) /\ (j \in 1..Len(stack) \/ j = Len(stack) + 1)
    BY <1>5, <1>7
  <2> QED BY <1>3, <1>5, <1>6, <1>7, <2>1
<1>8. SortInv'
  BY <1>1, <1>2, <1>3, <1>4, <1>7 DEF SortInv, Topological
<1>9. GraphType'
  BY <1>1 DEF GraphType, GraphInv, results
<1> QED
  BY <1>1, <1>2, <1>8, <1>9, NothingListed DEF GraphInv, OrderInv, MarkInv, SortedInv

\* What is left has nothing below it on the stack that refers to it, since the
\* numbers decrease along the stack.
LEMMA SortLeft ==
  ASSUME GraphInv, phase = "sort", Leave(Referencing(Last(stack)))
  PROVE  GraphInv'
<1> DEFINE last == Last(stack)
<1>1. /\ stack # <<>> /\ Referencing(last) \subseteq visited
      /\ order' = Append(order, last) /\ stack' = Front(stack)
      /\ UNCHANGED <<layout, refs, phase, visited, comp, count, results>>
  BY DEF Leave, input
<1>2. /\ ComponentInv' /\ Components' = Components /\ Successors' = Successors
      /\ \A d : Referencing(d)' = Referencing(d)
  BY <1>1, ComponentsKept
<1>3. /\ Search(Components, Successors, stack, visited, order)
      /\ \A i, j \in 1..Len(stack) : i < j => stack[j] < stack[i]
      /\ Topological(order)
  BY DEF GraphInv, SortInv
<1>4. /\ Len(stack) \in Nat /\ Len(stack) > 0 /\ last = stack[Len(stack)]
      /\ last \in Components /\ Len(stack') = Len(stack) - 1
      /\ \A i \in 1..(Len(stack) - 1) : stack'[i] = stack[i]
      /\ DOMAIN stack = 1..Len(stack)
  BY <1>1, <1>3, FrontFacts DEF Search
<1>5. /\ Len(order) \in Nat /\ Len(order') = Len(order) + 1
      /\ order'[Len(order) + 1] = last
      /\ \A k \in 1..Len(order) : order'[k] = order[k]
      /\ DOMAIN order = 1..Len(order)
  BY <1>1, <1>3, <1>4, AppendFacts DEF Search
<1> HIDE DEF last
<1>6. Search(Components, Successors, stack', visited', order')
  <2>1. Successors[last] \subseteq visited
    BY <1>1, <1>4 DEF Successors
  <2> QED BY <1>1, <1>3, <2>1, Left DEF last
<1>7. ASSUME NEW i \in 1..Len(stack'), NEW j \in 1..Len(stack'), i < j
      PROVE  stack'[j] < stack'[i]
  BY <1>3, <1>4, <1>7
<1>8. ASSUME NEW d \in Referencing(last) PROVE \E m \in 1..Len(order) : order[m] = d
  <2>1. d < last /\ d \in Components
    BY <1>4, ComponentFacts
  <2>2. d \notin Range(stack)
    <3> SUFFICES ASSUME d \in Range(stack) PROVE FALSE
      OBVIOUS
    <3>1. PICK i \in 1..Len(stack) : d = stack[i]
      BY <1>4 DEF Range
    <3>2. Len(stack) \in 1..Len(stack) /\ (i = Len(stack) \/ i < Len(stack))
      BY <1>4
    <3>3. i = Len(stack) \/ last < d
      BY <1>3, <1>4, <3>1, <3>2
    <3> QED BY <1>4, <2>1, <3>1, <3>3 DEF Components
  <2>3. d \in Range(order)
    BY <1>1, <1>3, <2>2 DEF Search
  <2> QED BY <1>5, <2>3 DEF Range
<1>9. Topological(order)'
  <2> SUFFICES ASSUME NEW k \in 1..Len(order'), NEW d \in Referencing(order'[k])
               PROVE  \E m \in 1..(k - 1) : order'[m] = d
    BY <1>2 DEF Topological
  <2>1. CASE k = Len(order) + 1
    <3>1. PICK m \in 1..Len(order) : order[m] = d
      BY <1>5, <1>8, <2>1
    <3>2. m \in 1..(k - 1) /\ order'[m] = d
      BY <1>5, <2>1, <3>1
    <3> QED BY <3>2
  <2>2. CASE k # Len(order) + 1
    <3>1. k \in 1..Len(order) /\ order'[k] = order[k]
      BY <1>5, <2>2
    <3>2. PICK m \in 1..(k - 1) : order[m] = d
      BY <1>3, <3>1 DEF Topological
    <3>3. order'[m] = d
      BY <1>5, <3>1, <3>2
    <3> QED BY <3>3
  <2> QED BY <2>1, <2>2
<1>10. SortInv'
  BY <1>1, <1>2, <1>6, <1>7, <1>9 DEF SortInv
<1>11. GraphType'
  BY <1>1 DEF GraphType, GraphInv, results
<1> QED
  BY <1>1, <1>2, <1>10, <1>11, NothingListed DEF GraphInv, OrderInv, MarkInv, SortedInv

\* The steps of the search of the condensed graph.
LEMMA SortKept ==
  ASSUME GraphInv, Sort
  PROVE  GraphInv'
<1>1. ASSUME stack = <<>>, NEW c \in 0..(count - 1), c \notin visited, Enter(c)
      PROVE  GraphInv'
  BY <1>1, SortEntered DEF Sort, Components
<1>2. CASE stack # <<>> /\ Descend(Referencing(Last(stack)))
  <2>1. PICK c \in Referencing(Last(stack)) \ visited : Enter(c)
    BY <1>2 DEF Descend
  <2>2. Last(stack) \in Components /\ phase = "sort"
    BY <1>2, FrontFacts DEF GraphInv, SortInv, Search, Sort
  <2>3. c \in Components
    BY <2>1, <2>2, ComponentFacts
  <2> QED BY <2>1, <2>2, <2>3, SortEntered
<1>3. CASE Leave(Referencing(Last(stack)))
  BY <1>3, SortLeft DEF Sort
<1> QED
  BY <1>1, <1>2, <1>3 DEF Sort

\* When it is over, all the components are in the order.
LEMMA SortedKept ==
  ASSUME GraphInv, Sorted
  PROVE  GraphInv'
<1>1. /\ phase = "sort" /\ stack = <<>> /\ visited = Components /\ phase' = "list"
      /\ UNCHANGED <<layout, refs, stack, visited, order, comp, count, results>>
  BY DEF Sorted, Components, input
<1>2. /\ ComponentInv' /\ Components' = Components
      /\ \A d : Referencing(d)' = Referencing(d)
  BY <1>1, ComponentsKept
<1>3. /\ order \in Seq(Components) /\ IsInjective(order) /\ Topological(order)
      /\ Range(order) = Components
  BY <1>1 DEF GraphInv, SortInv, Search, Range
<1>4. SortedInv'
  BY <1>1, <1>2, <1>3 DEF SortedInv, Topological
<1>5. sorted = <<>> /\ dumpOrder = <<>> /\ sorted' = <<>> /\ dumpOrder' = <<>>
  BY <1>1 DEF GraphInv, ListInv, IdsInv, results
<1>6. ListInv' /\ IdsInv'
  BY <1>1, <1>5 DEF ListInv, IdsInv, IsInjective, Range
<1>7. GraphType'
  BY <1>1 DEF GraphType, GraphInv, results
<1> QED
  BY <1>1, <1>2, <1>4, <1>6, <1>7 DEF GraphInv, OrderInv, MarkInv, SortInv

-----------------------------------------------------------------------------
(* The list of tables and its dump ids *)

\* A step that leaves the components and their order alone.
LEMMA OrderFixed ==
  ASSUME GraphInv, phase \in {"list", "ids"}, phase' \in {"list", "ids", "done"},
         UNCHANGED <<refs, stack, visited, order, comp, count>>
  PROVE  /\ OrderInv' /\ MarkInv' /\ ComponentInv' /\ SortInv' /\ SortedInv'
         /\ \A t, u : NotAfter(t, u)' = NotAfter(t, u)
         /\ \A t : Dependencies(t)' = Dependencies(t)
<1>1. /\ ComponentInv' /\ Components' = Components
      /\ \A d : Referencing(d)' = Referencing(d)
      /\ \A t : Dependencies(t)' = Dependencies(t)
  BY ComponentsKept
<1>2. SortedInv'
  BY <1>1 DEF GraphInv, SortedInv, Topological
<1>3. \A t, u : NotAfter(t, u)' = NotAfter(t, u)
  BY DEF NotAfter
<1> QED
  BY <1>1, <1>2, <1>3 DEF OrderInv, MarkInv, SortInv

\* A sequence with an element more in front.
LEMMA PrependFacts ==
  ASSUME NEW V, NEW s \in Seq(V), NEW x \in V
  PROVE  LET t == <<x>> \o s
         IN  /\ t \in Seq(V) /\ Len(s) \in Nat /\ Len(t) = Len(s) + 1 /\ t[1] = x
             /\ \A i \in 2..Len(t) : i - 1 \in 1..Len(s) /\ t[i] = s[i - 1]
             /\ Range(t) = Range(s) \cup {x}
             /\ \A i \in 1..Len(s) : s[i] \in Range(s)
             /\ IsInjective(s) /\ x \notin Range(s) => IsInjective(t)
<1> DEFINE t == <<x>> \o s
           n == Len(s)
<1>1. /\ n \in Nat /\ t \in Seq(V) /\ Len(t) = n + 1 /\ t[1] = x
      /\ DOMAIN s = 1..n /\ DOMAIN t = 1..(n + 1)
      /\ \A i \in 2..(n + 1) : t[i] = s[i - 1]
  OBVIOUS
<1> HIDE DEF t, n
<1>2. \A i \in 2..(n + 1) : i - 1 \in 1..n
  BY <1>1
<1>3. \A i \in 1..n : s[i] \in Range(s)
  BY <1>1 DEF Range
<1>4. Range(t) = Range(s) \cup {x}
  <2>1. ASSUME NEW i \in 1..(n + 1) PROVE t[i] \in Range(s) \cup {x}
    <3>1. i = 1 \/ i \in 2..(n + 1)
      BY <1>1
    <3> QED BY <1>1, <1>2, <1>3, <3>1
  <2>2. ASSUME NEW i \in 1..n PROVE s[i] \in Range(t)
    <3>1. i + 1 \in 2..(n + 1) /\ (i + 1) - 1 = i /\ i + 1 \in 1..(n + 1)
      BY <1>1
    <3>2. t[i + 1] = s[i]
      BY <1>1, <3>1
    <3> QED BY <1>1, <3>1, <3>2 DEF Range
  <2>3. x \in Range(t)
    <3>1. 1 \in 1..(n + 1)
      BY <1>1
    <3> QED BY <1>1, <3>1 DEF Range
  <2> QED BY <1>1, <2>1, <2>2, <2>3 DEF Range
<1>5. ASSUME IsInjective(s), x \notin Range(s), NEW i \in 1..(n + 1), NEW j \in 1..(n + 1),
             t[i] = t[j]
      PROVE  i = j
  <2>1. (i = 1 \/ i \in 2..(n + 1)) /\ (j = 1 \/ j \in 2..(n + 1))
    BY <1>1
  <2>2. CASE i = 1 \/ j = 1
    BY <1>1, <1>2, <1>3, <1>5, <2>1, <2>2
  <2>3. CASE i \in 2..(n + 1) /\ j \in 2..(n + 1)
    <3>1. s[i - 1] = s[j - 1] /\ i - 1 \in 1..n /\ j - 1 \in 1..n
      BY <1>1, <1>2, <1>5, <2>3
    <3>2. i - 1 = j - 1
      BY <1>1, <1>5, <3>1 DEF IsInjective
    <3> QED BY <1>1, <3>2
  <2> QED BY <2>1, <2>2, <2>3
<1>6. IsInjective(s) /\ x \notin Range(s) => IsInjective(t)
  BY <1>1, <1>5 DEF IsInjective
<1> QED
  BY <1>1, <1>2, <1>3, <1>4, <1>6 DEF t, n

\* The next table is of the first component that has one left, and comes
\* before those that are listed.
LEMMA ListKept ==
  ASSUME GraphInv, List
  PROVE  GraphInv'
<1>1. PICK t \in Table \ Range(sorted) :
          /\ \A i \in DOMAIN order :
                (\E u \in Table \ Range(sorted) : comp[u] = order[i]) =>
                    \E j \in 1..i : order[j] = comp[t]
          /\ sorted' = <<t>> \o sorted
  BY DEF List
<1>2. /\ phase = "list" /\ phase' = "list"
      /\ UNCHANGED <<layout, refs, stack, visited, order, comp, count, dumpDeps, dumpOrder>>
  BY DEF List, input
<1>3. /\ OrderInv' /\ MarkInv' /\ ComponentInv' /\ SortInv' /\ SortedInv'
      /\ \A u, v : NotAfter(u, v)' = NotAfter(u, v)
      /\ \A u : Dependencies(u)' = Dependencies(u)
  BY <1>2, OrderFixed
<1>4. /\ sorted \in Seq(Table) /\ IsInjective(sorted) /\ dumpOrder = <<>>
      /\ \A i, j \in 1..Len(sorted) : i < j => NotAfter(sorted[j], sorted[i])
      /\ \A u \in Range(sorted), v \in Table \ Range(sorted) : NotAfter(u, v)
  BY <1>2 DEF GraphInv, GraphType, ListInv, IdsInv
<1>5. /\ order \in Seq(Components) /\ IsInjective(order) /\ Len(order) \in Nat
      /\ DOMAIN order = 1..Len(order)
  BY <1>2 DEF GraphInv, SortedInv
<1>6. /\ sorted' \in Seq(Table) /\ Len(sorted) \in Nat
      /\ Len(sorted') = Len(sorted) + 1 /\ sorted'[1] = t
      /\ \A i \in 2..Len(sorted') : i - 1 \in 1..Len(sorted) /\ sorted'[i] = sorted[i - 1]
      /\ Range(sorted') = Range(sorted) \cup {t}
      /\ \A i \in 1..Len(sorted) : sorted[i] \in Range(sorted)
      /\ IsInjective(sorted')
  BY <1>1, <1>4, PrependFacts
<1>7. ASSUME NEW i \in 1..Len(sorted'), NEW j \in 1..Len(sorted'), i < j
      PROVE  NotAfter(sorted'[j], sorted'[i])
  <2>1. j \in 2..Len(sorted') /\ (i = 1 \/ i \in 2..Len(sorted'))
    BY <1>6, <1>7
  <2>2. sorted'[j] = sorted[j - 1] /\ j - 1 \in 1..Len(sorted)
    BY <1>6, <2>1
  <2>3. CASE i = 1
    BY <1>1, <1>4, <1>6, <2>2, <2>3
  <2>4. CASE i \in 2..Len(sorted')
    <3>1. sorted'[i] = sorted[i - 1] /\ i - 1 \in 1..Len(sorted) /\ i - 1 < j - 1
      BY <1>6, <1>7, <2>1, <2>4
    <3> QED BY <1>4, <2>2, <3>1
  <2> QED BY <2>1, <2>3, <2>4
<1>8. ASSUME NEW u \in Table \ Range(sorted) PROVE NotAfter(t, u)
  <2> SUFFICES ASSUME NEW i \in 1..Len(order), NEW j \in 1..Len(order),
                      order[i] = comp[t], order[j] = comp[u]
               PROVE  i <= j
    BY DEF NotAfter
  <2>1. PICK k \in 1..j : order[k] = comp[t]
    BY <1>1, <1>5, <1>8
  <2>2. k = i
    BY <1>5, <2>1 DEF IsInjective
  <2> QED BY <1>5, <2>1, <2>2
<1>9. ListInv'
  <2>1. (\A i, j \in 1..Len(sorted) : i < j => NotAfter(sorted[j], sorted[i]))'
    BY <1>2, <1>7 DEF NotAfter
  <2>2. \A u \in Range(sorted'), v \in Table \ Range(sorted') : NotAfter(u, v)
    BY <1>4, <1>6, <1>8
  <2>3. (\A u \in Range(sorted), v \in Table \ Range(sorted) : NotAfter(u, v))'
    BY <1>2, <2>2 DEF NotAfter
  <2> QED BY <1>2, <1>6, <2>1, <2>3 DEF ListInv
<1>10. IdsInv'
  BY <1>2, <1>4, <1>6 DEF IdsInv
<1>11. GraphType'
  BY <1>2, <1>6 DEF GraphType, GraphInv
<1> QED
  BY <1>3, <1>9, <1>10, <1>11 DEF GraphInv

\* The list is complete.
LEMMA ListedKept ==
  ASSUME GraphInv, Listed
  PROVE  GraphInv'
<1>1. /\ phase = "list" /\ phase' = "ids" /\ Len(sorted) = N
      /\ UNCHANGED <<layout, refs, stack, visited, order, comp, count, sorted, dumpDeps, dumpOrder>>
  BY DEF Listed, input, results, N
<1>2. /\ OrderInv' /\ MarkInv' /\ ComponentInv' /\ SortInv' /\ SortedInv'
      /\ \A t, u : NotAfter(t, u)' = NotAfter(t, u)
  BY <1>1, OrderFixed
<1>3. ListInv'
  BY <1>1, <1>2 DEF GraphInv, ListInv
<1>4. dumpOrder = <<>> /\ dumpOrder' = <<>> /\ sorted \in Seq(Table)
  BY <1>1 DEF GraphInv, IdsInv, GraphType
<1>5. IdsInv'
  BY <1>1, <1>4 DEF IdsInv
<1>6. GraphType'
  BY <1>1 DEF GraphType, GraphInv
<1> QED
  BY <1>2, <1>3, <1>5, <1>6 DEF GraphInv

\* The layout lists every table once.
LEMMA LayoutFacts ==
  ASSUME layout \in Layouts
  PROVE  /\ layout.tables \in Seq(Table) /\ IsInjective(layout.tables)
         /\ Range(layout.tables) = Table /\ layout.root \in [Table -> Table \cup {NoTable}]
  BY GraphAssumption DEF LayoutType

\* A table is found by its oid: itself, unless a partition before it has it
\* for its root.
LEMMA LookupFacts ==
  ASSUME layout \in Layouts, NEW oid \in Table
  PROVE  Lookup(oid) \in Table /\ (~Aliased => Lookup(oid) = oid)
<1> DEFINE s == layout.tables
           n == Len(s)
           Found(i) == oid \in {s[i], layout.root[s[i]]}
           First(i) == Found(i) /\ \A j \in 1..(i - 1) : ~Found(j)
           S == {i \in 1..n : Found(i)}
<1>1. /\ s \in Seq(Table) /\ n \in Nat /\ DOMAIN s = 1..n
      /\ \A i \in 1..n : s[i] \in Table
      /\ IsInjective(s) /\ Range(s) = Table
  BY LayoutFacts
<1>2. PICK p \in 1..n : s[p] = oid
  BY <1>1 DEF Range
<1>3. S # {} /\ S \subseteq Nat /\ \A i \in S : i \in 1..n /\ Found(i)
  BY <1>1, <1>2
<1>4. PICK k \in S : \A i \in S : k <= i
  <2> HIDE DEF S
  <2> QED BY <1>3, LeastExists
<1>5. k \in DOMAIN s /\ First(k)
  BY <1>1, <1>3, <1>4
<1> DEFINE c == CHOOSE i \in DOMAIN s : First(i)
<1>6. c \in DOMAIN s /\ First(c)
  <2> HIDE DEF First
  <2> QED BY <1>5
<1>7. Lookup(oid) = s[c]
  BY DEF Lookup
<1> HIDE DEF c
<1>8. ASSUME ~Aliased PROVE s[c] = oid
  <2> SUFFICES ASSUME s[c] # oid PROVE FALSE
    OBVIOUS
  <2>1. layout.root[s[c]] = s[p]
    BY <1>2, <1>6
  <2>2. ~(p < c) /\ p # c
    BY <1>1, <1>2, <1>6
  <2>3. c < p /\ c \in DOMAIN s /\ p \in DOMAIN s
    BY <1>1, <1>2, <1>6, <2>2
  <2> QED BY <1>8, <2>1, <2>3 DEF Aliased
<1> QED
  BY <1>1, <1>6, <1>7, <1>8

\* The next sorted table gets its dump id and its dependencies.
LEMMA SetDependenciesKept ==
  ASSUME GraphInv, SetDependencies
  PROVE  GraphInv'
<1> DEFINE oid == sorted[Len(dumpOrder) + 1]
           n == Len(dumpOrder)
<1>1. /\ phase = "ids" /\ phase' = "ids" /\ n < Len(sorted)
      /\ dumpOrder' = Append(dumpOrder, Lookup(oid))
      /\ dumpDeps' = [dumpDeps EXCEPT ![Lookup(oid)] = Dependencies(oid)]
      /\ UNCHANGED <<layout, refs, stack, visited, order, comp, count, sorted>>
  BY DEF SetDependencies, input
<1>2. /\ OrderInv' /\ MarkInv' /\ ComponentInv' /\ SortInv' /\ SortedInv'
      /\ \A t, u : NotAfter(t, u)' = NotAfter(t, u)
      /\ \A t : Dependencies(t)' = Dependencies(t)
  BY <1>1, OrderFixed
<1>3. /\ sorted \in Seq(Table) /\ dumpOrder \in Seq(Table) /\ IsInjective(sorted)
      /\ dumpDeps \in [Table -> SUBSET Table] /\ layout \in Layouts
      /\ n \in Nat /\ Len(sorted) \in Nat /\ DOMAIN sorted = 1..Len(sorted)
      /\ \A i \in 1..Len(sorted) : sorted[i] \in Table
  BY DEF GraphInv, GraphType, ListInv
<1>4. oid \in Table /\ n + 1 \in 1..Len(sorted)
  BY <1>1, <1>3
<1>5. Lookup(oid) \in Table /\ (~Aliased => Lookup(oid) = oid)
  BY <1>3, <1>4, LookupFacts
<1>6. Dependencies(oid) \subseteq Table
  BY DEF Dependencies
<1> HIDE DEF oid
<1>7. GraphType'
  BY <1>1, <1>3, <1>5, <1>6 DEF GraphType, GraphInv
<1>8. ListInv'
  BY <1>1, <1>2 DEF GraphInv, ListInv
<1>9. /\ Len(dumpOrder') = n + 1 /\ dumpOrder'[n + 1] = Lookup(oid)
      /\ \A i \in 1..n : dumpOrder'[i] = dumpOrder[i]
  BY <1>1, <1>3, <1>5, AppendFacts
<1>10. ASSUME ~Aliased, NEW i \in 1..(n + 1)
       PROVE  dumpOrder'[i] = sorted[i] /\ dumpDeps'[dumpOrder'[i]] = Dependencies(dumpOrder'[i])
  <2>1. CASE i = n + 1
    BY <1>1, <1>3, <1>5, <1>9, <1>10, <2>1 DEF oid
  <2>2. CASE i # n + 1
    <3>1. i \in 1..n /\ dumpOrder'[i] = dumpOrder[i] /\ i \in 1..Len(sorted)
      BY <1>1, <1>3, <1>9, <2>2
    <3>2. dumpOrder[i] = sorted[i] /\ dumpDeps[dumpOrder[i]] = Dependencies(dumpOrder[i])
      BY <1>10, <3>1 DEF GraphInv, IdsInv
    <3>3. sorted[i] # oid
      BY <1>3, <1>4, <2>2, <3>1 DEF oid, IsInjective
    <3> QED BY <1>1, <1>3, <1>5, <1>10, <3>1, <3>2, <3>3
  <2> QED BY <2>1, <2>2
<1>11. Aliased' = Aliased
  BY <1>1 DEF Aliased
<1>12. IdsInv'
  BY <1>1, <1>2, <1>3, <1>9, <1>10, <1>11 DEF IdsInv
<1> QED
  BY <1>2, <1>7, <1>8, <1>12 DEF GraphInv

\* The translation is complete.
LEMMA FinishKept ==
  ASSUME GraphInv, Finish
  PROVE  GraphInv'
<1>1. /\ phase = "ids" /\ phase' = "done" /\ Len(dumpOrder) = Len(sorted)
      /\ UNCHANGED <<layout, refs, stack, visited, order, comp, count, sorted, dumpDeps, dumpOrder>>
  BY DEF Finish, input, results
<1>2. /\ OrderInv' /\ MarkInv' /\ ComponentInv' /\ SortInv' /\ SortedInv'
      /\ \A t, u : NotAfter(t, u)' = NotAfter(t, u)
      /\ \A t : Dependencies(t)' = Dependencies(t)
  BY <1>1, OrderFixed
<1>3. ListInv'
  BY <1>1, <1>2 DEF GraphInv, ListInv
<1>4. Aliased' = Aliased
  BY <1>1 DEF Aliased
<1>5. IdsInv'
  BY <1>1, <1>2, <1>4 DEF GraphInv, IdsInv
<1>6. GraphType'
  BY <1>1 DEF GraphType, GraphInv
<1> QED
  BY <1>2, <1>3, <1>5, <1>6 DEF GraphInv

-----------------------------------------------------------------------------
(* The theorems *)

\* The invariant is inductive.
LEMMA GraphInductive == GraphInv /\ [Next]_vars => GraphInv'
<1> SUFFICES ASSUME GraphInv, [Next]_vars PROVE GraphInv'
  OBVIOUS
<1>1. CASE Order
  BY <1>1, OrderKept
<1>2. CASE Ordered
  BY <1>2, OrderedKept
<1>3. CASE Mark
  BY <1>3, MarkKept
<1>4. CASE MarkNext
  BY <1>4, MarkNextKept
<1>5. CASE Marked
  BY <1>5, MarkedKept
<1>6. CASE Sort
  BY <1>6, SortKept
<1>7. CASE Sorted
  BY <1>7, SortedKept
<1>8. CASE List
  BY <1>8, ListKept
<1>9. CASE Listed
  BY <1>9, ListedKept
<1>10. CASE SetDependencies
  BY <1>10, SetDependenciesKept
<1>11. CASE Finish
  BY <1>11, FinishKept
<1>12. CASE UNCHANGED vars
  <2>1. UNCHANGED <<layout, refs, phase, stack, visited, order, comp, count, sorted,
                    dumpDeps, dumpOrder>>
    BY <1>12 DEF vars
  <2>2. /\ \A t : Reachable(t)' = Reachable(t) /\ References(t)' = References(t)
        /\ Refs' = Refs /\ Reached' = Reached
    BY <2>1, ReachFixed
  <2>3. /\ Unmarked' = Unmarked /\ Aliased' = Aliased
        /\ \A c : Referencing(c)' = Referencing(c)
    BY <2>1 DEF Unmarked, Aliased, Referencing
  <2>4. Components' = Components /\ Successors' = Successors
    BY <2>1, <2>3 DEF Components, Successors
  <2>5. GraphType' /\ ListInv'
    BY <2>1 DEF GraphInv, GraphType, ListInv, NotAfter
  <2>6. OrderInv'
    BY <2>1, <2>2 DEF GraphInv, OrderInv, Trees
  <2>7. MarkInv'
    BY <2>1, <2>2, <2>3 DEF GraphInv, MarkInv, Postorder, Trees
  <2>8. ComponentInv'
    BY <2>1, <2>2, <2>3 DEF GraphInv, ComponentInv
  <2>9. SortInv' /\ SortedInv'
    BY <2>1, <2>3, <2>4 DEF GraphInv, SortInv, SortedInv, Topological
  <2>10. IdsInv'
    BY <2>1, <2>3 DEF GraphInv, IdsInv, Dependencies
  <2> QED BY <2>5, <2>6, <2>7, <2>8, <2>9, <2>10 DEF GraphInv
<1> QED
  BY <1>1, <1>2, <1>3, <1>4, <1>5, <1>6, <1>7, <1>8, <1>9, <1>10, <1>11, <1>12
     DEF Next

\* Every reachable state of the computation satisfies the invariant.
THEOREM GraphInvariant == Spec => []GraphInv
  BY GraphStarts, GraphInductive, PTL DEF Spec

\* Every variable keeps its type.
THEOREM GraphTypeCorrect == Spec => []TypeOK
<1>1. ASSUME GraphInv PROVE TypeOK
  <2>1. /\ GraphType /\ IsInjective(sorted)
        /\ \A i \in 1..Len(dumpOrder) : dumpOrder[i] \in Table
        /\ DOMAIN dumpOrder = 1..Len(dumpOrder)
    BY <1>1 DEF GraphInv, GraphType, ListInv
  <2>2. Range(dumpOrder) \subseteq Table
    BY <2>1 DEF Range
  <2>3. /\ Range(stack) \subseteq visited /\ IsInjective(order)
        /\ visited \subseteq Table \/ visited \subseteq 0..(count - 1)
        /\ Range(order) \subseteq visited \cup Table
    <3>1. Range(<<>>) = {}
      BY DEF Range
    <3>2. CASE phase = "order"
      BY <1>1, <3>2 DEF GraphInv, OrderInv, Search
    <3>3. CASE phase = "mark"
      BY <1>1, <3>1, <3>3 DEF GraphInv, MarkInv
    <3>4. CASE phase = "sort"
      BY <1>1, <3>4 DEF GraphInv, SortInv, Search, Components
    <3>5. CASE phase \in {"list", "ids", "done"}
      BY <1>1, <3>1, <3>5 DEF GraphInv, SortedInv, Components
    <3> QED BY <2>1, <3>2, <3>3, <3>4, <3>5 DEF GraphType
  <2> QED BY <2>1, <2>2, <2>3 DEF TypeOK, GraphType, NotVisited, N
<1> QED
  BY <1>1, GraphInvariant, PTL

\* After the second search a component is the cycle of each of its tables: a
\* table only reaches those with no smaller number.
LEMMA CycleFacts ==
  ASSUME GraphInv, phase \notin {"order", "mark"}, NEW t \in Table
  PROVE  Cycle(t) = {u \in Table : comp[u] = comp[t]}
<1>1. /\ \A u \in Table : comp[u] \in Components
      /\ \A v, u \in Table : comp[v] = comp[u] => u \in Reachable(v)
      /\ \A v \in Table : \A u \in References(v) : u \in Table /\ comp[v] <= comp[u]
      /\ \A u \in Table : comp[u] \in Nat
  BY ComponentFacts DEF Components
<1>2. ASSUME NEW v \in Table, NEW u \in Reachable(v) PROVE u \in Table /\ comp[v] <= comp[u]
  <2> DEFINE S == {w \in Table : comp[v] <= comp[w]}
  <2>1. v \in S /\ Holds(S)
    BY <1>1 DEF Holds
  <2> HIDE DEF S
  <2>2. Reachable(v) \subseteq S
    BY <2>1, ReachableFacts
  <2> QED BY <2>2 DEF S
<1>3. ASSUME NEW u \in Cycle(t) PROVE u \in Table /\ comp[u] = comp[t]
  <2>1. u \in Reachable(t) /\ t \in Reachable(u)
    BY DEF Cycle
  <2>2. u \in Table /\ comp[t] <= comp[u]
    BY <1>2, <2>1
  <2>3. comp[u] <= comp[t]
    BY <1>2, <2>1, <2>2
  <2> QED BY <1>1, <2>2, <2>3
<1>4. ASSUME NEW u \in Table, comp[u] = comp[t] PROVE u \in Cycle(t)
  BY <1>1, <1>4 DEF Cycle
<1> QED
  BY <1>3, <1>4

\* Kosaraju's algorithm finds the strongly connected components.
THEOREM ComponentsCorrect == Spec => []ComponentsAreCycles
<1>1. GraphInv => ComponentsAreCycles
  BY CycleFacts DEF ComponentsAreCycles
<1> QED
  BY <1>1, GraphInvariant, PTL

\* In the end the dump ids are those of the sorted tables, which are all the
\* tables, each with the dependencies of its component.
LEMMA DoneFacts ==
  ASSUME GraphInv, phase = "done", ~Aliased
  PROVE  /\ dumpOrder \in Seq(Table) /\ IsInjective(dumpOrder) /\ Range(dumpOrder) = Table
         /\ DOMAIN dumpOrder = 1..Len(dumpOrder) /\ Len(dumpOrder) \in Nat
         /\ \A i, j \in 1..Len(dumpOrder) : i < j => NotAfter(dumpOrder[j], dumpOrder[i])
         /\ \A t \in Table : dumpDeps[t] = Dependencies(t)
<1> DEFINE n == Len(dumpOrder)
<1>1. /\ dumpOrder \in Seq(Table) /\ sorted \in Seq(Table) /\ n \in Nat
      /\ DOMAIN dumpOrder = 1..n
      /\ \A i \in 1..n : dumpOrder[i] \in Table
  BY DEF GraphInv, GraphType
<1>2. /\ n = Len(sorted) /\ n = N /\ DOMAIN sorted = 1..n /\ IsInjective(sorted)
      /\ \A i, j \in 1..n : i < j => NotAfter(sorted[j], sorted[i])
      /\ \A i \in 1..n : /\ dumpOrder[i] = sorted[i]
                         /\ dumpDeps[dumpOrder[i]] = Dependencies(dumpOrder[i])
  BY <1>1 DEF GraphInv, ListInv, IdsInv
<1> HIDE DEF n
<1>3. \A i, j \in 1..n : dumpOrder[i] = dumpOrder[j] => i = j
  BY <1>2 DEF IsInjective
<1>4. IsInjective(dumpOrder)
  BY <1>1, <1>3 DEF IsInjective
<1>5. Range(dumpOrder) = Table
  <2>1. dumpOrder \in Injection(1..n, Table)
    <3>1. dumpOrder \in [1..n -> Table]
      BY <1>1 DEF n
    <3> QED BY <1>3, <3>1 DEF Injection, IsInjective
  <2>2. Cardinality(1..n) = Cardinality(Table)
    <3>1. Cardinality(1..n) = n
      BY <1>1, FS_Interval
    <3> QED BY <1>2, <3>1 DEF N
  <2>3. dumpOrder \in Surjection(1..n, Table)
    BY <2>1, <2>2, TableFinite, FS_Injection
  <2> QED BY <1>1, <2>3 DEF Surjection, Range
<1> QED
  BY <1>1, <1>2, <1>4, <1>5 DEF n, Range

\* A table depends on what refers from its component to another one.
LEMMA DependenciesFacts ==
  ASSUME GraphInv, phase \notin {"order", "mark"}, NEW t \in Table, NEW u \in Table
  PROVE  /\ u \in Dependencies(t) <=>
               comp[u] # comp[t] /\ \E r \in refs : comp[r[1]] = comp[t] /\ comp[r[2]] = comp[u]
         /\ u \in Dependencies(t) => comp[t] \in Referencing(comp[u])
<1>1. /\ \A v \in Table : comp[v] \in Components
      /\ \A c \in Components : \A d \in Referencing(c) : d \in Components /\ d < c
      /\ Components \subseteq Nat
  BY ComponentFacts DEF Components
<1>2. comp[t] \in Referencing(comp[u]) <=>
          comp[u] # comp[t] /\ \E r \in refs : comp[r[1]] = comp[t] /\ comp[r[2]] = comp[u]
  BY DEF Referencing
<1>3. ASSUME comp[t] \in Referencing(comp[u]) PROVE comp[u] >= comp[t]
  <2>1. comp[t] < comp[u] /\ comp[t] \in Nat /\ comp[u] \in Nat
    BY <1>1, <1>3
  <2> QED BY <2>1
<1> QED
  BY <1>2, <1>3 DEF Dependencies

\* The order of a dump has each table once, after all that it depends on.
THEOREM OrderCorrect == Spec => []OrderIsTopological
<1>1. ASSUME GraphInv, phase = "done", ~Aliased, NEW i \in DOMAIN dumpOrder,
             NEW u \in dumpDeps[dumpOrder[i]]
      PROVE  u \in Range(SubSeq(dumpOrder, 1, i - 1))
  <2> DEFINE t == dumpOrder[i]
             n == Len(dumpOrder)
  <2>1. /\ dumpOrder \in Seq(Table) /\ Range(dumpOrder) = Table
        /\ DOMAIN dumpOrder = 1..n /\ n \in Nat /\ t \in Table
        /\ \A j, k \in 1..n : j < k => NotAfter(dumpOrder[k], dumpOrder[j])
        /\ dumpDeps[t] = Dependencies(t)
    BY <1>1, DoneFacts
  <2>2. /\ u \in Table /\ comp[u] # comp[t] /\ comp[t] \in Referencing(comp[u])
    BY <1>1, <2>1, DependenciesFacts DEF Dependencies
  <2>3. /\ order \in Seq(Components) /\ Range(order) = Components /\ Topological(order)
        /\ DOMAIN order = 1..Len(order) /\ Len(order) \in Nat
    BY <1>1 DEF GraphInv, SortedInv
  <2>4. PICK k \in 1..Len(order) : order[k] = comp[u]
    <3>1. comp[u] \in Range(order)
      BY <1>1, <2>2, <2>3, ComponentFacts
    <3> QED BY <2>3, <3>1 DEF Range
  <2>5. PICK m \in 1..(k - 1) : order[m] = comp[t]
    BY <2>2, <2>3, <2>4 DEF Topological
  <2>6. PICK j \in 1..n : dumpOrder[j] = u
    BY <2>1, <2>2 DEF Range
  <2>7. j < i
    <3> SUFFICES ASSUME ~(j < i) PROVE FALSE
      OBVIOUS
    <3>1. j # i
      BY <2>2, <2>6
    <3>2. i < j /\ i \in 1..n
      BY <1>1, <2>1, <2>6, <3>1
    <3>3. NotAfter(u, t)
      BY <2>1, <2>6, <3>2
    <3>4. m \in 1..Len(order) /\ ~(k <= m)
      BY <2>3, <2>4, <2>5
    <3> QED BY <2>4, <2>5, <3>3, <3>4 DEF NotAfter
  <2>8. /\ j \in 1..(i - 1) /\ i - 1 \in 0..n
    BY <1>1, <2>1, <2>6, <2>7
  <2>9. LET s == SubSeq(dumpOrder, 1, i - 1)
        IN  DOMAIN s = 1..(i - 1) /\ \A x \in 1..(i - 1) : s[x] = dumpOrder[x]
    BY <2>1, <2>8
  <2> QED BY <2>6, <2>8, <2>9 DEF Range
<1>2. GraphInv => OrderIsTopological
  BY <1>1, DoneFacts DEF OrderIsTopological
<1> QED
  BY <1>2, GraphInvariant, PTL

\* A table depends on the cycles that its cycle refers to, and on no other.
THEOREM DependenciesCorrect == Spec => []DependenciesAreReferences
<1>1. ASSUME GraphInv, phase = "done", ~Aliased, NEW t \in Table
      PROVE  dumpDeps[t] =
                 (UNION {Cycle(u) : u \in UNION {References(x) : x \in Cycle(t)}}) \ Cycle(t)
  <2>1. /\ refs \subseteq Table \X Table
        /\ \A v \in Table : Cycle(v) = {w \in Table : comp[w] = comp[v]}
        /\ \A v : References(v) = {w \in Table : <<v, w>> \in refs}
        /\ dumpDeps[t] = Dependencies(t) /\ Dependencies(t) \subseteq Table
    BY <1>1, CycleFacts, DoneFacts, ComponentFacts DEF References, Dependencies
  <2>2. \A u \in Table : u \in Dependencies(t) <=>
            comp[u] # comp[t] /\ \E r \in refs : comp[r[1]] = comp[t] /\ comp[r[2]] = comp[u]
    BY <1>1, DependenciesFacts
  <2>3. ASSUME NEW u \in Dependencies(t)
        PROVE  /\ u \notin Cycle(t)
               /\ \E x \in Cycle(t) : \E y \in References(x) : u \in Cycle(y)
    <3>1. PICK r \in refs : comp[r[1]] = comp[t] /\ comp[r[2]] = comp[u]
      BY <2>1, <2>2
    <3>2. r[1] \in Table /\ r[2] \in Table /\ r = <<r[1], r[2]>>
      BY <2>1
    <3>3. u \in Table /\ comp[u] # comp[t]
      BY <2>1, <2>2
    <3>4. r[1] \in Cycle(t) /\ r[2] \in References(r[1]) /\ u \in Cycle(r[2])
      BY <2>1, <3>1, <3>2, <3>3
    <3> QED BY <2>1, <3>3, <3>4
  <2>4. ASSUME NEW x \in Cycle(t), NEW y \in References(x), NEW u \in Cycle(y),
               u \notin Cycle(t)
        PROVE  u \in Dependencies(t)
    <3>1. /\ x \in Table /\ y \in Table /\ <<x, y>> \in refs /\ comp[x] = comp[t]
          /\ u \in Table /\ comp[u] = comp[y] /\ comp[u] # comp[t]
      BY <2>1, <2>4
    <3>2. <<x, y>>[1] = x /\ <<x, y>>[2] = y
      OBVIOUS
    <3> QED BY <2>2, <3>1, <3>2
  <2>5. \A u : u \in UNION {Cycle(v) : v \in UNION {References(x) : x \in Cycle(t)}} <=>
                 \E x \in Cycle(t) : \E y \in References(x) : u \in Cycle(y)
    OBVIOUS
  <2> QED BY <2>1, <2>3, <2>4, <2>5
<1>2. GraphInv => DependenciesAreReferences
  BY <1>1 DEF DependenciesAreReferences
<1> QED
  BY <1>2, GraphInvariant, PTL
=============================================================================
