--------------------------- MODULE TableDumpProofs --------------------------
(***************************************************************************)
(* What the dump of one table ensures for every table, every number of     *)
(* transformers and windows of them, every number of rows and every        *)
(* program that answers or fails to answer.                                *)
(***************************************************************************)
EXTENDS TableDump, SetInduction

-----------------------------------------------------------------------------
(* The windows of a table *)

LEMMA ChainFacts ==
  ASSUME NEW tb \in TableType
  PROVE  /\ tb.chain \in Seq(Transformer) /\ Len(tb.chain) \in Nat
         /\ \A i \in 1..Len(tb.chain) : tb.chain[i] \in Transformer
         /\ \A i, j \in 1..Len(tb.chain) : tb.chain[i] = tb.chain[j] => i = j
         /\ \A t \in Transformer : Writes(tb, t) \subseteq Column
         /\ Range(tb.chain) = {tb.chain[i] : i \in 1..Len(tb.chain)}
         /\ Range(tb.chain) \subseteq Transformer
<1>1. /\ tb.chain \in Seq(Transformer) /\ IsInjective(tb.chain)
      /\ tb.affected \in [Transformer -> SUBSET Column]
  BY DEF TableType
<1>2. Len(tb.chain) \in Nat /\ DOMAIN tb.chain = 1..Len(tb.chain)
  BY <1>1
<1> QED
  BY <1>1, <1>2 DEF IsInjective, Writes, Range

\* The windows of a prefix of the transformers are given by those of the prefix
\* before it.
LEMMA WindowsRecursion ==
  ASSUME NEW tb \in TableType
  PROVE  WindowsOf(tb) =
           [i \in 0..Len(tb.chain) |->
              IF i = 0 THEN <<NewWindow>> ELSE Placed(tb, WindowsOf(tb)[i - 1], tb.chain[i])]
<1> DEFINE n == Len(tb.chain)
           Is(f, k) == f = [i \in 0..k |-> IF i = 0 THEN <<NewWindow>>
                                           ELSE Placed(tb, f[i - 1], tb.chain[i])]
           Q == {k \in Nat : \E f : Is(f, k)}
<1>0. n \in Nat
  BY ChainFacts
<1>1. 0 \in Q
  <2> DEFINE f == [i \in 0..0 |-> <<NewWindow>>]
  <2>1. Is(f, 0)
    OBVIOUS
  <2> QED BY <2>1
<1>2. ASSUME NEW k \in Nat, k \in Q PROVE k + 1 \in Q
  <2>1. PICK f : Is(f, k)
    BY <1>2
  <2> DEFINE g == [i \in 0..(k + 1) |-> IF i = k + 1 THEN Placed(tb, f[k], tb.chain[k + 1])
                                                    ELSE f[i]]
  <2>2. ASSUME NEW i \in 0..(k + 1)
        PROVE  g[i] = IF i = 0 THEN <<NewWindow>> ELSE Placed(tb, g[i - 1], tb.chain[i])
    <3>1. CASE i = k + 1
      <4>1. k \in 0..(k + 1) /\ k # k + 1 /\ g[k] = f[k]
        OBVIOUS
      <4> QED BY <3>1, <4>1
    <3>2. CASE i # k + 1
      <4>1. i \in 0..k /\ g[i] = f[i]
        BY <3>2
      <4>2. i # 0 => i - 1 \in 0..(k + 1) /\ i - 1 # k + 1 /\ g[i - 1] = f[i - 1]
        BY <4>1
      <4>3. f[i] = IF i = 0 THEN <<NewWindow>> ELSE Placed(tb, f[i - 1], tb.chain[i])
        BY <2>1, <4>1
      <4> QED BY <4>1, <4>2, <4>3
    <3> QED BY <3>1, <3>2
  <2>3. Is(g, k + 1)
    BY <2>2
  <2> HIDE DEF g, Is
  <2> QED BY <2>3
<1>3. \E f : Is(f, n)
  <2>1. Nat \subseteq Q
    <3> HIDE DEF Q
    <3> QED BY <1>1, <1>2, NatSetInduction
  <2> QED BY <1>0, <2>1
<1> DEFINE W == CHOOSE f : Is(f, n)
<1>4. Is(W, n)
  BY <1>3
<1>5. WindowsOf(tb) = W
  BY DEF WindowsOf
<1> QED
  BY <1>4, <1>5

\* A window holds transformers that follow each other in the table and that
\* change different columns; the windows together hold the prefix.
Window == [chain : Seq(Transformer), columns : SUBSET Column]

Disjoint(tb, w) ==
    \A m \in 1..Len(w.chain) :
        /\ Writes(tb, w.chain[m]) \subseteq w.columns
        /\ \A l \in 1..Len(w.chain) :
               m # l => Writes(tb, w.chain[m]) \cap Writes(tb, w.chain[l]) = {}

Splits(tb, ws, i, off) ==
    /\ off \in [1..(Len(ws) + 1) -> 0..i] /\ off[1] = 0 /\ off[Len(ws) + 1] = i
    /\ \A k \in 1..Len(ws) :
         /\ off[k + 1] = off[k] + Len(ws[k].chain)
         /\ \A m \in 1..Len(ws[k].chain) : ws[k].chain[m] = tb.chain[off[k] + m]

AreWindows(tb, ws, i) ==
    /\ ws \in Seq(Window) /\ Len(ws) >= 1
    /\ \A k \in 1..Len(ws) : Disjoint(tb, ws[k])
    /\ \E off : Splits(tb, ws, i, off)

\* A window that takes a transformer keeps its columns apart.
LEMMA AddedFacts ==
  ASSUME NEW tb \in TableType, NEW w \in Window, NEW t \in Transformer,
         Disjoint(tb, w), CanAdd(tb, w, t)
  PROVE  /\ Added(tb, w, t) \in Window /\ Disjoint(tb, Added(tb, w, t))
         /\ Len(Added(tb, w, t).chain) = Len(w.chain) + 1 /\ Len(w.chain) \in Nat
         /\ \A m \in 1..Len(w.chain) : Added(tb, w, t).chain[m] = w.chain[m]
         /\ Added(tb, w, t).chain[Len(w.chain) + 1] = t
<1> DEFINE n == Len(w.chain)
           c == Append(w.chain, t)
<1>1. w.chain \in Seq(Transformer) /\ w.columns \in SUBSET Column /\ n \in Nat
  BY DEF Window
<1>2. /\ c \in Seq(Transformer) /\ Len(c) = n + 1 /\ c[n + 1] = t
      /\ \A m \in 1..n : c[m] = w.chain[m]
  BY <1>1
<1>3. /\ Added(tb, w, t).chain = c
      /\ Added(tb, w, t).columns = w.columns \cup Writes(tb, t)
      /\ Added(tb, w, t) = [chain |-> c, columns |-> w.columns \cup Writes(tb, t)]
  BY DEF Added
<1>4. Added(tb, w, t) \in Window
  BY <1>1, <1>2, <1>3, ChainFacts DEF Window
<1>5. ASSUME NEW m \in 1..n
      PROVE  Writes(tb, w.chain[m]) \cap Writes(tb, t) = {}
  <2>1. tb.affected[t] # {}
    BY <1>1 DEF CanAdd
  <2>2. Writes(tb, t) \cap w.columns = {}
    BY <2>1 DEF CanAdd, Writes
  <2>3. Writes(tb, w.chain[m]) \subseteq w.columns
    BY DEF Disjoint
  <2> QED BY <2>2, <2>3
<1>6. Disjoint(tb, Added(tb, w, t))
  <2> SUFFICES ASSUME NEW m \in 1..(n + 1)
               PROVE  /\ Writes(tb, c[m]) \subseteq w.columns \cup Writes(tb, t)
                      /\ \A l \in 1..(n + 1) : m # l => Writes(tb, c[m]) \cap Writes(tb, c[l]) = {}
    BY <1>2, <1>3 DEF Disjoint
  <2>. HIDE DEF c
  <2>1. \A k \in 1..(n + 1) : k \in 1..n \/ (c[k] = t /\ k = n + 1)
    BY <1>1, <1>2
  <2>2. \A k \in 1..n : c[k] = w.chain[k] /\ Writes(tb, w.chain[k]) \subseteq w.columns
    BY <1>2 DEF Disjoint
  <2>3. \A k, l \in 1..n : k # l => Writes(tb, c[k]) \cap Writes(tb, c[l]) = {}
    BY <1>2 DEF Disjoint
  <2>4. \A k \in 1..n : Writes(tb, c[k]) \cap Writes(tb, t) = {}
    BY <1>2, <1>5
  <2> QED BY <2>1, <2>2, <2>3, <2>4
<1> QED
  BY <1>1, <1>2, <1>3, <1>4, <1>6

LEMMA NewWindowFacts ==
  ASSUME NEW tb
  PROVE  NewWindow \in Window /\ Disjoint(tb, NewWindow) /\ Len(NewWindow.chain) = 0
         /\ NewWindow.chain = <<>> /\ NewWindow.columns = {}
  BY DEF NewWindow, Window, Disjoint

\* tryAdd puts the next transformer at the end of the last window, or begins a
\* window with it.
LEMMA PlacedFacts ==
  ASSUME NEW tb \in TableType, NEW ws, NEW i \in 0..Len(tb.chain), i < Len(tb.chain),
         AreWindows(tb, ws, i)
  PROVE  AreWindows(tb, Placed(tb, ws, tb.chain[i + 1]), i + 1)
<1> DEFINE t == tb.chain[i + 1]
           n == Len(ws)
<1>1. /\ ws \in Seq(Window) /\ n \in Nat \ {0} /\ Last(ws) = ws[n] /\ ws[n] \in Window
      /\ \A k \in 1..n : ws[k] \in Window /\ Disjoint(tb, ws[k])
      /\ i \in Nat /\ i + 1 \in 1..Len(tb.chain) /\ t \in Transformer
  BY ChainFacts DEF AreWindows, Last
<1>2. PICK off : Splits(tb, ws, i, off)
  BY DEF AreWindows
<1>3. /\ \A k \in 1..(n + 1) : off[k] \in 0..i
      /\ off[1] = 0 /\ off[n + 1] = i
      /\ \A k \in 1..n : /\ Len(ws[k].chain) \in Nat
                         /\ off[k + 1] = off[k] + Len(ws[k].chain)
                         /\ \A m \in 1..Len(ws[k].chain) : ws[k].chain[m] = tb.chain[off[k] + m]
  <2>1. \A k \in 1..n : Len(ws[k].chain) \in Nat
    BY <1>1 DEF Window
  <2> QED BY <1>2, <2>1 DEF Splits
<1>. HIDE DEF t, n
<1>4. CASE CanAdd(tb, ws[n], t)
  <2> DEFINE a == Added(tb, ws[n], t)
             vs == [ws EXCEPT ![n] = a]
             to == [k \in 1..(n + 1) |-> IF k = n + 1 THEN i + 1 ELSE off[k]]
  <2>1. Placed(tb, ws, t) = vs
    BY <1>1, <1>4 DEF Placed, n
  <2>2. /\ a \in Window /\ Disjoint(tb, a)
        /\ Len(a.chain) = Len(ws[n].chain) + 1
        /\ \A m \in 1..Len(ws[n].chain) : a.chain[m] = ws[n].chain[m]
        /\ a.chain[Len(ws[n].chain) + 1] = t
    BY <1>1, <1>4, AddedFacts
  <2>. HIDE DEF a
  <2>3. /\ vs \in Seq(Window) /\ Len(vs) = n /\ vs[n] = a
        /\ \A k \in 1..n : k # n => vs[k] = ws[k]
    BY <1>1, <2>2 DEF n
  <2>. HIDE DEF vs
  <2>4. \A k \in 1..n : Disjoint(tb, vs[k])
    BY <1>1, <2>2, <2>3
  <2>5. /\ to \in [1..(n + 1) -> 0..(i + 1)] /\ to[n + 1] = i + 1
        /\ \A k \in 1..n : to[k] = off[k]
    BY <1>1, <1>3
  <2>. HIDE DEF to
  <2>6. ASSUME NEW k \in 1..n
        PROVE  /\ to[k + 1] = to[k] + Len(vs[k].chain)
               /\ \A m \in 1..Len(vs[k].chain) : vs[k].chain[m] = tb.chain[to[k] + m]
    <3>1. CASE k # n
      <4>1. k + 1 \in 1..n /\ vs[k] = ws[k] /\ to[k + 1] = off[k + 1] /\ to[k] = off[k]
        BY <1>1, <2>3, <2>5, <3>1
      <4> QED BY <1>3, <4>1
    <3>2. CASE k = n
      <4> DEFINE l == Len(ws[n].chain)
      <4>1. l \in Nat /\ i = off[n] + l /\ off[n] \in Nat /\ to[n] = off[n]
        BY <1>1, <1>3, <2>5
      <4>2. \A m \in 1..l : a.chain[m] = tb.chain[off[n] + m]
        BY <1>1, <1>3, <2>2
      <4>3. Len(a.chain) = l + 1 /\ a.chain[l + 1] = tb.chain[off[n] + (l + 1)]
        BY <2>2, <4>1 DEF t
      <4>. HIDE DEF l
      <4>4. \A m \in 1..(l + 1) : a.chain[m] = tb.chain[off[n] + m]
        <5>1. \A m \in 1..(l + 1) : m \in 1..l \/ m = l + 1
          BY <4>1
        <5> QED BY <4>2, <4>3, <5>1
      <4>5. i + 1 = off[n] + (l + 1)
        BY <4>1
      <4> QED BY <2>3, <2>5, <3>2, <4>1, <4>3, <4>4, <4>5
    <3> QED BY <3>1, <3>2
  <2>7. Splits(tb, vs, i + 1, to)
    <3>1. to[1] = 0
      BY <1>1, <1>3, <2>5
    <3> QED BY <2>3, <2>5, <2>6, <3>1 DEF Splits
  <2> QED BY <1>1, <2>1, <2>3, <2>4, <2>7 DEF AreWindows, t
<1>5. CASE ~CanAdd(tb, ws[n], t)
  <2> DEFINE a == Added(tb, NewWindow, t)
             vs == Append(ws, a)
             to == [k \in 1..(n + 2) |-> IF k = n + 2 THEN i + 1 ELSE off[k]]
  <2>1. Placed(tb, ws, t) = vs
    BY <1>1, <1>5 DEF Placed
  <2>2. CanAdd(tb, NewWindow, t)
    BY DEF CanAdd, NewWindow
  <2>3. /\ a \in Window /\ Disjoint(tb, a) /\ Len(a.chain) = 1 /\ a.chain[1] = t
    <3>1. /\ NewWindow \in Window /\ Disjoint(tb, NewWindow) /\ Len(NewWindow.chain) = 0
      BY NewWindowFacts
    <3>2. /\ Added(tb, NewWindow, t) \in Window /\ Disjoint(tb, Added(tb, NewWindow, t))
          /\ Len(Added(tb, NewWindow, t).chain) = 0 + 1
          /\ Added(tb, NewWindow, t).chain[0 + 1] = t
      BY <1>1, <2>2, <3>1, AddedFacts
    <3> QED BY <3>2
  <2>. HIDE DEF a
  <2>4. /\ vs \in Seq(Window) /\ Len(vs) = n + 1 /\ vs[n + 1] = a
        /\ \A k \in 1..n : vs[k] = ws[k]
    BY <1>1, <2>3 DEF n
  <2>. HIDE DEF vs
  <2>5. \A k \in 1..(n + 1) : Disjoint(tb, vs[k])
    <3>1. \A k \in 1..(n + 1) : k \in 1..n \/ k = n + 1
      BY <1>1
    <3> QED BY <1>1, <2>3, <2>4, <3>1
  <2>6. /\ to \in [1..(n + 2) -> 0..(i + 1)] /\ to[n + 2] = i + 1
        /\ \A k \in 1..(n + 1) : to[k] = off[k]
    BY <1>1, <1>3
  <2>. HIDE DEF to
  <2>7. ASSUME NEW k \in 1..(n + 1)
        PROVE  /\ to[k + 1] = to[k] + Len(vs[k].chain)
               /\ \A m \in 1..Len(vs[k].chain) : vs[k].chain[m] = tb.chain[to[k] + m]
    <3>1. CASE k \in 1..n
      <4>1. k + 1 \in 1..(n + 1) /\ vs[k] = ws[k] /\ to[k + 1] = off[k + 1] /\ to[k] = off[k]
        BY <1>1, <2>4, <2>6, <3>1
      <4> QED BY <1>3, <3>1, <4>1
    <3>2. CASE k = n + 1
      <4>1. /\ vs[k] = a /\ to[k + 1] = i + 1 /\ to[k] = i
            /\ \A m \in 1..1 : a.chain[m] = tb.chain[i + m]
        BY <1>1, <1>3, <2>3, <2>4, <2>6, <3>2 DEF t
      <4> QED BY <2>3, <4>1
    <3>3. k \in 1..n \/ k = n + 1
      BY <1>1
    <3> QED BY <3>1, <3>2, <3>3
  <2>8. to[1] = 0
    BY <1>1, <1>3, <2>6
  <2>9. (n + 1) + 1 = n + 2 /\ n + 1 >= 1
    BY <1>1
  <2>10. Splits(tb, vs, i + 1, to)
    BY <2>4, <2>6, <2>7, <2>8, <2>9 DEF Splits
  <2> QED BY <2>1, <2>4, <2>5, <2>9, <2>10 DEF AreWindows, t
<1> QED
  BY <1>4, <1>5

LEMMA WindowsAre ==
  ASSUME NEW tb \in TableType
  PROVE  AreWindows(tb, Windows(tb), Len(tb.chain))
<1> DEFINE n == Len(tb.chain)
           Q == {i \in Nat : i <= n => AreWindows(tb, WindowsOf(tb)[i], i)}
<1>0. n \in Nat
  BY ChainFacts
<1>1. \A i \in 0..n : WindowsOf(tb)[i] =
          IF i = 0 THEN <<NewWindow>> ELSE Placed(tb, WindowsOf(tb)[i - 1], tb.chain[i])
  BY WindowsRecursion
<1>2. 0 \in Q
  <2>1. WindowsOf(tb)[0] = <<NewWindow>>
    BY <1>0, <1>1
  <2> DEFINE ws == <<NewWindow>>
  <2>2. /\ ws \in Seq(Window) /\ Len(ws) = 1 /\ ws[1] = NewWindow /\ Len(NewWindow.chain) = 0
        /\ Disjoint(tb, NewWindow)
    BY NewWindowFacts
  <2> HIDE DEF ws
  <2> DEFINE off == [k \in 1..2 |-> 0]
  <2>3. off \in [1..2 -> 0..0] /\ off[1] = 0 /\ off[2] = 0
    OBVIOUS
  <2> HIDE DEF off
  <2>4. Splits(tb, ws, 0, off)
    BY <2>2, <2>3 DEF Splits
  <2>5. AreWindows(tb, ws, 0)
    BY <2>2, <2>4 DEF AreWindows
  <2> QED BY <2>1, <2>5 DEF ws
<1>3. ASSUME NEW i \in Nat, i \in Q PROVE i + 1 \in Q
  <2> SUFFICES ASSUME i + 1 <= n PROVE AreWindows(tb, WindowsOf(tb)[i + 1], i + 1)
    OBVIOUS
  <2>1. /\ i \in 0..n /\ i < n /\ i + 1 \in 0..n /\ i + 1 # 0 /\ (i + 1) - 1 = i
        /\ AreWindows(tb, WindowsOf(tb)[i], i)
    BY <1>0, <1>3
  <2>2. AreWindows(tb, Placed(tb, WindowsOf(tb)[i], tb.chain[i + 1]), i + 1)
    BY <2>1, PlacedFacts
  <2>3. WindowsOf(tb)[i + 1] = Placed(tb, WindowsOf(tb)[i], tb.chain[i + 1])
    BY <1>1, <2>1
  <2> QED BY <2>2, <2>3
<1>4. n \in Q
  <2> HIDE DEF Q
  <2> QED BY <1>0, <1>2, <1>3, NatSetInduction
<1> QED
  BY <1>0, <1>4 DEF Windows

\* What the dumper goroutine relies on in each window.
LEMMA WindowFacts ==
  ASSUME NEW tb \in TableType
  PROVE  /\ Windows(tb) \in Seq(Window) /\ Len(Windows(tb)) \in Nat \ {0}
         /\ \A k \in 1..Len(Windows(tb)) : LET c == Windows(tb)[k].chain IN
              /\ c \in Seq(Transformer) /\ Len(c) \in 0..Len(tb.chain)
              /\ Range(c) = {c[m] : m \in 1..Len(c)}
              /\ Range(c) \subseteq Range(tb.chain)
              /\ \A m, l \in 1..Len(c) : c[m] = c[l] => m = l
              /\ \A m, l \in 1..Len(c) :
                    m # l => Writes(tb, c[m]) \cap Writes(tb, c[l]) = {}
<1> DEFINE W == Windows(tb)
           N == Len(tb.chain)
<1>1. AreWindows(tb, W, N)
  BY WindowsAre
<1>2. W \in Seq(Window) /\ Len(W) \in Nat \ {0}
  BY <1>1 DEF AreWindows
<1>3. PICK off : Splits(tb, W, N, off)
  BY <1>1 DEF AreWindows
<1>4. /\ N \in Nat /\ Range(tb.chain) = {tb.chain[m] : m \in 1..N}
      /\ \A m, l \in 1..N : tb.chain[m] = tb.chain[l] => m = l
  BY ChainFacts
<1> HIDE DEF W, N
<1>5. ASSUME NEW k \in 1..Len(W), NEW c, c = W[k].chain
      PROVE  /\ c \in Seq(Transformer) /\ Len(c) \in 0..N
             /\ Range(c) = {c[m] : m \in 1..Len(c)}
             /\ Range(c) \subseteq Range(tb.chain)
             /\ \A m, l \in 1..Len(c) : c[m] = c[l] => m = l
             /\ \A m, l \in 1..Len(c) :
                   m # l => Writes(tb, c[m]) \cap Writes(tb, c[l]) = {}
  <2>1. W[k] \in Window /\ Disjoint(tb, W[k])
    BY <1>1, <1>2 DEF AreWindows
  <2>2. c \in Seq(Transformer) /\ Len(c) \in Nat
    BY <2>1, <1>5 DEF Window
  <2>3. Range(c) = {c[m] : m \in 1..Len(c)}
    BY <2>2 DEF Range
  <2>4. /\ k + 1 \in 1..(Len(W) + 1) /\ k \in 1..(Len(W) + 1)
        /\ off[k] \in 0..N /\ off[k + 1] \in 0..N /\ off[k + 1] = off[k] + Len(c)
        /\ \A m \in 1..Len(c) : c[m] = tb.chain[off[k] + m]
    BY <1>2, <1>3, <1>5 DEF Splits
  <2>5. Len(c) \in 0..N /\ \A m \in 1..Len(c) : off[k] + m \in 1..N
    BY <1>4, <2>2, <2>4
  <2>6. Range(c) \subseteq Range(tb.chain)
    <3>1. ASSUME NEW m \in 1..Len(c) PROVE c[m] \in Range(tb.chain)
      <4>1. off[k] + m \in 1..N /\ c[m] = tb.chain[off[k] + m]
        BY <2>4, <2>5
      <4> QED BY <1>4, <4>1
    <3> QED BY <2>3, <3>1
  <2>7. ASSUME NEW m \in 1..Len(c), NEW l \in 1..Len(c), c[m] = c[l] PROVE m = l
    <3>1. /\ off[k] + m \in 1..N /\ c[m] = tb.chain[off[k] + m]
          /\ off[k] + l \in 1..N /\ c[l] = tb.chain[off[k] + l]
      BY <2>4, <2>5
    <3>2. off[k] + m = off[k] + l
      BY <1>4, <2>7, <3>1
    <3> QED BY <2>4, <3>2
  <2>8. \A m, l \in 1..Len(c) : m # l => Writes(tb, c[m]) \cap Writes(tb, c[l]) = {}
    BY <2>1, <1>5 DEF Disjoint
  <2> QED BY <2>2, <2>3, <2>5, <2>6, <2>7, <2>8
<1> QED
  BY <1>2, <1>5 DEF W, N

-----------------------------------------------------------------------------
(* The inductive invariant *)

\* The transformers that have a signal or work on one: those the WaitGroup
\* waits for.
Running == {t \in Transformer : gs[t] = "running"}
Pending == ch \cup Running

OpType == [row : Nat, kind : {"encode", "decode"}, over : BOOLEAN, ok : BOOLEAN]

TypeInv ==
    /\ table \in Tables /\ rows \in 0..MaxRows
    /\ pc \in {"init", "cleanup", "panicked", "next", "when", "send", "wait", "sync",
               "write", "closing", "failing", "returned"}
    /\ win \in 1..Len(Wins) /\ pos \in 1..(Len(table.chain) + 1)
    /\ ch \subseteq Transformer /\ gs \in [Transformer -> {"idle", "running", "failed", "gone"}]
    /\ at \in 1..(Len(table.chain) + 1)
    /\ life \in [Transformer -> {"new", "ready", "broken", "done", "left"}]
    /\ proc \in [Custom -> {"none", "up", "told", "exited"}]
    /\ call \in [Custom -> {"none", "encode", "decode", "back", "failed"}]
    /\ ops \in [Custom -> SUBSET OpType]
    /\ put \in {"reading", "ok", "failed"}
    /\ {validate, skipped, done, ctxDone, err, doneErr, wclosed, term} \subseteq BOOLEAN

\* The WaitGroup counts the pending transformers, which are of the window the
\* dumper goroutine is in, and those it has still to signal are not among them.
WindowInv ==
    /\ wg \in 0..Len(table.chain)
    /\ ch \cap Running = {} /\ Pending \subseteq Range(Chain)
    /\ pc \in {"when", "send"} =>
           /\ pos <= Len(Chain) + 1
           /\ \A i \in pos..Len(Chain) : Chain[i] \notin Pending
    /\ pc = "send" => pos <= Len(Chain)
    /\ pc = "wait" => pos = Len(Chain) + 1
    /\ IF pc \in {"failing", "returned"}
         THEN wg \in Cardinality(Pending)..(Cardinality(Pending) + 1)
         ELSE wg = Cardinality(Pending) + (IF pc = "send" THEN 1 ELSE 0)
    /\ pc \in {"init", "cleanup", "panicked", "next", "sync", "write", "closing"} =>
           Pending = {}

\* Only an asynchronous pipeline has windows, and goroutines of transformers.
ModeInv ==
    /\ pc \in {"when", "send", "wait"} => Async
    /\ pc = "sync" => ~Async /\ ~Plain
    /\ \A t \in Transformer :
           gs[t] # "gone" => /\ Async /\ t \in Range(table.chain)
                             /\ pc \notin {"init", "cleanup", "panicked"}

\* Each transformer is initialised, used and terminated in this order, and the
\* program of one that is terminated has ended.
Ready(t) == life[t] \in {"ready", "broken"}
Terminated(t) == life[t] = "left" \/ (life[t] = "done" /\ (t \in Custom => proc[t] = "exited"))

LifeInv ==
    /\ \A t \in Transformer \ Range(table.chain) : life[t] = "new"
    /\ pc = "init" => \A j \in 1..Len(table.chain) :
           IF j < at THEN Ready(table.chain[j]) ELSE life[table.chain[j]] = "new"
    /\ pc = "cleanup" =>
           /\ at <= Len(table.chain) /\ Ready(table.chain[Len(table.chain)])
           /\ \A j \in 1..Len(table.chain) : j < at => Terminated(table.chain[j])
    /\ pc \in {"next", "when", "send", "wait", "sync", "write"} =>
           at = 1 /\ \A t \in Range(table.chain) : life[t] = "ready"
    /\ pc \in {"closing", "failing"} =>
           /\ \A t \in Range(table.chain) : life[t] \in {"ready", "done"}
           /\ \A j \in 1..Len(table.chain) : j < at => Terminated(table.chain[j])
    /\ wclosed => pc \in {"closing", "failing", "returned"}

ProcInv ==
    /\ \A t \in Custom : /\ proc[t] = "up" => Ready(t)
                         /\ proc[t] = "told" => life[t] \in {"done", "left"}
    /\ pc = "returned" => \A t \in Custom :
           /\ proc[t] = "up" => ~wclosed /\ t = table.chain[Len(table.chain)]
           /\ proc[t] = "told" => ~wclosed /\ life[t] = "left"

\* A transformer that will not be called again: what its last call has left
\* behind is not heard.
Over(t) == IF Async THEN pc # "init" /\ gs[t] \in {"failed", "gone"}
                    ELSE pc \in {"failing", "returned"}

CallOf(t) ==
    /\ ops[t] = {} \/ \E o \in ops[t] : ops[t] = {o}
    /\ call[t] # "none" => Calling(t)
    /\ call[t] \in {"encode", "decode"} =>
           \A o \in ops[t] : o.row = rows /\ o.kind = call[t]
    /\ call[t] = "back" => ops[t] = {}
    /\ call[t] = "none" => ops[t] = {} \/ Over(t)

CallInv == \A t \in Custom : CallOf(t)

\* A dump that is ending without an error so far.
Ending == pc = "closing" \/ (pc = "returned" /\ ~err)

\* The rows are counted, and the storage has put all that was written.
CountInv ==
    /\ out \in Seq(Range(out))
    /\ pc \in {"init", "cleanup", "panicked", "next"} \/ Ending => Len(out) = rows
    /\ pc \in {"when", "send", "wait", "sync", "write"} => Len(out) + 1 = rows
    /\ Len(out) <= rows
    /\ echoed = IF validate /\ ~Plain THEN rows ELSE 0
    /\ pc = "returned" /\ ~err => wclosed
    /\ put = "failed" => err
    /\ put = "ok" => wclosed /\ object = [rows |-> out, term |-> term]
    /\ Ending => term = ~(validate /\ rows = Limit)
    /\ pc \notin {"closing", "failing", "returned"} => ~term

\* The columns a set of transformers of a window changes have the values made
\* from the record the window began with; the others are as they were.
IsResult(tb, r, base, chain, D) ==
    /\ r = [c \in Column |-> r[c]]
    /\ \A c \in Column :
           /\ \A m \in D : c \in Writes(tb, chain[m]) =>
                  r[c] = <<chain[m], ReadBy(tb, base, chain[m])>>
           /\ (\A m \in D : c \notin Writes(tb, chain[m])) => r[c] = base[c]

\* Where each window begins in the table.
Offsets(tb) ==
    CHOOSE off \in [1..(Len(Windows(tb)) + 1) -> 0..Len(tb.chain)] :
        Splits(tb, Windows(tb), Len(tb.chain), off)

Base == Records(table)[Offsets(table)[win]]

\* No transformer has failed in a row: an error is not recorded at once.
Sound == ~err /\ \A t \in Transformer : gs[t] # "failed"

Faithful == Sound /\ (Async => Independent(table))

\* The transformers of the window that have been called and have finished.
Finished == {m \in 1..Len(Chain) : /\ m < pos /\ Chain[m] \notin Pending
                                   /\ Holds(table, Base, Chain[m])}

WindowValues ==
    /\ \A m \in 1..Len(Chain) :
           Chain[m] \in Pending => m < pos /\ Holds(table, Base, Chain[m])
    /\ \A t \in Running : read[t] = ReadBy(table, Base, t)
    /\ pc = "send" => Holds(table, Base, Cur)
    /\ IsResult(table, rec, Base, Chain, Finished)

\* In an asynchronous pipeline whose transformers are independent, the record
\* is what the transformers that were called and have finished make of the one
\* the window began with; a written row is what the synchronous one makes.
RowInv ==
    /\ DOMAIN read = Transformer
    /\ pc \in {"when", "send", "wait", "sync"} => ~skipped
    /\ pc = "write" /\ skipped => rec = RawRecord
    /\ Faithful =>
         /\ \A i \in DOMAIN out :
                out[i].rec = IF out[i].skipped THEN RawRecord ELSE Sequentially(table)
         /\ pc = "write" /\ ~skipped => rec = Sequentially(table)
         /\ pc = "sync" => rec = Records(table)[pos - 1]
         /\ pc \in {"when", "send", "wait"} => WindowValues

Inv == /\ TypeInv /\ WindowInv /\ ModeInv /\ LifeInv /\ ProcInv /\ CallInv /\ CountInv
       /\ RowInv

\* The table, its windows and the current one.
LEMMA TableFacts ==
  ASSUME TypeInv
  PROVE  /\ table \in TableType /\ Len(table.chain) \in Nat
         /\ Range(table.chain) = {table.chain[i] : i \in 1..Len(table.chain)}
         /\ Range(table.chain) \subseteq Transformer
         /\ \A i \in 1..Len(table.chain) : table.chain[i] \in Transformer
         /\ \A i, j \in 1..Len(table.chain) : table.chain[i] = table.chain[j] => i = j
         /\ Len(Wins) \in Nat \ {0}
         /\ Chain \in Seq(Transformer) /\ Len(Chain) \in 0..Len(table.chain)
         /\ Range(Chain) = {Chain[m] : m \in 1..Len(Chain)}
         /\ Range(Chain) \subseteq Range(table.chain)
         /\ \A m, l \in 1..Len(Chain) : Chain[m] = Chain[l] => m = l
         /\ \A m, l \in 1..Len(Chain) :
               m # l => Writes(table, Chain[m]) \cap Writes(table, Chain[l]) = {}
<1>1. table \in TableType /\ win \in 1..Len(Wins)
  BY PipelineAssumption DEF TypeInv
<1>2. Len(Wins) \in Nat \ {0}
  BY <1>1, WindowFacts DEF Wins
<1>3. /\ Chain \in Seq(Transformer) /\ Len(Chain) \in 0..Len(table.chain)
      /\ Range(Chain) = {Chain[m] : m \in 1..Len(Chain)}
      /\ Range(Chain) \subseteq Range(table.chain)
      /\ \A m, l \in 1..Len(Chain) : Chain[m] = Chain[l] => m = l
      /\ \A m, l \in 1..Len(Chain) :
            m # l => Writes(table, Chain[m]) \cap Writes(table, Chain[l]) = {}
  BY <1>1, WindowFacts DEF Wins, Chain
<1> QED
  BY <1>1, <1>2, <1>3, ChainFacts

LEMMA TypeStep ==
  ASSUME TypeInv, WindowInv, TableNext
  PROVE  TypeInv'
<1> USE DEF TypeInv, Wins, vars, mainVars, goVars, egVars, setup, cmdVars, lifeVars, pipeVars,
            execVars
<1> USE TableFacts, DumpAssumption, PipelineAssumption
<1>1. CASE InitTransformer
  BY <1>1 DEF InitTransformer, One, Started, Greeted
<1>2. CASE EndInit
  BY <1>2 DEF EndInit
<1>3. ASSUME Terminate, at <= Len(table.chain)
      PROVE  /\ at' \in 1..(Len(table.chain) + 1) /\ doneErr' \in BOOLEAN
             /\ life' \in [Transformer -> {"new", "ready", "broken", "done", "left"}]
             /\ proc' \in [Custom -> {"none", "up", "told", "exited"}]
  BY <1>3 DEF Terminate, Cancelled, Reaped, DoneInternal, One, Told
<1>4. CASE CleanUp
  BY <1>3, <1>4 DEF CleanUp
<1>5. CASE TerminateOne
  BY <1>3, <1>5 DEF TerminateOne
<1>6. CASE Panic \/ InitFails \/ WriteRow \/ StopAtLimit \/ CompleteDump \/ CloseWriter
  BY <1>6 DEF Panic, InitFails, WriteRow, Write, StopAtLimit, CompleteDump, EndRows, CloseWriter
<1>7. CASE ReceiveRow
  <2>1. CASE PlainRow \/ SyncRow
    <3>1. 1 \in 1..Len(Windows(table)) /\ 1 \in 1..(Len(table.chain) + 1)
      OBVIOUS
    <3>2. PICK skip \in BOOLEAN, next \in {"write", "sync"} : Receive(skip, next)
      BY <2>1 DEF PlainRow, SyncRow
    <3> QED BY <1>7, <3>1, <3>2 DEF ReceiveRow, Receive
  <2>2. CASE NextRow
    <3>1. 1 \in 1..Len(Windows(table)) /\ 1 \in 1..(Len(table.chain) + 1)
      OBVIOUS
    <3> QED BY <1>7, <2>2, <3>1 DEF ReceiveRow, NextRow
  <2> QED BY <1>7, <2>1, <2>2 DEF ReceiveRow
<1>8. CASE InWindow
  <2>1. CASE EvaluateWhen
    BY <1>8, <2>1 DEF InWindow, EvaluateWhen
  <2>2. CASE Send
    <3>1. Cur \in Transformer /\ pos + 1 \in 1..(Len(table.chain) + 1)
      BY <2>2 DEF Send, Cur, WindowInv
    <3> QED BY <1>8, <2>2, <3>1 DEF InWindow, Send
  <2>3. CASE EndWindow \/ Wait
    BY <1>8, <2>3 DEF InWindow, EndWindow, Wait
  <2> QED BY <1>8, <2>1, <2>2, <2>3 DEF InWindow
<1>9. CASE SyncTransform
  BY <1>9 DEF SyncTransform
<1>10. CASE ProcessFails
  BY <1>10 DEF ProcessFails, MainFails
<1>11. CASE SyncFails
  BY <1>11 DEF SyncFails
<1>12. CASE Return
  BY <1>12 DEF Return, Done
<1>13. ASSUME NEW t \in Transformer, Worker(t) PROVE TypeInv'
  <2>1. CASE Take(t) \/ ReturnError(t)
    BY <1>13, <2>1 DEF Worker, Take, ReturnError, Transformed, TransformFails, Reset
  <2>2. CASE StopDone(t) \/ StopCtx(t)
    BY <1>13, <2>2 DEF Worker, StopDone, StopCtx, Transformed, TransformFails, Reset
  <2>3. CASE (Transformed(t) \/ TransformFails(t)) /\ Reset(t)
    BY <1>13, <2>3 DEF Worker, Transformed, TransformFails, Reset
  <2> QED BY <1>13, <2>1, <2>2, <2>3 DEF Worker
<1>14. ASSUME NEW t \in Custom,
              Encode(t) \/ OpEnds(t) \/ Heard(t) \/ Abandon(t) \/ Exit(t)
       PROVE  TypeInv'
  <2>1. \A o \in OpType, ok \in BOOLEAN : [o EXCEPT !.over = TRUE, !.ok = ok] \in OpType
    BY DEF OpType
  <2>2. Op("encode") \in OpType /\ Op("decode") \in OpType
    BY DEF Op, OpType
  <2>3. CASE Encode(t)
    BY <1>14, <2>2, <2>3 DEF Encode
  <2>4. CASE OpEnds(t)
    <3>1. PICK o \in ops[t], ok \in BOOLEAN :
              ops' = [ops EXCEPT ![t] = (@ \ {o}) \cup {[o EXCEPT !.over = TRUE, !.ok = ok]}]
      BY <2>4 DEF OpEnds
    <3>2. ops' \in [Custom -> SUBSET OpType]
      BY <1>14, <2>1, <3>1
    <3> QED BY <2>4, <3>2 DEF OpEnds
  <2>5. CASE Heard(t)
    BY <1>14, <2>2, <2>5 DEF Heard
  <2>6. CASE Abandon(t) \/ Exit(t)
    BY <1>14, <2>6 DEF Abandon, Exit
  <2> QED BY <1>14, <2>3, <2>4, <2>5, <2>6
<1>15. CASE PutOk \/ PutFails \/ CancelAll
  BY <1>15 DEF PutOk, PutFails, CancelAll, Cancel
<1> QED
  BY <1>1, <1>2, <1>4, <1>5, <1>6, <1>7, <1>8, <1>9, <1>10, <1>11, <1>12, <1>13, <1>14, <1>15
     DEF TableNext, Dumper

-----------------------------------------------------------------------------
(* The WaitGroup *)

LEMMA RangeSize ==
  ASSUME NEW S, NEW c \in Seq(S)
  PROVE  IsFiniteSet(Range(c)) /\ Cardinality(Range(c)) <= Len(c)
<1>1. /\ Len(c) \in Nat /\ c \in [1..Len(c) -> Range(c)]
      /\ \A x \in Range(c) : \E i \in 1..Len(c) : c[i] = x
  BY DEF Range
<1>2. IsFiniteSet(1..Len(c)) /\ Cardinality(1..Len(c)) = Len(c)
  <2>1. /\ IsFiniteSet(1..Len(c))
        /\ Cardinality(1..Len(c)) = IF 1 > Len(c) THEN 0 ELSE Len(c) - 1 + 1
    BY <1>1, FS_Interval, 1 \in Int, Len(c) \in Int
  <2> QED BY <1>1, <2>1
<1>3. c \in Surjection(1..Len(c), Range(c))
  BY <1>1 DEF Surjection
<1> QED
  BY <1>2, <1>3, FS_Surjection

\* The pending transformers are finitely many, and one the dumper goroutine has
\* still to signal makes one more of the window.
LEMMA PendingFacts ==
  ASSUME TypeInv, WindowInv
  PROVE  /\ IsFiniteSet(Pending) /\ Cardinality(Pending) \in 0..Len(table.chain)
         /\ \A t \in Pending : /\ Cardinality(Pending \ {t}) = Cardinality(Pending) - 1
                               /\ Cardinality(Pending) >= 1
         /\ \A t \in Range(Chain) \ Pending :
                /\ Cardinality(Pending \cup {t}) = Cardinality(Pending) + 1
                /\ Cardinality(Pending) + 1 <= Len(table.chain)
<1>1. /\ Chain \in Seq(Transformer) /\ Len(Chain) \in 0..Len(table.chain)
      /\ Len(table.chain) \in Nat
  BY TableFacts
<1>2. /\ IsFiniteSet(Range(Chain)) /\ Cardinality(Range(Chain)) <= Len(Chain)
      /\ Cardinality(Range(Chain)) \in Nat
  BY <1>1, RangeSize, FS_CardinalityType
<1>3. Pending \subseteq Range(Chain)
  BY DEF WindowInv
<1>4. ASSUME NEW P, P \subseteq Range(Chain)
      PROVE  IsFiniteSet(P) /\ Cardinality(P) \in 0..Len(table.chain)
  BY <1>1, <1>2, <1>4, FS_Subset, FS_CardinalityType
<1>5. IsFiniteSet(Pending) /\ Cardinality(Pending) \in 0..Len(table.chain)
  BY <1>3, <1>4
<1>6. ASSUME NEW t \in Pending
      PROVE  /\ Cardinality(Pending \ {t}) = Cardinality(Pending) - 1
             /\ Cardinality(Pending) >= 1
  <2>1. Cardinality(Pending \ {t}) = Cardinality(Pending) - 1
    BY <1>5, FS_RemoveElement
  <2>2. Cardinality(Pending \ {t}) \in 0..Len(table.chain)
    BY <1>3, <1>4
  <2> QED BY <1>1, <1>5, <2>1, <2>2
<1>7. ASSUME NEW t \in Range(Chain) \ Pending
      PROVE  /\ Cardinality(Pending \cup {t}) = Cardinality(Pending) + 1
             /\ Cardinality(Pending) + 1 <= Len(table.chain)
  <2>1. Cardinality(Pending \cup {t}) = Cardinality(Pending) + 1
    BY <1>5, FS_AddElement
  <2>2. Cardinality(Pending \cup {t}) \in 0..Len(table.chain)
    BY <1>3, <1>4
  <2> QED BY <1>1, <2>1, <2>2
<1> QED
  BY <1>5, <1>6, <1>7

\* Steps that leave the windows alone.
LEMMA WindowFrame ==
  ASSUME WindowInv, UNCHANGED <<table, win, pos, pc, ch, gs, wg>>
  PROVE  WindowInv' /\ Pending' = Pending /\ Running' = Running /\ Chain' = Chain
  BY DEF WindowInv, Pending, Running, Chain, Wins

LEMMA WindowStep ==
  ASSUME TypeInv, WindowInv, ModeInv, TableNext
  PROVE  WindowInv'
<1> USE DEF vars, mainVars, goVars, egVars, setup, cmdVars, lifeVars, pipeVars, execVars
<1> DEFINE P == Cardinality(Pending)
<1>0. P \in 0..Len(table.chain) /\ Len(table.chain) \in Nat /\ IsFiniteSet(Pending)
  BY PendingFacts, TableFacts
<1>1. ASSUME UNCHANGED <<table, win, pos, pc, ch, gs, wg>> PROVE WindowInv'
  BY <1>1, WindowFrame
<1>2. CASE InitTransformer \/ CleanUp \/ CloseWriter \/ TerminateOne \/ PutOk \/ PutFails \/ CancelAll
  BY <1>1, <1>2 DEF InitTransformer, CleanUp, CloseWriter, TerminateOne, PutOk, PutFails,
                    CancelAll, Cancel
<1>3. ASSUME NEW t \in Custom, Encode(t) \/ OpEnds(t) \/ Heard(t) \/ Abandon(t) \/ Exit(t)
      PROVE  WindowInv'
  BY <1>1, <1>3 DEF Encode, OpEnds, Heard, Abandon, Exit
\* Between the windows nothing is pending.
<1>4. ASSUME Pending = {}, UNCHANGED <<table, ch, wg>>, Running' = {},
             pc \notin {"send", "failing", "returned"}, pc' \notin {"send", "wait"},
             pc' = "when" => pos' = 1 /\ win' = 1
      PROVE  WindowInv'
  <2>1. Pending' = {} /\ ch' = {} /\ Running' = {}
    BY <1>4 DEF Pending
  <2>2. Cardinality({}) = 0
    BY FS_EmptySet
  <2>3. wg = 0
    BY <1>4, <2>2 DEF WindowInv
  <2>4. pc' = "when" => pos' <= Len(Chain') + 1
    <3>1. Len(Windows(table)[1].chain) \in Nat
      BY TableFacts, WindowFacts
    <3> QED BY <1>4, <3>1 DEF Chain, Wins
  <2> QED BY <1>0, <1>4, <2>1, <2>2, <2>3, <2>4 DEF WindowInv
<1>5. CASE EndInit \/ Panic \/ InitFails \/ StopAtLimit \/ CompleteDump \/ WriteRow \/ SyncFails
  <2>1. Pending = {} /\ pc \notin {"send", "failing", "returned"}
    BY <1>5 DEF WindowInv, EndInit, Panic, InitFails, StopAtLimit, Limited, CompleteDump, EndRows,
                WriteRow, Write, SyncFails
  <2>2. Running' = {}
    BY <1>5, <2>1 DEF Pending, Running, EndInit, Panic, InitFails, StopAtLimit, CompleteDump,
                      EndRows, WriteRow, Write, SyncFails, TypeInv
  <2> QED BY <1>4, <1>5, <2>1, <2>2 DEF EndInit, Panic, InitFails, StopAtLimit, CompleteDump,
                                        EndRows, WriteRow, Write, SyncFails
<1>6. CASE ReceiveRow
  <2>1. Pending = {} /\ pc \notin {"send", "failing", "returned"}
    BY <1>6 DEF WindowInv, ReceiveRow, PlainRow, SyncRow, NextRow, Receive
  <2>2. UNCHANGED <<table, ch, wg, gs>> /\ win' = 1 /\ pos' = 1 /\ pc' \in {"write", "sync", "when"}
    BY <1>6 DEF ReceiveRow, PlainRow, SyncRow, NextRow, Receive
  <2> QED BY <1>4, <2>1, <2>2 DEF Pending, Running
<1>7. CASE SyncTransform
  <2>1. Pending = {} /\ pc \notin {"send", "failing", "returned"}
    BY <1>7 DEF WindowInv, SyncTransform
  <2>2. UNCHANGED <<table, ch, wg, gs>> /\ pc' \in {"write", "sync"}
    BY <1>7 DEF SyncTransform
  <2> QED BY <1>4, <2>1, <2>2 DEF Pending, Running
<1>8. CASE ProcessFails \/ Return
  <2>1. /\ UNCHANGED <<table, win, pos, ch, gs, wg>> /\ pc' \in {"failing", "returned"}
        /\ pc \in {"next", "write", "when", "send", "closing", "failing"}
    BY <1>8 DEF ProcessFails, MainFails, Return, Done
  <2>2. Pending' = Pending /\ Running' = Running /\ Chain' = Chain
    BY <2>1 DEF Pending, Running, Chain, Wins
  <2> QED BY <1>0, <2>1, <2>2 DEF WindowInv
<1>9. CASE EvaluateWhen
  <2>1. /\ UNCHANGED <<table, win, ch, gs>> /\ pc = "when" /\ pos <= Len(Chain)
        /\ \/ pc' = "send" /\ wg' = wg + 1 /\ pos' = pos
           \/ pc' = "when" /\ wg' = wg /\ pos' = pos + 1
    BY <1>9 DEF EvaluateWhen
  <2>2. Pending' = Pending /\ Running' = Running /\ Chain' = Chain
    BY <2>1 DEF Pending, Running, Chain, Wins
  <2>3. pos \in Nat \ {0} /\ Len(Chain) \in Nat /\ Range(Chain) = {Chain[m] : m \in 1..Len(Chain)}
    BY TableFacts DEF TypeInv
  <2>4. pos \in pos..Len(Chain) /\ Chain[pos] \in Range(Chain) \ Pending
    BY <2>1, <2>3 DEF WindowInv
  <2>5. P + 1 <= Len(table.chain)
    BY <2>4, PendingFacts
  <2> QED BY <1>0, <2>1, <2>2, <2>3, <2>5 DEF WindowInv
<1>10. CASE Send
  <2>1. /\ UNCHANGED <<table, win, wg, gs>> /\ pc = "send" /\ Cur \notin ch
        /\ ch' = ch \cup {Cur} /\ pos' = pos + 1 /\ pc' = "when"
    BY <1>10 DEF Send
  <2>2. Running' = Running /\ Chain' = Chain /\ Pending' = Pending \cup {Cur}
    BY <2>1 DEF Pending, Running, Chain, Wins
  <2>3. /\ pos \in Nat \ {0} /\ Len(Chain) \in Nat /\ Range(Chain) = {Chain[m] : m \in 1..Len(Chain)}
        /\ \A m, l \in 1..Len(Chain) : Chain[m] = Chain[l] => m = l
    BY TableFacts DEF TypeInv
  <2>4. pos \in pos..Len(Chain) /\ Cur = Chain[pos] /\ Cur \in Range(Chain) \ Pending
    BY <2>1, <2>3 DEF WindowInv, Cur
  <2>5. Cardinality(Pending') = P + 1
    BY <2>2, <2>4, PendingFacts
  <2>6. \A i \in pos'..Len(Chain) : Chain[i] \notin Pending'
    BY <2>1, <2>2, <2>3, <2>4 DEF WindowInv
  <2>7. ch' \cap Running' = {} /\ Pending' \subseteq Range(Chain')
    BY <2>1, <2>2, <2>4 DEF WindowInv, Pending
  <2> QED BY <1>0, <2>1, <2>2, <2>3, <2>4, <2>5, <2>6, <2>7 DEF WindowInv
<1>11. CASE EndWindow
  <2>1. /\ UNCHANGED <<table, win, wg, gs, ch, pos>> /\ pc = "when" /\ pos > Len(Chain) /\ pc' = "wait"
    BY <1>11 DEF EndWindow
  <2>2. Pending' = Pending /\ Running' = Running /\ Chain' = Chain
    BY <2>1 DEF Pending, Running, Chain, Wins
  <2>3. pos \in Nat \ {0} /\ Len(Chain) \in Nat
    BY TableFacts DEF TypeInv
  <2> QED BY <1>0, <2>1, <2>2, <2>3 DEF WindowInv
<1>12. CASE Wait
  <2>1. /\ UNCHANGED <<table, wg, gs, ch>> /\ pc = "wait" /\ wg = 0
        /\ \/ pc' = "when" /\ pos' = 1 /\ win' = win + 1 /\ win < Len(Wins)
           \/ pc' = "write"
    BY <1>12 DEF Wait
  <2>2. Pending = {} /\ Pending' = {} /\ Running' = {} /\ ch' = {}
    <3>1. P = 0
      BY <1>0, <2>1 DEF WindowInv
    <3>2. Pending = {}
      BY <1>0, <3>1, FS_EmptySet
    <3> QED BY <2>1, <3>2 DEF Pending, Running
  <2>3. pc' = "when" => Len(Chain') \in Nat
    <3>1. \A k \in 1..Len(Windows(table)) : Len(Windows(table)[k].chain) \in Nat
      BY TableFacts, WindowFacts
    <3>2. pc' = "when" => win + 1 \in 1..Len(Windows(table))
      BY <2>1, TableFacts DEF TypeInv, Wins
    <3> QED BY <2>1, <3>1, <3>2 DEF Chain, Wins
  <2>4. Cardinality({}) = 0
    BY FS_EmptySet
  <2>5. pc' = "when" => pos' <= Len(Chain') + 1
    BY <2>1, <2>3
  <2>6. wg' = 0 /\ wg' \in 0..Len(table'.chain) /\ pc' \notin {"send", "wait", "failing", "returned"}
    BY <1>0, <2>1
  <2> QED BY <2>2, <2>4, <2>5, <2>6 DEF WindowInv
<1>13. ASSUME NEW t \in Transformer, Take(t) PROVE WindowInv'
  <2>1. /\ UNCHANGED <<table, win, pos, pc, wg>> /\ gs[t] = "idle" /\ t \in ch /\ ch' = ch \ {t}
        /\ gs' = [gs EXCEPT ![t] = "running"]
    BY <1>13 DEF Take
  <2>2. Running' = Running \cup {t}
    BY <2>1 DEF Running, TypeInv
  <2>3. Pending' = Pending /\ Chain' = Chain
    BY <2>1, <2>2 DEF Pending, Chain, Wins
  <2>4. ch' \cap Running' = {}
    BY <2>1, <2>2 DEF WindowInv
  <2> QED BY <2>1, <2>3, <2>4 DEF WindowInv
<1>14. ASSUME NEW t \in Transformer, Transformed(t) \/ TransformFails(t) PROVE WindowInv'
  <2>1. /\ UNCHANGED <<table, win, pos, pc, ch>> /\ gs[t] = "running" /\ wg' = wg - 1
        /\ (gs' = [gs EXCEPT ![t] = "idle"] \/ gs' = [gs EXCEPT ![t] = "failed"])
    BY <1>14 DEF Transformed, TransformFails
  <2>2. t \in Running /\ Running' = Running \ {t}
    BY <2>1 DEF Running, TypeInv
  <2>3. t \in Pending /\ Pending' = Pending \ {t} /\ Chain' = Chain
    BY <2>1, <2>2 DEF Pending, Chain, Wins, WindowInv
  <2>4. P >= 1 /\ Cardinality(Pending') = P - 1
    BY <2>3, PendingFacts
  <2>5. ch' \cap Running' = {} /\ Pending' \subseteq Range(Chain')
    BY <2>1, <2>2, <2>3 DEF WindowInv
  <2>6. pc \in {"when", "send"} => \A i \in pos..Len(Chain) : Chain[i] \notin Pending'
    BY <2>3 DEF WindowInv
  <2>7. Pending # {}
    BY <2>3
  <2> QED BY <1>0, <2>1, <2>3, <2>4, <2>5, <2>6, <2>7 DEF WindowInv
<1>15. ASSUME NEW t \in Transformer, ReturnError(t) \/ StopDone(t) \/ StopCtx(t) PROVE WindowInv'
  <2>1. /\ UNCHANGED <<table, win, pos, pc, ch, wg>> /\ gs[t] # "running"
        /\ gs' = [gs EXCEPT ![t] = "gone"]
    BY <1>15 DEF ReturnError, StopDone, StopCtx
  <2>2. Running' = Running
    BY <2>1 DEF Running, TypeInv
  <2>3. Pending' = Pending /\ Chain' = Chain
    BY <2>1, <2>2 DEF Pending, Chain, Wins
  <2> QED BY <2>1, <2>2, <2>3 DEF WindowInv
<1> QED
  BY <1>2, <1>3, <1>5, <1>6, <1>7, <1>8, <1>9, <1>10, <1>11, <1>12, <1>13, <1>14, <1>15
     DEF TableNext, Dumper, InWindow, Worker

-----------------------------------------------------------------------------
(* The kinds of pipelines and the life of the transformers *)

LEMMA ModeStep ==
  ASSUME TypeInv, WindowInv, ModeInv, TableNext
  PROVE  ModeInv'
<1> USE DEF vars, mainVars, goVars, egVars, setup, cmdVars, lifeVars, pipeVars, execVars
<1>1. ASSUME UNCHANGED table PROVE Async' = Async /\ Plain' = Plain
  BY <1>1 DEF Async, Plain
<1>2. ASSUME UNCHANGED <<table, pc, gs>> PROVE ModeInv'
  BY <1>1, <1>2 DEF ModeInv
<1>3. CASE InitTransformer \/ CleanUp \/ CloseWriter \/ TerminateOne \/ PutOk \/ PutFails \/ CancelAll
  BY <1>2, <1>3 DEF InitTransformer, CleanUp, CloseWriter, TerminateOne, PutOk, PutFails,
                    CancelAll, Cancel
<1>4. ASSUME NEW t \in Custom, Encode(t) \/ OpEnds(t) \/ Heard(t) \/ Abandon(t) \/ Exit(t)
      PROVE  ModeInv'
  BY <1>2, <1>4 DEF Encode, OpEnds, Heard, Abandon, Exit
<1>5. CASE EndInit
  <2>1. /\ UNCHANGED table /\ pc' \in {"cleanup", "next"}
        /\ pc' = "cleanup" => gs' = gs
        /\ pc' = "next" => gs' = [t \in Transformer |->
                 IF Async /\ t \in Range(table.chain) THEN "idle" ELSE "gone"]
        /\ pc = "init"
    BY <1>5 DEF EndInit
  <2> QED BY <1>1, <2>1 DEF ModeInv
<1>6. CASE Panic \/ InitFails \/ StopAtLimit \/ CompleteDump \/ WriteRow \/ SyncFails
           \/ ProcessFails \/ Return
  <2>1. UNCHANGED <<table, gs>> /\ pc' \in {"panicked", "returned", "closing", "next", "failing"}
    BY <1>6 DEF Panic, InitFails, StopAtLimit, CompleteDump, EndRows, WriteRow, Write, SyncFails,
                ProcessFails, MainFails, Return, Done
  <2>2. pc' = "panicked" => pc = "cleanup"
    BY <1>6 DEF Panic, InitFails, StopAtLimit, CompleteDump, EndRows, WriteRow, Write, SyncFails,
                ProcessFails, MainFails, Return, Done
  <2> QED BY <1>1, <2>1, <2>2 DEF ModeInv
<1>7. CASE ReceiveRow
  <2>1. /\ UNCHANGED <<table, gs>> /\ pc' \in {"write", "when", "sync"}
        /\ pc' = "when" => Async
        /\ pc' = "sync" => ~Async /\ ~Plain
    BY <1>7 DEF ReceiveRow, PlainRow, SyncRow, NextRow, Receive
  <2> QED BY <1>1, <2>1 DEF ModeInv
<1>8. CASE InWindow \/ SyncTransform
  <2>1. /\ UNCHANGED <<table, gs>> /\ pc' \in {"write", "when", "send", "wait", "sync"}
        /\ pc' \in {"when", "send", "wait"} => pc \in {"when", "send", "wait"}
        /\ pc' = "sync" => pc = "sync"
    BY <1>8 DEF InWindow, EvaluateWhen, Send, EndWindow, Wait, SyncTransform
  <2> QED BY <1>1, <2>1 DEF ModeInv
<1>9. ASSUME NEW t \in Transformer, Worker(t) PROVE ModeInv'
  <2>1. /\ UNCHANGED <<table, pc>> /\ gs[t] # "gone"
        /\ \E g \in {"idle", "running", "failed", "gone"} : gs' = [gs EXCEPT ![t] = g]
    BY <1>9 DEF Worker, Take, ReturnError, StopDone, StopCtx, Transformed, TransformFails
  <2> QED BY <1>1, <1>9, <2>1 DEF ModeInv, TypeInv
<1> QED
  BY <1>3, <1>4, <1>5, <1>6, <1>7, <1>8, <1>9 DEF TableNext, Dumper

\* What Done of one transformer does to it.
LEMMA TerminateFacts ==
  ASSUME TypeInv, ProcInv, Terminate, NEW t, t = One, at <= Len(table.chain)
  PROVE  /\ t \in Transformer /\ t = table.chain[at]
         /\ \A u \in Transformer : u # t => life'[u] = life[u]
         /\ \A u \in Custom : u # t => proc'[u] = proc[u]
         /\ t \in Custom => /\ proc'[t] # "up"
                            /\ proc'[t] = "told" => life'[t] \in {"done", "left"}
         /\ \/ at' = at + 1 /\ Terminated(t)' /\ (life'[t] = "left" => life[t] = "left")
            \/ /\ at' = at /\ Ready(t)
               /\ life'[t] = IF life[t] = "ready" THEN "done" ELSE "left"
<1>1. t \in Transformer /\ t = table.chain[at] /\ Custom \subseteq Transformer
  BY TableFacts, DumpAssumption DEF TypeInv, One
<1>3. CASE t \notin Custom
  <2>1. /\ life' = [life EXCEPT ![t] = "done"] /\ at' = at + 1 /\ proc' = proc
    BY <1>3 DEF Terminate, DoneInternal
  <2> QED BY <1>1, <1>3, <2>1 DEF TypeInv, Terminated
<1>4. CASE t \in Custom /\ Cancelled
  <2>1. /\ life[t] \in {"ready", "broken"} /\ at' = at
        /\ life' = [life EXCEPT ![t] = IF @ = "ready" THEN "done" ELSE "left"]
        /\ proc' = [proc EXCEPT ![t] = Told(@)]
    BY <1>4 DEF Cancelled
  <2> QED BY <1>1, <1>4, <2>1 DEF TypeInv, Ready, Told
<1>5. CASE t \in Custom /\ Reaped
  <2>1. /\ (life[t] = "done" /\ proc[t] = "exited") \/ life[t] = "left"
        /\ at' = at + 1 /\ UNCHANGED <<life, proc>>
    BY <1>5 DEF Reaped
  <2>2. proc[t] # "up" /\ (proc[t] = "told" => life[t] \in {"done", "left"})
    BY <1>5, <2>1 DEF ProcInv, Ready
  <2> QED BY <1>1, <1>5, <2>1, <2>2 DEF Terminated
<1> QED
  BY <1>3, <1>4, <1>5 DEF Terminate

LEMMA LifeStep ==
  ASSUME TypeInv, LifeInv, ProcInv, TableNext
  PROVE  LifeInv'
<1> USE DEF vars, mainVars, goVars, egVars, setup, cmdVars, lifeVars, pipeVars, execVars
<1> DEFINE n == Len(table.chain)
<1>0. /\ n \in Nat /\ Range(table.chain) = {table.chain[i] : i \in 1..n}
      /\ \A i \in 1..n : table.chain[i] \in Transformer
      /\ \A i, j \in 1..n : table.chain[i] = table.chain[j] => i = j
      /\ at \in 1..(n + 1)
  BY TableFacts DEF TypeInv
<1>1. ASSUME UNCHANGED <<table, pc, at, life, proc, wclosed>> PROVE LifeInv'
  BY <1>1 DEF LifeInv, Ready, Terminated
<1>2. CASE SyncTransform \/ PutOk \/ PutFails \/ CancelAll
  <2>1. CASE PutOk \/ PutFails \/ CancelAll
    BY <1>1, <2>1 DEF PutOk, PutFails, CancelAll, Cancel
  <2>2. CASE SyncTransform
    <3>1. UNCHANGED <<table, at, life, proc, wclosed>> /\ pc = "sync" /\ pc' \in {"sync", "write"}
      BY <2>2 DEF SyncTransform
    <3> QED BY <3>1 DEF LifeInv, Ready, Terminated
  <2> QED BY <1>2, <2>1, <2>2
<1>3. ASSUME NEW t \in Transformer, Worker(t) PROVE LifeInv'
  BY <1>1, <1>3 DEF Worker, Take, ReturnError, StopDone, StopCtx, Transformed, TransformFails
<1>4. ASSUME NEW t \in Custom, Encode(t) \/ OpEnds(t) \/ Heard(t) \/ Abandon(t) PROVE LifeInv'
  BY <1>1, <1>4 DEF Encode, OpEnds, Heard, Abandon
<1>5. ASSUME NEW t \in Custom, Exit(t) PROVE LifeInv'
  <2>1. UNCHANGED <<table, pc, at, life, wclosed>> /\ proc' = [proc EXCEPT ![t] = "exited"]
    BY <1>5 DEF Exit
  <2>2. \A u : Ready(u)' = Ready(u) /\ (Terminated(u) => Terminated(u)')
    BY <2>1 DEF Ready, Terminated, TypeInv
  <2> QED BY <2>1, <2>2 DEF LifeInv
<1>6. CASE InitTransformer
  <2>1. /\ pc = "init" /\ pc' = pc /\ at <= n /\ at' = at + 1 /\ UNCHANGED <<table, wclosed>>
        /\ \E l \in {"ready", "broken"} : life' = [life EXCEPT ![table.chain[at]] = l]
    BY <1>6 DEF InitTransformer, One, Started, Greeted
  <2>2. table.chain[at] \in Range(table.chain) /\ at \in 1..n /\ table.chain[at] \in Transformer
    BY <1>0, <2>1
  <2>3. life'[table.chain[at]] \in {"ready", "broken"}
    BY <2>1, <2>2 DEF TypeInv
  <2>4. \A u \in Transformer : u # table.chain[at] => life'[u] = life[u]
    BY <2>1 DEF TypeInv
  <2>5. ASSUME NEW j \in 1..n
        PROVE  IF j < at' THEN Ready(table.chain[j])' ELSE life'[table.chain[j]] = "new"
    <3>1. CASE j = at
      BY <1>0, <2>1, <2>3, <3>1 DEF Ready
    <3>2. CASE j # at
      <4>1. life'[table.chain[j]] = life[table.chain[j]] /\ (j < at <=> j < at')
        BY <1>0, <2>1, <2>2, <2>4, <3>2
      <4> QED BY <2>1, <4>1 DEF LifeInv, Ready
    <3> QED BY <3>1, <3>2
  <2>6. \A t \in Transformer \ Range(table.chain) : life'[t] = "new"
    BY <2>2, <2>4 DEF LifeInv
  <2>7. ~wclosed'
    BY <2>1 DEF LifeInv
  <2> QED BY <2>1, <2>5, <2>6, <2>7 DEF LifeInv, Ready
<1>7. CASE EndInit
  <2>1. /\ pc = "init" /\ at > n /\ at' = 1 /\ UNCHANGED <<table, wclosed, life, proc>>
        /\ \/ pc' = "cleanup" /\ \E t \in Transformer : life[t] = "broken"
           \/ pc' = "next" /\ ~(\E t \in Transformer : life[t] = "broken")
    BY <1>7 DEF EndInit
  <2>2. \A j \in 1..n : Ready(table.chain[j])
    BY <1>0, <2>1 DEF LifeInv
  <2>3. ~wclosed'
    BY <2>1 DEF LifeInv
  <2>4. CASE pc' = "cleanup"
    <3>1. PICK t \in Range(table.chain) : TRUE
      BY <2>1, <2>4 DEF LifeInv
    <3>2. n >= 1 /\ n \in 1..n
      BY <1>0, <3>1
    <3> QED BY <1>0, <2>1, <2>2, <2>3, <2>4, <3>2 DEF LifeInv, Ready
  <2>5. CASE pc' = "next"
    <3>1. \A t \in Range(table.chain) : life[t] = "ready"
      BY <1>0, <2>1, <2>2, <2>5 DEF Ready
    <3> QED BY <1>0, <2>1, <2>3, <2>5, <3>1 DEF LifeInv, Ready
  <2> QED BY <2>1, <2>4, <2>5
<1>8. CASE CleanUp
  <2>1. /\ pc = "cleanup" /\ pc' = pc /\ at < n /\ UNCHANGED <<table, wclosed>> /\ Terminate
    BY <1>8 DEF CleanUp
  <2>2. PICK t : t = One
    OBVIOUS
  <2>3. /\ t = table.chain[at] /\ t \in Transformer /\ at \in 1..n
        /\ \A u \in Transformer : u # t => life'[u] = life[u]
        /\ \A u \in Custom : u # t => proc'[u] = proc[u]
        /\ (at' = at + 1 /\ Terminated(t)') \/ at' = at
    BY <1>0, <2>1, <2>2, TerminateFacts
  <2>4. Ready(table.chain[n])'
    <3>1. n \in 1..n /\ table.chain[n] # t /\ table.chain[n] \in Transformer
      BY <1>0, <2>1, <2>3
    <3> QED BY <2>1, <2>3, <3>1 DEF LifeInv, Ready
  <2>5. ASSUME NEW j \in 1..n, j < at' PROVE Terminated(table.chain[j])'
    <3>1. CASE j = at
      BY <1>0, <2>1, <2>3, <2>5, <3>1
    <3>2. CASE j # at
      <4>1. table.chain[j] # t /\ table.chain[j] \in Transformer /\ j < at
        BY <1>0, <2>3, <2>5, <3>2
      <4>2. Terminated(table.chain[j])
        BY <2>1, <4>1 DEF LifeInv
      <4> QED BY <2>1, <2>3, <4>1, <4>2 DEF Terminated
    <3> QED BY <3>1, <3>2
  <2>6. \A u \in Transformer \ Range(table.chain) : life'[u] = "new"
    BY <1>0, <2>3 DEF LifeInv
  <2>7. ~wclosed' /\ at' <= n
    BY <1>0, <2>1, <2>3 DEF LifeInv
  <2> QED BY <2>1, <2>4, <2>5, <2>6, <2>7 DEF LifeInv
<1>9. CASE TerminateOne
  <2>1. /\ pc \in {"closing", "failing"} /\ pc' = pc /\ at <= n /\ UNCHANGED <<table, wclosed>>
        /\ Terminate
    BY <1>9 DEF TerminateOne
  <2>2. PICK t : t = One
    OBVIOUS
  <2>3. /\ t = table.chain[at] /\ t \in Transformer /\ at \in 1..n
        /\ \A u \in Transformer : u # t => life'[u] = life[u]
        /\ \A u \in Custom : u # t => proc'[u] = proc[u]
        /\ \/ at' = at + 1 /\ Terminated(t)' /\ (life'[t] = "left" => life[t] = "left")
           \/ at' = at /\ (life[t] = "ready" => life'[t] = "done") /\ Ready(t)
    BY <1>0, <2>1, <2>2, TerminateFacts
  <2>4. t \in Range(table.chain) /\ life[t] \in {"ready", "done"}
    BY <1>0, <2>1, <2>3 DEF LifeInv
  <2>5. life'[t] \in {"ready", "done"}
    BY <2>3, <2>4 DEF Terminated, Ready
  <2>6. ASSUME NEW j \in 1..n, j < at' PROVE Terminated(table.chain[j])'
    <3>1. CASE j = at
      BY <1>0, <2>1, <2>3, <2>6, <3>1
    <3>2. CASE j # at
      <4>1. table.chain[j] # t /\ table.chain[j] \in Transformer /\ j < at
        BY <1>0, <2>3, <2>6, <3>2
      <4>2. Terminated(table.chain[j])
        BY <2>1, <4>1 DEF LifeInv
      <4> QED BY <2>1, <2>3, <4>1, <4>2 DEF Terminated
    <3> QED BY <3>1, <3>2
  <2>7. \A u \in Transformer \ Range(table.chain) : life'[u] = "new"
    BY <2>3, <2>4 DEF LifeInv
  <2>8. \A u \in Range(table.chain) : life'[u] \in {"ready", "done"}
    BY <1>0, <2>1, <2>3, <2>5 DEF LifeInv
  <2> QED BY <2>1, <2>6, <2>7, <2>8 DEF LifeInv
<1>10. CASE Panic \/ InitFails \/ Return
  <2>1. /\ UNCHANGED <<table, life, wclosed>> /\ pc' \in {"panicked", "returned"}
        /\ pc' = "panicked" => pc = "cleanup"
    BY <1>10 DEF Panic, InitFails, Return, Done
  <2> QED BY <2>1 DEF LifeInv
<1>11. CASE ReceiveRow \/ InWindow \/ WriteRow
  <2>1. /\ UNCHANGED <<table, life, at, wclosed>>
        /\ pc \in {"next", "when", "send", "wait", "write"}
        /\ pc' \in {"next", "when", "send", "wait", "sync", "write"}
    BY <1>11 DEF ReceiveRow, PlainRow, SyncRow, NextRow, Receive, InWindow, EvaluateWhen, Send,
                 EndWindow, Wait, WriteRow, Write
  <2> QED BY <2>1 DEF LifeInv
<1>12. CASE StopAtLimit \/ CompleteDump \/ ProcessFails \/ SyncFails
  <2>1. /\ UNCHANGED <<table, life, at, wclosed>> /\ pc' \in {"closing", "failing"}
        /\ pc \in {"next", "when", "send", "sync", "write"}
    BY <1>12 DEF StopAtLimit, Limited, CompleteDump, EndRows, ProcessFails, MainFails, SyncFails
  <2> QED BY <1>0, <2>1 DEF LifeInv
<1>13. CASE CloseWriter
  <2>1. UNCHANGED <<table, life, at, pc, proc>> /\ pc \in {"closing", "failing"}
    BY <1>13 DEF CloseWriter
  <2> QED BY <2>1 DEF LifeInv, Terminated
<1> QED
  BY <1>2, <1>3, <1>4, <1>5, <1>6, <1>7, <1>8, <1>9, <1>10, <1>11, <1>12, <1>13
     DEF TableNext, Dumper

LEMMA ProcStep ==
  ASSUME TypeInv, LifeInv, ProcInv, TableNext
  PROVE  ProcInv'
<1> USE DEF vars, mainVars, goVars, egVars, setup, cmdVars, lifeVars, pipeVars, execVars
<1> DEFINE n == Len(table.chain)
<1>0. /\ n \in Nat /\ Range(table.chain) = {table.chain[i] : i \in 1..n}
      /\ \A i \in 1..n : table.chain[i] \in Transformer
      /\ at \in 1..(n + 1) /\ Custom \subseteq Transformer
  BY TableFacts, DumpAssumption DEF TypeInv
<1>1. ASSUME UNCHANGED <<life, proc>>, pc' # "returned" PROVE ProcInv'
  BY <1>1 DEF ProcInv, Ready
<1>2. ASSUME UNCHANGED <<table, life, proc, pc, wclosed>> PROVE ProcInv'
  BY <1>2 DEF ProcInv, Ready
<1>3. CASE EndInit \/ Panic \/ ReceiveRow \/ InWindow \/ SyncTransform \/ WriteRow \/ StopAtLimit
           \/ CompleteDump \/ ProcessFails \/ SyncFails \/ CloseWriter
  <2>1. UNCHANGED <<life, proc>> /\ pc' # "returned"
    BY <1>3 DEF EndInit, Panic, ReceiveRow, PlainRow, SyncRow, NextRow, Receive, InWindow,
                EvaluateWhen, Send, EndWindow, Wait, SyncTransform, WriteRow, Write, StopAtLimit,
                CompleteDump, EndRows, ProcessFails, MainFails, SyncFails, CloseWriter
  <2> QED BY <1>1, <2>1
<1>4. CASE PutOk \/ PutFails \/ CancelAll
  BY <1>2, <1>4 DEF PutOk, PutFails, CancelAll, Cancel
<1>5. ASSUME NEW t \in Transformer, Worker(t) PROVE ProcInv'
  BY <1>2, <1>5 DEF Worker, Take, ReturnError, StopDone, StopCtx, Transformed, TransformFails
<1>6. ASSUME NEW t \in Custom, Encode(t) \/ OpEnds(t) \/ Heard(t) \/ Abandon(t) PROVE ProcInv'
  BY <1>2, <1>6 DEF Encode, OpEnds, Heard, Abandon
<1>7. ASSUME NEW t \in Custom, Exit(t) PROVE ProcInv'
  <2>1. UNCHANGED <<table, life, pc, wclosed>> /\ proc' = [proc EXCEPT ![t] = "exited"]
    BY <1>7 DEF Exit
  <2>2. \A u \in Custom : proc'[u] = proc[u] \/ proc'[u] = "exited"
    BY <2>1 DEF TypeInv
  <2> QED BY <2>1, <2>2 DEF ProcInv, Ready
<1>8. CASE InitTransformer
  <2>1. /\ pc = "init" /\ pc' = pc /\ at \in 1..n
        /\ \/ /\ proc' = proc
              /\ \E l \in {"ready", "broken"} : life' = [life EXCEPT ![One] = l]
           \/ \E p \in Started \cup Greeted :
                 /\ life' = [life EXCEPT ![One] = p.life]
                 /\ proc' = [proc EXCEPT ![One] = p.proc]
    BY <1>0, <1>8 DEF InitTransformer
  <2>2. One = table.chain[at] /\ One \in Transformer /\ life[One] = "new"
    BY <1>0, <2>1 DEF LifeInv, One
  <2>3. One \in Custom => proc[One] \notin {"up", "told"}
    BY <2>2 DEF ProcInv, Ready
  <2>4. ASSUME NEW u \in Custom
        PROVE  (proc'[u] = "up" => Ready(u)') /\ (proc'[u] = "told" => life'[u] \in {"done", "left"})
    <3>1. CASE u # One
      <4>1. proc'[u] = proc[u] /\ life'[u] = life[u]
        BY <1>0, <2>1, <3>1 DEF TypeInv
      <4> QED BY <4>1 DEF ProcInv, Ready
    <3>2. CASE u = One
      <4>1. life'[u] \in {"ready", "broken"} /\ proc'[u] # "told"
        BY <1>0, <2>1, <2>3, <3>2 DEF TypeInv, Started, Greeted
      <4> QED BY <4>1 DEF Ready
    <3> QED BY <3>1, <3>2
  <2> QED BY <2>1, <2>4 DEF ProcInv
<1>9. CASE CleanUp \/ TerminateOne
  <2>1. Terminate /\ at <= n /\ pc' = pc /\ pc \in {"cleanup", "closing", "failing"}
    BY <1>0, <1>9 DEF CleanUp, TerminateOne
  <2>2. PICK t : t = One
    OBVIOUS
  <2>3. /\ \A u \in Transformer : u # t => life'[u] = life[u]
        /\ \A u \in Custom : u # t => proc'[u] = proc[u]
        /\ t \in Custom => /\ proc'[t] # "up"
                           /\ proc'[t] = "told" => life'[t] \in {"done", "left"}
    BY <2>1, <2>2, TerminateFacts
  <2> QED BY <1>0, <2>1, <2>3 DEF ProcInv, Ready
<1>10. CASE InitFails
  <2>1. /\ pc = "cleanup" /\ pc' = "returned" /\ at >= n
        /\ UNCHANGED <<table, life, proc, wclosed>>
    BY <1>10 DEF InitFails
  <2>2. ~wclosed /\ at = n /\ n \in 1..n /\ Ready(table.chain[n])
    BY <1>0, <2>1 DEF LifeInv
  <2>3. ASSUME NEW t \in Custom
        PROVE  /\ proc[t] = "up" => t = table.chain[n]
               /\ proc[t] = "told" => life[t] = "left"
    <3>1. CASE t \notin Range(table.chain)
      BY <1>0, <3>1 DEF LifeInv, ProcInv, Ready
    <3>2. CASE t = table.chain[n]
      BY <2>2, <3>2 DEF ProcInv, Ready
    <3>3. CASE t \in Range(table.chain) /\ t # table.chain[n]
      <4>1. PICK j \in 1..n : t = table.chain[j]
        BY <1>0, <3>3
      <4>2. j < at
        BY <1>0, <2>2, <3>3, <4>1
      <4>3. Terminated(t)
        BY <2>1, <4>1, <4>2 DEF LifeInv
      <4> QED BY <4>3 DEF ProcInv, Ready, Terminated
    <3> QED BY <3>1, <3>2, <3>3
  <2>4. \A t \in Custom : (proc[t] = "up" => Ready(t)) /\ (proc[t] = "told" => life[t] \in {"done", "left"})
    BY DEF ProcInv
  <2> QED BY <2>1, <2>2, <2>3, <2>4 DEF ProcInv, Ready
<1>11. CASE Return
  <2>1. /\ pc \in {"closing", "failing"} /\ pc' = "returned" /\ at > n
        /\ UNCHANGED <<table, life, proc, wclosed>>
    BY <1>11 DEF Return, Done
  <2>2. ASSUME NEW t \in Custom PROVE proc[t] \notin {"up", "told"}
    <3>1. CASE t \notin Range(table.chain)
      BY <1>0, <3>1 DEF LifeInv, ProcInv, Ready
    <3>2. CASE t \in Range(table.chain)
      <4>1. PICK j \in 1..n : t = table.chain[j]
        BY <1>0, <3>2
      <4>2. j < at
        BY <1>0, <2>1, <4>1
      <4>3. Terminated(t) /\ life[t] \in {"ready", "done"}
        BY <2>1, <3>2, <4>1, <4>2 DEF LifeInv
      <4> QED BY <4>3 DEF Terminated
    <3> QED BY <3>1, <3>2
  <2> QED BY <2>1, <2>2 DEF ProcInv
<1> QED
  BY <1>3, <1>4, <1>5, <1>6, <1>7, <1>8, <1>9, <1>10, <1>11 DEF TableNext, Dumper

-----------------------------------------------------------------------------
(* The calls of the programs *)

\* A transformer that is called is not over, and in the synchronous pipeline it
\* is the one the dumper goroutine is at.
LEMMA CallingFacts ==
  ASSUME TypeInv, WindowInv, ModeInv, NEW t \in Custom
  PROVE  /\ Calling(t) => ~Over(t)
         /\ pc \in {"init", "next", "write", "cleanup"} => ~Calling(t)
         /\ pc # "sync" => (Calling(t) <=> gs[t] = "running")
         /\ pc = "sync" => /\ ~Async /\ gs[t] = "gone" /\ ~Over(t)
                           /\ Calling(t) => pos <= Len(table.chain) /\ Step = t
                                            /\ Holds(table, rec, t)
<1>1. t \in Transformer
  BY DumpAssumption
<1>2. gs[t] = "running" => t \in Pending
  BY <1>1 DEF Pending, Running
<1> QED
  BY <1>1, <1>2 DEF Calling, SyncIn, Over, ModeInv, WindowInv

LEMMA CallFrame ==
  ASSUME UNCHANGED <<table, call, ops, gs>>, pc' # "init", pc # "sync", pc' # "sync", rows' = rows,
         pc \in {"failing", "returned"} => pc' \in {"failing", "returned"}, CallInv
  PROVE  CallInv'
<1>1. Async' = Async
  BY DEF Async
<1> QED
  BY <1>1 DEF CallInv, CallOf, Calling, SyncIn, Over

LEMMA CallStep ==
  ASSUME TypeInv, WindowInv, ModeInv, CallInv, TableNext
  PROVE  CallInv'
<1> USE DEF vars, mainVars, goVars, egVars, setup, cmdVars, lifeVars, pipeVars, execVars
<1>0. Custom \subseteq Transformer
  BY DumpAssumption
<1>1. ASSUME UNCHANGED table PROVE Async' = Async
  BY <1>1 DEF Async
<1>2. ASSUME UNCHANGED <<table, pc, pos, rec, rows, gs, call, ops>> PROVE CallInv'
  BY <1>1, <1>2 DEF CallInv, CallOf, Calling, SyncIn, Step, Over
<1>3. CASE InitTransformer \/ CleanUp \/ TerminateOne \/ CloseWriter \/ PutOk \/ PutFails \/ CancelAll
  BY <1>2, <1>3 DEF InitTransformer, CleanUp, TerminateOne, CloseWriter, PutOk, PutFails,
                    CancelAll, Cancel
<1>4. ASSUME NEW t \in Custom, Exit(t) PROVE CallInv'
  BY <1>2, <1>4 DEF Exit
<1>5. CASE Panic \/ InitFails \/ InWindow \/ WriteRow \/ StopAtLimit \/ CompleteDump \/ ProcessFails
           \/ Return
  <2>1. /\ UNCHANGED <<table, call, ops, gs, rows>> /\ pc # "sync" /\ pc' \notin {"init", "sync"}
        /\ pc \in {"failing", "returned"} => pc' \in {"failing", "returned"}
    BY <1>5 DEF Panic, InitFails, InWindow, EvaluateWhen, Send, EndWindow, Wait, WriteRow, Write,
                StopAtLimit, Limited, CompleteDump, EndRows, ProcessFails, MainFails, Return, Done
  <2> QED BY <2>1, CallFrame
<1>6. CASE EndInit
  <2>1. /\ UNCHANGED <<table, call, ops>> /\ pc = "init"
    BY <1>6 DEF EndInit
  <2>2. ASSUME NEW t \in Custom PROVE call[t] = "none" /\ ops[t] = {}
    <3>1. ~Calling(t) /\ ~Over(t)
      BY <1>0, <2>1, CallingFacts DEF Over
    <3> QED BY <3>1 DEF CallInv, CallOf
  <2> QED BY <2>1, <2>2 DEF CallInv, CallOf
<1>7. CASE ReceiveRow
  <2>1. UNCHANGED <<table, call, ops, gs>> /\ pc = "next" /\ pc' \in {"write", "when", "sync"}
    BY <1>7 DEF ReceiveRow, PlainRow, SyncRow, NextRow, Receive
  <2>2. ASSUME NEW t \in Custom PROVE CallOf(t)'
    <3>1. ~Calling(t)
      BY <2>1, CallingFacts
    <3>2. call[t] = "none" /\ (ops[t] = {} \/ Over(t)) /\ (ops[t] = {} \/ \E o \in ops[t] : ops[t] = {o})
      BY <3>1 DEF CallInv, CallOf
    <3>3. Over(t) => Over(t)'
      BY <1>1, <2>1 DEF Over
    <3> QED BY <2>1, <3>2, <3>3 DEF CallOf
  <2> QED BY <2>2 DEF CallInv
<1>8. CASE SyncTransform
  <2>1. /\ pc = "sync" /\ UNCHANGED <<table, ops, gs>>
        /\ \/ /\ call' = call /\ ~(pos <= Len(table.chain) /\ Holds(table, rec, Step))
           \/ /\ Step \in Custom => call[Step] = "back"
              /\ call' = [t \in Custom |-> IF t = Step THEN "none" ELSE call[t]]
    BY <1>8, TableFacts DEF SyncTransform, TypeInv
  <2>2. ASSUME NEW t \in Custom PROVE CallOf(t)'
    <3>1. ~Over(t) /\ (Calling(t) => pos <= Len(table.chain) /\ Step = t /\ Holds(table, rec, t))
      BY <2>1, CallingFacts
    <3>2. call'[t] = "none" /\ ops[t] = {}
      BY <2>1, <3>1 DEF CallInv, CallOf
    <3> QED BY <2>1, <3>2 DEF CallOf
  <2> QED BY <2>2 DEF CallInv
<1>9. CASE SyncFails
  <2>1. /\ pc = "sync" /\ pc' = "failing" /\ UNCHANGED <<table, ops, gs>>
        /\ call' = [t \in Custom |-> IF t = Step THEN "none" ELSE call[t]]
    BY <1>9 DEF SyncFails
  <2>2. ASSUME NEW t \in Custom PROVE CallOf(t)'
    <3>1. ~Async /\ (Calling(t) => Step = t)
      BY <2>1, CallingFacts
    <3>2. call'[t] = "none" /\ Over(t)' /\ (ops[t] = {} \/ \E o \in ops[t] : ops[t] = {o})
      BY <1>1, <2>1, <3>1 DEF CallInv, CallOf, Over
    <3> QED BY <2>1, <3>2 DEF CallOf
  <2> QED BY <2>2 DEF CallInv
<1>10. ASSUME NEW t \in Transformer, Worker(t) PROVE CallInv'
  <2>1. /\ UNCHANGED <<table, pc, rows, ops>> /\ gs[t] # "gone"
        /\ \A u \in Transformer : u # t => gs'[u] = gs[u]
        /\ \A u \in Custom : u # t => call'[u] = call[u]
    BY <1>0, <1>10 DEF Worker, Take, ReturnError, StopDone, StopCtx, Transformed, TransformFails, Reset,
                       TypeInv
  <2>2. pc \notin {"sync", "init"} /\ Async
    BY <2>1 DEF ModeInv
  <2>3. ASSUME NEW u \in Custom, u # t PROVE CallOf(u)'
    <3>1. Calling(u)' = Calling(u) /\ Over(u)' = Over(u)
      BY <1>0, <1>1, <2>1, <2>2, <2>3 DEF Calling, SyncIn, Over
    <3> QED BY <2>1, <2>3, <3>1 DEF CallInv, CallOf
  <2>4. ASSUME t \in Custom PROVE CallOf(t)'
    <3>1. /\ Calling(t) <=> gs[t] = "running"
          /\ Over(t) <=> gs[t] \in {"failed", "gone"}
          /\ Over(t)' <=> gs'[t] \in {"failed", "gone"}
          /\ Calling(t)' <=> gs'[t] = "running"
      BY <1>1, <2>1, <2>2 DEF Calling, SyncIn, Over
    <3>2. CallOf(t)
      BY <2>4 DEF CallInv
    <3>3. CASE Take(t) /\ UNCHANGED call
      BY <2>1, <3>1, <3>2, <3>3 DEF Take, CallOf, TypeInv
    <3>4. CASE (ReturnError(t) \/ StopDone(t) \/ StopCtx(t)) /\ UNCHANGED call
      BY <2>1, <3>1, <3>2, <3>4 DEF ReturnError, StopDone, StopCtx, CallOf, TypeInv
    <3>5. CASE call[t] = "back" /\ Transformed(t) /\ Reset(t)
      BY <2>1, <2>4, <3>1, <3>2, <3>5 DEF Transformed, Reset, CallOf, TypeInv
    <3>6. CASE TransformFails(t) /\ Reset(t)
      BY <2>1, <2>4, <3>1, <3>2, <3>6 DEF TransformFails, Reset, CallOf, TypeInv
    <3> QED BY <1>10, <2>4, <3>3, <3>4, <3>5, <3>6 DEF Worker
  <2> QED BY <2>3, <2>4 DEF CallInv
<1>11. ASSUME NEW t \in Custom, Encode(t) \/ OpEnds(t) \/ Heard(t) \/ Abandon(t) PROVE CallInv'
  <2>1. UNCHANGED <<table, pc, pos, rec, rows, gs>>
    BY <1>11 DEF Encode, OpEnds, Heard, Abandon
  <2>2. \A u : Calling(u)' = Calling(u) /\ Over(u)' = Over(u)
    BY <1>1, <2>1 DEF Calling, SyncIn, Step, Over
  <2>3. \A u \in Custom : u # t => call'[u] = call[u] /\ ops'[u] = ops[u]
    BY <1>11 DEF Encode, OpEnds, Heard, Abandon, TypeInv
  <2>4. \A u \in Custom : u # t => CallOf(u)'
    BY <2>1, <2>2, <2>3 DEF CallInv, CallOf
  <2>5. CallOf(t) /\ ops[t] \subseteq OpType /\ rows \in Nat /\ (Calling(t) => ~Over(t))
    BY CallingFacts DEF CallInv, TypeInv
  <2>6. CASE Encode(t)
    <3>1. /\ Calling(t) /\ call[t] = "none" /\ call'[t] = "encode" /\ ops'[t] = ops[t] \cup {Op("encode")}
      BY <2>6 DEF Encode, TypeInv
    <3>2. ops'[t] = {Op("encode")}
      BY <2>5, <3>1 DEF CallOf
    <3>3. Op("encode").row = rows /\ Op("encode").kind = "encode"
      BY DEF Op
    <3> QED BY <2>1, <2>2, <2>4, <3>1, <3>2, <3>3 DEF CallInv, CallOf
  <2>7. CASE OpEnds(t)
    <3>1. PICK o \in ops[t], ok \in BOOLEAN :
              ops' = [ops EXCEPT ![t] = (@ \ {o}) \cup {[o EXCEPT !.over = TRUE, !.ok = ok]}]
      BY <2>7 DEF OpEnds
    <3> DEFINE p == [o EXCEPT !.over = TRUE, !.ok = ok]
    <3>2. p.row = o.row /\ p.kind = o.kind
      BY <2>5 DEF OpType
    <3>3. ops'[t] = (ops[t] \ {o}) \cup {p}
      BY <3>1 DEF TypeInv
    <3> HIDE DEF p
    <3>4. ops[t] = {o}
      BY <2>5 DEF CallOf
    <3>5. ops'[t] = {p} /\ call' = call
      BY <2>7, <3>3, <3>4 DEF OpEnds
    <3> QED BY <2>1, <2>2, <2>4, <2>5, <3>2, <3>4, <3>5 DEF CallInv, CallOf
  <2>8. CASE Heard(t)
    <3>1. PICK o \in ops[t] :
           /\ call[t] \in {"encode", "decode"} /\ o.over
           /\ \/ /\ ~o.ok /\ o.row = rows
                 /\ call' = [call EXCEPT ![t] = "failed"]
                 /\ ops' = [ops EXCEPT ![t] = @ \ {o}]
              \/ /\ o.ok \/ o.row # rows
                 /\ call' = [call EXCEPT ![t] = IF @ = "encode" THEN "decode" ELSE "back"]
                 /\ ops' = [ops EXCEPT ![t] = (@ \ {o}) \cup
                               (IF call[t] = "encode" THEN {Op("decode")} ELSE {})]
      BY <2>8 DEF Heard
    <3>2. ops[t] = {o} /\ Calling(t)
      BY <2>5, <3>1 DEF CallOf
    <3>3. \/ call'[t] = "failed" /\ ops'[t] = {}
          \/ call[t] = "encode" /\ call'[t] = "decode" /\ ops'[t] = {Op("decode")}
          \/ call'[t] = "back" /\ ops'[t] = {}
      BY <3>1, <3>2 DEF TypeInv
    <3>4. Op("decode").row = rows /\ Op("decode").kind = "decode"
      BY DEF Op
    <3> QED BY <2>1, <2>2, <2>4, <3>2, <3>3, <3>4 DEF CallInv, CallOf
  <2>9. CASE Abandon(t)
    <3>1. call[t] \in {"encode", "decode"} /\ call'[t] = "failed" /\ ops' = ops
      BY <2>9 DEF Abandon, TypeInv
    <3> QED BY <2>1, <2>2, <2>4, <2>5, <3>1 DEF CallInv, CallOf
  <2> QED BY <1>11, <2>6, <2>7, <2>8, <2>9
<1> QED
  BY <1>3, <1>4, <1>5, <1>6, <1>7, <1>8, <1>9, <1>10, <1>11 DEF TableNext, Dumper

-----------------------------------------------------------------------------
(* The counts and the object *)

LEMMA AppendFacts ==
  ASSUME NEW s, s \in Seq(Range(s)), NEW e
  PROVE  /\ Len(s) \in Nat /\ Len(Append(s, e)) = Len(s) + 1 /\ DOMAIN s = 1..Len(s)
         /\ Append(s, e) \in Seq(Range(Append(s, e)))
         /\ DOMAIN Append(s, e) = 1..(Len(s) + 1)
         /\ \A i \in 1..Len(s) : Append(s, e)[i] = s[i]
         /\ Append(s, e)[Len(s) + 1] = e
<1> DEFINE S == Range(s) \cup {e}
           a == Append(s, e)
<1>1. s \in Seq(S) /\ e \in S
  OBVIOUS
<1> HIDE DEF S
<1>2. /\ a \in Seq(S) /\ Len(s) \in Nat /\ Len(a) = Len(s) + 1 /\ a[Len(s) + 1] = e
      /\ \A i \in 1..Len(s) : a[i] = s[i]
      /\ DOMAIN a = 1..(Len(s) + 1) /\ DOMAIN s = 1..Len(s)
  BY <1>1
<1> HIDE DEF a
<1>3. a \in [1..(Len(s) + 1) -> Range(a)]
  BY <1>2 DEF Range
<1>4. a \in Seq(Range(a))
  BY <1>2, <1>3
<1> QED
  BY <1>2, <1>4 DEF a

LEMMA CountStep ==
  ASSUME TypeInv, LifeInv, CountInv, TableNext
  PROVE  CountInv'
<1> USE DEF vars, mainVars, goVars, egVars, setup, cmdVars, lifeVars, pipeVars, execVars
<1> DEFINE frame == <<out, rows, echoed, table, validate, put, object, term, wclosed>>
<1>0. Len(out) \in Nat /\ rows \in Nat /\ {err, term, validate, wclosed} \subseteq BOOLEAN
  BY AppendFacts DEF CountInv, TypeInv
<1>1. ASSUME UNCHANGED table PROVE Plain' = Plain
  BY <1>1 DEF Plain
<1>2. ASSUME UNCHANGED frame, pc' = pc, err => err' PROVE CountInv'
  BY <1>1, <1>2 DEF CountInv, Ending
<1>3. CASE InitTransformer \/ CleanUp \/ TerminateOne \/ CancelAll
  <2>1. UNCHANGED frame /\ pc' = pc /\ err' = err
    BY <1>3 DEF InitTransformer, CleanUp, TerminateOne, CancelAll, Cancel
  <2> QED BY <1>2, <2>1
<1>4. ASSUME NEW t \in Transformer, Worker(t) PROVE CountInv'
  <2>1. UNCHANGED frame /\ pc' = pc /\ (err => err')
    BY <1>4 DEF Worker, Take, ReturnError, StopDone, StopCtx, Transformed, TransformFails
  <2> QED BY <1>2, <2>1
<1>5. ASSUME NEW t \in Custom, Encode(t) \/ OpEnds(t) \/ Heard(t) \/ Abandon(t) \/ Exit(t)
      PROVE  CountInv'
  <2>1. UNCHANGED frame /\ pc' = pc /\ err' = err
    BY <1>5 DEF Encode, OpEnds, Heard, Abandon, Exit
  <2> QED BY <1>2, <2>1
<1>6. CASE EndInit \/ Panic \/ InitFails \/ InWindow \/ SyncTransform \/ ProcessFails \/ SyncFails
  <2>1. /\ UNCHANGED frame /\ (err => err')
        /\ pc \notin {"closing", "failing", "returned"} /\ pc' # "closing"
        /\ pc' = "returned" => err'
        /\ pc' \in {"init", "cleanup", "panicked", "next"} => pc \in {"init", "cleanup"}
        /\ pc' \in {"when", "send", "wait", "sync", "write"} =>
               pc \in {"when", "send", "wait", "sync", "write"}
    BY <1>6 DEF EndInit, Panic, InitFails, InWindow, EvaluateWhen, Send, EndWindow, Wait,
                SyncTransform, ProcessFails, MainFails, SyncFails
  <2> HIDE DEF frame
  <2>2. UNCHANGED <<out, rows, echoed, table, validate, put, object, term, wclosed>>
    BY <2>1 DEF frame
  <2> QED BY <1>1, <2>1, <2>2 DEF CountInv, Ending
<1>7. CASE ReceiveRow
  <2>1. /\ UNCHANGED <<table, out, validate, put, object, term, wclosed, err>> /\ rows' = rows + 1
        /\ pc = "next" /\ pc' \in {"write", "when", "sync"}
        /\ echoed' = IF validate /\ ~Plain THEN echoed + 1 ELSE echoed
    BY <1>7 DEF ReceiveRow, PlainRow, SyncRow, NextRow, Receive, Echo
  <2> QED BY <1>0, <1>1, <2>1 DEF CountInv, Ending
<1>8. CASE WriteRow
  <2>1. /\ UNCHANGED <<table, rows, echoed, validate, put, object, term, wclosed, err>>
        /\ pc = "write" /\ pc' = "next" /\ out' = Append(out, [skipped |-> skipped, rec |-> rec])
    BY <1>8 DEF WriteRow, Write
  <2>2. out' \in Seq(Range(out')) /\ Len(out') = Len(out) + 1
    BY <2>1, AppendFacts DEF CountInv
  <2>3. put # "ok"
    BY <2>1 DEF CountInv, LifeInv
  <2> QED BY <1>0, <1>1, <2>1, <2>2, <2>3 DEF CountInv, Ending
<1>9. CASE StopAtLimit \/ CompleteDump
  <2>1. /\ UNCHANGED <<table, rows, out, echoed, validate, put, object, wclosed, err>>
        /\ pc = "next" /\ pc' = "closing" /\ put # "ok"
    BY <1>9 DEF StopAtLimit, Limited, CompleteDump, EndRows, CountInv, LifeInv
  <2>2. term' = ~(validate /\ rows = Limit)
    <3>1. ~term /\ term = FALSE
      BY <1>0, <2>1 DEF CountInv
    <3>2. CASE StopAtLimit
      <4>1. term' = term /\ validate /\ rows = Limit
        BY <3>2 DEF StopAtLimit, Limited
      <4> QED BY <3>1, <4>1
    <3>3. CASE CompleteDump
      <4>1. term' = TRUE /\ ~(validate /\ rows = Limit)
        BY <2>1, <3>3 DEF CompleteDump, Limited
      <4> QED BY <4>1
    <3> QED BY <1>9, <3>2, <3>3
  <2> QED BY <1>0, <1>1, <2>1, <2>2 DEF CountInv, Ending
<1>10. CASE Return
  <2>1. /\ UNCHANGED <<table, rows, out, echoed, validate, put, object, wclosed, term>>
        /\ wclosed /\ pc' = "returned" /\ pc \in {"closing", "failing"}
        /\ err => err'
        /\ ~err' => pc = "closing"
    BY <1>10 DEF Return, Done
  <2>2. Ending' => pc = "closing"
    BY <2>1 DEF Ending
  <2> QED BY <1>0, <1>1, <2>1, <2>2 DEF CountInv, Ending
<1>11. CASE CloseWriter
  <2>1. /\ UNCHANGED <<table, rows, out, echoed, validate, put, object, term, err, pc>>
        /\ wclosed' = TRUE
    BY <1>11 DEF CloseWriter
  <2> QED BY <1>1, <2>1 DEF CountInv, Ending
<1>12. CASE PutOk
  <2>1. /\ UNCHANGED <<table, rows, out, echoed, validate, term, err, pc, wclosed>>
        /\ wclosed /\ put' = "ok" /\ object' = [rows |-> out, term |-> term]
    BY <1>12 DEF PutOk
  <2> QED BY <1>1, <2>1 DEF CountInv, Ending
<1>13. CASE PutFails
  <2>1. /\ UNCHANGED <<table, rows, out, echoed, validate, term, object, pc, wclosed>>
        /\ put' = "failed" /\ err' = TRUE
    BY <1>13 DEF PutFails
  <2> QED BY <1>1, <2>1 DEF CountInv, Ending
<1> QED
  BY <1>3, <1>4, <1>5, <1>6, <1>7, <1>8, <1>9, <1>10, <1>11, <1>12, <1>13 DEF TableNext, Dumper

-----------------------------------------------------------------------------
(* The values *)

IsRecord(r) == r = [c \in Column |-> r[c]]

LEMMA RecordsRecursion ==
  ASSUME NEW tb \in TableType
  PROVE  Records(tb) =
           [i \in 0..Len(tb.chain) |->
              IF i = 0 THEN RawRecord ELSE Applied(tb, Records(tb)[i - 1], tb.chain[i])]
<1> DEFINE n == Len(tb.chain)
           Is(f, k) == f = [i \in 0..k |-> IF i = 0 THEN RawRecord
                                           ELSE Applied(tb, f[i - 1], tb.chain[i])]
           Q == {k \in Nat : \E f : Is(f, k)}
<1>0. n \in Nat
  BY ChainFacts
<1>1. 0 \in Q
  <2> DEFINE f == [i \in 0..0 |-> RawRecord]
  <2>1. Is(f, 0)
    OBVIOUS
  <2> QED BY <2>1
<1>2. ASSUME NEW k \in Nat, k \in Q PROVE k + 1 \in Q
  <2>1. PICK f : Is(f, k)
    BY <1>2
  <2> DEFINE g == [i \in 0..(k + 1) |-> IF i = k + 1 THEN Applied(tb, f[k], tb.chain[k + 1])
                                                    ELSE f[i]]
  <2>2. ASSUME NEW i \in 0..(k + 1)
        PROVE  g[i] = IF i = 0 THEN RawRecord ELSE Applied(tb, g[i - 1], tb.chain[i])
    <3>1. CASE i = k + 1
      <4>1. k \in 0..(k + 1) /\ k # k + 1 /\ g[k] = f[k]
        OBVIOUS
      <4> QED BY <3>1, <4>1
    <3>2. CASE i # k + 1
      <4>1. i \in 0..k /\ g[i] = f[i]
        BY <3>2
      <4>2. i # 0 => i - 1 \in 0..(k + 1) /\ i - 1 # k + 1 /\ g[i - 1] = f[i - 1]
        BY <4>1
      <4>3. f[i] = IF i = 0 THEN RawRecord ELSE Applied(tb, f[i - 1], tb.chain[i])
        BY <2>1, <4>1
      <4> QED BY <4>1, <4>2, <4>3
    <3> QED BY <3>1, <3>2
  <2>3. Is(g, k + 1)
    BY <2>2
  <2> HIDE DEF g, Is
  <2> QED BY <2>3
<1>3. \E f : Is(f, n)
  <2>1. Nat \subseteq Q
    <3> HIDE DEF Q
    <3> QED BY <1>1, <1>2, NatSetInduction
  <2> QED BY <1>0, <2>1
<1> DEFINE R == CHOOSE f : Is(f, n)
<1>4. Is(R, n)
  BY <1>3
<1>5. Records(tb) = R
  BY DEF Records
<1> QED
  BY <1>4, <1>5

\* The record after each transformer, one after another.
LEMMA RecordsFacts ==
  ASSUME NEW tb \in TableType
  PROVE  /\ Records(tb)[0] = RawRecord
         /\ \A i \in 1..Len(tb.chain) :
                Records(tb)[i] = Applied(tb, Records(tb)[i - 1], tb.chain[i])
         /\ \A i \in 0..Len(tb.chain) : IsRecord(Records(tb)[i])
<1> DEFINE n == Len(tb.chain)
           Q == {i \in Nat : i <= n => IsRecord(Records(tb)[i])}
<1>0. n \in Nat
  BY ChainFacts
<1>1. \A i \in 0..n : Records(tb)[i] =
          IF i = 0 THEN RawRecord ELSE Applied(tb, Records(tb)[i - 1], tb.chain[i])
  BY RecordsRecursion
<1>2. 0 \in Q
  BY <1>0, <1>1 DEF IsRecord, RawRecord
<1>3. ASSUME NEW i \in Nat, i \in Q PROVE i + 1 \in Q
  <2> SUFFICES ASSUME i + 1 <= n PROVE IsRecord(Records(tb)[i + 1])
    OBVIOUS
  <2>1. IsRecord(Records(tb)[i]) /\ i + 1 \in 0..n /\ i + 1 # 0 /\ (i + 1) - 1 = i
    BY <1>0, <1>3
  <2>2. Records(tb)[i + 1] = Applied(tb, Records(tb)[i], tb.chain[i + 1])
    BY <1>1, <2>1
  <2> QED BY <2>1, <2>2 DEF Applied, Written, IsRecord
<1>4. \A i \in 0..n : i \in Q
  <2> HIDE DEF Q
  <2> QED BY <1>0, <1>2, <1>3, NatSetInduction
<1> QED
  BY <1>0, <1>1, <1>4

LEMMA OffsetsFacts ==
  ASSUME NEW tb \in TableType
  PROVE  Splits(tb, Windows(tb), Len(tb.chain), Offsets(tb))
<1> DEFINE F == [1..(Len(Windows(tb)) + 1) -> 0..Len(tb.chain)]
<1>1. \E off \in F : Splits(tb, Windows(tb), Len(tb.chain), off)
  BY WindowsAre DEF AreWindows, Splits
<1> QED
  BY <1>1 DEF Offsets

\* One transformer more, which changes other columns.
LEMMA ResultAdd ==
  ASSUME NEW tb \in TableType, NEW r, NEW base, NEW n \in Nat, NEW chain,
         \A k \in 1..n : chain[k] \in Transformer,
         \A k, l \in 1..n : k # l => Writes(tb, chain[k]) \cap Writes(tb, chain[l]) = {},
         NEW D, D \subseteq 1..n, NEW m \in 1..n, m \notin D,
         IsResult(tb, r, base, chain, D)
  PROVE  IsResult(tb, Written(tb, r, chain[m], ReadBy(tb, base, chain[m])), base, chain,
                  D \cup {m})
<1> DEFINE v == <<chain[m], ReadBy(tb, base, chain[m])>>
           w == Written(tb, r, chain[m], ReadBy(tb, base, chain[m]))
<1>1. \A c \in Column : w[c] = IF c \in Writes(tb, chain[m]) THEN v ELSE r[c]
  BY DEF Written
<1>2. w = [c \in Column |-> w[c]]
  BY DEF Written
<1> HIDE DEF v, w
<1>3. ASSUME NEW c \in Column, NEW k \in D \cup {m}, c \in Writes(tb, chain[k])
      PROVE  w[c] = <<chain[k], ReadBy(tb, base, chain[k])>>
  <2>1. CASE k = m
    BY <1>1, <1>3, <2>1 DEF v
  <2>2. CASE k # m
    <3>1. k \in D /\ c \notin Writes(tb, chain[m])
      BY <1>3, <2>2
    <3>2. r[c] = <<chain[k], ReadBy(tb, base, chain[k])>>
      BY <1>3, <3>1 DEF IsResult
    <3> QED BY <1>1, <3>1, <3>2
  <2> QED BY <2>1, <2>2
<1>4. ASSUME NEW c \in Column, \A k \in D \cup {m} : c \notin Writes(tb, chain[k])
      PROVE  w[c] = base[c]
  BY <1>1, <1>4 DEF IsResult
<1> QED
  BY <1>2, <1>3, <1>4 DEF IsResult, w

\* u changes nothing that t reads, in its parameters or its condition.
Apart(tb, u, t) == Writes(tb, u) \cap (tb.reads[t] \cup {tb.when[t]}) = {}

\* A transformer reads in the record what it would have read when the window
\* began, if those that have finished change nothing it reads.
LEMMA ResultReads ==
  ASSUME NEW tb \in TableType, NEW r, NEW base, NEW chain, NEW D, NEW t \in Transformer,
         IsResult(tb, r, base, chain, D),
         \A k \in D : Apart(tb, chain[k], t)
  PROVE  ReadBy(tb, r, t) = ReadBy(tb, base, t) /\ (Holds(tb, r, t) <=> Holds(tb, base, t))
<1>1. tb.reads[t] \subseteq Column /\ tb.when[t] \in Column \cup {Always}
  BY DEF TableType
<1>2. \A c \in Column \cap (tb.reads[t] \cup {tb.when[t]}) : r[c] = base[c]
  BY DEF IsResult, Apart
<1>3. ReadBy(tb, r, t) = ReadBy(tb, base, t)
  BY <1>1, <1>2 DEF ReadBy
<1>4. Holds(tb, r, t) <=> Holds(tb, base, t)
  BY <1>1, <1>2 DEF Holds
<1> QED
  BY <1>3, <1>4

LEMMA ResultUnique ==
  ASSUME NEW tb, NEW r, NEW s, NEW base, NEW chain, NEW D,
         IsResult(tb, r, base, chain, D), IsResult(tb, s, base, chain, D)
  PROVE  r = s
<1>1. ASSUME NEW c \in Column PROVE r[c] = s[c]
  BY DEF IsResult
<1> QED
  BY <1>1 DEF IsResult

LEMMA IndependentFacts ==
  ASSUME NEW tb \in TableType, Independent(tb), NEW k \in 1..Len(Windows(tb)),
         NEW m \in 1..Len(Windows(tb)[k].chain), NEW l \in 1..Len(Windows(tb)[k].chain), m # l
  PROVE  Apart(tb, Windows(tb)[k].chain[m], Windows(tb)[k].chain[l])
<1> DEFINE c == Windows(tb)[k].chain
<1>1. /\ k \in DOMAIN Windows(tb) /\ m \in DOMAIN c /\ l \in DOMAIN c
  BY WindowFacts
<1> QED
  BY <1>1 DEF Independent, Apart

\* The transformers of a window whose conditions hold when it begins.
Holding(tb, base, c) == {m \in 1..Len(c) : Holds(tb, base, c[m])}

\* In a window of independent transformers, those that hold when it begins are
\* those that are applied, one after another.
LEMMA WindowResult ==
  ASSUME NEW tb \in TableType, Independent(tb), NEW k \in 1..Len(Windows(tb)),
         NEW c, c = Windows(tb)[k].chain, NEW o, o = Offsets(tb)[k],
         NEW base, base = Records(tb)[o]
  PROVE  /\ o + Len(c) \in 0..Len(tb.chain) /\ Offsets(tb)[k + 1] = o + Len(c)
         /\ IsRecord(base)
         /\ IsResult(tb, Records(tb)[o + Len(c)], base, c, Holding(tb, base, c))
<1> DEFINE N == Len(tb.chain)
           L == Len(c)
           D(l) == {m \in 1..l : Holds(tb, base, c[m])}
           Q == {l \in Nat : l <= L => IsResult(tb, Records(tb)[o + l], base, c, D(l))}
<1>1. /\ N \in Nat /\ L \in Nat /\ \A m \in 1..L : c[m] \in Transformer
      /\ \A m, l \in 1..L : m # l => Writes(tb, c[m]) \cap Writes(tb, c[l]) = {}
      /\ Len(Windows(tb)) \in Nat
  <2>1. c \in Seq(Transformer) /\ L \in Nat
    BY WindowFacts
  <2>2. \A m, l \in 1..L : m # l => Writes(tb, c[m]) \cap Writes(tb, c[l]) = {}
    BY WindowFacts
  <2>3. N \in Nat /\ Len(Windows(tb)) \in Nat
    BY ChainFacts, WindowFacts
  <2>4. \A m \in 1..L : c[m] \in Transformer
    BY <2>1
  <2> HIDE DEF L, N
  <2> QED BY <2>1, <2>2, <2>3, <2>4
<1>2. /\ o \in 0..N /\ Offsets(tb)[k + 1] \in 0..N /\ Offsets(tb)[k + 1] = o + L
      /\ \A m \in 1..L : c[m] = tb.chain[o + m]
  <2>1. k \in 1..(Len(Windows(tb)) + 1) /\ k + 1 \in 1..(Len(Windows(tb)) + 1)
    BY <1>1
  <2> QED BY <2>1, OffsetsFacts DEF Splits
<1>3. o + L \in 0..N /\ o \in Nat /\ IsRecord(base)
  BY <1>1, <1>2, RecordsFacts
<1>4. 0 \in Q
  <2>1. D(0) = {} /\ o + 0 = o
    BY <1>2
  <2>2. IsResult(tb, base, base, c, {})
    BY <1>3 DEF IsResult, IsRecord
  <2> HIDE DEF D
  <2> QED BY <2>1, <2>2
<1>5. ASSUME NEW l \in Nat, l \in Q PROVE l + 1 \in Q
  <2> SUFFICES ASSUME l + 1 <= L
               PROVE  IsResult(tb, Records(tb)[o + (l + 1)], base, c, D(l + 1))
    OBVIOUS
  <2> DEFINE r == Records(tb)[o + l]
             t == c[l + 1]
  <2>1. l <= L /\ l + 1 \in 1..L /\ t \in Transformer
    BY <1>1
  <2>2. IsResult(tb, r, base, c, D(l))
    BY <1>5, <2>1
  <2>3. D(l) \subseteq 1..L /\ l + 1 \notin D(l)
    BY <2>1
  <2>4. D(l + 1) = IF Holds(tb, base, t) THEN D(l) \cup {l + 1} ELSE D(l)
    <3>1. \A m : m \in 1..(l + 1) <=> m \in 1..l \/ m = l + 1
      OBVIOUS
    <3> QED BY <3>1
  <2>5. Records(tb)[o + (l + 1)] = Applied(tb, r, t)
    <3>1. o + (l + 1) \in 1..N /\ (o + (l + 1)) - 1 = o + l
      <4>1. l \in Nat /\ o \in Nat /\ L \in Nat /\ N \in Nat /\ l + 1 <= L /\ o + L <= N
        BY <1>1, <1>3
      <4> HIDE DEF L, N
      <4> QED BY <4>1
    <3>2. t = tb.chain[o + (l + 1)]
      BY <1>2, <2>1
    <3> QED BY <3>1, <3>2, RecordsFacts
  <2> HIDE DEF D, r, t
  <2>6. ReadBy(tb, r, t) = ReadBy(tb, base, t) /\ (Holds(tb, r, t) <=> Holds(tb, base, t))
    <3>1. ASSUME NEW m \in D(l) PROVE Apart(tb, c[m], t)
      <4>1. m \in 1..L /\ m # l + 1
        BY <2>3
      <4> QED BY <2>1, <4>1, IndependentFacts DEF t
    <3> QED BY <2>1, <2>2, <3>1, ResultReads
  <2>7. CASE Holds(tb, base, t)
    <3>1. IsResult(tb, Written(tb, r, t, ReadBy(tb, base, t)), base, c, D(l) \cup {l + 1})
      BY <1>1, <2>1, <2>2, <2>3, ResultAdd DEF t
    <3> QED BY <2>4, <2>5, <2>6, <2>7, <3>1 DEF Applied
  <2>8. CASE ~Holds(tb, base, t)
    BY <2>2, <2>4, <2>5, <2>6, <2>8 DEF Applied
  <2> QED BY <2>7, <2>8
<1>6. L \in Q
  <2> HIDE DEF Q
  <2> QED BY <1>1, <1>4, <1>5, NatSetInduction
<1>7. IsResult(tb, Records(tb)[o + L], base, c, D(L))
  <2>1. L <= L
    BY <1>1
  <2> HIDE DEF D
  <2> QED BY <1>6, <2>1
<1>8. D(L) = Holding(tb, base, c)
  BY DEF Holding
<1> HIDE DEF D
<1> QED
  BY <1>2, <1>3, <1>7, <1>8

LEMMA OffsetsEnds ==
  ASSUME NEW tb \in TableType
  PROVE  Offsets(tb)[1] = 0 /\ Offsets(tb)[Len(Windows(tb)) + 1] = Len(tb.chain)
  BY OffsetsFacts DEF Splits

\* What the current window makes of the record it began with.
LEMMA BaseFacts ==
  ASSUME TypeInv, Independent(table)
  PROVE  /\ IsRecord(Base)
         /\ IsResult(table, Records(table)[Offsets(table)[win + 1]], Base, Chain,
                     Holding(table, Base, Chain))
<1>1. table \in TableType /\ win \in 1..Len(Windows(table)) /\ Chain = Windows(table)[win].chain
  BY TableFacts DEF TypeInv, Chain, Wins
<1> DEFINE o == Offsets(table)[win]
<1>2. Base = Records(table)[o]
  BY DEF Base
<1> HIDE DEF o
<1>3. /\ Offsets(table)[win + 1] = o + Len(Chain) /\ IsRecord(Base)
      /\ IsResult(table, Records(table)[o + Len(Chain)], Base, Chain,
                  Holding(table, Base, Chain))
  BY <1>1, <1>2, WindowResult DEF o
<1> QED
  BY <1>3

\* A transformer that has not been called in this window, or has not finished,
\* reads what it would have read when the window began.
LEMMA ReadsFacts ==
  ASSUME TypeInv, Independent(table), WindowValues, NEW m \in 1..Len(Chain), m \notin Finished
  PROVE  /\ ReadBy(table, rec, Chain[m]) = ReadBy(table, Base, Chain[m])
         /\ Holds(table, rec, Chain[m]) <=> Holds(table, Base, Chain[m])
<1>1. /\ table \in TableType /\ win \in 1..Len(Windows(table)) /\ Chain = Windows(table)[win].chain
      /\ Chain[m] \in Transformer
  BY TableFacts DEF TypeInv, Chain, Wins
<1>2. IsResult(table, rec, Base, Chain, Finished)
  BY DEF WindowValues
<1>3. ASSUME NEW k \in Finished PROVE Apart(table, Chain[k], Chain[m])
  <2>1. k \in 1..Len(Chain) /\ k # m
    BY DEF Finished
  <2> QED BY <1>1, <2>1, IndependentFacts
<1> QED
  BY <1>1, <1>2, <1>3, ResultReads

\* An error is recorded for good, and a transformer that has failed ends with
\* one.
LEMMA FaithfulStep ==
  ASSUME TypeInv, ModeInv, TableNext
  PROVE  table' = table /\ (Faithful' => Faithful)
<1> USE DEF vars, mainVars, goVars, egVars, setup, cmdVars, lifeVars, pipeVars, execVars
<1>1. ASSUME UNCHANGED <<table, gs>>, err => err' PROVE table' = table /\ (Faithful' => Faithful)
  BY <1>1 DEF Faithful, Sound, Async
<1>2. CASE EndInit
  <2>1. UNCHANGED <<table, err>> /\ \A t \in Transformer : gs[t] # "failed"
    BY <1>2 DEF EndInit, ModeInv
  <2> QED BY <2>1 DEF Faithful, Sound, Async
<1>3. ASSUME NEW t \in Transformer, Worker(t) PROVE table' = table /\ (Faithful' => Faithful)
  <2>1. /\ UNCHANGED table /\ (err => err')
        /\ \A u \in Transformer : u # t => gs'[u] = gs[u]
        /\ gs[t] = "failed" => err'
    BY <1>3 DEF Worker, Take, ReturnError, StopDone, StopCtx, Transformed, TransformFails, TypeInv
  <2> QED BY <2>1 DEF Faithful, Sound, Async
<1>4. ASSUME NEW t \in Custom, Encode(t) \/ OpEnds(t) \/ Heard(t) \/ Abandon(t) \/ Exit(t)
      PROVE  table' = table /\ (Faithful' => Faithful)
  <2>1. UNCHANGED <<table, gs, err>>
    BY <1>4 DEF Encode, OpEnds, Heard, Abandon, Exit
  <2> QED BY <1>1, <2>1
<1>5. CASE PutOk \/ PutFails
  <2>1. UNCHANGED <<table, gs>> /\ (err => err')
    BY <1>5 DEF PutOk, PutFails
  <2> QED BY <1>1, <2>1
<1>6. CASE CancelAll
  <2>1. UNCHANGED <<table, gs, err>>
    BY <1>6 DEF CancelAll, Cancel
  <2> QED BY <1>1, <2>1
<1>7. CASE InitFails \/ Return
  <2>1. UNCHANGED <<table, gs>> /\ (err => err')
    BY <1>7 DEF InitFails, Return, Done
  <2> QED BY <1>1, <2>1
<1>8. CASE InitTransformer \/ CleanUp \/ Panic \/ ReceiveRow \/ InWindow \/ SyncTransform
  <2>1. UNCHANGED <<table, gs, err>>
    BY <1>8 DEF InitTransformer, CleanUp, Panic, ReceiveRow, PlainRow, SyncRow, NextRow, Receive,
                InWindow, EvaluateWhen, Send, EndWindow, Wait, SyncTransform
  <2> QED BY <1>1, <2>1
<1>9. CASE WriteRow \/ StopAtLimit \/ CompleteDump \/ ProcessFails \/ SyncFails \/ CloseWriter
           \/ TerminateOne
  <2>1. UNCHANGED <<table, gs, err>>
    BY <1>9 DEF WriteRow, Write, StopAtLimit, CompleteDump, EndRows, ProcessFails, MainFails,
                SyncFails, CloseWriter, TerminateOne
  <2> QED BY <1>1, <2>1
<1> QED
  BY <1>2, <1>3, <1>4, <1>5, <1>6, <1>7, <1>8, <1>9 DEF TableNext, Dumper

\* Steps that leave the window and its record alone.
LEMMA ValuesFrame ==
  ASSUME UNCHANGED <<table, win, rec, ch>>, Running' = Running
  PROVE  /\ Chain' = Chain /\ Pending' = Pending /\ Base' = Base
         /\ UNCHANGED <<pos>> => Finished' = Finished /\ Cur' = Cur
         /\ UNCHANGED <<pos, pc, read>> => WindowValues' = WindowValues
<1>1. Chain' = Chain /\ Pending' = Pending /\ Base' = Base
  BY DEF Chain, Wins, Pending, Base
<1>2. UNCHANGED <<pos>> => Finished' = Finished /\ Cur' = Cur
  BY <1>1 DEF Finished, Cur
<1>3. ASSUME UNCHANGED <<pos, pc, read>> PROVE WindowValues' = WindowValues
  BY <1>1, <1>2, <1>3 DEF WindowValues
<1> QED
  BY <1>1, <1>2, <1>3

\* A step of a row, from the values it makes.
LEMMA RowFrame ==
  ASSUME RowInv, Faithful' => Faithful, UNCHANGED <<table, out, skipped>>,
         DOMAIN read' = Transformer,
         pc' \in {"when", "send", "wait", "sync"} => pc \in {"when", "send", "wait", "sync"},
         pc' = "write" /\ skipped => rec' = RawRecord,
         Faithful' /\ pc' = "write" /\ ~skipped => rec' = Sequentially(table),
         Faithful' /\ pc' = "sync" => rec' = Records(table)[pos' - 1],
         Faithful' /\ pc' \in {"when", "send", "wait"} => WindowValues'
  PROVE  RowInv'
  BY DEF RowInv

LEMMA RowStep ==
  ASSUME TypeInv, WindowInv, ModeInv, CountInv, RowInv, TableNext
  PROVE  RowInv'
<1> USE DEF vars, mainVars, goVars, egVars, setup, cmdVars, lifeVars, pipeVars, execVars
<1>0. /\ table' = table /\ (Faithful' => Faithful) /\ DOMAIN read = Transformer
      /\ table \in TableType /\ Len(table.chain) \in Nat /\ Len(Chain) \in Nat
      /\ pos \in Nat \ {0} /\ pos <= Len(table.chain) + 1
      /\ (Faithful /\ Async => Independent(table))
      /\ \A m, l \in 1..Len(Chain) : Chain[m] = Chain[l] => m = l
      /\ Range(Chain) = {Chain[m] : m \in 1..Len(Chain)}
      /\ \A m \in 1..Len(Chain) : Chain[m] \in Transformer
  BY FaithfulStep, TableFacts DEF RowInv, TypeInv, Faithful
<1>1. ASSUME UNCHANGED <<win, pos, pc, rec, ch, read, out, skipped>>, Running' = Running
      PROVE  RowInv'
  <2>1. WindowValues' = WindowValues
    BY <1>0, <1>1, ValuesFrame
  <2> QED BY <1>0, <1>1, <2>1, RowFrame DEF RowInv
<1>2. CASE InitTransformer \/ CleanUp \/ TerminateOne \/ CloseWriter \/ PutOk \/ PutFails \/ CancelAll
  <2>1. UNCHANGED <<win, pos, pc, rec, ch, read, out, skipped, gs>>
    BY <1>2 DEF InitTransformer, CleanUp, TerminateOne, CloseWriter, PutOk, PutFails,
                CancelAll, Cancel
  <2> QED BY <1>1, <2>1 DEF Running
<1>3. ASSUME NEW t \in Custom, Encode(t) \/ OpEnds(t) \/ Heard(t) \/ Abandon(t) \/ Exit(t)
      PROVE  RowInv'
  <2>1. UNCHANGED <<win, pos, pc, rec, ch, read, out, skipped, gs>>
    BY <1>3 DEF Encode, OpEnds, Heard, Abandon, Exit
  <2> QED BY <1>1, <2>1 DEF Running
<1>4. CASE EndInit \/ Panic \/ InitFails \/ StopAtLimit \/ CompleteDump \/ ProcessFails
           \/ SyncFails \/ Return
  <2>1. UNCHANGED <<out, skipped, read>> /\ pc' \notin {"when", "send", "wait", "sync", "write"}
    BY <1>4 DEF EndInit, Panic, InitFails, StopAtLimit, CompleteDump, EndRows, ProcessFails,
                MainFails, SyncFails, Return, Done
  <2> QED BY <1>0, <2>1 DEF RowInv
<1>5. CASE WriteRow
  <2>1. /\ UNCHANGED <<read>> /\ pc = "write" /\ pc' = "next"
        /\ out' = Append(out, [skipped |-> skipped, rec |-> rec])
    BY <1>5 DEF WriteRow, Write
  <2> DEFINE e == [skipped |-> skipped, rec |-> rec]
  <2>2. /\ Len(out) \in Nat /\ DOMAIN out = 1..Len(out) /\ DOMAIN out' = 1..(Len(out) + 1)
        /\ \A i \in 1..Len(out) : out'[i] = out[i]
        /\ out'[Len(out) + 1] = e
    BY <2>1, AppendFacts DEF CountInv
  <2>3. e.skipped = skipped /\ e.rec = rec
    OBVIOUS
  <2> HIDE DEF e
  <2>4. ASSUME Faithful', NEW i \in DOMAIN out'
        PROVE  out'[i].rec = IF out'[i].skipped THEN RawRecord ELSE Sequentially(table)
    <3>1. CASE i = Len(out) + 1
      BY <1>0, <2>1, <2>2, <2>3, <2>4, <3>1 DEF RowInv
    <3>2. CASE i # Len(out) + 1
      <4>1. i \in DOMAIN out
        BY <2>2, <2>4, <3>2
      <4> QED BY <1>0, <2>2, <2>4, <4>1 DEF RowInv
    <3> QED BY <3>1, <3>2
  <2> QED BY <1>0, <2>1, <2>4 DEF RowInv
<1>6. CASE ReceiveRow
  <2>1. /\ UNCHANGED <<out, read, ch, gs>> /\ pc = "next" /\ rec' = RawRecord /\ win' = 1 /\ pos' = 1
        /\ \/ pc' = "write" /\ skipped'
           \/ pc' \in {"sync", "when"} /\ ~skipped'
    BY <1>6 DEF ReceiveRow, PlainRow, SyncRow, NextRow, Receive
  <2>2. Records(table)[0] = RawRecord /\ IsRecord(RawRecord) /\ Offsets(table)[1] = 0
    <3>1. 0 \in 0..Len(table.chain)
      BY <1>0
    <3> QED BY <1>0, <3>1, RecordsFacts, OffsetsEnds
  <2>3. ASSUME pc' = "when" PROVE WindowValues'
    <3>1. Pending = {} /\ Pending' = {} /\ Running' = {}
      BY <2>1 DEF WindowInv, Pending, Running
    <3>2. Base' = RawRecord
      BY <1>0, <2>1, <2>2 DEF Base
    <3>3. Finished' = {}
      BY <2>1 DEF Finished
    <3>4. IsResult(table', rec', Base', Chain', Finished')
      BY <2>1, <2>2, <3>2, <3>3 DEF IsResult, IsRecord
    <3> QED BY <2>3, <3>1, <3>4 DEF WindowValues
  <2> QED BY <1>0, <2>1, <2>2, <2>3 DEF RowInv
<1>7. CASE SyncTransform
  <2>1. /\ UNCHANGED <<out, read, skipped>> /\ pc = "sync"
        /\ \/ pos > Len(table.chain) /\ pc' = "write" /\ UNCHANGED rec
           \/ /\ pos <= Len(table.chain) /\ pc' = "sync" /\ pos' = pos + 1
              /\ rec' = Applied(table, rec, Step)
    BY <1>7 DEF SyncTransform, Applied
  <2>2. pc' = "write" => pos - 1 = Len(table.chain)
    BY <1>0, <2>1
  <2>3. pc' = "write" /\ Faithful' => rec' = Sequentially(table)
    BY <1>0, <2>1, <2>2 DEF RowInv, Sequentially
  <2>4. pc' = "sync" /\ Faithful' => rec' = Records(table)[pos' - 1]
    <3> SUFFICES ASSUME pc' = "sync", Faithful' PROVE rec' = Records(table)[pos' - 1]
      OBVIOUS
    <3>1. /\ pos \in 1..Len(table.chain) /\ pos' - 1 = pos
          /\ rec' = Applied(table, rec, table.chain[pos]) /\ rec = Records(table)[pos - 1]
      BY <1>0, <2>1 DEF RowInv, Step
    <3> QED BY <1>0, <3>1, RecordsFacts
  <2> QED BY <1>0, <2>1, <2>3, <2>4, RowFrame DEF RowInv
\* In a window: what it relies on, and what remains to be shown.
<1>8. ASSUME pc \in {"when", "send", "wait"}, Faithful'
      PROVE  WindowValues /\ Independent(table) /\ Faithful
  BY <1>0, <1>8 DEF RowInv, ModeInv
<1>9. ASSUME pc \in {"when", "send", "wait"}, pc' \in {"when", "send", "wait"},
             UNCHANGED <<out, skipped>>, DOMAIN read' = Transformer, Faithful' => WindowValues'
      PROVE  RowInv'
  BY <1>0, <1>9, RowFrame
<1>10. CASE EvaluateWhen
  <2>1. /\ UNCHANGED <<table, win, rec, ch, gs, read, out, skipped>> /\ pc = "when"
        /\ pos \in 1..Len(Chain) /\ Cur = Chain[pos]
        /\ \/ Holds(table, rec, Cur) /\ pc' = "send" /\ pos' = pos
           \/ ~Holds(table, rec, Cur) /\ pc' = "when" /\ pos' = pos + 1
    BY <1>0, <1>10 DEF EvaluateWhen, Cur
  <2>2. Running' = Running /\ Chain' = Chain /\ Pending' = Pending /\ Base' = Base
    <3>1. Running' = Running
      BY <2>1 DEF Running
    <3> QED BY <2>1, <3>1, ValuesFrame
  <2>3. ASSUME Faithful' PROVE WindowValues'
    <3>1. WindowValues /\ Independent(table)
      BY <1>8, <2>1, <2>3
    <3>2. pos \notin Finished
      BY <1>0 DEF Finished
    <3>3. Holds(table, rec, Cur) <=> Holds(table, Base, Cur)
      BY <2>1, <3>1, <3>2, ReadsFacts
    <3>4. Finished' = Finished
      <4>1. \A m \in 1..Len(Chain) :
                m < pos' /\ Holds(table, Base, Chain[m]) <=> m < pos /\ Holds(table, Base, Chain[m])
        BY <1>0, <2>1, <3>3
      <4> QED BY <2>1, <2>2, <4>1 DEF Finished
    <3>5. pc' = "send" => Holds(table, Base, Cur')
      BY <2>1, <2>2, <3>3 DEF Cur
    <3>6. \A m \in 1..Len(Chain) :
             Chain[m] \in Pending => m < pos' /\ Holds(table, Base, Chain[m])
      BY <1>0, <2>1, <3>1 DEF WindowValues
    <3> QED BY <2>1, <2>2, <3>1, <3>4, <3>5, <3>6 DEF WindowValues
  <2> QED BY <1>0, <1>9, <2>1, <2>3
<1>11. CASE Send
  <2>1. /\ UNCHANGED <<table, win, rec, gs, read, out, skipped>> /\ pc = "send" /\ pc' = "when"
        /\ pos \in 1..Len(Chain) /\ Cur = Chain[pos] /\ pos' = pos + 1 /\ ch' = ch \cup {Cur}
    BY <1>0, <1>11 DEF Send, Cur, WindowInv
  <2>2. Running' = Running /\ Chain' = Chain /\ Pending' = Pending \cup {Cur} /\ Base' = Base
    BY <2>1 DEF Running, Chain, Wins, Pending, Base
  <2>3. ASSUME Faithful' PROVE WindowValues'
    <3>1. WindowValues /\ Independent(table) /\ Holds(table, Base, Cur)
      BY <1>8, <2>1, <2>3 DEF WindowValues
    <3>2. \A m \in 1..Len(Chain) : m # pos => Chain[m] # Cur
      BY <1>0, <2>1
    <3>3. Finished' = Finished
      <4>1. \A m \in 1..Len(Chain) :
                m < pos' /\ Chain[m] \notin Pending' <=> m < pos /\ Chain[m] \notin Pending
        BY <1>0, <2>1, <2>2, <3>2
      <4> QED BY <2>1, <2>2, <4>1 DEF Finished
    <3>4. \A m \in 1..Len(Chain) :
             Chain[m] \in Pending' => m < pos' /\ Holds(table, Base, Chain[m])
      BY <1>0, <2>1, <2>2, <3>1, <3>2 DEF WindowValues
    <3> QED BY <2>1, <2>2, <3>1, <3>3, <3>4 DEF WindowValues
  <2> QED BY <1>0, <1>9, <2>1, <2>3
<1>12. CASE EndWindow
  <2>1. /\ UNCHANGED <<table, win, pos, rec, ch, gs, read, out, skipped>> /\ pc = "when" /\ pc' = "wait"
    BY <1>12 DEF EndWindow
  <2>2. /\ Running' = Running /\ Chain' = Chain /\ Pending' = Pending /\ Base' = Base
        /\ Finished' = Finished
    <3>1. Running' = Running
      BY <2>1 DEF Running
    <3> QED BY <2>1, <3>1, ValuesFrame
  <2>3. ASSUME Faithful' PROVE WindowValues'
    <3>1. WindowValues
      BY <1>8, <2>1, <2>3
    <3> QED BY <2>1, <2>2, <3>1 DEF WindowValues
  <2> QED BY <1>0, <1>9, <2>1, <2>3
<1>13. CASE Wait
  <2>1. /\ UNCHANGED <<table, rec, ch, gs, read, out, skipped>> /\ pc = "wait" /\ wg = 0
        /\ \/ win < Len(Wins) /\ win' = win + 1 /\ pos' = 1 /\ pc' = "when"
           \/ ~(win < Len(Wins)) /\ pc' = "write" /\ UNCHANGED win
    BY <1>13 DEF Wait
  <2>2. Pending = {} /\ Pending' = {} /\ Running' = {} /\ pos = Len(Chain) + 1
    <3>1. Cardinality(Pending) = 0 /\ pos = Len(Chain) + 1
      BY <2>1, PendingFacts DEF WindowInv
    <3>2. Pending = {}
      BY <3>1, PendingFacts, FS_EmptySet
    <3> QED BY <2>1, <3>1, <3>2 DEF Pending, Running
  <2>3. ~skipped
    BY <2>1 DEF RowInv
  <2>4. ASSUME Faithful' PROVE rec = Records(table)[Offsets(table)[win + 1]] /\ IsRecord(rec)
    <3>1. WindowValues /\ Independent(table)
      BY <1>8, <2>1, <2>4
    <3>2. Finished = Holding(table, Base, Chain)
      BY <1>0, <2>2 DEF Finished, Holding
    <3>3. IsResult(table, rec, Base, Chain, Holding(table, Base, Chain))
      BY <3>1, <3>2 DEF WindowValues
    <3>4. IsResult(table, Records(table)[Offsets(table)[win + 1]], Base, Chain,
                   Holding(table, Base, Chain))
      BY <3>1, BaseFacts
    <3>5. rec = Records(table)[Offsets(table)[win + 1]]
      BY <3>3, <3>4, ResultUnique
    <3> QED BY <3>3, <3>5 DEF IsResult, IsRecord
  <2>5. CASE pc' = "when"
    <3>1. ASSUME Faithful' PROVE WindowValues'
      <4>1. Base' = rec /\ IsRecord(rec)
        BY <2>1, <2>4, <2>5, <3>1 DEF Base
      <4>2. Finished' = {}
        BY <2>1, <2>5 DEF Finished
      <4>3. IsResult(table', rec', Base', Chain', Finished')
        BY <2>1, <4>1, <4>2 DEF IsResult, IsRecord
      <4> QED BY <2>1, <2>2, <2>5, <4>3 DEF WindowValues
    <3> QED BY <1>0, <1>9, <2>1, <2>5, <3>1
  <2>6. CASE pc' = "write"
    <3>1. win = Len(Windows(table))
      BY <2>1, <2>6, TableFacts DEF TypeInv, Wins
    <3>2. Faithful' => rec' = Sequentially(table)
      BY <1>0, <2>1, <2>4, <3>1, OffsetsEnds DEF Sequentially
    <3> QED BY <1>0, <2>1, <2>3, <2>6, <3>2 DEF RowInv
  <2> QED BY <2>1, <2>5, <2>6
<1>14. ASSUME NEW t \in Transformer, Take(t) PROVE RowInv'
  <2>1. /\ UNCHANGED <<table, win, pos, pc, rec, out, skipped>> /\ t \in ch /\ t \in Pending
        /\ ch' = ch \ {t} /\ gs' = [gs EXCEPT ![t] = "running"] /\ gs[t] = "idle"
        /\ read' = [read EXCEPT ![t] = ReadBy(table, rec, t)]
    BY <1>14 DEF Take, Pending
  <2>2. /\ Running' = Running \cup {t} /\ Pending' = Pending /\ DOMAIN read' = Transformer
        /\ t \notin Running
    BY <1>0, <2>1 DEF Running, Pending, TypeInv
  <2>3. Chain' = Chain /\ Base' = Base /\ Finished' = Finished /\ Cur' = Cur
    BY <2>1, <2>2 DEF Chain, Wins, Base, Finished, Cur
  <2>4. ASSUME pc \in {"when", "send", "wait"}, Faithful' PROVE WindowValues'
    <3>1. WindowValues /\ Independent(table)
      BY <1>8, <2>4
    <3>2. PICK m \in 1..Len(Chain) : t = Chain[m]
      BY <1>0, <2>1 DEF WindowInv
    <3>3. m \notin Finished
      BY <2>1, <3>2 DEF Finished
    <3>4. ReadBy(table, rec, t) = ReadBy(table, Base, t)
      BY <3>1, <3>2, <3>3, ReadsFacts
    <3>5. \A u \in Running' : read'[u] = ReadBy(table, Base, u)
      BY <1>0, <2>1, <2>2, <3>1, <3>4 DEF WindowValues, Running
    <3> QED BY <2>1, <2>2, <2>3, <3>1, <3>5 DEF WindowValues
  <2> QED BY <1>0, <2>1, <2>2, <2>4, RowFrame DEF RowInv
<1>15. ASSUME NEW t \in Transformer, Transformed(t) PROVE RowInv'
  <2>1. /\ UNCHANGED <<table, win, pos, pc, ch, out, skipped>> /\ gs[t] = "running"
        /\ rec' = Written(table, rec, t, read[t]) /\ gs' = [gs EXCEPT ![t] = "idle"]
        /\ read' = [read EXCEPT ![t] = {}]
    BY <1>15 DEF Transformed
  <2>2. /\ t \in Running /\ t \in Pending /\ Running' = Running \ {t}
        /\ Pending' = Pending \ {t} /\ DOMAIN read' = Transformer
    BY <1>0, <2>1 DEF Running, Pending, TypeInv, WindowInv
  <2>3. Chain' = Chain /\ Base' = Base /\ Cur' = Cur
    BY <2>1 DEF Chain, Wins, Base, Cur
  <2>4. pc \notin {"write", "sync"}
    BY <2>2 DEF WindowInv
  <2>5. ASSUME pc \in {"when", "send", "wait"}, Faithful' PROVE WindowValues'
    <3>1. WindowValues /\ Independent(table)
      BY <1>8, <2>5
    <3>2. PICK m \in 1..Len(Chain) : t = Chain[m]
      BY <1>0, <2>2 DEF WindowInv
    <3>3. /\ m \notin Finished /\ m < pos /\ Holds(table, Base, Chain[m])
          /\ read[t] = ReadBy(table, Base, t)
      BY <2>2, <3>1, <3>2 DEF WindowValues, Finished
    <3>4. Finished' = Finished \cup {m}
      <4>1. \A k \in 1..Len(Chain) : Chain[k] \notin Pending' <=> Chain[k] \notin Pending \/ k = m
        BY <1>0, <2>2, <3>2
      <4> QED BY <2>1, <2>3, <3>2, <3>3, <4>1 DEF Finished
    <3>5. IsResult(table, rec', Base, Chain, Finished \cup {m})
      <4>1. IsResult(table, rec, Base, Chain, Finished) /\ Finished \subseteq 1..Len(Chain)
        BY <3>1 DEF WindowValues, Finished
      <4>2. \A k, l \in 1..Len(Chain) :
                k # l => Writes(table, Chain[k]) \cap Writes(table, Chain[l]) = {}
        BY TableFacts
      <4>3. rec' = Written(table, rec, Chain[m], ReadBy(table, Base, Chain[m]))
        BY <2>1, <3>2, <3>3
      <4> QED BY <1>0, <3>3, <4>1, <4>2, <4>3, ResultAdd
    <3>6. \A u \in Running' : read'[u] = ReadBy(table, Base, u)
      BY <1>0, <2>1, <2>2, <3>1 DEF WindowValues, Running
    <3> QED BY <2>1, <2>2, <2>3, <3>1, <3>4, <3>5, <3>6 DEF WindowValues
  <2> QED BY <1>0, <2>1, <2>2, <2>4, <2>5, RowFrame DEF RowInv
<1>16. ASSUME NEW t \in Transformer, TransformFails(t) \/ ReturnError(t) \/ StopCtx(t)
       PROVE  RowInv'
  <2>1. /\ UNCHANGED <<table, pc, rec, out, skipped>> /\ DOMAIN read' = DOMAIN read
        /\ gs'[t] = "failed" \/ err'
    BY <1>16 DEF TransformFails, ReturnError, StopCtx, TypeInv
  <2>2. ~Faithful'
    BY <2>1 DEF Faithful, Sound
  <2> QED BY <1>0, <2>1, <2>2 DEF RowInv
<1>17. ASSUME NEW t \in Transformer, StopDone(t) PROVE RowInv'
  <2>1. /\ UNCHANGED <<table, win, pos, pc, rec, ch, read, out, skipped>>
        /\ gs[t] = "idle" /\ gs' = [gs EXCEPT ![t] = "gone"]
    BY <1>17 DEF StopDone
  <2>2. Running' = Running
    BY <2>1 DEF Running, TypeInv
  <2> QED BY <1>1, <2>1, <2>2
<1> QED
  BY <1>2, <1>3, <1>4, <1>5, <1>6, <1>7, <1>10, <1>11, <1>12, <1>13, <1>14, <1>15, <1>16, <1>17
     DEF TableNext, Dumper, InWindow, Worker

-----------------------------------------------------------------------------
(* Theorems *)

LEMMA InvariantInit == TableInit => Inv
<1> SUFFICES ASSUME TableInit PROVE Inv
  OBVIOUS
<1> USE DEF TableInit
<1>1. /\ table \in Tables /\ table \in TableType /\ validate \in BOOLEAN
      /\ Len(Wins) \in Nat \ {0} /\ Len(table.chain) \in Nat
  BY DumpAssumption, PipelineAssumption, WindowFacts, ChainFacts DEF Wins
<1>2. TypeInv
  <2>1. /\ rows \in 0..MaxRows /\ win \in 1..Len(Wins) /\ pos \in 1..(Len(table.chain) + 1)
        /\ at \in 1..(Len(table.chain) + 1)
    BY <1>1, PipelineAssumption
  <2>2. /\ gs \in [Transformer -> {"idle", "running", "failed", "gone"}]
        /\ life \in [Transformer -> {"new", "ready", "broken", "done", "left"}]
    OBVIOUS
  <2>3. /\ proc \in [Custom -> {"none", "up", "told", "exited"}]
        /\ call \in [Custom -> {"none", "encode", "decode", "back", "failed"}]
        /\ ops \in [Custom -> SUBSET OpType]
    OBVIOUS
  <2>4. {validate, skipped, done, ctxDone, err, doneErr, wclosed, term} \subseteq BOOLEAN
    BY <1>1
  <2>5. /\ pc \in {"init", "cleanup", "panicked", "next", "when", "send", "wait", "sync",
                   "write", "closing", "failing", "returned"}
        /\ ch \subseteq Transformer /\ put \in {"reading", "ok", "failed"}
    OBVIOUS
  <2> QED BY <1>1, <2>1, <2>2, <2>3, <2>4, <2>5 DEF TypeInv
<1>3. Running = {} /\ Pending = {} /\ Cardinality({}) = 0
  BY FS_EmptySet DEF Running, Pending
<1>4. WindowInv
  BY <1>1, <1>3 DEF WindowInv
<1>5. ModeInv
  BY DEF ModeInv
<1>6. LifeInv
  <2>1. \A i \in 1..Len(table.chain) : table.chain[i] \in Transformer
    BY <1>1, ChainFacts
  <2> QED BY <1>1, <2>1 DEF LifeInv
<1>7. ProcInv
  BY DEF ProcInv
<1>8. CallInv
  BY DEF CallInv, CallOf
<1>9. CountInv
  <2>1. out \in Seq(Range(out)) /\ Len(out) = 0
    OBVIOUS
  <2> QED BY <2>1 DEF CountInv, Ending
<1>10. RowInv
  BY DEF RowInv
<1> QED
  BY <1>2, <1>4, <1>5, <1>6, <1>7, <1>8, <1>9, <1>10 DEF Inv

LEMMA InvariantStep == Inv /\ [TableNext]_allVars => Inv'
<1> SUFFICES ASSUME Inv, [TableNext]_allVars PROVE Inv'
  OBVIOUS
<1>1. CASE TableNext
  BY <1>1, TypeStep, WindowStep, ModeStep, LifeStep, ProcStep, CallStep, CountStep, RowStep DEF Inv
<1>2. CASE UNCHANGED allVars
  <2> USE <1>2 DEF allVars, vars, mainVars, goVars, egVars, execVars, setup, cmdVars, lifeVars,
                   pipeVars
  <2>1. /\ Running' = Running /\ Pending' = Pending /\ Chain' = Chain /\ Wins' = Wins
        /\ Async' = Async /\ Plain' = Plain
    BY DEF Running, Pending, Chain, Wins, Async, Plain
  <2>2. TypeInv' /\ WindowInv' /\ ModeInv'
    BY <2>1 DEF Inv, TypeInv, WindowInv, ModeInv
  <2>3. LifeInv' /\ ProcInv'
    BY DEF Inv, LifeInv, ProcInv, Ready, Terminated
  <2>4. CallInv'
    BY <2>1 DEF Inv, CallInv, CallOf, Calling, SyncIn, Step, Over
  <2>5. CountInv'
    BY <2>1 DEF Inv, CountInv, Ending
  <2>6. RowInv'
    <3>1. WindowValues' = WindowValues /\ Faithful' = Faithful
      BY <2>1, ValuesFrame DEF Faithful, Sound
    <3> QED BY <3>1 DEF Inv, RowInv
  <2> QED BY <2>2, <2>3, <2>4, <2>5, <2>6 DEF Inv
<1> QED
  BY <1>1, <1>2

\* The inductive invariant holds of the dump of every table.
THEOREM TableInvariant == TableSpec => []Inv
<1> QED
  BY InvariantInit, InvariantStep, PTL DEF TableSpec

\* Every variable of the dump of a table has its type.
THEOREM TableTypeCorrect == TableSpec => []TableTypeOK
<1>1. Inv => TableTypeOK
  <2> SUFFICES ASSUME Inv PROVE TableTypeOK
    OBVIOUS
  <2>1. \A t \in Custom : Cardinality(ops[t]) <= 1
    <3> TAKE t \in Custom
    <3>1. ops[t] = {} \/ \E o : ops[t] = {o}
      BY DEF Inv, CallInv, CallOf
    <3>2. \A o : Cardinality({o}) = 1
      BY FS_Singleton
    <3>3. Cardinality({}) = 0
      BY FS_EmptySet
    <3>4. CASE ops[t] = {}
      BY <3>3, <3>4
    <3>5. CASE \E o : ops[t] = {o}
      <4>1. PICK o : ops[t] = {o}
        BY <3>5
      <4>2. Cardinality(ops[t]) = 1
        BY <3>2, <4>1
      <4> QED BY <4>2
    <3> QED BY <3>1, <3>4, <3>5
  <2>2. Len(out) <= rows /\ echoed <= rows /\ wg \in 0..Len(table.chain)
    BY DEF Inv, CountInv, WindowInv, TypeInv
  <2> QED BY <2>1, <2>2 DEF Inv, TypeInv, TableTypeOK
<1> QED
  BY <1>1, TableInvariant, PTL

\* When a row is received or written, and when the transformers of a dump
\* without error are terminated, nothing works on the record any more: the
\* WaitGroup of each window was waited for.  In between, the transformers that
\* run together change different columns.
THEOREM RecordOwned == TableSpec => []RecordIsOwned
<1>1. Inv => RecordIsOwned
  <2> SUFFICES ASSUME Inv PROVE RecordIsOwned
    OBVIOUS
  <2>1. ASSUME pc \in {"next", "write", "closing"}
        PROVE  /\ ch = {} /\ wg = 0
               /\ \A t \in Transformer : gs[t] # "running"
               /\ \A t \in Range(table.chain) :
                      life[t] = "ready" \/ (pc = "closing" /\ life[t] = "done")
    <3>1. Pending = {}
      BY <2>1 DEF Inv, WindowInv
    <3>2. wg = 0
      <4>1. wg = Cardinality(Pending) + (IF pc = "send" THEN 1 ELSE 0)
        BY <2>1 DEF Inv, WindowInv
      <4>2. wg = Cardinality(Pending) + 0
        BY <2>1, <4>1
      <4>3. Cardinality(Pending) = 0
        BY <3>1, FS_EmptySet
      <4> QED BY <4>2, <4>3
    <3>3. ch = {} /\ \A t \in Transformer : gs[t] # "running"
      BY <3>1 DEF Pending, Running
    <3>4. \A t \in Range(table.chain) :
              life[t] = "ready" \/ (pc = "closing" /\ life[t] = "done")
      BY <2>1 DEF Inv, LifeInv
    <3> QED BY <3>2, <3>3, <3>4
  <2>2. ASSUME NEW t \in Transformer, NEW u \in Transformer, t # u,
               gs[t] = "running", gs[u] = "running"
        PROVE  Writes(table, t) \cap Writes(table, u) = {}
    <3>1. /\ Range(Chain) = {Chain[m] : m \in 1..Len(Chain)}
          /\ \A m, l \in 1..Len(Chain) :
                m # l => Writes(table, Chain[m]) \cap Writes(table, Chain[l]) = {}
      BY TableFacts DEF Inv
    <3>2. t \in Range(Chain) /\ u \in Range(Chain)
      BY <2>2 DEF Inv, WindowInv, Pending, Running
    <3>3. PICK m \in 1..Len(Chain) : t = Chain[m]
      BY <3>1, <3>2
    <3>4. PICK l \in 1..Len(Chain) : u = Chain[l]
      BY <3>1, <3>2
    <3> QED BY <2>2, <3>1, <3>3, <3>4
  <2> QED BY <2>1, <2>2 DEF RecordIsOwned
<1> QED
  BY <1>1, TableInvariant, PTL

\* The caller of a program hears its own goroutine: one that a timeout has left
\* behind is never there when a later row is encoded or decoded.
THEOREM AnswerOwn == TableSpec => []AnswerIsOwn
<1>1. Inv => AnswerIsOwn
  BY DEF Inv, CallInv, CallOf, AnswerIsOwn
<1> QED
  BY <1>1, TableInvariant, PTL

\* Execute returns no error only if the object in the storage has every row the
\* server sent, transformed as the transformers would one after another, and the
\* end of the data.
THEOREM OkWhole == TableSpec => []OkIsWhole
<1>1. Inv => OkIsWhole
  <2> SUFFICES ASSUME Inv, Returned, ~err, Async => Independent(table)
               PROVE  /\ RowsAre(table)
                      /\ object = [rows |-> out, term |-> ~(validate /\ rows = Limit)]
                      /\ validate /\ ~Plain => echoed = rows
    BY DEF OkIsWhole
  <2>1. pc = "returned" /\ put # "reading" /\ \A t \in Transformer : gs[t] = "gone"
    BY DEF Returned, Ended
  <2>2. Ending /\ Faithful
    BY <2>1 DEF Ending, Faithful, Sound
  <2>3. /\ Len(out) = rows /\ put = "ok" /\ term = ~(validate /\ rows = Limit)
        /\ object = [rows |-> out, term |-> term] /\ (validate /\ ~Plain => echoed = rows)
    BY <2>1, <2>2 DEF Inv, CountInv, TypeInv
  <2>4. RowsAre(table)
    BY <2>2, <2>3 DEF Inv, RowInv, RowsAre
  <2> QED BY <2>3, <2>4
<1> QED
  BY <1>1, TableInvariant, PTL

\* No program of a transformer outlives Execute, but the last one after an Init
\* that has failed, and those of such an Init that are not waited for.
THEOREM ProgramsReaped == TableSpec => []ProgramsAreReaped
<1>1. Inv => ProgramsAreReaped
  BY DEF Inv, ProcInv, ProgramsAreReaped, Returned, Ended, Last
<1> QED
  BY <1>1, TableInvariant, PTL
=============================================================================
