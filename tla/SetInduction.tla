---------------------------- MODULE SetInduction ----------------------------
(***************************************************************************)
(* Induction stated with sets in the place of predicates, as the proofs of *)
(* the other modules use it: a set of naturals that holds 0 and with each  *)
(* number the next one holds them all, and a non-empty finite set of       *)
(* naturals has a least and a greatest element.                            *)
(***************************************************************************)
EXTENDS Integers, FiniteSets, FiniteSetTheorems, WellFoundedInduction, TLAPS

\* A set of naturals has a least element.
LEMMA LeastExists ==
  ASSUME NEW S, S \subseteq Nat, S # {}
  PROVE  \E x \in S : \A y \in S : x <= y
<1>1. IsWellFoundedOn(OpToRel(<, Nat), Nat)
  BY NatLessThanWellFounded
<1>2. PICK x \in S : \A y \in S : ~(<<y, x>> \in OpToRel(<, Nat))
  BY <1>1, WFMin
<1>3. ASSUME NEW y \in S PROVE x <= y
  <2>1. ~(y < x)
    BY <1>2, <1>3 DEF OpToRel
  <2> QED BY <2>1
<1> QED BY <1>3

\* Induction over the naturals.
LEMMA NatSetInduction ==
  ASSUME NEW S, 0 \in S, \A n \in Nat : n \in S => n + 1 \in S
  PROVE  Nat \subseteq S
<1> DEFINE T == Nat \ S
<1> SUFFICES ASSUME T # {} PROVE FALSE
  OBVIOUS
<1>1. PICK x \in T : \A y \in T : x <= y
  BY LeastExists
<1>2. x # 0 /\ x - 1 \in Nat
  OBVIOUS
<1>3. x - 1 \in S
  BY <1>1, <1>2
<1> QED BY <1>2, <1>3

\* Induction over the subsets of a finite set, by their size.
LEMMA SubsetInduction ==
  ASSUME NEW S, IsFiniteSet(S), NEW P, {} \in P,
         \A T \in SUBSET S : T # {} /\ (\A U \in SUBSET T : U # T => U \in P) => T \in P
  PROVE  S \in P
<1> DEFINE Q == {n \in Nat : \A T \in SUBSET S : Cardinality(T) <= n => T \in P}
<1>1. \A T \in SUBSET S : IsFiniteSet(T) /\ Cardinality(T) \in Nat
  BY FS_Subset, FS_CardinalityType
<1>2. 0 \in Q
  <2> SUFFICES ASSUME NEW T \in SUBSET S, Cardinality(T) <= 0 PROVE T \in P
    OBVIOUS
  <2>1. T = {}
    BY <1>1, FS_EmptySet
  <2> QED BY <2>1
<1>3. ASSUME NEW n \in Nat, n \in Q PROVE n + 1 \in Q
  <2> SUFFICES ASSUME NEW T \in SUBSET S, Cardinality(T) <= n + 1 PROVE T \in P
    OBVIOUS
  <2>1. ASSUME NEW U \in SUBSET T, U # T PROVE U \in P
    <3>1. Cardinality(U) <= Cardinality(T) /\ Cardinality(T) # Cardinality(U)
      BY <1>1, <2>1, FS_Subset
    <3>2. Cardinality(U) <= n /\ U \in SUBSET S
      BY <1>1, <3>1
    <3> QED BY <1>3, <3>2
  <2> QED BY <2>1
<1>4. Nat \subseteq Q
  <2> HIDE DEF Q
  <2> QED BY <1>2, <1>3, NatSetInduction
<1>5. Cardinality(S) \in Q /\ Cardinality(S) <= Cardinality(S)
  BY <1>1, <1>4
<1> QED
  BY <1>5

\* A finite set of naturals has a greatest element.
LEMMA GreatestExists ==
  ASSUME NEW S, IsFiniteSet(S), S \subseteq Nat, S # {}
  PROVE  \E x \in S : \A y \in S : y <= x
<1> DEFINE P == {T \in SUBSET S : T # {} => \E x \in T : \A y \in T : y <= x}
<1>1. {} \in P
  OBVIOUS
<1>2. ASSUME NEW T \in SUBSET S, T # {}, \A U \in SUBSET T : U # T => U \in P
      PROVE  T \in P
  <2>1. PICK z \in T : TRUE
    BY <1>2
  <2>2. CASE T = {z}
    BY <2>2
  <2>3. CASE T # {z}
    <3>1. T \ {z} \in P /\ T \ {z} # {}
      BY <1>2, <2>1, <2>3
    <3>2. PICK x \in T \ {z} : \A y \in T \ {z} : y <= x
      BY <3>1
    <3>3. CASE z <= x
      BY <3>2, <3>3
    <3>4. CASE ~(z <= x)
      <4>1. \A y \in T : y <= z
        BY <3>2, <3>4
      <4> QED BY <4>1
    <3> QED BY <3>3, <3>4
  <2> QED BY <2>2, <2>3
<1>3. S \in P
  <2> HIDE DEF P
  <2> QED BY <1>1, <1>2, SubsetInduction
<1> QED
  BY <1>3
=============================================================================
