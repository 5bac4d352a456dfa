------------------------------- MODULE Ranks -------------------------------
(***************************************************************************)
(* Finite sets of natural numbers, as the proofs need them: each element   *)
(* has a rank, and every rank below the cardinality is somebody's.  From   *)
(* that follow the least and the greatest element, and with them induction *)
(* over the natural numbers, stated for sets.                              *)
(***************************************************************************)
EXTENDS Integers, FiniteSets, FiniteSetTheorems, TLAPS

(* How many elements come before u. *)
Rank(S, u) == Cardinality({v \in S : v < u})

(* Smaller elements have smaller ranks, and no rank is left out.           *)
LEMMA Ranked ==
    ASSUME NEW S \in SUBSET Nat, IsFiniteSet(S)
    PROVE  /\ Cardinality(S) \in Nat
           /\ \A u \in S : Rank(S, u) \in 0 .. Cardinality(S) - 1
           /\ \A u, w \in S : u < w => Rank(S, u) < Rank(S, w)
           /\ \A k \in 0 .. Cardinality(S) - 1 : \E u \in S : Rank(S, u) = k
<1> DEFINE n == Cardinality(S)
           rank == [u \in S |-> Rank(S, u)]
<1>1. n \in Nat /\ S \subseteq Nat
  BY FS_CardinalityType
<1>2. ASSUME NEW u \in S
      PROVE  IsFiniteSet({v \in S : v < u}) /\ rank[u] \in 0 .. n - 1
  <2>1. {v \in S : v < u} \subseteq S \ {u}
    BY <1>1
  <2>2. IsFiniteSet(S \ {u}) /\ Cardinality(S \ {u}) = n - 1
    BY <1>1, FS_RemoveElement
  <2>3. IsFiniteSet({v \in S : v < u}) /\ Cardinality({v \in S : v < u}) <= n - 1
    BY <2>1, <2>2, FS_Subset
  <2> QED
    BY <1>1, <2>3, FS_CardinalityType DEF Rank
<1>3. ASSUME NEW u \in S, NEW w \in S, u < w
      PROVE  rank[u] < rank[w]
  <2> DEFINE A == {v \in S : v < u}
             B == {v \in S : v < w}
  <2>1. IsFiniteSet(A) /\ IsFiniteSet(B)
    BY <1>2
  <2>2a. u \in B /\ u \notin A
    BY <1>1, <1>3
  <2>2b. ASSUME NEW v \in S, v < u
         PROVE  v < w
    <3> v \in Nat /\ u \in Nat /\ w \in Nat
      BY <1>1
    <3> HIDE DEF n, rank, A, B
    <3> QED
      BY <1>3, <2>2b
  <2>2. A \cup {u} \subseteq B /\ u \notin A
    BY <2>2a, <2>2b
  <2> HIDE DEF A, B
  <2>3. Cardinality(A \cup {u}) = Cardinality(A) + 1
    BY <2>1, <2>2, FS_AddElement
  <2>4. Cardinality(A \cup {u}) <= Cardinality(B)
    BY <2>1, <2>2, FS_Subset
  <2>5. Cardinality(A) \in Nat /\ Cardinality(B) \in Nat
    BY <2>1, FS_CardinalityType
  <2> QED
    BY <2>3, <2>4, <2>5 DEF A, B, Rank
<1>4. rank \in Injection(S, 0 .. n - 1)
  <2>1. rank \in [S -> 0 .. n - 1]
    BY <1>2
  <2> HIDE DEF rank, n
  <2>2. ASSUME NEW u \in S, NEW w \in S, u # w
        PROVE  rank[u] # rank[w]
    <3>1. u < w \/ w < u
      BY <1>1, <2>2
    <3>2. rank[u] \in Int /\ rank[w] \in Int
      BY <1>1, <2>1
    <3> QED
      BY <1>3, <3>1, <3>2
  <2> QED
    BY <2>1, <2>2 DEF Injection, IsInjective
<1>5. rank \in Surjection(S, 0 .. n - 1)
  <2>0. Cardinality(S) = n
    OBVIOUS
  <2> HIDE DEF rank, n
  <2>1. IsFiniteSet(0 .. n - 1) /\ Cardinality(0 .. n - 1) = n
    <3>1. 0 \in Int /\ n - 1 \in Int
      BY <1>1
    <3>2. (IF 0 > n - 1 THEN 0 ELSE n - 1 - 0 + 1) = n
      BY <1>1
    <3> QED
      BY <3>1, <3>2, FS_Interval, Zenon
  <2> QED
    BY <1>4, <2>0, <2>1, FS_Injection
<1>6. \A k \in 0 .. n - 1 : \E u \in S : rank[u] = k
  <2> HIDE DEF rank, n
  <2> QED
    BY <1>5 DEF Surjection
<1>7. \A u \in S : rank[u] = Rank(S, u)
  OBVIOUS
<1>8. \A u \in S : rank[u] \in 0 .. n - 1
  BY <1>2
<1> HIDE DEF rank
<1> QED
  BY <1>1, <1>3, <1>6, <1>7, <1>8

(* The least element. *)
LEMMA Least ==
    ASSUME NEW S \in SUBSET Nat, S # {}
    PROVE  \E x \in S : \A y \in S : x <= y
<1>1. PICK m \in S : TRUE
  OBVIOUS
<1> DEFINE T == S \cap 0 .. m
<1>2. IsFiniteSet(T) /\ T \in SUBSET Nat /\ m \in T
  <2>1. IsFiniteSet(0 .. m)
    BY FS_Interval
  <2> QED
    BY <2>1, FS_Subset
<1> HIDE DEF T
<1>3. Cardinality(T) \in Nat \ {0}
  BY <1>2, FS_CardinalityType, FS_EmptySet
<1>4. PICK x \in T : Rank(T, x) = 0
  <2>1. 0 \in 0 .. Cardinality(T) - 1
    BY <1>3
  <2> QED
    BY <1>2, <2>1, Ranked
<1>5. {v \in T : v < x} = {}
  <2>1. IsFiniteSet({v \in T : v < x})
    BY <1>2, FS_Subset
  <2> QED
    BY <1>4, <2>1, FS_EmptySet DEF Rank
<1>6. \A y \in T : x <= y
  BY <1>2, <1>5
<1>7. \A y \in S : y \notin T => m < y
  BY DEF T
<1>8. x \in S /\ x <= m
  BY DEF T
<1> QED
  BY <1>6, <1>7, <1>8

(* The greatest element. *)
LEMMA Greatest ==
    ASSUME NEW S \in SUBSET Nat, IsFiniteSet(S), S # {}
    PROVE  \E x \in S : \A y \in S : y <= x
<1> DEFINE n == Cardinality(S)
<1>1. n \in Nat \ {0}
  BY FS_CardinalityType, FS_EmptySet
<1>2. PICK x \in S : Rank(S, x) = n - 1
  <2>1. n - 1 \in 0 .. n - 1
    BY <1>1
  <2> QED
    BY <2>1, Ranked
<1> HIDE DEF n
<1>3. \A y \in S : ~ (x < y)
  <2> SUFFICES ASSUME NEW y \in S, x < y
               PROVE  FALSE
    OBVIOUS
  <2>1. Rank(S, x) < Rank(S, y) /\ Rank(S, y) \in 0 .. n - 1
    BY Ranked DEF n
  <2> QED
    BY <1>1, <1>2, <2>1
<1> QED
  BY <1>3

(* What holds of 0, and of n + 1 if of n, holds of all natural numbers.    *)
LEMMA Induction ==
    ASSUME NEW P \in SUBSET Nat, 0 \in P, \A n \in P : n + 1 \in P
    PROVE  P = Nat
<1> SUFFICES ASSUME Nat \ P # {}
             PROVE  FALSE
  OBVIOUS
<1>1. PICK x \in Nat \ P : \A y \in Nat \ P : x <= y
  <2>1. Nat \ P \in SUBSET Nat
    OBVIOUS
  <2> QED
    BY <2>1, Least
<1>2. x # 0 /\ x - 1 \in Nat
  BY <1>1
<1>3. x - 1 \in P
  BY <1>1, <1>2
<1> QED
  BY <1>1, <1>2, <1>3

(* The first m steps of f, from base, are those that Step takes.           *)
StepwiseFrom(f, base, Step, m) ==
    /\ f[0] = base
    /\ \A i \in 1 .. m : f[i] = Step[<<f[i - 1], i>>]

(* A function can be defined step by step.                                 *)
LEMMA Recursion ==
    ASSUME NEW S, NEW base \in S, NEW Step \in [S \X Nat -> S], NEW m \in Nat
    PROVE  \E f \in [0 .. m -> S] : StepwiseFrom(f, base, Step, m)
<1> USE DEF StepwiseFrom
<1> DEFINE Defined(n, f) == StepwiseFrom(f, base, Step, n)
           P == {n \in Nat : \E f \in [0 .. n -> S] : Defined(n, f)}
<1>1. 0 \in P
  <2>1. [i \in 0 .. 0 |-> base] \in [0 .. 0 -> S]
    OBVIOUS
  <2>2. Defined(0, [i \in 0 .. 0 |-> base])
    OBVIOUS
  <2> QED
    BY <2>1, <2>2
<1>2. ASSUME NEW n \in P
      PROVE  n + 1 \in P
  <2>1. n \in Nat
    OBVIOUS
  <2>2. PICK f \in [0 .. n -> S] : Defined(n, f)
    OBVIOUS
  <2> DEFINE next == Step[<<f[n], n + 1>>]
             g == [i \in 0 .. n + 1 |-> IF i = n + 1 THEN next ELSE f[i]]
  <2>3. next \in S
    <3>1. f[n] \in S
      BY <2>1
    <3> QED
      BY <2>1, <3>1
  <2> HIDE DEF next
  <2>4. g \in [0 .. n + 1 -> S]
    BY <2>1, <2>3
  <2>5. /\ g[n + 1] = next
        /\ \A i \in 0 .. n : g[i] = f[i]
    BY <2>1
  <2> HIDE DEF g
  <2>6. g[0] = base
    BY <2>1, <2>2, <2>5
  <2>7. ASSUME NEW i \in 1 .. n + 1
        PROVE  g[i] = Step[<<g[i - 1], i>>]
    <3>1. CASE i = n + 1
      <4>1. i - 1 = n /\ n \in 0 .. n
        BY <2>1, <3>1
      <4>2. g[i] = next /\ g[i - 1] = f[n]
        BY <2>5, <3>1, <4>1
      <4> QED
        BY <3>1, <4>2 DEF next
    <3>2. CASE i # n + 1
      <4>1. i \in 1 .. n /\ i \in 0 .. n /\ i - 1 \in 0 .. n
        BY <2>1, <3>2
      <4> QED
        BY <2>2, <2>5, <4>1
    <3> QED
      BY <3>1, <3>2
  <2>8. Defined(n + 1, g)
    BY <2>6, <2>7
  <2> QED
    BY <2>1, <2>4, <2>8
<1>3. P = Nat
  <2>1. P \in SUBSET Nat
    OBVIOUS
  <2> HIDE DEF P
  <2> QED
    BY <1>1, <1>2, <2>1, Induction
<1> QED
  BY <1>3
=============================================================================
