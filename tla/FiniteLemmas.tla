---------------------------- MODULE FiniteLemmas ----------------------------
(***************************************************************************)
(* Lemmas about finite sets that several of the proofs need: the least and *)
(* the greatest element of a set of numbers, and the folds of the          *)
(* community modules, of which the library states no theorem.              *)
(***************************************************************************)
EXTENDS FiniteSetsExt, FiniteSetTheorems, WellFoundedInduction, TLAPS

(* Least and greatest elements of sets of numbers.                         *)
LEMMA Least ==
    ASSUME NEW T, T \subseteq Nat, T # {}
    PROVE  \E x \in T : \A y \in T : x <= y
<1> DEFINE R == OpToRel(<, Nat)
<1>1. IsWellFoundedOn(R, Nat)
  BY NatLessThanWellFounded
<1>2. \E x \in T : \A y \in T : ~ (<<y, x>> \in R)
  <2> HIDE DEF R
  <2> QED BY <1>1, WFMin
<1>3. ASSUME NEW x \in T, NEW y \in T, ~ (<<y, x>> \in R)
      PROVE  x <= y
  BY <1>3, SMT DEF OpToRel
<1> HIDE DEF R
<1> QED BY <1>2, <1>3

LEMMA Greatest ==
    ASSUME NEW n \in Nat, NEW T, T \subseteq 0 .. n, T # {}
    PROVE  Max(T) \in T /\ \A y \in T : y <= Max(T)
<1> DEFINE U == {n - x : x \in T}
<1>1. U \subseteq Nat /\ U # {}
  <2>1. \A x \in T : n - x \in Nat /\ n - x \in U
    OBVIOUS
  <2>2. \A u \in U : \E x \in T : u = n - x
    OBVIOUS
  <2> HIDE DEF U
  <2> QED BY <2>1, <2>2
<1>2. PICK u \in U : \A y \in U : u <= y
  BY <1>1, Least
<1>3. PICK x \in T : u = n - x
  OBVIOUS
<1>4. \A y \in T : x >= y
  <2>1. \A y \in T : n - y \in U
    OBVIOUS
  <2>2. \A y \in T : n - x <= n - y
    BY <1>2, <1>3, <2>1
  <2> QED BY <2>2
<1> QED BY <1>4 DEF Max

-----------------------------------------------------------------------------
(* Folds over finite sets: that the function exists which FoldSet() means, *)
(* and that the values stay in a set that each turn keeps.                 *)
Pick(s) == CHOOSE x \in s : TRUE

Folds(f, S, b, G) ==
    \A s \in SUBSET S : f[s] = IF s = {} THEN b ELSE G[<<Pick(s), f[s \ {Pick(s)}]>>]

LEMMA Picked == ASSUME NEW S, NEW s \in SUBSET S, s # {} PROVE Pick(s) \in s /\ s \ {Pick(s)} \in SUBSET S
BY DEF Pick

(* Induction on the size of the subsets of a finite set.                   *)
LEMMA SmallestSubset ==
    ASSUME NEW S, IsFiniteSet(S), NEW B, B \subseteq SUBSET S, B # {}
    PROVE  \E s \in B : \A x \in s : s \ {x} \notin B
<1> DEFINE T == {Cardinality(s) : s \in B}
<1>1. \A s \in B : IsFiniteSet(s) /\ Cardinality(s) \in Nat
  BY FS_Subset, FS_CardinalityType
<1>2. T \subseteq Nat /\ T # {}
  <2>1. \A s \in B : Cardinality(s) \in Nat /\ Cardinality(s) \in T
    BY <1>1
  <2>2. \A n \in T : \E s \in B : n = Cardinality(s)
    OBVIOUS
  <2> HIDE DEF T
  <2> QED BY <2>1, <2>2
<1>3. PICK n \in T : \A m \in T : n <= m
  BY <1>2, Least
<1>4. PICK s \in B : n = Cardinality(s)
  OBVIOUS
<1>5. ASSUME NEW x \in s, s \ {x} \in B PROVE FALSE
  <2>1. Cardinality(s \ {x}) = Cardinality(s) - 1
    BY <1>1, FS_RemoveElement
  <2>2. Cardinality(s \ {x}) \in T
    BY <1>5
  <2> HIDE DEF T
  <2> QED BY <1>1, <1>3, <1>4, <2>1, <2>2
<1> QED BY <1>5

LEMMA FoldRange ==
    ASSUME NEW S, IsFiniteSet(S), NEW X, NEW f,
           \A s \in SUBSET S : (s = {} \/ f[s \ {Pick(s)}] \in X) => f[s] \in X
    PROVE  f[S] \in X
<1> SUFFICES ASSUME f[S] \notin X PROVE FALSE
  OBVIOUS
<1> DEFINE B == {s \in SUBSET S : f[s] \notin X}
<1>1. B \subseteq SUBSET S /\ B # {}
  OBVIOUS
<1>2. PICK s \in B : \A x \in s : s \ {x} \notin B
  <2> HIDE DEF B
  <2> QED BY <1>1, SmallestSubset
<1>3. s # {}
  OBVIOUS
<1>4. Pick(s) \in s /\ s \ {Pick(s)} \in SUBSET S
  BY <1>3, Picked
<1>5. f[s \ {Pick(s)}] \in X
  BY <1>2, <1>4
<1> QED BY <1>5

LEMMA FoldExists ==
    ASSUME NEW S, IsFiniteSet(S), NEW X, NEW b \in X, NEW G \in [S \X X -> X]
    PROVE  \E f \in [SUBSET S -> X] : Folds(f, S, b, G)
<1> DEFINE D(n) == {s \in SUBSET S : Cardinality(s) <= n}
           Value(f, s) == IF s = {} THEN b ELSE G[<<Pick(s), f[s \ {Pick(s)}]>>]
           Upto(n) == \E f \in [D(n) -> X] : \A s \in D(n) : f[s] = Value(f, s)
           B == {n \in Nat : ~Upto(n)}
<1>1. \A s \in SUBSET S : IsFiniteSet(s) /\ Cardinality(s) \in Nat
  BY FS_Subset, FS_CardinalityType
<1>2. ASSUME NEW n \in Nat, NEW s \in D(n), s # {}
      PROVE  /\ Pick(s) \in S /\ s \ {Pick(s)} \in SUBSET S
             /\ Cardinality(s \ {Pick(s)}) = Cardinality(s) - 1 /\ Cardinality(s) # 0
  <2>1. Pick(s) \in s /\ s \ {Pick(s)} \in SUBSET S
    BY <1>2, Picked
  <2>2. Cardinality(s \ {Pick(s)}) = Cardinality(s) - 1
    BY <1>1, <2>1, FS_RemoveElement
  <2>3. Cardinality(s) # 0
    BY <1>1, <1>2, FS_EmptySet
  <2> QED BY <2>1, <2>2, <2>3
<1>3. ASSUME B # {} PROVE FALSE
  <2>1. PICK n \in B : \A m \in B : n <= m
    <3>1. B \subseteq Nat
      OBVIOUS
    <3> HIDE DEF B
    <3> QED BY <1>3, <3>1, Least
  <2>2. n \in Nat /\ ~Upto(n)
    OBVIOUS
  <2>3. CASE n = 0
    <3>1. \A s \in D(0) : s = {}
      BY <1>1, FS_EmptySet
    <3> DEFINE f == [s \in D(0) |-> b]
    <3>2. f \in [D(0) -> X] /\ \A s \in D(0) : f[s] = Value(f, s)
      BY <3>1
    <3>3. Upto(0)
      BY <3>2
    <3> QED BY <2>2, <2>3, <3>3
  <2>4. CASE n # 0
    <3>1. n - 1 \in Nat /\ n - 1 \notin B
      <4>1. n \in Nat /\ n - 1 \in Nat /\ ~ (n <= n - 1)
        BY <2>2, <2>4
      <4> HIDE DEF B
      <4> QED BY <2>1, <4>1
    <3>2. PICK f \in [D(n-1) -> X] : \A s \in D(n-1) : f[s] = Value(f, s)
      BY <3>1
    <3> DEFINE g == [s \in D(n) |-> IF s \in D(n-1) THEN f[s] ELSE Value(f, s)]
    <3>3. ASSUME NEW s \in D(n), s # {}
          PROVE  s \ {Pick(s)} \in D(n-1) /\ s \ {Pick(s)} \in D(n) /\ Pick(s) \in S
      <4>1. Cardinality(s) <= n /\ Cardinality(s) \in Nat
        BY <1>1
      <4>2. /\ Pick(s) \in S /\ s \ {Pick(s)} \in SUBSET S
            /\ Cardinality(s \ {Pick(s)}) = Cardinality(s) - 1
        BY <1>2, <2>2, <3>3
      <4> QED BY <2>2, <4>1, <4>2
    <3>4. \A s \in D(n-1) : s \in D(n)
      BY <1>1, <2>2
    <3>5. ASSUME NEW s \in D(n) PROVE g[s] = Value(g, s) /\ g[s] \in X
      <4>1. CASE s = {}
        <5>1. g[s] = b
          BY <3>2, <4>1
        <5> QED BY <4>1, <5>1
      <4>2. CASE s # {}
        <5> PICK r \in D(n-1) : r = s \ {Pick(s)}
          BY <3>3, <4>2
        <5>1. r \in D(n) /\ g[r] = f[r] /\ f[r] \in X /\ Pick(s) \in S
          BY <3>2, <3>3, <3>4, <4>2
        <5>2. g[s] = G[<<Pick(s), f[r]>>]
          BY <3>2, <4>2
        <5>3. G[<<Pick(s), f[r]>>] \in X
          BY <5>1
        <5> QED BY <4>2, <5>1, <5>2, <5>3
      <4> QED BY <4>1, <4>2
    <3>6. g \in [D(n) -> X]
      BY <3>5
    <3>7. Upto(n)
      <4> HIDE DEF g
      <4> QED BY <3>5, <3>6
    <3> QED BY <2>2, <3>7
  <2> QED BY <2>3, <2>4
<1>4. Upto(Cardinality(S))
  <2>1. Cardinality(S) \in Nat
    BY FS_CardinalityType
  <2> HIDE DEF Upto
  <2> QED BY <1>3, <2>1
<1>5. D(Cardinality(S)) = SUBSET S
  <2>1. \A s \in SUBSET S : Cardinality(s) <= Cardinality(S)
    BY FS_Subset
  <2> QED BY <2>1
<1> QED BY <1>4, <1>5 DEF Folds
=============================================================================
