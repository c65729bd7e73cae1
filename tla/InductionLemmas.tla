-------------------------- MODULE InductionLemmas ---------------------------
(***************************************************************************)
(* Induction over the natural numbers as the proofs of this project use it:*)
(* of a set, not of an operator, and the recursive functions on 0 .. n that*)
(* the models write in place of recursive operators.                       *)
(***************************************************************************)
EXTENDS Integers, WellFoundedInduction, TLAPS

\* Induction over the natural numbers, of a set.
LEMMA NaturalSteps ==
    ASSUME NEW S, 0 \in S, \A n \in Nat : n \in S => n + 1 \in S
    PROVE  Nat \subseteq S
<1> SUFFICES ASSUME Nat \ S # {} PROVE FALSE
  OBVIOUS
<1> DEFINE D == Nat \ S
<1>1. PICK d \in D : \A e \in D : ~(<<e, d>> \in OpToRel(<, Nat))
  BY NatLessThanWellFounded, WFMin
<1>2. d # 0 /\ d - 1 \in Nat /\ d - 1 < d
  OBVIOUS
<1>3. <<d - 1, d>> \in OpToRel(<, Nat)
  BY <1>2 DEF OpToRel
<1>4. d - 1 \in S
  BY <1>1, <1>2, <1>3
<1>5. (d - 1) + 1 = d
  OBVIOUS
<1> QED
  BY <1>2, <1>4, <1>5

\* G makes each of n values of V from the one before, beginning with a; f is what it makes.
Builds(V, a, n, G) == a \in V /\ n \in Nat /\ G \in [V \X (1 .. n) -> V]

Built(f, V, a, n, G) ==
    f \in [0 .. n -> V] /\ f[0] = a /\ \A i \in 1 .. n : f[i] = G[<<f[i - 1], i>>]

\* Such a function exists.
LEMMA RecursionBuilds ==
    ASSUME NEW V, NEW a, NEW n, NEW G, Builds(V, a, n, G)
    PROVE  \E f : Built(f, V, a, n, G)
<1> USE DEF Builds
<1> DEFINE Is(f, m) == f[0] = a /\ \A i \in 1 .. m : f[i] = G[<<f[i - 1], i>>]
           S == {m \in Nat : m <= n => \E f \in [0 .. m -> V] : Is(f, m)}
<1>1. 0 \in S
  <2> DEFINE f == [i \in 0 .. 0 |-> a]
  <2>1. f \in [0 .. 0 -> V] /\ f[0] = a /\ 1 .. 0 = {}
    OBVIOUS
  <2> HIDE DEF f
  <2>2. Is(f, 0)
    BY <2>1
  <2> QED
    BY <2>1, <2>2
<1>2. ASSUME NEW m \in Nat, m \in S
      PROVE  m + 1 \in S
  <2> SUFFICES ASSUME m + 1 <= n
               PROVE  \E f \in [0 .. m + 1 -> V] : Is(f, m + 1)
    OBVIOUS
  <2>1. PICK f \in [0 .. m -> V] : Is(f, m)
    BY <1>2
  <2> DEFINE g == [i \in 0 .. m + 1 |-> IF i = m + 1 THEN G[<<f[m], m + 1>>] ELSE f[i]]
  <2>2. G[<<f[m], m + 1>>] \in V
    OBVIOUS
  <2>3. g \in [0 .. m + 1 -> V]
    BY <2>2
  <2>4. g[0] = a /\ g[m + 1] = G[<<f[m], m + 1>>] /\ \A i \in 0 .. m : g[i] = f[i]
    BY <2>1
  <2>5. ASSUME NEW i \in 1 .. m + 1 PROVE g[i] = G[<<g[i - 1], i>>]
    <3>1. i - 1 \in 0 .. m /\ g[i - 1] = f[i - 1]
      BY <2>4
    <3> HIDE DEF g
    <3>2. CASE i = m + 1
      BY <2>4, <3>1, <3>2
    <3>3. CASE i \in 1 .. m
      BY <2>1, <2>4, <3>1, <3>3
    <3> QED
      BY <3>2, <3>3
  <2> QED
    BY <2>3, <2>4, <2>5
<1> HIDE DEF S
<1>3. n \in S
  BY <1>1, <1>2, NaturalSteps
<1>4. PICK f \in [0 .. n -> V] : Is(f, n)
  BY <1>3 DEF S
<1> QED
  BY <1>4 DEF Built
=============================================================================
