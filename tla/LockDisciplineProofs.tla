------------------------ MODULE LockDisciplineProofs ------------------------
(***************************************************************************)
(* Why an order of the locks is enough: with any number of threads and     *)
(* locks, threads that ask upwards never wait in a circle.                 *)
(***************************************************************************)
EXTENDS LockDiscipline, WellFoundedInduction, TLAPS

\* Ranks are natural numbers below some bound, and NoLock is not a lock.
Ranked(N) ==
    /\ N \in Nat
    /\ Rank \in [Locks -> 0 .. N]
    /\ NoLock \notin Locks

\* What a thread waits for ranks above everything it holds.
Ordered ==
    /\ holds \in [Threads -> SUBSET Locks]
    /\ wants \in [Threads -> Requests]
    /\ \A t \in Threads : MayAsk(holds[t], wants[t])

\* A bounded, non-empty set of naturals has a largest element.
LEMMA LargestNatural ==
    ASSUME NEW N \in Nat, NEW R \in SUBSET (0 .. N), R # {}
    PROVE  \E r \in R : \A q \in R : q <= r
<1> DEFINE D == {N - r : r \in R}
<1>1. D \subseteq Nat /\ D # {}
  <2>1. ASSUME NEW r \in R PROVE N - r \in Nat
    <3>1. r \in 0 .. N
      OBVIOUS
    <3> QED
      BY <3>1
  <2>2. PICK r \in R : TRUE
    OBVIOUS
  <2>3. N - r \in D
    OBVIOUS
  <2> QED
    BY <2>1, <2>3
<1>2. PICK d \in D : \A e \in D : ~(<<e, d>> \in OpToRel(<, Nat))
  BY <1>1, NatLessThanWellFounded, WFMin
<1>3. PICK r \in R : d = N - r
  BY <1>2
<1>4. ASSUME NEW q \in R, r < q PROVE FALSE
  <2>1. /\ N - q \in D
        /\ N - q \in Nat
        /\ d \in Nat
        /\ N - q < d
    BY <1>3, <1>4
  <2>2. <<N - q, d>> \in OpToRel(<, Nat)
    BY <2>1 DEF OpToRel
  <2> QED
    BY <1>2, <2>1, <2>2
<1>5. ASSUME NEW q \in R PROVE q <= r
  BY <1>4, <1>5
<1> QED
  BY <1>5

\* A step that continues with h, a set of locks, keeps every thread ordered.
LEMMA ContinueKeepsOrdered ==
    ASSUME Ordered, NEW t \in Threads, NEW h \in SUBSET Locks, Continue(t, h)
    PROVE  Ordered'
<1>1. PICK w \in Requests :
        /\ MayAsk(h, w)
        /\ holds' = [holds EXCEPT ![t] = h]
        /\ wants' = [wants EXCEPT ![t] = w]
  BY DEF Continue
<1>2. holds' \in [Threads -> SUBSET Locks] /\ wants' \in [Threads -> Requests]
  BY <1>1 DEF Ordered
<1>3. ASSUME NEW u \in Threads PROVE MayAsk(holds'[u], wants'[u])
  <2>1. CASE u = t
    BY <1>1, <2>1 DEF Ordered
  <2>2. CASE u # t
    BY <1>1, <2>2 DEF Ordered
  <2> QED
    BY <2>1, <2>2
<1>4. \A u \in Threads : MayAsk(holds[u], wants[u])'
  BY <1>3 DEF MayAsk
<1> QED
  BY <1>2, <1>4 DEF Ordered

\* Whatever a thread does next, it asks upwards.
LEMMA StepKeepsOrdered == Ordered /\ [Next]_vars => Ordered'
<1> SUFFICES ASSUME Ordered, [Next]_vars PROVE Ordered'
  OBVIOUS
<1>1. ASSUME NEW t \in Threads, Take(t) PROVE Ordered'
  <2>1. holds[t] \cup {wants[t]} \in SUBSET Locks
    BY <1>1 DEF Ordered, Take, Requests
  <2> QED
    BY <1>1, <2>1, ContinueKeepsOrdered DEF Take
<1>2. ASSUME NEW t \in Threads, Give(t) PROVE Ordered'
  <2>1. PICK l \in holds[t] : Continue(t, holds[t] \ {l})
    BY <1>2 DEF Give
  <2>2. holds[t] \ {l} \in SUBSET Locks
    BY DEF Ordered
  <2> QED
    BY <2>1, <2>2, ContinueKeepsOrdered
<1>3. ASSUME NEW t \in Threads, Work(t) PROVE Ordered'
  <2>1. holds[t] \in SUBSET Locks
    BY DEF Ordered
  <2> QED
    BY <1>3, <2>1, ContinueKeepsOrdered DEF Work
<1>4. CASE UNCHANGED vars
  BY <1>4 DEF vars, Ordered, MayAsk
<1> QED
  BY <1>1, <1>2, <1>3, <1>4 DEF Next

\* In a circle the thread that asks for the highest lock waits for a thread that
\* asks for a higher one.
LEMMA OrderedHasNoCircle ==
    ASSUME NEW N, Ranked(N), Ordered
    PROVE  NoCircle
<1> SUFFICES ASSUME NEW S \in SUBSET Threads, Circle(S) PROVE FALSE
  BY DEF NoCircle
<1> DEFINE Asked == {Rank[wants[t]] : t \in S}
<1>1. \A t \in S : wants[t] \in Locks
  BY DEF Circle, Ordered, Requests
<1>2. Asked \in SUBSET (0 .. N) /\ Asked # {}
  BY <1>1 DEF Ranked, Circle
<1>3. N \in Nat
  BY DEF Ranked
<1>4. PICK r \in Asked : \A q \in Asked : q <= r
  <2> HIDE DEF Asked
  <2> QED
    BY <1>2, <1>3, LargestNatural
<1>5. PICK t \in S : r = Rank[wants[t]]
  BY <1>4
<1>6. PICK u \in S : wants[t] \in holds[u]
  BY DEF Circle
<1>7. MayAsk(holds[u], wants[u]) /\ wants[u] # NoLock
  BY <1>1 DEF Ordered, Ranked
<1>8. Rank[wants[t]] < Rank[wants[u]]
  BY <1>6, <1>7 DEF MayAsk
<1>9. Rank[wants[u]] <= Rank[wants[t]]
  BY <1>4, <1>5
<1>10. Rank[wants[t]] \in Nat /\ Rank[wants[u]] \in Nat
  BY <1>1, <1>5, <1>6 DEF Ranked
<1> QED
  BY <1>8, <1>9, <1>10

\* For any number of threads and locks, and any bounded ranks: threads that ask
\* upwards never wait in a circle, so some thread of every set can go on
\* (the orders written in daemon.rs beside diagnostic_order and standby).
THEOREM NeverACircle ==
    ASSUME NEW N, Ranked(N)
    PROVE  Spec => []NoCircle
<1>1. (\A t \in Threads : MayAsk(holds[t], wants[t])) /\ Init => Ordered
  BY DEF Init, Ordered
<1>2. Init => \A t \in Threads : MayAsk(holds[t], wants[t])
  BY DEF Init, MayAsk
<1>3. Ordered => NoCircle
  BY OrderedHasNoCircle
<1> QED
  BY <1>1, <1>2, <1>3, StepKeepsOrdered, PTL DEF Spec

\* No lock ever has two owners.
THEOREM AlwaysExclusive == Spec => []Exclusive
<1> DEFINE IInv == holds \in [Threads -> SUBSET Locks]
                   /\ wants \in [Threads -> Requests] /\ Exclusive
<1>1. Init => IInv
  BY DEF Init, Exclusive
<1>2. IInv /\ [Next]_vars => IInv'
  <2> SUFFICES ASSUME IInv, [Next]_vars PROVE IInv'
    OBVIOUS
  <2>1. ASSUME NEW t \in Threads, NEW h \in SUBSET Locks, Continue(t, h),
               \A u \in Threads : u # t => h \cap holds[u] = {}
        PROVE  IInv'
    BY <2>1 DEF Continue, Exclusive
  <2>2. ASSUME NEW t \in Threads, Take(t) PROVE IInv'
    BY <2>1, <2>2 DEF Take, Exclusive, Requests
  <2>3. ASSUME NEW t \in Threads, Give(t) PROVE IInv'
    BY <2>1, <2>3 DEF Give, Exclusive
  <2>4. ASSUME NEW t \in Threads, Work(t) PROVE IInv'
    BY <2>1, <2>4 DEF Work, Exclusive
  <2>5. CASE UNCHANGED vars
    BY <2>5 DEF vars, Exclusive
  <2> QED
    BY <2>2, <2>3, <2>4, <2>5 DEF Next
<1>3. IInv => Exclusive
  OBVIOUS
<1> QED
  BY <1>1, <1>2, <1>3, PTL DEF Spec
=============================================================================
