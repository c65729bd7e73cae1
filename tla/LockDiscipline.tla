--------------------------- MODULE LockDiscipline ---------------------------
(***************************************************************************)
(* What the lock orders written beside the daemon's locks promise.  A      *)
(* thread asks for one lock at a time, and only for one that ranks above   *)
(* every lock it holds.  Nothing is said about what the threads do with    *)
(* the locks, when they release them or how many threads there are.        *)
(***************************************************************************)
EXTENDS Integers

CONSTANTS
    Threads,
    Locks,
    Rank,      \* the documented position of each lock
    NoLock     \* a thread that waits for nothing

VARIABLES
    holds,     \* the locks of each thread
    wants      \* the lock each thread asks for, or NoLock

vars == <<holds, wants>>

Requests == Locks \cup {NoLock}

\* w may be asked for while the locks of h are held.
MayAsk(h, w) == w = NoLock \/ \A l \in h : Rank[l] < Rank[w]

Init ==
    /\ holds = [t \in Threads |-> {}]
    /\ wants \in [Threads -> Requests]

\* A step leaves the thread with h and asking for something it may ask for.
Continue(t, h) ==
    \E w \in Requests :
        /\ MayAsk(h, w)
        /\ holds' = [holds EXCEPT ![t] = h]
        /\ wants' = [wants EXCEPT ![t] = w]

\* A mutex is granted to one thread at a time, never twice to its owner.
Take(t) ==
    /\ wants[t] # NoLock
    /\ \A u \in Threads : wants[t] \notin holds[u]
    /\ Continue(t, holds[t] \cup {wants[t]})

Give(t) ==
    /\ wants[t] = NoLock
    /\ \E l \in holds[t] : Continue(t, holds[t] \ {l})

\* Anything else a thread does.
Work(t) ==
    /\ wants[t] = NoLock
    /\ Continue(t, holds[t])

Next == \E t \in Threads : Take(t) \/ Give(t) \/ Work(t)

Spec == Init /\ [][Next]_vars

-----------------------------------------------------------------------------
\* Every thread of S waits for a lock that a thread of S holds.
Circle(S) ==
    /\ S # {}
    /\ \A t \in S : wants[t] # NoLock /\ \E u \in S : wants[t] \in holds[u]

\* No set of threads waits for itself: not two that take a pair of locks in
\* opposite orders, nor a longer circle, nor one thread that locks a mutex again.
NoCircle == \A S \in SUBSET Threads : ~Circle(S)

\* A lock has at most one owner.
Exclusive ==
    \A t, u \in Threads : t # u => holds[t] \cap holds[u] = {}
=============================================================================
