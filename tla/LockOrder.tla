----------------------------- MODULE LockOrder ------------------------------
(***************************************************************************)
(* Threads that run the functions of the daemon, one step on its locks at  *)
(* a time, and the order in which they take them.                          *)
(*                                                                         *)
(* A thread may skip any part of a function that leaves it with the locks  *)
(* it had, so it follows every branch and every early return, and some     *)
(* paths the code does not have.  A loop is one round; a thread that ended *)
(* may start anything again.                                               *)
(***************************************************************************)
EXTENDS Naturals, Sequences

CONSTANTS
    Threads,     \* callers and workers
    Handler,     \* the bus calls and workers, each the sequence of its steps
    Idle         \* no function runs; also: no lock is asked for

\* The locks, in the order the comments on Shared and the modules that own them
\* give where they give one: diagnostic_order, engine, override_status, standby.
Order == <<
    "subscription_work", "terminal_cleanup", "diagnostic_order", "engine", "commit",
    "override_status", "runtime_facts", "failover", "current_generations", "standby",
    "identities", "tunnel_failures", "readings", "proxied", "history", "probes",
    "geo", "core_version" >>

LockNames == {Order[i] : i \in 1 .. Len(Order)}

Handlers == DOMAIN Handler

\* What a function does at a step.
Steps == [does : {"take", "give"}, lock : LockNames] \cup [does : {"emit"}]

ASSUME LockOrderAssumption ==
    /\ Handler \in [Handlers -> Seq(Steps)]
    /\ Idle \notin Handlers \cup LockNames

\* Step i of function h takes, or gives back, lock l.
TakesAt(h, i, l) == Handler[h][i].does = "take" /\ Handler[h][i].lock = l
GivesAt(h, i, l) == Handler[h][i].does = "give" /\ Handler[h][i].lock = l

\* The locks held before each step of a function, and after the last: those it took
\* and has not given back since.
HeldBefore == [h \in Handlers |->
    [i \in 1 .. Len(Handler[h]) + 1 |->
        {l \in LockNames : \E j \in 1 .. i - 1 :
            TakesAt(h, j, l) /\ \A k \in j + 1 .. i - 1 : ~GivesAt(h, k, l)}]]

\* The steps that may come when step i would: i itself, or what follows a part that
\* begins at i, gives back no lock held there and leaves the thread with the same.
Reaches == [h \in Handlers |->
    [i \in 1 .. Len(Handler[h]) + 1 |->
        {j \in i .. Len(Handler[h]) + 1 :
            /\ HeldBefore[h][j] = HeldBefore[h][i]
            /\ \A k \in i .. j - 1 : \A l \in HeldBefore[h][i] : ~GivesAt(h, k, l)}]]

-----------------------------------------------------------------------------
VARIABLES
    handler,   \* the handler of each thread
    at,        \* its next step
    holds      \* the locks of each thread

lockVars == <<handler, at, holds>>

Step(t) == Handler[handler[t]][at[t]]

\* The lock a thread asks for.
Wants(t) == IF handler[t] # Idle /\ Step(t).does = "take" THEN Step(t).lock ELSE Idle

LocksInit ==
    /\ handler = [t \in Threads |-> Idle]
    /\ at = [t \in Threads |-> 0]
    /\ holds = [t \in Threads |-> {}]

\* Thread t is at step i of h or, past its last step, ends.
Arrive(t, h, i) ==
    LET ends == i > Len(Handler[h]) IN
    /\ handler' = [handler EXCEPT ![t] = IF ends THEN Idle ELSE h]
    /\ at' = [at EXCEPT ![t] = IF ends THEN 0 ELSE i]

Continue(t) == \E i \in Reaches[handler[t]][at[t] + 1] : Arrive(t, handler[t], i)

\* A call comes in, or a worker starts or begins another round.
Run(t) ==
    /\ handler[t] = Idle
    /\ \E h \in Handlers : \E i \in Reaches[h][1] :
        i <= Len(Handler[h]) /\ Arrive(t, h, i)
    /\ UNCHANGED holds

Take(t) ==
    /\ handler[t] # Idle /\ Step(t).does = "take"
    /\ \A u \in Threads : Step(t).lock \notin holds[u]
    /\ holds' = [holds EXCEPT ![t] = @ \cup {Step(t).lock}]
    /\ Continue(t)

Give(t) ==
    /\ handler[t] # Idle /\ Step(t).does = "give"
    /\ holds' = [holds EXCEPT ![t] = @ \ {Step(t).lock}]
    /\ Continue(t)

Emit(t) ==
    /\ handler[t] # Idle /\ Step(t).does = "emit"
    /\ UNCHANGED holds
    /\ Continue(t)

LocksNext == \E t \in Threads : Run(t) \/ Take(t) \/ Give(t) \/ Emit(t)

LocksSpec == LocksInit /\ [][LocksNext]_lockVars

-----------------------------------------------------------------------------
LocksTypeOK ==
    /\ handler \in [Threads -> Handlers \cup {Idle}]
    /\ \A t \in Threads :
        handler[t] # Idle => /\ at[t] \in 1 .. Len(Handler[handler[t]])
                          /\ holds[t] = HeldBefore[handler[t]][at[t]]

Rank == [l \in LockNames |-> CHOOSE i \in 1 .. Len(Order) : Order[i] = l]

\* What a function must be, by itself: it leaves with no lock, asks for its locks in the
\* one order whatever it calls while it holds others, emits facts with no lock held but
\* the queue of subscription updates, and is at the identity of a session only under the
\* engine and the gate.
Orderly(h) ==
    /\ HeldBefore[h][Len(Handler[h]) + 1] = {}
    /\ \A i \in 1 .. Len(Handler[h]) :
        /\ \A l \in LockNames, m \in HeldBefore[h][i] : TakesAt(h, i, l) => Rank[m] < Rank[l]
        /\ Handler[h][i].does = "emit" => HeldBefore[h][i] \subseteq {"subscription_work"}
        /\ "identities" \in HeldBefore[h][i] =>
            /\ "engine" \in HeldBefore[h][i]
            /\ h = "watchdog" \/ "diagnostic_order" \in HeldBefore[h][i]

FunctionsAreOrderly == \A h \in Handlers : Orderly(h)

\* Whatever function a thread runs is orderly.  One thread may run any of them, so that a
\* run with one thread shows FunctionsAreOrderly, from which the proofs derive what holds
\* of any number of threads.
RunsAreOrderly == \A t \in Threads : handler[t] # Idle => Orderly(handler[t])

Discipline == INSTANCE LockDiscipline WITH
    Locks <- LockNames, NoLock <- Idle, wants <- [t \in Threads |-> Wants(t)]

\* Every function asks for its locks in the one order, whatever it calls while it
\* holds others: with LockDisciplineProofs, no circle of any number of threads.
ImplementsDiscipline == Discipline!Spec

\* A thread that emits diagnostic facts holds no lock of the daemon but the queue of
\* subscription updates: a recorder that blocks delays nobody else's transition
\* (the comment on diagnostic_order: "release before emission").
EmittedUnlocked ==
    \A t \in Threads :
        handler[t] # Idle /\ Step(t).does = "emit" => holds[t] \subseteq {"subscription_work"}

\* The identity of a session is read and changed under the engine that says which
\* session it is, and whoever changes it, which is anyone but the watchdog, also holds
\* the gate that couples the change to its facts.
IdentityIsGuarded ==
    \A t \in Threads :
        "identities" \in holds[t] =>
            /\ "engine" \in holds[t]
            /\ handler[t] = "watchdog" \/ "diagnostic_order" \in holds[t]

\* A transition and its facts are coupled by the gate: the identity the facts are about
\* changes under it, and they are emitted when it is free again.
FactsFollowTheGate == EmittedUnlocked /\ IdentityIsGuarded
=============================================================================
