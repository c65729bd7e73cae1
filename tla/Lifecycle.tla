----------------------------- MODULE Lifecycle -----------------------------
(***************************************************************************)
(* Admission, delayed commits and termination of the daemon: Lifecycle,    *)
(* and the two halves of Shared::terminate that close and drain it.        *)
(*                                                                         *)
(* A worker is a D-Bus request or a thread that holds a ticket. What it    *)
(* does is left out but for what the closure races with: a transition      *)
(* under the engine lock, the commit of a delayed result, a timed wait.    *)
(* The state mutex is held for single expressions, so each of them is one  *)
(* step; the condition variable is modelled with its sleepers.             *)
(***************************************************************************)
EXTENDS Integers, FiniteSets

CONSTANTS
    Workers,  \* threads and requests, each of which may work again and again
    Closers   \* callers of terminate

ASSUME LifecycleAssumption ==
    /\ IsFiniteSet(Workers)
    /\ Workers \cap Closers = {}
    /\ "none" \notin Workers \cup Closers

VARIABLES
    closed,   \* State.closed
    active,   \* State.active
    engine,   \* who holds the engine lock
    commit,   \* who holds the commit lock
    worker,   \* per worker: where it is
    closer,   \* per caller of terminate: where it is
    cleanup,  \* terminal_cleanup: the result that was kept
    result    \* per caller of terminate: what it returned

vars == <<closed, active, engine, commit, worker, closer, cleanup, result>>

NoOne == "none"

WorkerStep ==
    {"out", "admitted", "working", "asleep", "woken", "locked", "changing",
     "guarded", "committing", "leaving"}
CloserStep ==
    {"out", "called", "locked", "guarded", "closing", "draining", "asleep",
     "cleaning", "returned"}
Result == {"ok", "failed"}

Init ==
    /\ closed = FALSE
    /\ active = 0
    /\ engine = NoOne /\ commit = NoOne
    /\ worker = [w \in Workers |-> "out"]
    /\ closer = [c \in Closers |-> "out"]
    /\ cleanup = NoOne
    /\ result = [c \in Closers |-> NoOne]

\* notify_all: every sleeper looks at its condition again.
Awakened(steps) == [w \in Workers |-> IF steps[w] = "asleep" THEN "woken" ELSE steps[w]]
DrainersAwakened(steps) ==
    [c \in Closers |-> IF steps[c] = "asleep" THEN "draining" ELSE steps[c]]

At(w, step) == [worker EXCEPT ![w] = step]

Locks == <<engine, commit>>
Closing == <<closed, cleanup, result>>

-----------------------------------------------------------------------------
(* Workers.                                                                *)

\* Wrong on purpose: tickets are given out after the closure.
EnterAlways(w) ==
    /\ worker[w] = "out"
    /\ active' = active + 1
    /\ worker' = Awakened(At(w, "admitted"))
    /\ closer' = DrainersAwakened(closer)
    /\ UNCHANGED <<Closing, Locks>>

\* enter; a refused caller stays out.
Enter(w) ==
    /\ worker[w] = "out"
    /\ ~closed
    /\ active' = active + 1
    /\ worker' = Awakened(At(w, "admitted"))
    /\ closer' = DrainersAwakened(closer)
    /\ UNCHANGED <<Closing, Locks>>

\* Whoever finds the daemon closed gives its work up.
IfOpen(open) == IF closed THEN "leaving" ELSE open

\* The thread of spawn looks once more before it works.
Begin(w) ==
    /\ worker[w] = "admitted"
    /\ worker' = At(w, IfOpen("working"))
    /\ UNCHANGED <<Closing, Locks, active, closer>>

\* Work is dropped.
Leave(w) ==
    /\ worker[w] \in {"working", "leaving"}
    /\ active' = active - 1
    /\ worker' = Awakened(At(w, "out"))
    /\ closer' = DrainersAwakened(closer)
    /\ UNCHANGED <<Closing, Locks>>

\* wait: it returns at once on closure, and otherwise sleeps
Sleep(w) ==
    /\ worker[w] = "working"
    /\ worker' = At(w, IfOpen("asleep"))
    /\ UNCHANGED <<Closing, Locks, active, closer>>

\* until it is woken and finds the closure,
WakeUp(w) ==
    /\ worker[w] = "woken"
    /\ worker' = At(w, IfOpen("asleep"))
    /\ UNCHANGED <<Closing, Locks, active, closer>>

\* or until its time is over.
TimeOut(w) ==
    /\ worker[w] \in {"asleep", "woken"}
    /\ worker' = At(w, IfOpen("working"))
    /\ UNCHANGED <<Closing, Locks, active, closer>>

\* The engine lock, and under it generation_is_current or ensure_open.
LockEngine(w) ==
    /\ worker[w] = "working"
    /\ engine = NoOne
    /\ engine' = w
    /\ worker' = At(w, "locked")
    /\ UNCHANGED <<Closing, commit, active, closer>>

Change(w) ==
    /\ worker[w] = "locked"
    /\ ~closed
    /\ worker' = At(w, "changing")
    /\ UNCHANGED <<Closing, Locks, active, closer>>

\* The commit lock, alone or under the engine lock, and the question after it.
LockCommit(w) ==
    /\ worker[w] \in {"working", "locked"}
    /\ commit = NoOne
    /\ commit' = w
    /\ worker' = At(w, "guarded")
    /\ UNCHANGED <<Closing, engine, active, closer>>

Commit(w) ==
    /\ worker[w] = "guarded"
    /\ ~closed
    /\ worker' = At(w, "committing")
    /\ UNCHANGED <<Closing, Locks, active, closer>>

Released(lock, w) == IF lock = w THEN NoOne ELSE lock

\* The end of the section: it was accepted, or it found the closure.
Unlock(w) ==
    /\ \/ worker[w] \in {"changing", "committing"} /\ worker' = At(w, "working")
       \/ worker[w] \in {"locked", "guarded"} /\ closed /\ worker' = At(w, "leaving")
    /\ engine' = Released(engine, w)
    /\ commit' = Released(commit, w)
    /\ UNCHANGED <<Closing, active, closer>>

-----------------------------------------------------------------------------
(* terminate: begin_terminal, drain, and the cleanup that happens once.    *)

CloserAt(c, step) == [closer EXCEPT ![c] = step]

Call(c) ==
    /\ closer[c] = "out"
    /\ closer' = CloserAt(c, "called")
    /\ UNCHANGED <<Closing, Locks, active, worker>>

TakeEngine(c) ==
    /\ closer[c] = "called"
    /\ engine = NoOne
    /\ engine' = c
    /\ closer' = CloserAt(c, "locked")
    /\ UNCHANGED <<Closing, commit, active, worker>>

\* Wrong on purpose: closing does not wait for a commit that was accepted.
TakeCommitOver(c) ==
    /\ closer[c] = "locked"
    /\ commit' = c
    /\ closer' = CloserAt(c, "guarded")
    /\ UNCHANGED <<Closing, engine, active, worker>>

TakeCommit(c) ==
    /\ closer[c] = "locked"
    /\ commit = NoOne
    /\ commit' = c
    /\ closer' = CloserAt(c, "guarded")
    /\ UNCHANGED <<Closing, engine, active, worker>>

\* close sets the flag first,
Close(c) ==
    /\ closer[c] = "guarded"
    /\ closed' = TRUE
    /\ closer' = CloserAt(c, "closing")
    /\ UNCHANGED <<cleanup, result, Locks, active, worker>>

\* Wrong on purpose: those who sleep sleep on.
NotifyNoOne(c) ==
    /\ closer[c] = "closing"
    /\ engine' = NoOne /\ commit' = NoOne
    /\ closer' = CloserAt(c, "draining")
    /\ UNCHANGED <<Closing, active, worker>>

\* and wakes the sleepers, when the state mutex is free again; begin_terminal ends.
Notify(c) ==
    /\ closer[c] = "closing"
    /\ engine' = NoOne /\ commit' = NoOne
    /\ worker' = Awakened(worker)
    /\ closer' = DrainersAwakened(CloserAt(c, "draining"))
    /\ UNCHANGED <<Closing, active>>

\* drain
Drain(c) ==
    /\ closer[c] = "draining"
    /\ closer' = CloserAt(c, IF active # 0 THEN "asleep" ELSE "cleaning")
    /\ UNCHANGED <<Closing, Locks, active, worker>>

\* Under the lock of terminal_cleanup: the kept result, or Engine::shutdown.
CleanUp(c) ==
    /\ closer[c] = "cleaning"
    /\ cleanup # NoOne \/ engine = NoOne
    /\ \E outcome \in (IF cleanup # NoOne THEN {cleanup} ELSE Result) :
          cleanup' = outcome /\ result' = [result EXCEPT ![c] = outcome]
    /\ closer' = CloserAt(c, "returned")
    /\ UNCHANGED <<closed, Locks, active, worker>>

-----------------------------------------------------------------------------

Work(w) ==
    \/ Begin(w) \/ Leave(w) \/ Sleep(w) \/ WakeUp(w) \/ TimeOut(w)
    \/ LockEngine(w) \/ Change(w) \/ LockCommit(w) \/ Commit(w) \/ Unlock(w)

Terminate(c) ==
    TakeEngine(c) \/ TakeCommit(c) \/ Close(c) \/ Notify(c) \/ Drain(c) \/ CleanUp(c)

\* The process has returned from terminate and no request is in progress.
Ended ==
    /\ \A c \in Closers : closer[c] = "returned"
    /\ \A w \in Workers : worker[w] = "out"
    /\ UNCHANGED vars

Next ==
    \/ \E w \in Workers : Enter(w) \/ Work(w)
    \/ \E c \in Closers : Call(c) \/ Terminate(c)
    \/ Ended

Spec == Init /\ [][Next]_vars

\* Threads go on and a free lock is granted in the end; nobody has to call.
Fairness ==
    /\ \A w \in Workers :
          WF_vars(Begin(w) \/ WakeUp(w) \/ Change(w) \/ Commit(w) \/ Unlock(w) \/ (closed /\ Leave(w)))
    /\ \A c \in Closers :
          /\ SF_vars(TakeEngine(c) \/ TakeCommit(c) \/ CleanUp(c))
          /\ WF_vars(Close(c) \/ Notify(c) \/ Drain(c))

FairSpec == Spec /\ Fairness

-----------------------------------------------------------------------------
(* Properties.                                                             *)

\* Every variable holds a value of its type.
TypeOK ==
    /\ closed \in BOOLEAN
    /\ active \in Nat
    /\ {engine, commit} \subseteq Workers \cup Closers \cup {NoOne}
    /\ worker \in [Workers -> WorkerStep]
    /\ closer \in [Closers -> CloserStep]
    /\ cleanup \in Result \cup {NoOne}
    /\ result \in [Closers -> Result \cup {NoOne}]

\* An accepted commit, and a transition under the engine lock, are over before
\* the daemon is closed; none is accepted afterwards (commit, close).
AcceptedBeforeClosure ==
    \A w \in Workers : worker[w] \in {"changing", "committing"} => ~closed

\* The engine is shut down only when every ticket has come back, and no ticket
\* is handed out again (enter, drain, terminate).
CleanUpIsAlone ==
    cleanup # NoOne => closed /\ \A w \in Workers : worker[w] = "out"

\* Whoever calls terminate, and however often, learns of one cleanup.
OneResult ==
    \A c, d \in Closers : NoOne \in {result[c], result[d]} \/ result[c] = result[d]

\* There is one end, after all work, and everybody hears of the same.
EndsOnce == CleanUpIsAlone /\ OneResult

\* The daemon that is told to stop stops: nobody sleeps through the closure and no wakeup
\* of drain is lost. A call of terminate never goes back, so that none is under way again
\* and again means that each of them returns.
Terminates == []<>(\A c \in Closers : closer[c] \in {"out", "returned"})
=============================================================================
