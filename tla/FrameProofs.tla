---------------------------- MODULE FrameProofs -----------------------------
(***************************************************************************)
(* What TLAPS proves of what frames the work of the daemon, which          *)
(* MCLifecycle checks together: admission and termination, the locks its   *)
(* functions take, the recorder of diagnostics, and the desktop client,    *)
(* each on its own variables and for every value of its constants.         *)
(***************************************************************************)
EXTENDS Lifecycle, LockOrder, Recorder, Desktop, InductionLemmas, FiniteSetTheorems,
        SequenceTheorems, TLAPS

-----------------------------------------------------------------------------
(***************************************************************************)
(* Admission and termination, for any number of workers and of callers of  *)
(* terminate.                                                              *)
(***************************************************************************)

\* Everything TypeOK says but for the number of tickets.
Shaped ==
    /\ closed \in BOOLEAN
    /\ engine \in Workers \cup Closers \cup {NoOne}
    /\ commit \in Workers \cup Closers \cup {NoOne}
    /\ worker \in [Workers -> WorkerStep]
    /\ closer \in [Closers -> CloserStep]
    /\ cleanup \in Result \cup {NoOne}
    /\ result \in [Closers -> Result \cup {NoOne}]

\* The workers that hold a ticket.
Admitted == {w \in Workers : worker[w] # "out"}

\* A ticket per worker that was let in.
Counted == active = Cardinality(Admitted)

\* Who is inside a critical section owns its lock.
LocksOwned ==
    /\ \A w \in Workers :
          /\ worker[w] \in {"locked", "changing"} => engine = w
          /\ worker[w] \in {"guarded", "committing"} => commit = w
    /\ \A c \in Closers :
          /\ closer[c] \in {"locked", "guarded", "closing"} => engine = c
          /\ closer[c] \in {"guarded", "closing"} => commit = c

\* Who is past close() finds the daemon closed, and past drain() empty.
PastClosure ==
    \A c \in Closers :
        /\ closer[c] \in {"closing", "draining", "asleep", "cleaning", "returned"} =>
              closed
        /\ closer[c] = "cleaning" => \A w \in Workers : worker[w] = "out"

\* What a caller returned is what was kept.
Kept == \A c \in Closers : result[c] # NoOne => result[c] = cleanup

-----------------------------------------------------------------------------
(* Notification.                                                           *)

\* notify_all only moves those who sleep.
LEMMA Awakening ==
    ASSUME NEW steps \in [Workers -> WorkerStep]
    PROVE  /\ Awakened(steps) \in [Workers -> WorkerStep]
           /\ \A w \in Workers :
                 \/ Awakened(steps)[w] = steps[w]
                 \/ steps[w] = "asleep" /\ Awakened(steps)[w] = "woken"
BY DEF Awakened, WorkerStep

\* The same of the callers that drain.
LEMMA DrainersAwakening ==
    ASSUME NEW steps \in [Closers -> CloserStep]
    PROVE  /\ DrainersAwakened(steps) \in [Closers -> CloserStep]
           /\ \A c \in Closers :
                 \/ DrainersAwakened(steps)[c] = steps[c]
                 \/ steps[c] = "asleep" /\ DrainersAwakened(steps)[c] = "draining"
BY DEF DrainersAwakened, CloserStep

\* What a step of a worker does to the others: they keep where they are, or
\* wake up.
LEMMA Moved ==
    ASSUME Shaped, NEW w \in Workers, NEW step \in WorkerStep
    PROVE  /\ At(w, step) \in [Workers -> WorkerStep]
           /\ Awakened(At(w, step)) \in [Workers -> WorkerStep]
           /\ At(w, step)[w] = step
           /\ step # "asleep" => Awakened(At(w, step))[w] = step
           /\ \A v \in Workers \ {w} :
                 /\ At(w, step)[v] = worker[v]
                 /\ \/ Awakened(At(w, step))[v] = worker[v]
                    \/ worker[v] = "asleep" /\ Awakened(At(w, step))[v] = "woken"
<1>1. /\ At(w, step) \in [Workers -> WorkerStep]
      /\ At(w, step)[w] = step
      /\ \A v \in Workers \ {w} : At(w, step)[v] = worker[v]
  BY DEF At, Shaped
<1> QED
  BY <1>1, Awakening

\* And of a step of a caller of terminate.
LEMMA CloserMoved ==
    ASSUME Shaped, NEW c \in Closers, NEW step \in CloserStep
    PROVE  /\ CloserAt(c, step) \in [Closers -> CloserStep]
           /\ DrainersAwakened(CloserAt(c, step)) \in [Closers -> CloserStep]
           /\ CloserAt(c, step)[c] = step
           /\ step # "asleep" => DrainersAwakened(CloserAt(c, step))[c] = step
           /\ \A d \in Closers \ {c} :
                 /\ CloserAt(c, step)[d] = closer[d]
                 /\ \/ DrainersAwakened(CloserAt(c, step))[d] = closer[d]
                    \/ /\ closer[d] = "asleep"
                       /\ DrainersAwakened(CloserAt(c, step))[d] = "draining"
<1>1. /\ CloserAt(c, step) \in [Closers -> CloserStep]
      /\ CloserAt(c, step)[c] = step
      /\ \A d \in Closers \ {c} : CloserAt(c, step)[d] = closer[d]
  BY DEF CloserAt, Shaped
<1> QED
  BY <1>1, DrainersAwakening

\* The places a step moves to are places.
LEMMA Places ==
    /\ {"out", "admitted", "working", "asleep", "woken", "locked", "changing",
        "guarded", "committing", "leaving"} \subseteq WorkerStep
    /\ {"called", "locked", "guarded", "closing", "draining", "asleep",
        "cleaning", "returned"} \subseteq CloserStep
BY DEF WorkerStep, CloserStep

\* Where a step takes its worker.
LEMMA WorkerMoves ==
    ASSUME Shaped, NEW w \in Workers
    PROVE  /\ Enter(w) => worker'[w] = "admitted"
           /\ Begin(w) => worker'[w] \in {"working", "leaving"}
           /\ Leave(w) => worker'[w] = "out"
           /\ Sleep(w) => worker'[w] \in {"asleep", "leaving"}
           /\ WakeUp(w) => worker'[w] \in {"asleep", "leaving"}
           /\ TimeOut(w) => worker'[w] \in {"working", "leaving"}
           /\ LockEngine(w) => worker'[w] = "locked"
           /\ Change(w) => worker'[w] = "changing"
           /\ LockCommit(w) => worker'[w] = "guarded"
           /\ Commit(w) => worker'[w] = "committing"
           /\ Unlock(w) => worker'[w] \in {"working", "leaving"}
<1>1. Enter(w) => worker'[w] = "admitted"
  BY Places, Moved DEF Enter
<1>2. Begin(w) => worker'[w] \in {"working", "leaving"}
  BY Places, Moved DEF Begin, IfOpen
<1>3. Leave(w) => worker'[w] = "out"
  BY Places, Moved DEF Leave
<1>4. Sleep(w) => worker'[w] \in {"asleep", "leaving"}
  BY Places, Moved DEF Sleep, IfOpen
<1>5. WakeUp(w) => worker'[w] \in {"asleep", "leaving"}
  BY Places, Moved DEF WakeUp, IfOpen
<1>6. TimeOut(w) => worker'[w] \in {"working", "leaving"}
  BY Places, Moved DEF TimeOut, IfOpen
<1>7. LockEngine(w) => worker'[w] = "locked"
  BY Places, Moved DEF LockEngine
<1>8. Change(w) => worker'[w] = "changing"
  BY Places, Moved DEF Change
<1>9. LockCommit(w) => worker'[w] = "guarded"
  BY Places, Moved DEF LockCommit
<1>10. Commit(w) => worker'[w] = "committing"
  BY Places, Moved DEF Commit
<1>11. Unlock(w) => worker'[w] \in {"working", "leaving"}
  BY Places, Moved DEF Unlock
<1> QED
  BY <1>1, <1>2, <1>3, <1>4, <1>5, <1>6, <1>7, <1>8, <1>9, <1>10, <1>11

\* What it does to everyone else: they stay where they are, or wake up.
LEMMA OthersStay ==
    ASSUME Shaped, NEW w \in Workers, Enter(w) \/ Work(w)
    PROVE  /\ worker' \in [Workers -> WorkerStep]
           /\ closer' \in [Closers -> CloserStep]
           /\ \A v \in Workers \ {w} :
                 \/ worker'[v] = worker[v]
                 \/ worker[v] = "asleep" /\ worker'[v] = "woken"
           /\ \A c \in Closers :
                 \/ closer'[c] = closer[c]
                 \/ closer[c] = "asleep" /\ closer'[c] = "draining"
<1>1. CASE Enter(w) \/ Leave(w)
  <2>1. PICK step \in {"admitted", "out"} :
           worker' = Awakened(At(w, step)) /\ closer' = DrainersAwakened(closer)
    BY <1>1 DEF Enter, Leave
  <2>2. closer \in [Closers -> CloserStep]
    BY DEF Shaped
  <2>3. /\ closer' \in [Closers -> CloserStep]
        /\ \A c \in Closers :
              \/ closer'[c] = closer[c]
              \/ closer[c] = "asleep" /\ closer'[c] = "draining"
    BY <2>1, <2>2, DrainersAwakening
  <2>4. step \in WorkerStep
    BY Places
  <2>5. /\ worker' \in [Workers -> WorkerStep]
        /\ \A v \in Workers \ {w} :
              \/ worker'[v] = worker[v]
              \/ worker[v] = "asleep" /\ worker'[v] = "woken"
    BY <2>1, <2>4, Moved
  <2> QED
    BY <2>3, <2>5
<1>2. CASE Work(w) /\ ~Leave(w)
  <2>1. PICK step \in WorkerStep : worker' = At(w, step)
    BY <1>2, Places
       DEF Work, Begin, Sleep, WakeUp, TimeOut, LockEngine, Change, LockCommit,
           Commit, Unlock, IfOpen
  <2>2. closer' = closer
    BY <1>2
       DEF Work, Begin, Sleep, WakeUp, TimeOut, LockEngine, Change, LockCommit,
           Commit, Unlock
  <2>3. /\ worker' \in [Workers -> WorkerStep]
        /\ \A v \in Workers \ {w} : worker'[v] = worker[v]
    BY <2>1, Moved
  <2> QED
    BY <2>2, <2>3 DEF Shaped
<1> QED
  BY <1>1, <1>2 DEF Work

\* The same of a step of terminate.
LEMMA CloserMoves ==
    ASSUME Shaped, NEW c \in Closers
    PROVE  /\ Call(c) => closer'[c] = "called"
           /\ TakeEngine(c) => closer'[c] = "locked"
           /\ TakeCommit(c) => closer'[c] = "guarded"
           /\ Close(c) => closer'[c] = "closing"
           /\ Notify(c) => closer'[c] = "draining"
           /\ Drain(c) => closer'[c] = IF active # 0 THEN "asleep" ELSE "cleaning"
           /\ CleanUp(c) => closer'[c] = "returned"
<1>1. Call(c) => closer'[c] = "called"
  BY Places, CloserMoved DEF Call
<1>2. TakeEngine(c) => closer'[c] = "locked"
  BY Places, CloserMoved DEF TakeEngine
<1>3. TakeCommit(c) => closer'[c] = "guarded"
  BY Places, CloserMoved DEF TakeCommit
<1>4. Close(c) => closer'[c] = "closing"
  BY Places, CloserMoved DEF Close
<1>5. Notify(c) => closer'[c] = "draining"
  BY Places, CloserMoved DEF Notify
<1>6. Drain(c) => closer'[c] = IF active # 0 THEN "asleep" ELSE "cleaning"
  BY Places, CloserMoved DEF Drain
<1>7. CleanUp(c) => closer'[c] = "returned"
  BY Places, CloserMoved DEF CleanUp
<1> QED
  BY <1>1, <1>2, <1>3, <1>4, <1>5, <1>6, <1>7

\* And what that does to everyone else.
LEMMA OthersStayToo ==
    ASSUME Shaped, NEW c \in Closers, Call(c) \/ Terminate(c)
    PROVE  /\ worker' \in [Workers -> WorkerStep]
           /\ closer' \in [Closers -> CloserStep]
           /\ \A d \in Closers \ {c} :
                 \/ closer'[d] = closer[d]
                 \/ closer[d] = "asleep" /\ closer'[d] = "draining"
           /\ \A w \in Workers :
                 \/ worker'[w] = worker[w]
                 \/ worker[w] = "asleep" /\ worker'[w] = "woken"
<1>1. CASE Notify(c)
  <2>1. worker \in [Workers -> WorkerStep]
    BY DEF Shaped
  <2>2. /\ worker' \in [Workers -> WorkerStep]
        /\ \A w \in Workers :
              \/ worker'[w] = worker[w]
              \/ worker[w] = "asleep" /\ worker'[w] = "woken"
    BY <1>1, <2>1, Awakening DEF Notify
  <2>3. /\ CloserAt(c, "draining") \in [Closers -> CloserStep]
        /\ \A d \in Closers \ {c} : CloserAt(c, "draining")[d] = closer[d]
    BY Places, CloserMoved
  <2>4. /\ closer' \in [Closers -> CloserStep]
        /\ \A d \in Closers \ {c} :
              \/ closer'[d] = closer[d]
              \/ closer[d] = "asleep" /\ closer'[d] = "draining"
    <3>1. closer' = DrainersAwakened(CloserAt(c, "draining"))
      BY <1>1 DEF Notify
    <3>2. /\ closer' \in [Closers -> CloserStep]
          /\ \A d \in Closers :
                \/ closer'[d] = CloserAt(c, "draining")[d]
                \/ CloserAt(c, "draining")[d] = "asleep" /\ closer'[d] = "draining"
      BY <2>3, <3>1, DrainersAwakening
    <3> QED
      BY <2>3, <3>2
  <2> QED
    BY <2>2, <2>4
<1>2. CASE (Call(c) \/ Terminate(c)) /\ ~Notify(c)
  <2>1. PICK step \in CloserStep : closer' = CloserAt(c, step)
    BY <1>2, Places
       DEF Call, Terminate, TakeEngine, TakeCommit, Close, Drain, CleanUp
  <2>2. worker' = worker
    BY <1>2 DEF Call, Terminate, TakeEngine, TakeCommit, Close, Drain, CleanUp
  <2> QED
    BY <2>1, <2>2, CloserMoved DEF Shaped
<1> QED
  BY <1>1, <1>2 DEF Terminate

-----------------------------------------------------------------------------
(* Types and tickets.                                                      *)

\* Everything but the number of tickets has its type.
LEMMA Shapes == Spec => []Shaped
<1>1. Init => Shaped
  BY DEF Init, Shaped, WorkerStep, CloserStep
<1>2. Shaped /\ [Next]_vars => Shaped'
  <2> SUFFICES ASSUME Shaped, [Next]_vars PROVE Shaped'
    OBVIOUS
  <2>1. ASSUME NEW w \in Workers, Enter(w) PROVE Shaped'
    <3>1. worker' \in [Workers -> WorkerStep] /\ closer' \in [Closers -> CloserStep]
      BY <2>1, OthersStay
    <3> QED
      BY <2>1, <3>1 DEF Enter, Shaped, Closing, Locks
  <2>2. ASSUME NEW w \in Workers, Begin(w) PROVE Shaped'
    <3>1. worker' \in [Workers -> WorkerStep] /\ closer' \in [Closers -> CloserStep]
      BY <2>2, OthersStay DEF Work
    <3> QED
      BY <2>2, <3>1 DEF Begin, Shaped, Closing, Locks
  <2>3. ASSUME NEW w \in Workers, Leave(w) PROVE Shaped'
    <3>1. worker' \in [Workers -> WorkerStep] /\ closer' \in [Closers -> CloserStep]
      BY <2>3, OthersStay DEF Work
    <3> QED
      BY <2>3, <3>1 DEF Leave, Shaped, Closing, Locks
  <2>4. ASSUME NEW w \in Workers, Sleep(w) PROVE Shaped'
    <3>1. worker' \in [Workers -> WorkerStep] /\ closer' \in [Closers -> CloserStep]
      BY <2>4, OthersStay DEF Work
    <3> QED
      BY <2>4, <3>1 DEF Sleep, Shaped, Closing, Locks
  <2>5. ASSUME NEW w \in Workers, WakeUp(w) PROVE Shaped'
    <3>1. worker' \in [Workers -> WorkerStep] /\ closer' \in [Closers -> CloserStep]
      BY <2>5, OthersStay DEF Work
    <3> QED
      BY <2>5, <3>1 DEF WakeUp, Shaped, Closing, Locks
  <2>6. ASSUME NEW w \in Workers, TimeOut(w) PROVE Shaped'
    <3>1. worker' \in [Workers -> WorkerStep] /\ closer' \in [Closers -> CloserStep]
      BY <2>6, OthersStay DEF Work
    <3> QED
      BY <2>6, <3>1 DEF TimeOut, Shaped, Closing, Locks
  <2>7. ASSUME NEW w \in Workers, LockEngine(w) PROVE Shaped'
    <3>1. worker' \in [Workers -> WorkerStep] /\ closer' \in [Closers -> CloserStep]
      BY <2>7, OthersStay DEF Work
    <3> QED
      BY <2>7, <3>1 DEF LockEngine, Shaped, Closing, Locks
  <2>8. ASSUME NEW w \in Workers, Change(w) PROVE Shaped'
    <3>1. worker' \in [Workers -> WorkerStep] /\ closer' \in [Closers -> CloserStep]
      BY <2>8, OthersStay DEF Work
    <3> QED
      BY <2>8, <3>1 DEF Change, Shaped, Closing, Locks
  <2>9. ASSUME NEW w \in Workers, LockCommit(w) PROVE Shaped'
    <3>1. worker' \in [Workers -> WorkerStep] /\ closer' \in [Closers -> CloserStep]
      BY <2>9, OthersStay DEF Work
    <3> QED
      BY <2>9, <3>1 DEF LockCommit, Shaped, Closing, Locks
  <2>10. ASSUME NEW w \in Workers, Commit(w) PROVE Shaped'
    <3>1. worker' \in [Workers -> WorkerStep] /\ closer' \in [Closers -> CloserStep]
      BY <2>10, OthersStay DEF Work
    <3> QED
      BY <2>10, <3>1 DEF Commit, Shaped, Closing, Locks
  <2>11. ASSUME NEW w \in Workers, Unlock(w) PROVE Shaped'
    <3>1. worker' \in [Workers -> WorkerStep] /\ closer' \in [Closers -> CloserStep]
      BY <2>11, OthersStay DEF Work
    <3> QED
      BY <2>11, <3>1 DEF Unlock, Shaped, Closing, Locks, Released
  <2>12. ASSUME NEW c \in Closers, Call(c) PROVE Shaped'
    <3>1. worker' \in [Workers -> WorkerStep] /\ closer' \in [Closers -> CloserStep]
      BY <2>12, OthersStayToo
    <3> QED
      BY <2>12, <3>1 DEF Call, Shaped, Closing, Locks
  <2>13. ASSUME NEW c \in Closers, TakeEngine(c) PROVE Shaped'
    <3>1. worker' \in [Workers -> WorkerStep] /\ closer' \in [Closers -> CloserStep]
      BY <2>13, OthersStayToo DEF Terminate
    <3> QED
      BY <2>13, <3>1 DEF TakeEngine, Shaped, Closing, Locks
  <2>14. ASSUME NEW c \in Closers, TakeCommit(c) PROVE Shaped'
    <3>1. worker' \in [Workers -> WorkerStep] /\ closer' \in [Closers -> CloserStep]
      BY <2>14, OthersStayToo DEF Terminate
    <3> QED
      BY <2>14, <3>1 DEF TakeCommit, Shaped, Closing, Locks
  <2>15. ASSUME NEW c \in Closers, Close(c) PROVE Shaped'
    <3>1. worker' \in [Workers -> WorkerStep] /\ closer' \in [Closers -> CloserStep]
      BY <2>15, OthersStayToo DEF Terminate
    <3> QED
      BY <2>15, <3>1 DEF Close, Shaped, Closing, Locks
  <2>16. ASSUME NEW c \in Closers, Notify(c) PROVE Shaped'
    <3>1. worker' \in [Workers -> WorkerStep] /\ closer' \in [Closers -> CloserStep]
      BY <2>16, OthersStayToo DEF Terminate
    <3> QED
      BY <2>16, <3>1 DEF Notify, Shaped, Closing, Locks
  <2>17. ASSUME NEW c \in Closers, Drain(c) PROVE Shaped'
    <3>1. worker' \in [Workers -> WorkerStep] /\ closer' \in [Closers -> CloserStep]
      BY <2>17, OthersStayToo DEF Terminate
    <3> QED
      BY <2>17, <3>1 DEF Drain, Shaped, Closing, Locks
  <2>18. ASSUME NEW c \in Closers, CleanUp(c) PROVE Shaped'
    <3>1. worker' \in [Workers -> WorkerStep] /\ closer' \in [Closers -> CloserStep]
      BY <2>18, OthersStayToo DEF Terminate
    <3> QED
      BY <2>18, <3>1 DEF CleanUp, Shaped, Closing, Locks
  <2>19. CASE UNCHANGED vars
    BY <2>19 DEF vars, Shaped
  <2> QED
    BY <2>1, <2>2, <2>3, <2>4, <2>5, <2>6, <2>7, <2>8, <2>9, <2>10, <2>11,
       <2>12, <2>13, <2>14, <2>15, <2>16, <2>17, <2>18, <2>19
       DEF Next, Work, Terminate, Ended
<1> QED
  BY <1>1, <1>2, PTL DEF Spec

\* There are finitely many tickets.
LEMMA AdmittedIsFinite ==
    IsFiniteSet(Admitted) /\ Cardinality(Admitted) \in Nat
<1>1. IsFiniteSet(Admitted)
  BY LifecycleAssumption, FS_Subset DEF Admitted
<1> QED
  BY <1>1, FS_CardinalityType

\* There is one per worker that was let in.
LEMMA Tickets == Spec => []Counted
<1>1. Init => Counted
  <2> SUFFICES ASSUME Init PROVE Counted
    OBVIOUS
  <2>1. Admitted = {}
    BY DEF Init, Admitted
  <2> QED
    BY <2>1, FS_EmptySet DEF Init, Counted
<1>2. Shaped /\ Counted /\ [Next]_vars => Counted'
  <2> SUFFICES ASSUME Shaped, Counted, [Next]_vars PROVE Counted'
    OBVIOUS
  <2>a. IsFiniteSet(Admitted) /\ Cardinality(Admitted) \in Nat
    BY AdmittedIsFinite
  <2>1. ASSUME NEW w \in Workers, Enter(w) PROVE Counted'
    <3>1. Admitted' = Admitted \cup {w} /\ w \notin Admitted /\ active' = active + 1
      BY <2>1, WorkerMoves, OthersStay DEF Enter, Admitted
    <3> QED
      BY <2>a, <3>1, FS_AddElement DEF Counted
  <2>2. ASSUME NEW w \in Workers, Begin(w) PROVE Counted'
    <3>1. worker[w] # "out" /\ worker'[w] # "out" /\ active' = active
      BY <2>2, WorkerMoves DEF Begin, Closing, Locks
    <3>2. Admitted' = Admitted
      BY <2>2, <3>1, OthersStay DEF Work, Admitted
    <3> QED
      BY <3>1, <3>2 DEF Counted
  <2>3. ASSUME NEW w \in Workers, Leave(w) PROVE Counted'
    <3>1. Admitted' = Admitted \ {w} /\ w \in Admitted /\ active' = active - 1
      BY <2>3, WorkerMoves, OthersStay DEF Leave, Work, Admitted
    <3> QED
      BY <2>a, <3>1, FS_RemoveElement DEF Counted
  <2>4. ASSUME NEW w \in Workers, Sleep(w) PROVE Counted'
    <3>1. worker[w] # "out" /\ worker'[w] # "out" /\ active' = active
      BY <2>4, WorkerMoves DEF Sleep, Closing, Locks
    <3>2. Admitted' = Admitted
      BY <2>4, <3>1, OthersStay DEF Work, Admitted
    <3> QED
      BY <3>1, <3>2 DEF Counted
  <2>5. ASSUME NEW w \in Workers, WakeUp(w) PROVE Counted'
    <3>1. worker[w] # "out" /\ worker'[w] # "out" /\ active' = active
      BY <2>5, WorkerMoves DEF WakeUp, Closing, Locks
    <3>2. Admitted' = Admitted
      BY <2>5, <3>1, OthersStay DEF Work, Admitted
    <3> QED
      BY <3>1, <3>2 DEF Counted
  <2>6. ASSUME NEW w \in Workers, TimeOut(w) PROVE Counted'
    <3>1. worker[w] # "out" /\ worker'[w] # "out" /\ active' = active
      BY <2>6, WorkerMoves DEF TimeOut, Closing, Locks
    <3>2. Admitted' = Admitted
      BY <2>6, <3>1, OthersStay DEF Work, Admitted
    <3> QED
      BY <3>1, <3>2 DEF Counted
  <2>7. ASSUME NEW w \in Workers, LockEngine(w) PROVE Counted'
    <3>1. worker[w] # "out" /\ worker'[w] # "out" /\ active' = active
      BY <2>7, WorkerMoves DEF LockEngine, Closing, Locks
    <3>2. Admitted' = Admitted
      BY <2>7, <3>1, OthersStay DEF Work, Admitted
    <3> QED
      BY <3>1, <3>2 DEF Counted
  <2>8. ASSUME NEW w \in Workers, Change(w) PROVE Counted'
    <3>1. worker[w] # "out" /\ worker'[w] # "out" /\ active' = active
      BY <2>8, WorkerMoves DEF Change, Closing, Locks
    <3>2. Admitted' = Admitted
      BY <2>8, <3>1, OthersStay DEF Work, Admitted
    <3> QED
      BY <3>1, <3>2 DEF Counted
  <2>9. ASSUME NEW w \in Workers, LockCommit(w) PROVE Counted'
    <3>1. worker[w] # "out" /\ worker'[w] # "out" /\ active' = active
      BY <2>9, WorkerMoves DEF LockCommit, Closing, Locks
    <3>2. Admitted' = Admitted
      BY <2>9, <3>1, OthersStay DEF Work, Admitted
    <3> QED
      BY <3>1, <3>2 DEF Counted
  <2>10. ASSUME NEW w \in Workers, Commit(w) PROVE Counted'
    <3>1. worker[w] # "out" /\ worker'[w] # "out" /\ active' = active
      BY <2>10, WorkerMoves DEF Commit, Closing, Locks
    <3>2. Admitted' = Admitted
      BY <2>10, <3>1, OthersStay DEF Work, Admitted
    <3> QED
      BY <3>1, <3>2 DEF Counted
  <2>11. ASSUME NEW w \in Workers, Unlock(w) PROVE Counted'
    <3>1. worker[w] # "out" /\ worker'[w] # "out" /\ active' = active
      BY <2>11, WorkerMoves DEF Unlock, Closing, Locks
    <3>2. Admitted' = Admitted
      BY <2>11, <3>1, OthersStay DEF Work, Admitted
    <3> QED
      BY <3>1, <3>2 DEF Counted
  <2>12. ASSUME NEW c \in Closers, Call(c) PROVE Counted'
    <3>1. Admitted' = Admitted
      BY <2>12, OthersStayToo DEF Admitted
    <3> QED
      BY <2>12, <3>1 DEF Call, Counted, Closing, Locks
  <2>13. ASSUME NEW c \in Closers, TakeEngine(c) PROVE Counted'
    <3>1. Admitted' = Admitted
      BY <2>13, OthersStayToo DEF Terminate, Admitted
    <3> QED
      BY <2>13, <3>1 DEF TakeEngine, Counted, Closing, Locks
  <2>14. ASSUME NEW c \in Closers, TakeCommit(c) PROVE Counted'
    <3>1. Admitted' = Admitted
      BY <2>14, OthersStayToo DEF Terminate, Admitted
    <3> QED
      BY <2>14, <3>1 DEF TakeCommit, Counted, Closing, Locks
  <2>15. ASSUME NEW c \in Closers, Close(c) PROVE Counted'
    <3>1. Admitted' = Admitted
      BY <2>15, OthersStayToo DEF Terminate, Admitted
    <3> QED
      BY <2>15, <3>1 DEF Close, Counted, Closing, Locks
  <2>16. ASSUME NEW c \in Closers, Notify(c) PROVE Counted'
    <3>1. Admitted' = Admitted
      BY <2>16, OthersStayToo DEF Terminate, Admitted
    <3> QED
      BY <2>16, <3>1 DEF Notify, Counted, Closing, Locks
  <2>17. ASSUME NEW c \in Closers, Drain(c) PROVE Counted'
    <3>1. Admitted' = Admitted
      BY <2>17, OthersStayToo DEF Terminate, Admitted
    <3> QED
      BY <2>17, <3>1 DEF Drain, Counted, Closing, Locks
  <2>18. ASSUME NEW c \in Closers, CleanUp(c) PROVE Counted'
    <3>1. Admitted' = Admitted
      BY <2>18, OthersStayToo DEF Terminate, Admitted
    <3> QED
      BY <2>18, <3>1 DEF CleanUp, Counted, Closing, Locks
  <2>19. CASE UNCHANGED vars
    BY <2>19 DEF vars, Counted, Admitted
  <2> QED
    BY <2>1, <2>2, <2>3, <2>4, <2>5, <2>6, <2>7, <2>8, <2>9, <2>10, <2>11,
       <2>12, <2>13, <2>14, <2>15, <2>16, <2>17, <2>18, <2>19
       DEF Next, Work, Terminate, Ended
<1> QED
  BY <1>1, <1>2, Shapes, PTL DEF Spec

\* Every variable has its type, the number of tickets included.
THEOREM TypeCorrect == Spec => []TypeOK
<1>1. Shaped /\ Counted => TypeOK
  BY AdmittedIsFinite DEF Shaped, Counted, TypeOK
<1> QED
  BY <1>1, Shapes, Tickets, PTL

-----------------------------------------------------------------------------
(* Closure.                                                                *)

\* Whoever is inside a critical section owns its lock.
LEMMA Ownership == Spec => []LocksOwned
<1>1. Init => LocksOwned
  BY DEF Init, LocksOwned
<1>2. Shaped /\ LocksOwned /\ [Next]_vars => LocksOwned'
  <2> SUFFICES ASSUME Shaped, LocksOwned, [Next]_vars PROVE LocksOwned'
    OBVIOUS
  <2>a. NoOne \notin Workers \cup Closers /\ Workers \cap Closers = {}
    BY LifecycleAssumption DEF NoOne
  <2>1. ASSUME NEW w \in Workers, Enter(w) PROVE LocksOwned'
    BY <2>1, <2>a, WorkerMoves, OthersStay
       DEF Enter, LocksOwned, Closing, Locks
  <2>2. ASSUME NEW w \in Workers, Begin(w) PROVE LocksOwned'
    BY <2>2, <2>a, WorkerMoves, OthersStay
       DEF Begin, LocksOwned, Closing, Locks, Work
  <2>3. ASSUME NEW w \in Workers, Leave(w) PROVE LocksOwned'
    BY <2>3, <2>a, WorkerMoves, OthersStay
       DEF Leave, LocksOwned, Closing, Locks, Work
  <2>4. ASSUME NEW w \in Workers, Sleep(w) PROVE LocksOwned'
    BY <2>4, <2>a, WorkerMoves, OthersStay
       DEF Sleep, LocksOwned, Closing, Locks, Work
  <2>5. ASSUME NEW w \in Workers, WakeUp(w) PROVE LocksOwned'
    BY <2>5, <2>a, WorkerMoves, OthersStay
       DEF WakeUp, LocksOwned, Closing, Locks, Work
  <2>6. ASSUME NEW w \in Workers, TimeOut(w) PROVE LocksOwned'
    BY <2>6, <2>a, WorkerMoves, OthersStay
       DEF TimeOut, LocksOwned, Closing, Locks, Work
  <2>7. ASSUME NEW w \in Workers, LockEngine(w) PROVE LocksOwned'
    BY <2>7, <2>a, WorkerMoves, OthersStay
       DEF LockEngine, LocksOwned, Closing, Locks, Work
  <2>8. ASSUME NEW w \in Workers, Change(w) PROVE LocksOwned'
    BY <2>8, <2>a, WorkerMoves, OthersStay
       DEF Change, LocksOwned, Closing, Locks, Work
  <2>9. ASSUME NEW w \in Workers, LockCommit(w) PROVE LocksOwned'
    BY <2>9, <2>a, WorkerMoves, OthersStay
       DEF LockCommit, LocksOwned, Closing, Locks, Work
  <2>10. ASSUME NEW w \in Workers, Commit(w) PROVE LocksOwned'
    BY <2>10, <2>a, WorkerMoves, OthersStay
       DEF Commit, LocksOwned, Closing, Locks, Work
  <2>11. ASSUME NEW w \in Workers, Unlock(w) PROVE LocksOwned'
    BY <2>11, <2>a, WorkerMoves, OthersStay
       DEF Unlock, LocksOwned, Closing, Locks, Work, Released
  <2>12. ASSUME NEW c \in Closers, Call(c) PROVE LocksOwned'
    BY <2>12, <2>a, CloserMoves, OthersStayToo
       DEF Call, LocksOwned, Closing, Locks
  <2>13. ASSUME NEW c \in Closers, TakeEngine(c) PROVE LocksOwned'
    BY <2>13, <2>a, CloserMoves, OthersStayToo
       DEF TakeEngine, LocksOwned, Closing, Locks, Terminate
  <2>14. ASSUME NEW c \in Closers, TakeCommit(c) PROVE LocksOwned'
    BY <2>14, <2>a, CloserMoves, OthersStayToo
       DEF TakeCommit, LocksOwned, Closing, Locks, Terminate
  <2>15. ASSUME NEW c \in Closers, Close(c) PROVE LocksOwned'
    BY <2>15, <2>a, CloserMoves, OthersStayToo
       DEF Close, LocksOwned, Closing, Locks, Terminate
  <2>16. ASSUME NEW c \in Closers, Notify(c) PROVE LocksOwned'
    BY <2>16, <2>a, CloserMoves, OthersStayToo
       DEF Notify, LocksOwned, Closing, Locks, Terminate
  <2>17. ASSUME NEW c \in Closers, Drain(c) PROVE LocksOwned'
    BY <2>17, <2>a, CloserMoves, OthersStayToo
       DEF Drain, LocksOwned, Closing, Locks, Terminate
  <2>18. ASSUME NEW c \in Closers, CleanUp(c) PROVE LocksOwned'
    BY <2>18, <2>a, CloserMoves, OthersStayToo
       DEF CleanUp, LocksOwned, Closing, Locks, Terminate
  <2>19. CASE UNCHANGED vars
    BY <2>19 DEF vars, LocksOwned
  <2> QED
    BY <2>1, <2>2, <2>3, <2>4, <2>5, <2>6, <2>7, <2>8, <2>9, <2>10, <2>11,
       <2>12, <2>13, <2>14, <2>15, <2>16, <2>17, <2>18, <2>19
       DEF Next, Work, Terminate, Ended
<1> QED
  BY <1>1, <1>2, Shapes, PTL DEF Spec

\* A transition or a commit that was accepted is over before the daemon is
\* closed, and none is accepted afterwards: close() is only reached with both
\* locks in hand, and the question is only asked under one of them.
THEOREM Acceptance == Spec => []AcceptedBeforeClosure
<1>1. Init => AcceptedBeforeClosure
  BY DEF Init, AcceptedBeforeClosure
<1>2. Shaped /\ LocksOwned /\ AcceptedBeforeClosure /\ [Next]_vars
      => AcceptedBeforeClosure'
  <2> SUFFICES ASSUME Shaped, LocksOwned, AcceptedBeforeClosure, [Next]_vars
               PROVE  AcceptedBeforeClosure'
    OBVIOUS
  <2>a. Workers \cap Closers = {}
    BY LifecycleAssumption
  <2>1. ASSUME NEW w \in Workers, Enter(w) PROVE AcceptedBeforeClosure'
    BY <2>1, WorkerMoves, OthersStay
       DEF Enter, AcceptedBeforeClosure, Closing, Locks
  <2>2. ASSUME NEW w \in Workers, Begin(w) PROVE AcceptedBeforeClosure'
    BY <2>2, WorkerMoves, OthersStay
       DEF Begin, AcceptedBeforeClosure, Closing, Locks, Work
  <2>3. ASSUME NEW w \in Workers, Leave(w) PROVE AcceptedBeforeClosure'
    BY <2>3, WorkerMoves, OthersStay
       DEF Leave, AcceptedBeforeClosure, Closing, Locks, Work
  <2>4. ASSUME NEW w \in Workers, Sleep(w) PROVE AcceptedBeforeClosure'
    BY <2>4, WorkerMoves, OthersStay
       DEF Sleep, AcceptedBeforeClosure, Closing, Locks, Work
  <2>5. ASSUME NEW w \in Workers, WakeUp(w) PROVE AcceptedBeforeClosure'
    BY <2>5, WorkerMoves, OthersStay
       DEF WakeUp, AcceptedBeforeClosure, Closing, Locks, Work
  <2>6. ASSUME NEW w \in Workers, TimeOut(w) PROVE AcceptedBeforeClosure'
    BY <2>6, WorkerMoves, OthersStay
       DEF TimeOut, AcceptedBeforeClosure, Closing, Locks, Work
  <2>7. ASSUME NEW w \in Workers, LockEngine(w) PROVE AcceptedBeforeClosure'
    BY <2>7, WorkerMoves, OthersStay
       DEF LockEngine, AcceptedBeforeClosure, Closing, Locks, Work
  <2>8. ASSUME NEW w \in Workers, Change(w) PROVE AcceptedBeforeClosure'
    BY <2>8, WorkerMoves, OthersStay
       DEF Change, AcceptedBeforeClosure, Closing, Locks, Work
  <2>9. ASSUME NEW w \in Workers, LockCommit(w) PROVE AcceptedBeforeClosure'
    BY <2>9, WorkerMoves, OthersStay
       DEF LockCommit, AcceptedBeforeClosure, Closing, Locks, Work
  <2>10. ASSUME NEW w \in Workers, Commit(w) PROVE AcceptedBeforeClosure'
    BY <2>10, WorkerMoves, OthersStay
       DEF Commit, AcceptedBeforeClosure, Closing, Locks, Work
  <2>11. ASSUME NEW w \in Workers, Unlock(w) PROVE AcceptedBeforeClosure'
    BY <2>11, WorkerMoves, OthersStay
       DEF Unlock, AcceptedBeforeClosure, Closing, Locks, Work
  <2>12. ASSUME NEW c \in Closers, Call(c) PROVE AcceptedBeforeClosure'
    BY <2>12, CloserMoves, OthersStayToo
       DEF Call, AcceptedBeforeClosure, Closing, Locks
  <2>13. ASSUME NEW c \in Closers, TakeEngine(c) PROVE AcceptedBeforeClosure'
    BY <2>13, CloserMoves, OthersStayToo
       DEF TakeEngine, AcceptedBeforeClosure, Closing, Locks, Terminate
  <2>14. ASSUME NEW c \in Closers, TakeCommit(c) PROVE AcceptedBeforeClosure'
    BY <2>14, CloserMoves, OthersStayToo
       DEF TakeCommit, AcceptedBeforeClosure, Closing, Locks, Terminate
  <2>15. ASSUME NEW c \in Closers, Close(c) PROVE AcceptedBeforeClosure'
    BY <2>15, <2>a DEF Close, LocksOwned, AcceptedBeforeClosure, Locks
  <2>16. ASSUME NEW c \in Closers, Notify(c) PROVE AcceptedBeforeClosure'
    BY <2>16, CloserMoves, OthersStayToo
       DEF Notify, AcceptedBeforeClosure, Closing, Locks, Terminate
  <2>17. ASSUME NEW c \in Closers, Drain(c) PROVE AcceptedBeforeClosure'
    BY <2>17, CloserMoves, OthersStayToo
       DEF Drain, AcceptedBeforeClosure, Closing, Locks, Terminate
  <2>18. ASSUME NEW c \in Closers, CleanUp(c) PROVE AcceptedBeforeClosure'
    BY <2>18, CloserMoves, OthersStayToo
       DEF CleanUp, AcceptedBeforeClosure, Closing, Locks, Terminate
  <2>19. CASE UNCHANGED vars
    BY <2>19 DEF vars, AcceptedBeforeClosure
  <2> QED
    BY <2>1, <2>2, <2>3, <2>4, <2>5, <2>6, <2>7, <2>8, <2>9, <2>10, <2>11,
       <2>12, <2>13, <2>14, <2>15, <2>16, <2>17, <2>18, <2>19
       DEF Next, Work, Terminate, Ended
<1> QED
  BY <1>1, <1>2, Shapes, Ownership, PTL DEF Spec

\* Whoever is past close() finds the daemon closed, and past drain() empty.
LEMMA Passage == Spec => []PastClosure
<1>1. Init => PastClosure
  BY DEF Init, PastClosure
<1>2. Shaped /\ Counted /\ PastClosure /\ [Next]_vars => PastClosure'
  <2> SUFFICES ASSUME Shaped, Counted, PastClosure, [Next]_vars
               PROVE  PastClosure'
    OBVIOUS
  <2>a. IsFiniteSet(Admitted) /\ Cardinality(Admitted) \in Nat
    BY AdmittedIsFinite
  <2>1. ASSUME NEW w \in Workers, Enter(w) PROVE PastClosure'
    BY <2>1, WorkerMoves, OthersStay DEF Enter, PastClosure, Closing, Locks
  <2>2. ASSUME NEW w \in Workers, Begin(w) PROVE PastClosure'
    BY <2>2, WorkerMoves, OthersStay
       DEF Begin, PastClosure, Closing, Locks, Work
  <2>3. ASSUME NEW w \in Workers, Leave(w) PROVE PastClosure'
    BY <2>3, WorkerMoves, OthersStay
       DEF Leave, PastClosure, Closing, Locks, Work
  <2>4. ASSUME NEW w \in Workers, Sleep(w) PROVE PastClosure'
    BY <2>4, WorkerMoves, OthersStay
       DEF Sleep, PastClosure, Closing, Locks, Work
  <2>5. ASSUME NEW w \in Workers, WakeUp(w) PROVE PastClosure'
    BY <2>5, WorkerMoves, OthersStay
       DEF WakeUp, PastClosure, Closing, Locks, Work
  <2>6. ASSUME NEW w \in Workers, TimeOut(w) PROVE PastClosure'
    BY <2>6, WorkerMoves, OthersStay
       DEF TimeOut, PastClosure, Closing, Locks, Work
  <2>7. ASSUME NEW w \in Workers, LockEngine(w) PROVE PastClosure'
    BY <2>7, WorkerMoves, OthersStay
       DEF LockEngine, PastClosure, Closing, Locks, Work
  <2>8. ASSUME NEW w \in Workers, Change(w) PROVE PastClosure'
    BY <2>8, WorkerMoves, OthersStay
       DEF Change, PastClosure, Closing, Locks, Work
  <2>9. ASSUME NEW w \in Workers, LockCommit(w) PROVE PastClosure'
    BY <2>9, WorkerMoves, OthersStay
       DEF LockCommit, PastClosure, Closing, Locks, Work
  <2>10. ASSUME NEW w \in Workers, Commit(w) PROVE PastClosure'
    BY <2>10, WorkerMoves, OthersStay
       DEF Commit, PastClosure, Closing, Locks, Work
  <2>11. ASSUME NEW w \in Workers, Unlock(w) PROVE PastClosure'
    BY <2>11, WorkerMoves, OthersStay
       DEF Unlock, PastClosure, Closing, Locks, Work
  <2>12. ASSUME NEW c \in Closers, Call(c) PROVE PastClosure'
    BY <2>12, CloserMoves, OthersStayToo
       DEF Call, PastClosure, Closing, Locks
  <2>13. ASSUME NEW c \in Closers, TakeEngine(c) PROVE PastClosure'
    BY <2>13, CloserMoves, OthersStayToo
       DEF TakeEngine, PastClosure, Closing, Locks, Terminate
  <2>14. ASSUME NEW c \in Closers, TakeCommit(c) PROVE PastClosure'
    BY <2>14, CloserMoves, OthersStayToo
       DEF TakeCommit, PastClosure, Closing, Locks, Terminate
  <2>15. ASSUME NEW c \in Closers, Close(c) PROVE PastClosure'
    BY <2>15, CloserMoves, OthersStayToo
       DEF Close, PastClosure, Closing, Locks, Terminate
  <2>16. ASSUME NEW c \in Closers, Notify(c) PROVE PastClosure'
    BY <2>16, CloserMoves, OthersStayToo
       DEF Notify, PastClosure, Closing, Locks, Terminate
  <2>17. ASSUME NEW c \in Closers, Drain(c) PROVE PastClosure'
    <3>1. active = 0 => \A w \in Workers : worker[w] = "out"
      BY <2>a, FS_EmptySet DEF Counted, Admitted
    <3> QED
      BY <2>17, <3>1, CloserMoves, OthersStayToo
         DEF Drain, PastClosure, Terminate, Closing, Locks
  <2>18. ASSUME NEW c \in Closers, CleanUp(c) PROVE PastClosure'
    BY <2>18, CloserMoves, OthersStayToo
       DEF CleanUp, PastClosure, Closing, Locks, Terminate
  <2>19. CASE UNCHANGED vars
    BY <2>19 DEF vars, PastClosure
  <2> QED
    BY <2>1, <2>2, <2>3, <2>4, <2>5, <2>6, <2>7, <2>8, <2>9, <2>10, <2>11,
       <2>12, <2>13, <2>14, <2>15, <2>16, <2>17, <2>18, <2>19
       DEF Next, Work, Terminate, Ended
<1> QED
  BY <1>1, <1>2, Shapes, Tickets, PTL DEF Spec

\* The engine is shut down only when every ticket has come back, and no ticket
\* is handed out again.
THEOREM CleanUpComesLast == Spec => []CleanUpIsAlone
<1>1. Init => CleanUpIsAlone
  BY DEF Init, CleanUpIsAlone
<1>2. Shaped /\ PastClosure /\ CleanUpIsAlone /\ [Next]_vars => CleanUpIsAlone'
  <2> SUFFICES ASSUME Shaped, PastClosure, CleanUpIsAlone, [Next]_vars
               PROVE  CleanUpIsAlone'
    OBVIOUS
  <2>1. ASSUME NEW w \in Workers, Enter(w) PROVE CleanUpIsAlone'
    BY <2>1 DEF Enter, CleanUpIsAlone, Closing
  <2>2. ASSUME NEW w \in Workers, Begin(w) PROVE CleanUpIsAlone'
    BY <2>2 DEF Begin, CleanUpIsAlone, Closing
  <2>3. ASSUME NEW w \in Workers, Leave(w) PROVE CleanUpIsAlone'
    BY <2>3 DEF Leave, CleanUpIsAlone, Closing
  <2>4. ASSUME NEW w \in Workers, Sleep(w) PROVE CleanUpIsAlone'
    BY <2>4 DEF Sleep, CleanUpIsAlone, Closing
  <2>5. ASSUME NEW w \in Workers, WakeUp(w) PROVE CleanUpIsAlone'
    BY <2>5 DEF WakeUp, CleanUpIsAlone, Closing
  <2>6. ASSUME NEW w \in Workers, TimeOut(w) PROVE CleanUpIsAlone'
    BY <2>6 DEF TimeOut, CleanUpIsAlone, Closing
  <2>7. ASSUME NEW w \in Workers, LockEngine(w) PROVE CleanUpIsAlone'
    BY <2>7 DEF LockEngine, CleanUpIsAlone, Closing
  <2>8. ASSUME NEW w \in Workers, Change(w) PROVE CleanUpIsAlone'
    BY <2>8 DEF Change, CleanUpIsAlone, Closing
  <2>9. ASSUME NEW w \in Workers, LockCommit(w) PROVE CleanUpIsAlone'
    BY <2>9 DEF LockCommit, CleanUpIsAlone, Closing
  <2>10. ASSUME NEW w \in Workers, Commit(w) PROVE CleanUpIsAlone'
    BY <2>10 DEF Commit, CleanUpIsAlone, Closing
  <2>11. ASSUME NEW w \in Workers, Unlock(w) PROVE CleanUpIsAlone'
    BY <2>11 DEF Unlock, CleanUpIsAlone, Closing
  <2>12. ASSUME NEW c \in Closers, Call(c) PROVE CleanUpIsAlone'
    BY <2>12, OthersStayToo DEF Call, CleanUpIsAlone, Closing, Locks
  <2>13. ASSUME NEW c \in Closers, TakeEngine(c) PROVE CleanUpIsAlone'
    BY <2>13, OthersStayToo
       DEF TakeEngine, CleanUpIsAlone, Closing, Locks, Terminate
  <2>14. ASSUME NEW c \in Closers, TakeCommit(c) PROVE CleanUpIsAlone'
    BY <2>14, OthersStayToo
       DEF TakeCommit, CleanUpIsAlone, Closing, Locks, Terminate
  <2>15. ASSUME NEW c \in Closers, Close(c) PROVE CleanUpIsAlone'
    BY <2>15, OthersStayToo
       DEF Close, CleanUpIsAlone, Closing, Locks, Terminate
  <2>16. ASSUME NEW c \in Closers, Notify(c) PROVE CleanUpIsAlone'
    BY <2>16, OthersStayToo
       DEF Notify, CleanUpIsAlone, Closing, Locks, Terminate
  <2>17. ASSUME NEW c \in Closers, Drain(c) PROVE CleanUpIsAlone'
    BY <2>17, OthersStayToo
       DEF Drain, CleanUpIsAlone, Closing, Locks, Terminate
  <2>18. ASSUME NEW c \in Closers, CleanUp(c) PROVE CleanUpIsAlone'
    BY <2>18 DEF CleanUp, PastClosure, CleanUpIsAlone, Locks
  <2>19. CASE UNCHANGED vars
    BY <2>19 DEF vars, CleanUpIsAlone
  <2> QED
    BY <2>1, <2>2, <2>3, <2>4, <2>5, <2>6, <2>7, <2>8, <2>9, <2>10, <2>11,
       <2>12, <2>13, <2>14, <2>15, <2>16, <2>17, <2>18, <2>19
       DEF Next, Work, Terminate, Ended
<1> QED
  BY <1>1, <1>2, Shapes, Passage, PTL DEF Spec

\* Every caller of terminate learns of the same cleanup, whatever its result.
THEOREM OneCleanUp == Spec => []OneResult
<1>1. Init => Kept
  BY DEF Init, Kept
<1>2. Shaped /\ Kept /\ [Next]_vars => Kept'
  <2> SUFFICES ASSUME Shaped, Kept, [Next]_vars PROVE Kept'
    OBVIOUS
  <2>1. ASSUME NEW w \in Workers, Enter(w) PROVE Kept'
    BY <2>1 DEF Enter, Kept, Closing
  <2>2. ASSUME NEW w \in Workers, Begin(w) PROVE Kept'
    BY <2>2 DEF Begin, Kept, Closing
  <2>3. ASSUME NEW w \in Workers, Leave(w) PROVE Kept'
    BY <2>3 DEF Leave, Kept, Closing
  <2>4. ASSUME NEW w \in Workers, Sleep(w) PROVE Kept'
    BY <2>4 DEF Sleep, Kept, Closing
  <2>5. ASSUME NEW w \in Workers, WakeUp(w) PROVE Kept'
    BY <2>5 DEF WakeUp, Kept, Closing
  <2>6. ASSUME NEW w \in Workers, TimeOut(w) PROVE Kept'
    BY <2>6 DEF TimeOut, Kept, Closing
  <2>7. ASSUME NEW w \in Workers, LockEngine(w) PROVE Kept'
    BY <2>7 DEF LockEngine, Kept, Closing
  <2>8. ASSUME NEW w \in Workers, Change(w) PROVE Kept'
    BY <2>8 DEF Change, Kept, Closing
  <2>9. ASSUME NEW w \in Workers, LockCommit(w) PROVE Kept'
    BY <2>9 DEF LockCommit, Kept, Closing
  <2>10. ASSUME NEW w \in Workers, Commit(w) PROVE Kept'
    BY <2>10 DEF Commit, Kept, Closing
  <2>11. ASSUME NEW w \in Workers, Unlock(w) PROVE Kept'
    BY <2>11 DEF Unlock, Kept, Closing
  <2>12. ASSUME NEW c \in Closers, Call(c) PROVE Kept'
    BY <2>12 DEF Call, Kept, Closing
  <2>13. ASSUME NEW c \in Closers, TakeEngine(c) PROVE Kept'
    BY <2>13 DEF TakeEngine, Kept, Closing
  <2>14. ASSUME NEW c \in Closers, TakeCommit(c) PROVE Kept'
    BY <2>14 DEF TakeCommit, Kept, Closing
  <2>15. ASSUME NEW c \in Closers, Close(c) PROVE Kept'
    BY <2>15 DEF Close, Kept, Closing
  <2>16. ASSUME NEW c \in Closers, Notify(c) PROVE Kept'
    BY <2>16 DEF Notify, Kept, Closing
  <2>17. ASSUME NEW c \in Closers, Drain(c) PROVE Kept'
    BY <2>17 DEF Drain, Kept, Closing
  <2>18. ASSUME NEW c \in Closers, CleanUp(c) PROVE Kept'
    BY <2>18 DEF CleanUp, Kept, Shaped
  <2>19. CASE UNCHANGED vars
    BY <2>19 DEF vars, Kept
  <2> QED
    BY <2>1, <2>2, <2>3, <2>4, <2>5, <2>6, <2>7, <2>8, <2>9, <2>10, <2>11,
       <2>12, <2>13, <2>14, <2>15, <2>16, <2>17, <2>18, <2>19
       DEF Next, Work, Terminate, Ended
<1>3. Kept => OneResult
  BY DEF Kept, OneResult
<1> QED
  BY <1>1, <1>2, <1>3, Shapes, PTL DEF Spec

\* The daemon ends once: after all work, and with one result for whoever asks.
THEOREM TerminationIsFinal == Spec => []EndsOnce
<1>1. CleanUpIsAlone /\ OneResult => EndsOnce
  BY DEF EndsOnce
<1> QED
  BY <1>1, CleanUpComesLast, OneCleanUp, PTL

-----------------------------------------------------------------------------
(***************************************************************************)
(* From the functions of the daemon, each by itself, to any number of      *)
(* threads that run them: what FunctionsAreOrderly asks of every function  *)
(* is checked on the functions of the code, and is all that is needed.     *)
(***************************************************************************)

\* A thread holds what its function holds at its step, and nothing between functions.
HoldsItsOwn(t) ==
    IF handler[t] = Idle
    THEN holds[t] = {}
    ELSE /\ handler[t] \in Handlers
         /\ at[t] \in 1 .. Len(Handler[handler[t]])
         /\ holds[t] = HeldBefore[handler[t]][at[t]]

LocksInv ==
    /\ handler \in [Threads -> Handlers \cup {Idle}]
    /\ at \in [Threads -> Nat]
    /\ holds \in [Threads -> SUBSET LockNames]
    /\ \A t \in Threads : HoldsItsOwn(t)

\* The proofs of the discipline, about the threads of the daemon.
D == INSTANCE LockDisciplineProofs WITH
    Locks <- LockNames, NoLock <- Idle, wants <- [t \in Threads |-> Wants(t)]

-----------------------------------------------------------------------------
\* The locks of a function, step by step

\* Each step of a function takes or gives a named lock, or records a fact.
LEMMA StepsAreTyped ==
    ASSUME FunctionsAreOrderly, NEW h \in Handlers
    PROVE  /\ Len(Handler[h]) \in Nat
           /\ \A i \in 1 .. Len(Handler[h]) :
                /\ Handler[h][i].does \in {"take", "give", "emit"}
                /\ Handler[h][i].does # "emit" => Handler[h][i].lock \in LockNames
<1>1. Handler[h] \in Seq(Steps)
  BY LockOrderAssumption
  DEF FunctionsAreOrderly, Orderly
<1>2. \A i \in 1 .. Len(Handler[h]) : Handler[h][i] \in Steps
  BY <1>1
<1> QED
  BY <1>1, <1>2 DEF Steps

\* Nothing is held before the first step.
LEMMA NothingAtFirst ==
    ASSUME FunctionsAreOrderly, NEW h \in Handlers
    PROVE  HeldBefore[h][1] = {}
<1>1. 1 \in 1 .. Len(Handler[h]) + 1
  BY StepsAreTyped
<1> QED
  BY <1>1 DEF HeldBefore

\* What is held after a step.
LEMMA HeldAfter ==
    ASSUME FunctionsAreOrderly, NEW h \in Handlers, NEW i \in 1 .. Len(Handler[h])
    PROVE  /\ HeldBefore[h][i] \in SUBSET LockNames
           /\ Handler[h][i].does = "take" =>
                HeldBefore[h][i + 1] = HeldBefore[h][i] \cup {Handler[h][i].lock}
           /\ Handler[h][i].does = "give" =>
                HeldBefore[h][i + 1] = HeldBefore[h][i] \ {Handler[h][i].lock}
           /\ Handler[h][i].does = "emit" => HeldBefore[h][i + 1] = HeldBefore[h][i]
<1> DEFINE N == Len(Handler[h])
           Holds(n, l) == \E j \in 1 .. n - 1 :
                TakesAt(h, j, l) /\ \A k \in j + 1 .. n - 1 : ~GivesAt(h, k, l)
<1>1. N \in Nat /\ i \in Nat /\ 1 <= i /\ i <= N /\ i \in 1 .. N + 1 /\ i + 1 \in 1 .. N + 1
  BY StepsAreTyped
<1>2. ASSUME NEW n \in 1 .. N + 1
      PROVE  HeldBefore[h][n] = {l \in LockNames : Holds(n, l)}
  BY <1>2 DEF HeldBefore
<1>3. ASSUME NEW l
      PROVE  Holds(i + 1, l) <=> TakesAt(h, i, l) \/ (Holds(i, l) /\ ~GivesAt(h, i, l))
  <2>1. ASSUME Holds(i + 1, l), ~TakesAt(h, i, l) PROVE Holds(i, l) /\ ~GivesAt(h, i, l)
    <3>1. PICK j \in 1 .. i + 1 - 1 :
            TakesAt(h, j, l) /\ \A k \in j + 1 .. i + 1 - 1 : ~GivesAt(h, k, l)
      BY <2>1
    <3>2. j # i
      BY <2>1, <3>1
    <3>3. j \in 1 .. i - 1 /\ i \in j + 1 .. i + 1 - 1
      BY <1>1, <3>2
    <3>4. \A k \in j + 1 .. i - 1 : ~GivesAt(h, k, l)
      BY <1>1, <3>1
    <3> QED
      BY <3>1, <3>3, <3>4
  <2>2. ASSUME TakesAt(h, i, l) PROVE Holds(i + 1, l)
    <3>1. i \in 1 .. i + 1 - 1 /\ \A k \in i + 1 .. i + 1 - 1 : FALSE
      BY <1>1
    <3> QED
      BY <2>2, <3>1
  <2>3. ASSUME Holds(i, l), ~GivesAt(h, i, l) PROVE Holds(i + 1, l)
    <3>1. PICK j \in 1 .. i - 1 :
            TakesAt(h, j, l) /\ \A k \in j + 1 .. i - 1 : ~GivesAt(h, k, l)
      BY <2>3
    <3>2. j \in 1 .. i + 1 - 1 /\ \A k \in j + 1 .. i + 1 - 1 : k = i \/ k \in j + 1 .. i - 1
      BY <1>1
    <3> QED
      BY <2>3, <3>1, <3>2
  <2> QED
    BY <2>1, <2>2, <2>3
<1>4. /\ HeldBefore[h][i] = {l \in LockNames : Holds(i, l)}
      /\ HeldBefore[h][i + 1] = {l \in LockNames : Holds(i + 1, l)}
  BY <1>1, <1>2
<1>5. /\ Handler[h][i].does \in {"take", "give", "emit"}
      /\ Handler[h][i].does # "emit" => Handler[h][i].lock \in LockNames
  BY StepsAreTyped
<1> HIDE DEF Holds
<1> QED
  BY <1>3, <1>4, <1>5 DEF TakesAt, GivesAt

\* Where a function may go on holds what it held.
LEMMA ReachedHolds ==
    ASSUME FunctionsAreOrderly, NEW h \in Handlers,
           NEW i \in 1 .. Len(Handler[h]) + 1, NEW j \in Reaches[h][i]
    PROVE  j \in 1 .. Len(Handler[h]) + 1 /\ HeldBefore[h][j] = HeldBefore[h][i]
  BY StepsAreTyped DEF Reaches

-----------------------------------------------------------------------------
\* Threads

\* A thread that arrives where its function holds what the thread holds keeps its own.
LEMMA ArrivesWithItsOwn ==
    ASSUME FunctionsAreOrderly, LocksInv, NEW t \in Threads, NEW h \in Handlers,
           NEW i \in 1 .. Len(Handler[h]) + 1, NEW H \in SUBSET LockNames,
           Arrive(t, h, i), holds' = [holds EXCEPT ![t] = H], HeldBefore[h][i] = H
    PROVE  /\ LocksInv'
           /\ handler'[t] # Idle => handler'[t] = h /\ at'[t] = i
<1>1. Idle \notin Handlers /\ HeldBefore[h][Len(Handler[h]) + 1] = {}
      /\ Len(Handler[h]) \in Nat
  BY StepsAreTyped, LockOrderAssumption
  DEF FunctionsAreOrderly, Orderly
<1>2. /\ handler \in [Threads -> Handlers \cup {Idle}]
      /\ at \in [Threads -> Nat]
      /\ holds \in [Threads -> SUBSET LockNames]
      /\ \A u \in Threads : HoldsItsOwn(u)
  BY DEF LocksInv
<1>3. CASE i > Len(Handler[h])
  <2>1. i = Len(Handler[h]) + 1 /\ H = {}
    BY <1>1, <1>3
  <2>2. handler' = [handler EXCEPT ![t] = Idle] /\ at' = [at EXCEPT ![t] = 0]
    BY <1>3 DEF Arrive
  <2>3. \A u \in Threads : HoldsItsOwn(u)'
    BY <1>2, <2>1, <2>2 DEF HoldsItsOwn
  <2> QED
    BY <1>2, <2>2, <2>3 DEF LocksInv
<1>4. CASE ~(i > Len(Handler[h]))
  <2>1. i \in 1 .. Len(Handler[h])
    BY <1>1, <1>4
  <2>2. handler' = [handler EXCEPT ![t] = h] /\ at' = [at EXCEPT ![t] = i]
    BY <1>4 DEF Arrive
  <2>3. \A u \in Threads : HoldsItsOwn(u)'
    BY <1>1, <1>2, <2>1, <2>2 DEF HoldsItsOwn
  <2> QED
    BY <1>2, <2>1, <2>2, <2>3 DEF LocksInv
<1> QED
  BY <1>3, <1>4

\* Every step of a thread leaves it with the locks of where it arrives.
LEMMA StepArrives ==
    ASSUME FunctionsAreOrderly, LocksInv, NEW t \in Threads,
           Run(t) \/ Take(t) \/ Give(t) \/ Emit(t)
    PROVE  \E h \in Handlers : \E i \in 1 .. Len(Handler[h]) + 1 :
              /\ Arrive(t, h, i)
              /\ holds' = [holds EXCEPT ![t] = HeldBefore[h][i]]
              /\ HeldBefore[h][i] \in SUBSET LockNames
<1>1. /\ handler \in [Threads -> Handlers \cup {Idle}]
      /\ holds \in [Threads -> SUBSET LockNames]
      /\ HoldsItsOwn(t)
  BY DEF LocksInv
<1>2. CASE Run(t)
  <2>1. PICK h \in Handlers : \E i \in Reaches[h][1] : i <= Len(Handler[h]) /\ Arrive(t, h, i)
    BY <1>2 DEF Run
  <2>2. PICK i \in Reaches[h][1] : i <= Len(Handler[h]) /\ Arrive(t, h, i)
    BY <2>1
  <2>3. 1 \in 1 .. Len(Handler[h]) + 1
    BY StepsAreTyped
  <2>4. i \in 1 .. Len(Handler[h]) + 1 /\ HeldBefore[h][i] = {}
    BY <2>3, ReachedHolds, NothingAtFirst
  <2>5. holds' = [holds EXCEPT ![t] = {}]
    BY <1>1, <1>2 DEF Run, HoldsItsOwn
  <2> QED
    BY <2>2, <2>4, <2>5
<1>3. CASE Take(t) \/ Give(t) \/ Emit(t)
  <2>0. PICK h \in Handlers : h = handler[t]
    BY <1>1, <1>3 DEF HoldsItsOwn, Take, Give, Emit
  <2>1. PICK i \in 1 .. Len(Handler[h]) : i = at[t] /\ holds[t] = HeldBefore[h][i]
    BY <1>1, <1>3, <2>0 DEF HoldsItsOwn, Take, Give, Emit
  <2> DEFINE next == HeldBefore[h][i + 1]
  <2>2. holds' = [holds EXCEPT ![t] = next]
    <3>1. /\ Handler[h][i].does = "take" => next = holds[t] \cup {Handler[h][i].lock}
          /\ Handler[h][i].does = "give" => next = holds[t] \ {Handler[h][i].lock}
          /\ Handler[h][i].does = "emit" => next = holds[t]
      <4>1. /\ Handler[h][i].does = "take" =>
                  next = HeldBefore[h][i] \cup {Handler[h][i].lock}
            /\ Handler[h][i].does = "give" =>
                  next = HeldBefore[h][i] \ {Handler[h][i].lock}
            /\ Handler[h][i].does = "emit" => next = HeldBefore[h][i]
        BY HeldAfter
      <4> HIDE DEF next
      <4> QED
        BY <2>1, <4>1, Zenon
    <3>2. CASE Take(t)
      BY <2>0, <2>1, <3>1, <3>2 DEF Take, Step
    <3>3. CASE Give(t)
      BY <2>0, <2>1, <3>1, <3>3 DEF Give, Step
    <3>4. CASE Emit(t)
      BY <1>1, <2>0, <2>1, <3>1, <3>4 DEF Emit, Step
    <3> QED
      BY <1>3, <3>2, <3>3, <3>4
  <2>3. Continue(t)
    BY <1>3 DEF Take, Give, Emit
  <2>4. PICK n \in Reaches[h][i + 1] : Arrive(t, h, n)
    BY <2>0, <2>1, <2>3 DEF Continue
  <2>5. i + 1 \in 1 .. Len(Handler[h]) + 1
    BY <2>1, StepsAreTyped
  <2>6. n \in 1 .. Len(Handler[h]) + 1 /\ HeldBefore[h][n] = next
    BY <2>1, <2>5, ReachedHolds
  <2>7. next \in SUBSET LockNames
    BY <2>1, <2>5 DEF HeldBefore
  <2> HIDE DEF next
  <2> QED
    BY <2>1, <2>2, <2>4, <2>6, <2>7
<1> QED
  BY <1>2, <1>3

\* No thread runs a function at first.
LEMMA LocksInvInit == LocksInit => LocksInv
  BY LockOrderAssumption DEF  LocksInit, LocksInv, HoldsItsOwn

\* Every step of a thread keeps the invariant.
LEMMA LocksInvStep ==
    ASSUME FunctionsAreOrderly, LocksInv, [LocksNext]_lockVars
    PROVE  LocksInv'
<1>1. ASSUME NEW t \in Threads, Run(t) \/ Take(t) \/ Give(t) \/ Emit(t) PROVE LocksInv'
  BY <1>1, StepArrives, ArrivesWithItsOwn
<1>2. CASE UNCHANGED lockVars
  BY <1>2 DEF lockVars, LocksInv, HoldsItsOwn
<1> QED
  BY <1>1, <1>2 DEF LocksNext

\* What a thread asks for ranks above what it holds.
LEMMA AsksUpwards ==
    ASSUME FunctionsAreOrderly, LocksInv, NEW t \in Threads
    PROVE  Wants(t) \in Discipline!Requests /\ Discipline!MayAsk(holds[t], Wants(t))
<1>1. CASE handler[t] # Idle /\ Step(t).does = "take"
  <2> DEFINE h == handler[t]
             i == at[t]
  <2>1. h \in Handlers /\ i \in 1 .. Len(Handler[h]) /\ holds[t] = HeldBefore[h][i]
    BY <1>1 DEF LocksInv, HoldsItsOwn
  <2>2. Handler[h][i].does = "take" /\ Wants(t) = Handler[h][i].lock
    BY <1>1 DEF Wants, Step
  <2>3. Wants(t) \in LockNames
    BY <2>1, <2>2, StepsAreTyped
  <2>4. \A m \in HeldBefore[h][i] : Rank[m] < Rank[Wants(t)]
    BY <2>1, <2>2, <2>3, LockOrderAssumption
    DEF FunctionsAreOrderly, TakesAt, Orderly
  <2> QED
    BY <2>1, <2>3, <2>4 DEF Discipline!Requests, Discipline!MayAsk
<1>2. CASE ~(handler[t] # Idle /\ Step(t).does = "take")
  BY <1>2 DEF Wants, Discipline!Requests, Discipline!MayAsk
<1> QED
  BY <1>1, <1>2

-----------------------------------------------------------------------------
\* What holds of any number of threads

\* The locks of a thread are those of its function at its step (LocksTypeOK), however
\* many threads there are and however they interleave.
THEOREM LocksFollowTheFunctions ==
    FunctionsAreOrderly => (LocksSpec => []LocksTypeOK)
<1> SUFFICES ASSUME FunctionsAreOrderly PROVE LocksSpec => []LocksTypeOK
  OBVIOUS
<1>1. LocksInv => LocksTypeOK
  BY DEF LocksInv, LocksTypeOK, HoldsItsOwn
<1>2. LocksInit => LocksInv
  BY LocksInvInit
<1>3. LocksInv /\ [LocksNext]_lockVars => LocksInv'
  BY LocksInvStep
<1> QED
  BY <1>1, <1>2, <1>3, PTL DEF LocksSpec

\* A transition and its facts are coupled by the gate (the comment on diagnostic_order),
\* however many callers and workers run.
THEOREM FactsAlwaysFollowTheGate ==
    FunctionsAreOrderly => (LocksSpec => []FactsFollowTheGate)
<1> SUFFICES ASSUME FunctionsAreOrderly PROVE LocksSpec => []FactsFollowTheGate
  OBVIOUS
<1>1. ASSUME LocksInv PROVE EmittedUnlocked
  <2>1. ASSUME NEW t \in Threads, handler[t] # Idle, Step(t).does = "emit"
        PROVE  holds[t] \subseteq {"subscription_work"}
    <3>1. /\ handler[t] \in Handlers /\ at[t] \in 1 .. Len(Handler[handler[t]])
          /\ holds[t] = HeldBefore[handler[t]][at[t]]
      BY <1>1, <2>1 DEF LocksInv, HoldsItsOwn
    <3>2. Handler[handler[t]][at[t]].does = "emit"
      BY <2>1 DEF Step
    <3>3. Orderly(handler[t])
      BY <3>1 DEF FunctionsAreOrderly
    <3> QED
      BY <3>1, <3>2, <3>3 DEF Orderly
  <2> QED
    BY <2>1 DEF EmittedUnlocked
<1>2. ASSUME LocksInv PROVE IdentityIsGuarded
  <2>1. ASSUME NEW t \in Threads, "identities" \in holds[t]
        PROVE  /\ "engine" \in holds[t]
               /\ handler[t] = "watchdog" \/ "diagnostic_order" \in holds[t]
    <3>1. /\ handler[t] \in Handlers /\ at[t] \in 1 .. Len(Handler[handler[t]])
          /\ holds[t] = HeldBefore[handler[t]][at[t]]
      BY <1>2, <2>1 DEF LocksInv, HoldsItsOwn
    <3>2. Orderly(handler[t])
      BY <3>1 DEF FunctionsAreOrderly
    <3> QED
      BY <2>1, <3>1, <3>2 DEF Orderly
  <2> QED
    BY <2>1 DEF IdentityIsGuarded
<1>3. LocksInit => LocksInv
  BY LocksInvInit
<1>4. LocksInv /\ [LocksNext]_lockVars => LocksInv'
  BY LocksInvStep
<1> QED
  BY <1>1, <1>2, <1>3, <1>4, PTL DEF LocksSpec, FactsFollowTheGate

\* Threads at steps of their functions ask upwards.
AllAskUpwards ==
    \A t \in Threads :
        Wants(t) \in Discipline!Requests /\ Discipline!MayAsk(holds[t], Wants(t))

\* A step of a thread is a step of the discipline.
LEMMA StepIsDisciplined ==
    ASSUME FunctionsAreOrderly, LocksInv, AllAskUpwards', NEW t \in Threads,
           Run(t) \/ Take(t) \/ Give(t) \/ Emit(t)
    PROVE  Discipline!Take(t) \/ Discipline!Give(t) \/ Discipline!Work(t)
<1> DEFINE W == [u \in Threads |-> Wants(u)]
<1>1. PICK h \in Handlers : \E i \in 1 .. Len(Handler[h]) + 1 :
              /\ Arrive(t, h, i)
              /\ holds' = [holds EXCEPT ![t] = HeldBefore[h][i]]
              /\ HeldBefore[h][i] \in SUBSET LockNames
  BY StepArrives
<1>2. PICK i \in 1 .. Len(Handler[h]) + 1 :
              /\ Arrive(t, h, i)
              /\ holds' = [holds EXCEPT ![t] = HeldBefore[h][i]]
              /\ HeldBefore[h][i] \in SUBSET LockNames
  BY <1>1
<1>3. W' = [W EXCEPT ![t] = Wants(t)']
  <2>1. \A u \in Threads : u # t => Wants(u)' = Wants(u)
    BY <1>2 DEF LocksInv, Arrive, Wants, Step
  <2> QED
    BY <2>1
<1>4. /\ holds'[t] = HeldBefore[h][i]
      /\ handler \in [Threads -> Handlers \cup {Idle}]
      /\ holds \in [Threads -> SUBSET LockNames]
      /\ HoldsItsOwn(t)
      /\ W[t] = Wants(t)
  BY <1>2 DEF LocksInv
<1>5. Wants(t)' \in Discipline!Requests /\ Discipline!MayAsk(holds'[t], Wants(t)')
  BY DEF AllAskUpwards
<1>6. Discipline!Continue(t, holds'[t])
  BY <1>2, <1>3, <1>4, <1>5 DEF Discipline!Continue
<1>7. CASE Run(t)
  <2>1. Wants(t) = Idle /\ holds'[t] = holds[t]
    BY <1>7 DEF Run, Wants
  <2> QED
    BY <1>4, <1>6, <2>1 DEF Discipline!Work
<1>8. CASE Take(t)
  <2>1. /\ Wants(t) = Step(t).lock
        /\ holds'[t] = holds[t] \cup {Wants(t)}
        /\ \A u \in Threads : Wants(t) \notin holds[u]
    BY <1>4, <1>8 DEF Take, Wants
  <2>2. Wants(t) # Idle
    <3>1. handler[t] \in Handlers /\ at[t] \in 1 .. Len(Handler[handler[t]])
      BY <1>4, <1>8 DEF Take, HoldsItsOwn
    <3>2. Step(t).lock \in LockNames
      BY <1>8, <3>1, StepsAreTyped DEF Take, Step
    <3> QED
      BY <2>1, <3>2, LockOrderAssumption
      DEF FunctionsAreOrderly, Orderly
  <2> QED
    BY <1>4, <1>6, <2>1, <2>2 DEF Discipline!Take
<1>9. CASE Give(t)
  <2>1. Wants(t) = Idle /\ holds'[t] = holds[t] \ {Step(t).lock}
    BY <1>4, <1>9 DEF Give, Wants
  <2>2. CASE Step(t).lock \in holds[t]
    BY <1>4, <1>6, <2>1, <2>2 DEF Discipline!Give
  <2>3. CASE Step(t).lock \notin holds[t]
    BY <1>4, <1>6, <2>1, <2>3 DEF Discipline!Work
  <2> QED
    BY <2>2, <2>3
<1>10. CASE Emit(t)
  <2>1. Wants(t) = Idle /\ holds'[t] = holds[t]
    BY <1>4, <1>10 DEF Emit, Wants
  <2> QED
    BY <1>4, <1>6, <2>1 DEF Discipline!Work
<1> QED
  BY <1>7, <1>8, <1>9, <1>10

\* However many threads run them, the functions take the locks in the order the code
\* documents: the daemon implements LockDiscipline.
THEOREM ThreadsAreDisciplined ==
    FunctionsAreOrderly => (LocksSpec => ImplementsDiscipline)
<1> SUFFICES ASSUME FunctionsAreOrderly PROVE LocksSpec => ImplementsDiscipline
  OBVIOUS
<1>1. LocksInit => LocksInv
  BY LocksInvInit
<1>2. LocksInv /\ [LocksNext]_lockVars => LocksInv'
  BY LocksInvStep
<1>3. LocksInv => AllAskUpwards
  BY AsksUpwards DEF AllAskUpwards
<1>4. LocksInit => Discipline!Init
  BY DEF LocksInit, Discipline!Init, Discipline!Requests, Wants
<1>5. ASSUME LocksInv, AllAskUpwards', [LocksNext]_lockVars
      PROVE  [Discipline!Next]_Discipline!vars
  <2>1. ASSUME NEW t \in Threads, Run(t) \/ Take(t) \/ Give(t) \/ Emit(t)
        PROVE  Discipline!Next
    BY <1>5, <2>1, StepIsDisciplined DEF Discipline!Next
  <2>2. CASE UNCHANGED lockVars
    BY <2>2 DEF lockVars, Discipline!vars, Wants, Step
  <2> QED
    BY <1>5, <2>1, <2>2 DEF LocksNext
<1> QED
  BY <1>1, <1>2, <1>3, <1>4, <1>5, PTL DEF LocksSpec, ImplementsDiscipline, Discipline!Spec

\* No set of the daemon's threads, of any size, ever waits for itself, and no lock has
\* two owners.
THEOREM ThreadsNeverWaitInACircle ==
    FunctionsAreOrderly => (LocksSpec => [](Discipline!NoCircle /\ Discipline!Exclusive))
<1> SUFFICES ASSUME FunctionsAreOrderly
             PROVE  LocksSpec => [](Discipline!NoCircle /\ Discipline!Exclusive)
  OBVIOUS
<1>1. D!Ranked(18)
  <2> DEFINE N == Len(Order)
  <2>1. N = 18
    BY DEF Order
  <2> HIDE DEF N
  <2>2. \A l \in LockNames : Rank[l] \in 1 .. 18
    BY <2>1 DEF LockNames, Rank, N
  <2>. 1 .. 18 \subseteq 0 .. 18
    OBVIOUS
  <2>3. Rank \in [LockNames -> 0 .. 18]
    BY <2>2 DEF Rank
  <2> QED
    BY <2>3, LockOrderAssumption
    DEF D!Ranked, FunctionsAreOrderly, Orderly
<1>2. D!Spec => []D!NoCircle
  BY <1>1, D!NeverACircle
<1>3. D!Spec => []D!Exclusive
  BY D!AlwaysExclusive
<1>4. LocksSpec => Discipline!Spec
  BY ThreadsAreDisciplined DEF ImplementsDiscipline
<1>5. (Discipline!Init <=> D!Init) /\ (Discipline!NoCircle <=> D!NoCircle)
      /\ (Discipline!Exclusive <=> D!Exclusive)
  BY DEF Discipline!Init, D!Init, Discipline!Requests, D!Requests,
         Discipline!NoCircle, D!NoCircle, Discipline!Circle, D!Circle,
         Discipline!Exclusive, D!Exclusive
<1>6. [Discipline!Next]_Discipline!vars => [D!Next]_D!vars
  BY DEF Discipline!Next, D!Next, Discipline!Take, D!Take, Discipline!Give, D!Give,
         Discipline!Work, D!Work, Discipline!Continue, D!Continue, Discipline!MayAsk,
         D!MayAsk, Discipline!Requests, D!Requests, Discipline!vars, D!vars
<1> QED
  BY <1>2, <1>3, <1>4, <1>5, <1>6, PTL DEF Discipline!Spec, D!Spec

-----------------------------------------------------------------------------
(***************************************************************************)
(* The recorder of diagnostics, for any keys, sizes of its buckets and     *)
(* limits of its counts.                                                   *)
(***************************************************************************)

Bucket == [key : Keys, suppressed : Nat]
Event == [occurrences : Nat]

\* The sums of the first counts.
Sums(counts, f) ==
    /\ f \in [0 .. Len(counts) -> Nat] /\ f[0] = 0
    /\ \A i \in 1 .. Len(counts) : f[i] = f[i - 1] + counts[i]

\* There are such sums, and the total is the last of them.
LEMMA TotalBuilt ==
    ASSUME NEW counts \in Seq(Nat)
    PROVE  \E f : Sums(counts, f) /\ Total(counts) = f[Len(counts)]
<1> DEFINE N == Len(counts)
           G == [p \in Nat \X (1 .. N) |-> p[1] + counts[p[2]]]
           sum == CHOOSE f : f = [i \in 0 .. N |-> IF i = 0 THEN 0 ELSE f[i - 1] + counts[i]]
<1>1. Total(counts) = sum[N]
  BY DEF Total
<1>2. Builds(Nat, 0, N, G)
  <2>1. \A p \in Nat \X (1 .. N) : p[1] + counts[p[2]] \in Nat
    OBVIOUS
  <2> QED
    BY <2>1 DEF Builds
<1>3. PICK f : Built(f, Nat, 0, N, G)
  BY <1>2, RecursionBuilds
<1>4. /\ f \in [0 .. N -> Nat] /\ f[0] = 0
      /\ \A i \in 1 .. N : f[i] = G[<<f[i - 1], i>>]
  BY <1>3 DEF Built
<1>5. N \in Nat /\ \A i \in 0 .. N : i # 0 => i \in 1 .. N /\ i - 1 \in 0 .. N
  OBVIOUS
<1>6. \A i \in 1 .. N : f[i - 1] \in Nat /\ G[<<f[i - 1], i>>] = f[i - 1] + counts[i]
  <2>1. ASSUME NEW i \in 1 .. N PROVE f[i - 1] \in Nat /\ G[<<f[i - 1], i>>] = f[i - 1] + counts[i]
    <3>1. i - 1 \in 0 .. N
      OBVIOUS
    <3>2. f[i - 1] \in Nat
      BY <1>4, <3>1
    <3>3. <<f[i - 1], i>> \in Nat \X (1 .. N)
      BY <3>2
    <3> QED
      BY <3>2, <3>3
  <2> QED
    BY <2>1
<1> HIDE DEF G
<1>7. \A i \in 0 .. N : f[i] = IF i = 0 THEN 0 ELSE f[i - 1] + counts[i]
  BY <1>4, <1>5, <1>6
<1>8. f = [i \in 0 .. N |-> IF i = 0 THEN 0 ELSE f[i - 1] + counts[i]]
  BY <1>4, <1>7
<1>9. sum = [i \in 0 .. N |-> IF i = 0 THEN 0 ELSE sum[i - 1] + counts[i]]
  BY <1>8
<1> HIDE DEF sum
<1>10. \A i \in 0 .. N : sum[i] = IF i = 0 THEN 0 ELSE sum[i - 1] + counts[i]
  BY <1>9
<1> DEFINE S == {n \in Nat : n <= N => sum[n] \in Nat}
<1>11. 0 \in S
  BY <1>10
<1>12. ASSUME NEW n \in Nat, n \in S PROVE n + 1 \in S
  <2> SUFFICES ASSUME n + 1 <= N PROVE sum[n + 1] \in Nat
    OBVIOUS
  <2>1. n + 1 \in 0 .. N /\ n + 1 # 0 /\ n + 1 - 1 = n /\ n + 1 \in 1 .. N
    OBVIOUS
  <2>2. sum[n + 1] = sum[n] + counts[n + 1]
    BY <1>10, <2>1
  <2> QED
    BY <1>12, <2>1, <2>2
<1> HIDE DEF S
<1>13. Nat \subseteq S
  BY <1>11, <1>12, NaturalSteps
<1>14. \A i \in 0 .. N : sum[i] \in Nat
  BY <1>13 DEF S
<1>15. sum \in [0 .. N -> Nat]
  BY <1>9, <1>14
<1>16. Sums(counts, sum)
  BY <1>10, <1>15, <1>5 DEF Sums
<1> QED
  BY <1>1, <1>16

\* Sums of the same counts are the same.
LEMMA SumsAgree ==
    ASSUME NEW c \in Seq(Nat), NEW d \in Seq(Nat), NEW f, NEW g, Sums(c, f), Sums(d, g),
           NEW m \in Nat, m <= Len(c), m <= Len(d), \A i \in 1 .. m : c[i] = d[i]
    PROVE  f[m] = g[m]
<1> DEFINE S == {n \in Nat : n <= m => f[n] = g[n]}
<1>1. 0 \in S
  BY DEF Sums
<1>2. ASSUME NEW n \in Nat, n \in S PROVE n + 1 \in S
  <2> SUFFICES ASSUME n + 1 <= m PROVE f[n + 1] = g[n + 1]
    OBVIOUS
  <2>1. n + 1 \in 1 .. Len(c) /\ n + 1 \in 1 .. Len(d) /\ n + 1 \in 1 .. m /\ n + 1 - 1 = n
    OBVIOUS
  <2>2. f[n + 1] = f[n] + c[n + 1] /\ g[n + 1] = g[n] + d[n + 1]
    BY <2>1 DEF Sums
  <2> QED
    BY <1>2, <2>1, <2>2
<1> HIDE DEF S
<1>3. m \in S
  BY <1>1, <1>2, NaturalSteps
<1> QED
  BY <1>3 DEF S

\* A total is a number, that of nothing is zero, and one more count adds to it.
LEMMA TotalIsNat ==
    ASSUME NEW c \in Seq(Nat)
    PROVE  Total(c) \in Nat
<1>1. PICK f : Sums(c, f) /\ Total(c) = f[Len(c)]
  BY TotalBuilt
<1> QED
  BY <1>1 DEF Sums

\* No counts sum up to zero.
LEMMA TotalEmpty == Total(<<>>) = 0
<1>1. PICK f : Sums(<<>>, f) /\ Total(<<>>) = f[Len(<<>>)]
  <2>1. <<>> \in Seq(Nat)
    OBVIOUS
  <2> QED
    BY <2>1, TotalBuilt
<1> QED
  BY <1>1 DEF Sums

\* One count more adds itself to the sum.
LEMMA TotalAppend ==
    ASSUME NEW c \in Seq(Nat), NEW d \in Seq(Nat), Len(d) = Len(c) + 1,
           \A i \in 1 .. Len(c) : d[i] = c[i]
    PROVE  Total(d) = Total(c) + d[Len(d)]
<1>1. PICK f : Sums(c, f) /\ Total(c) = f[Len(c)]
  BY TotalBuilt
<1>2. PICK g : Sums(d, g) /\ Total(d) = g[Len(d)]
  BY TotalBuilt
<1>3. PICK n \in Nat : n = Len(c)
  OBVIOUS
<1>4. g[n] = f[n]
  <2>1. n <= Len(c) /\ n <= Len(d) /\ \A i \in 1 .. n : c[i] = d[i]
    BY <1>3
  <2> QED
    BY <1>1, <1>2, <2>1, SumsAgree
<1>5. PICK j \in 1 .. Len(d) : j = n + 1
  BY <1>3
<1>7. j - 1 = n
  BY <1>5
<1>8. g[j] = g[j - 1] + d[j]
  BY <1>2 DEF Sums
<1>6. g[n + 1] = g[n] + d[n + 1]
  BY <1>5, <1>7, <1>8
<1> QED
  BY <1>1, <1>2, <1>3, <1>4, <1>6

\* The first of two counts adds as the last does.
LEMMA TotalFirst ==
    ASSUME NEW c \in Seq(Nat), NEW d \in Seq(Nat), Len(d) = Len(c) + 1,
           \A i \in 1 .. Len(c) : d[i + 1] = c[i]
    PROVE  Total(d) = d[1] + Total(c)
<1>1. PICK f : Sums(c, f) /\ Total(c) = f[Len(c)]
  BY TotalBuilt
<1>2. PICK g : Sums(d, g) /\ Total(d) = g[Len(d)]
  BY TotalBuilt
<1>3. PICK m \in Nat : m = Len(c)
  OBVIOUS
<1>4. PICK x \in Nat : x = d[1]
  <2>1. 1 \in 1 .. Len(d)
    BY <1>3
  <2> QED
    BY <2>1
<1> DEFINE S == {n \in Nat : n <= m => g[n + 1] = x + f[n]}
<1>5. 0 \in S
  <2>1. 1 \in 1 .. Len(d) /\ 1 - 1 = 0
    BY <1>3
  <2>2. g[1] = g[0] + d[1]
    BY <1>2, <2>1 DEF Sums
  <2> QED
    BY <1>1, <1>2, <1>4, <2>2 DEF Sums
<1>6. ASSUME NEW n \in Nat, n \in S PROVE n + 1 \in S
  <2> SUFFICES ASSUME n + 1 <= m PROVE g[n + 1 + 1] = x + f[n + 1]
    OBVIOUS
  <2>1. /\ n + 1 \in 1 .. Len(c) /\ n + 1 + 1 \in 1 .. Len(d)
        /\ n + 1 - 1 = n /\ n + 1 + 1 - 1 = n + 1 /\ n \in 0 .. Len(c)
    BY <1>3
  <2>5. PICK i \in 1 .. Len(c) : i = n + 1 /\ i - 1 = n
    BY <2>1
  <2>6. PICK j \in 1 .. Len(d) : j = n + 1 + 1 /\ j - 1 = n + 1
    BY <2>1
  <2>7. f[i] = f[i - 1] + c[i] /\ g[j] = g[j - 1] + d[j]
    BY <1>1, <1>2 DEF Sums
  <2>2. f[n + 1] = f[n] + c[n + 1] /\ g[n + 1 + 1] = g[n + 1] + d[n + 1 + 1]
    BY <2>5, <2>6, <2>7
  <2>3. f[n] \in Nat /\ c[n + 1] \in Nat /\ d[n + 1 + 1] = c[n + 1]
    <3>1. f[n] \in Nat
      BY <1>1, <2>1 DEF Sums
    <3>2. c[i] \in Nat /\ d[i + 1] = c[i]
      <4>1. c[i] \in Nat
        BY ElementOfSeq
      <4>2. \A k \in 1 .. Len(c) : d[k + 1] = c[k]
        OBVIOUS
      <4>3. d[i + 1] = c[i]
        BY ONLY <4>2, i \in 1 .. Len(c)
      <4> QED
        BY <4>1, <4>3
    <3> QED
      BY <2>5, <3>1, <3>2
  <2>4. g[n + 1] = x + f[n]
    BY <1>3, <1>6
  <2>8. PICK u \in Nat, v \in Nat : u = f[n] /\ v = c[n + 1]
    BY <2>3
  <2>9. g[n + 1 + 1] = (x + u) + v /\ f[n + 1] = u + v
    BY <2>2, <2>3, <2>4, <2>8
  <2>10. (x + u) + v = x + (u + v)
    OBVIOUS
  <2> QED
    BY ONLY <2>9, <2>10
<1> HIDE DEF S
<1>7. m \in S
  BY <1>5, <1>6, NaturalSteps
<1> QED
  BY <1>1, <1>2, <1>3, <1>4, <1>7 DEF S

\* A count that changes changes the total by as much.
LEMMA TotalChange ==
    ASSUME NEW c \in Seq(Nat), NEW d \in Seq(Nat), Len(d) = Len(c),
           NEW k \in 1 .. Len(c), \A i \in 1 .. Len(c) : i # k => d[i] = c[i]
    PROVE  Total(d) + c[k] = Total(c) + d[k]
<1>1. PICK f : Sums(c, f) /\ Total(c) = f[Len(c)]
  BY TotalBuilt
<1>2. PICK g : Sums(d, g) /\ Total(d) = g[Len(d)]
  BY TotalBuilt
<1>3. PICK m \in Nat : m = Len(c)
  OBVIOUS
<1>4. k - 1 \in Nat /\ k \in Nat /\ k <= m /\ c[k] \in Nat /\ d[k] \in Nat
  BY <1>3
<1>5. f[k - 1] = g[k - 1]
  <2>1. \A i \in 1 .. k - 1 : c[i] = d[i]
    <3> SUFFICES ASSUME NEW i \in 1 .. k - 1 PROVE d[i] = c[i]
      OBVIOUS
    <3>1. i \in 1 .. Len(c) /\ i # k
      BY ONLY <1>3, <1>4, i \in 1 .. k - 1
    <3> QED
      BY <3>1
  <2>2. PICK n \in Nat : n = k - 1
    BY ONLY <1>4
  <2>3. n <= Len(c) /\ n <= Len(d)
    BY ONLY <1>3, <1>4, <2>2, Len(d) = Len(c)
  <2>4. \A i \in 1 .. n : c[i] = d[i]
    BY ONLY <2>1, <2>2
  <2>5. Sums(c, f) /\ Sums(d, g)
    BY <1>1, <1>2
  <2>6. f[n] = g[n]
    BY <2>3, <2>4, <2>5, SumsAgree
  <2> QED
    BY ONLY <2>2, <2>6
<1>6. f[k] = f[k - 1] + c[k] /\ g[k] = g[k - 1] + d[k]
  BY <1>1, <1>2, <1>3 DEF Sums
<1>7. \A i \in 0 .. m : f[i] \in Nat /\ g[i] \in Nat
  BY <1>1, <1>2, <1>3 DEF Sums
<1> DEFINE S == {n \in Nat : k + n <= m => g[k + n] + c[k] = f[k + n] + d[k]}
<1>8. 0 \in S
  <2>1. k + 0 = k /\ k - 1 \in 0 .. m
    BY <1>4
  <2> QED
    BY <1>4, <1>5, <1>6, <1>7, <2>1
<1>9. ASSUME NEW n \in Nat, n \in S PROVE n + 1 \in S
  <2> SUFFICES ASSUME k + (n + 1) <= m
               PROVE  g[k + (n + 1)] + c[k] = f[k + (n + 1)] + d[k]
    OBVIOUS
  <2>1. PICK j \in 1 .. m : j = k + (n + 1)
    BY <1>4
  <2>2. j - 1 = k + n /\ j # k /\ j \in 1 .. Len(c) /\ j \in 1 .. Len(d) /\ k + n \in 0 .. m
    BY <1>3, <1>4, <2>1
  <2>3. f[j] = f[k + n] + c[j] /\ g[j] = g[k + n] + d[j]
    BY <1>1, <1>2, <2>2 DEF Sums
  <2>4. d[j] = c[j] /\ c[j] \in Nat /\ f[k + n] \in Nat /\ g[k + n] \in Nat
    BY <1>7, <2>2
  <2>5. g[k + n] + c[k] = f[k + n] + d[k]
    BY <1>9, <2>2
  <2>6. g[j] + c[k] = f[j] + d[k]
    <3>1. PICK u \in Nat, v \in Nat : u = f[k + n] /\ v = g[k + n]
      BY <2>4
    <3>2. PICK x \in Nat, y \in Nat, z \in Nat : x = c[k] /\ y = d[k] /\ z = c[j]
      BY <1>4, <2>4
    <3>3. v + x = u + y
      BY <2>5, <3>1, <3>2
    <3>4. (v + z) + x = (u + z) + y
      BY ONLY <3>3, u \in Nat, v \in Nat, x \in Nat, y \in Nat, z \in Nat
    <3> QED
      BY <2>3, <2>4, <3>1, <3>2, <3>4
  <2> QED
    BY <2>1, <2>6
<1> HIDE DEF S
<1>10. m - k \in S
  <2>1. m - k \in Nat
    BY <1>4
  <2> QED
    BY <1>8, <1>9, <2>1, NaturalSteps
<1>11. k + (m - k) = m
  BY <1>4
<1> QED
  BY <1>1, <1>2, <1>3, <1>10, <1>11 DEF S

\* The total of two sequences of counts, one after the other.
LEMMA TotalConcat ==
    ASSUME NEW c \in Seq(Nat), NEW d \in Seq(Nat)
    PROVE  Total(c \o d) = Total(c) + Total(d)
<1> DEFINE e == c \o d
<1>1. /\ e \in Seq(Nat) /\ Len(e) = Len(c) + Len(d)
      /\ \A i \in 1 .. Len(c) + Len(d) : e[i] = IF i <= Len(c) THEN c[i] ELSE d[i - Len(c)]
  BY ConcatProperties
<1>2. PICK f : Sums(c, f) /\ Total(c) = f[Len(c)]
  BY TotalBuilt
<1>3. PICK g : Sums(d, g) /\ Total(d) = g[Len(d)]
  BY TotalBuilt
<1>4. PICK h : Sums(e, h) /\ Total(e) = h[Len(e)]
  BY <1>1, TotalBuilt
<1>5. PICK m \in Nat, n \in Nat : m = Len(c) /\ n = Len(d)
  OBVIOUS
<1>6. PICK t \in Nat : t = f[m]
  BY <1>2, <1>5 DEF Sums
<1> HIDE DEF e
<1>12. PICK L \in Nat : L = Len(e) /\ L = m + n
  BY <1>1, <1>5
<1>7. h[m] = t
  <2>1. \A i \in 1 .. m : e[i] = c[i]
    BY <1>1, <1>5
  <2>2. m <= Len(e) /\ m <= Len(c)
    BY <1>5, <1>12
  <2>3. h[m] = f[m]
    BY <1>1, <1>2, <1>4, <2>1, <2>2, SumsAgree
  <2> QED
    BY <1>6, <2>3
<1>8. ASSUME NEW i \in 1 .. n PROVE e[m + i] = d[i]
  <2>1. PICK j \in 1 .. m + n : j = m + i
    OBVIOUS
  <2>2. ~(j <= m) /\ j - m = i
    BY <2>1
  <2> QED
    BY <1>1, <1>5, <2>1, <2>2
<1> DEFINE S == {k \in Nat : k <= n => h[m + k] = t + g[k]}
<1>9. 0 \in S
  <2>1. g[0] = 0 /\ m + 0 = m
    BY <1>3 DEF Sums
  <2> QED
    BY <1>7, <2>1
<1>10. ASSUME NEW k \in Nat, k \in S PROVE k + 1 \in S
  <2> SUFFICES ASSUME k + 1 <= n PROVE h[m + (k + 1)] = t + g[k + 1]
    OBVIOUS
  <2>1. PICK i \in 1 .. Len(d) : i = k + 1 /\ i - 1 = k
    BY <1>5
  <2>2. PICK j \in 1 .. Len(e) : j = m + (k + 1) /\ j - 1 = m + k
    <3>1. m + (k + 1) \in 1 .. L /\ m + (k + 1) - 1 = m + k
      BY <1>12
    <3> QED
      BY <1>12, <3>1
  <2>3. g[i] = g[i - 1] + d[i] /\ h[j] = h[j - 1] + e[j]
    BY <1>3, <1>4 DEF Sums
  <2>4. e[j] = d[i] /\ d[i] \in Nat
    BY <1>5, <1>8, <2>1, <2>2
  <2>5. PICK u \in Nat : u = g[k]
    <3>1. k \in 0 .. Len(d)
      BY <1>5
    <3> QED
      BY <1>3, <3>1 DEF Sums
  <2>6. h[m + k] = t + u
    BY <1>10, <2>5
  <2>7. PICK v \in Nat : v = d[i]
    BY <2>4
  <2>8. h[m + (k + 1)] = (t + u) + v /\ g[k + 1] = u + v
    BY <2>1, <2>2, <2>3, <2>4, <2>5, <2>6, <2>7
  <2>9. (t + u) + v = t + (u + v)
    OBVIOUS
  <2> QED
    BY ONLY <2>8, <2>9
<1> HIDE DEF S
<1>11. n \in S
  BY <1>9, <1>10, NaturalSteps
<1>13. h[m + n] = t + g[n]
  BY <1>11 DEF S
<1> QED
  BY <1>2, <1>3, <1>4, <1>5, <1>6, <1>12, <1>13 DEF e

-----------------------------------------------------------------------------
\* What buckets hold, and what events stand for.
Suppressed(some) == [i \in 1 .. Len(some) |-> some[i].suppressed]
Told(events) == [i \in 1 .. Len(events) |-> events[i].occurrences]
HeldBy(some) == Total(Suppressed(some))
ToldBy(events) == Total(Told(events))

\* These are numbers.
LEMMA HeldIsNat ==
    ASSUME NEW b \in Seq(Bucket)
    PROVE  /\ Suppressed(b) \in Seq(Nat) /\ Len(Suppressed(b)) = Len(b)
           /\ \A i \in 1 .. Len(b) : Suppressed(b)[i] = b[i].suppressed
           /\ HeldBy(b) \in Nat
<1>1. \A i \in 1 .. Len(b) : b[i].suppressed \in Nat
  <2>1. \A i \in 1 .. Len(b) : b[i] \in Bucket
    OBVIOUS
  <2> QED
    BY <2>1 DEF Bucket
<1>2. Suppressed(b) \in Seq(Nat) /\ Len(Suppressed(b)) = Len(b)
  BY <1>1 DEF Suppressed
<1> QED
  BY <1>2, TotalIsNat DEF HeldBy, Suppressed

\* What events tell is a sum of natural numbers.
LEMMA ToldIsNat ==
    ASSUME NEW e \in Seq(Event)
    PROVE  /\ Told(e) \in Seq(Nat) /\ Len(Told(e)) = Len(e)
           /\ \A i \in 1 .. Len(e) : Told(e)[i] = e[i].occurrences
           /\ ToldBy(e) \in Nat
<1>1. \A i \in 1 .. Len(e) : e[i].occurrences \in Nat
  <2>1. \A i \in 1 .. Len(e) : e[i] \in Event
    OBVIOUS
  <2> QED
    BY <2>1 DEF Event
<1>2. Told(e) \in Seq(Nat) /\ Len(Told(e)) = Len(e)
  BY <1>1 DEF Told
<1> QED
  BY <1>2, TotalIsNat DEF ToldBy, Told

\* No bucket holds and no event tells nothing.
LEMMA NothingHeld == HeldBy(<<>>) = 0 /\ ToldBy(<<>>) = 0
<1>1. Suppressed(<<>>) = <<>> /\ Told(<<>>) = <<>>
  BY DEF Suppressed, Told
<1> QED
  BY <1>1, TotalEmpty DEF HeldBy, ToldBy

\* Events one after the other.
LEMMA ToldConcat ==
    ASSUME NEW d \in Seq(Event), NEW e \in Seq(Event)
    PROVE  d \o e \in Seq(Event) /\ ToldBy(d \o e) = ToldBy(d) + ToldBy(e)
<1>1. PICK m \in Nat, n \in Nat : m = Len(d) /\ n = Len(e)
  OBVIOUS
<1>2. PICK s \in Seq(Event) : s = d \o e
  BY ConcatProperties
<1>3. /\ Len(s) = m + n
      /\ \A i \in 1 .. m + n : s[i] = IF i <= m THEN d[i] ELSE e[i - m]
  BY <1>1, <1>2, ConcatProperties
<1>9. PICK c \in Seq(Nat), f \in Seq(Nat) : c = Told(d) /\ f = Told(e)
  BY ToldIsNat
<1>10. Len(c) = m /\ Len(f) = n
  BY <1>1, <1>9, ToldIsNat
<1>4. PICK t \in Seq(Nat) : t = c \o f
  BY ConcatProperties
<1>5. /\ Len(t) = m + n
      /\ \A i \in 1 .. m + n : t[i] = IF i <= m THEN Told(d)[i] ELSE Told(e)[i - m]
  <2>1. /\ Len(t) = Len(c) + Len(f)
        /\ \A i \in 1 .. Len(c) + Len(f) : t[i] = IF i <= Len(c) THEN c[i] ELSE f[i - Len(c)]
    BY <1>4, ConcatProperties
  <2> QED
    BY ONLY <1>9, <1>10, <2>1
<1>6. ASSUME NEW i \in 1 .. m + n PROVE Told(s)[i] = t[i]
  <2>1. Told(s)[i] = s[i].occurrences
    BY <1>3, ToldIsNat
  <2>2. CASE i <= m
    <3>1. i \in 1 .. Len(d)
      BY <1>1, <2>2
    <3>2. Told(d)[i] = d[i].occurrences
      BY <3>1, ToldIsNat
    <3> QED
      BY <1>3, <1>5, <2>1, <2>2, <3>2
  <2>3. CASE ~(i <= m)
    <3>1. i - m \in 1 .. Len(e)
      BY <1>1, <2>3
    <3>2. Told(e)[i - m] = e[i - m].occurrences
      BY <3>1, ToldIsNat
    <3> QED
      BY <1>3, <1>5, <2>1, <2>3, <3>2
  <2> QED
    BY <2>2, <2>3
<1>7. Told(s) = t
  <2>1. Told(s) \in Seq(Nat) /\ Len(Told(s)) = m + n
    BY <1>3, ToldIsNat
  <2> QED
    BY <1>5, <1>6, <2>1, SeqEqual
<1>8. Total(t) = Total(Told(d)) + Total(Told(e))
  BY <1>4, <1>9, TotalConcat
<1> QED
  BY <1>2, <1>7, <1>8 DEF ToldBy

\* One event.
LEMMA ToldOnce ==
    ASSUME NEW n \in Nat
    PROVE  <<Occurrences(n)>> \in Seq(Event) /\ ToldBy(<<Occurrences(n)>>) = n
<1> DEFINE e == <<Occurrences(n)>>
<1>1. e \in Seq(Event) /\ Len(e) = 1 /\ e[1].occurrences = n
  BY DEF Event, Occurrences
<1> HIDE DEF e
<1>2. Told(e) \in Seq(Nat) /\ Len(Told(e)) = 1 /\ Told(e)[1] = n
  BY <1>1, ToldIsNat
<1>3. PICK z \in Seq(Nat) : z = <<>> /\ Len(z) = 0
  <2>1. <<>> \in Seq(Nat) /\ Len(<<>>) = 0
    OBVIOUS
  <2> QED
    BY <2>1
<1>4. \A i \in 1 .. Len(z) : Told(e)[i] = z[i]
  BY <1>3
<1>5. Total(Told(e)) = Total(z) + Told(e)[1]
  <2>1. PICK y \in Seq(Nat) : y = Told(e)
    BY <1>2
  <2>2. Len(y) = Len(z) + 1 /\ Len(y) = 1
    BY <1>2, <1>3, <2>1
  <2>3. Total(y) = Total(z) + y[Len(y)]
    BY <1>4, <2>1, <2>2, TotalAppend
  <2> QED
    BY <2>1, <2>2, <2>3
<1>6. Total(Told(e)) = n
  BY <1>2, <1>3, <1>5, TotalEmpty
<1> QED
  BY <1>1, <1>6 DEF ToldBy, e

\* What a bucket is flushed into tells of all it held.
LEMMA FlushedTells ==
    ASSUME NEW b \in Bucket
    PROVE  Flushed(b) \in Seq(Event) /\ ToldBy(Flushed(b)) = b.suppressed
<1>1. b.suppressed \in Nat
  BY DEF Bucket
<1> QED
  BY <1>1, ToldOnce, NothingHeld DEF Flushed

\* One bucket more.
LEMMA HeldAppend ==
    ASSUME NEW b \in Seq(Bucket), NEW x \in Bucket
    PROVE  Append(b, x) \in Seq(Bucket) /\ HeldBy(Append(b, x)) = HeldBy(b) + x.suppressed
<1>1. PICK d \in Seq(Bucket) : d = Append(b, x)
  BY AppendProperties
<1>2. /\ Len(d) = Len(b) + 1 /\ d[Len(b) + 1] = x
      /\ \A i \in 1 .. Len(b) : d[i] = b[i]
  BY <1>1, AppendProperties
<1>3. PICK s \in Seq(Nat), t \in Seq(Nat) : s = Suppressed(b) /\ t = Suppressed(d)
  BY HeldIsNat
<1>4. PICK n \in Nat : n = Len(b)
  OBVIOUS
<1>5. Len(s) = n /\ Len(t) = n + 1
  BY <1>2, <1>3, <1>4, HeldIsNat
<1>6. n + 1 \in 1 .. Len(d) /\ \A i \in 1 .. n : i \in 1 .. Len(d)
  BY <1>2, <1>4
<1>7. t[n + 1] = x.suppressed /\ \A i \in 1 .. n : t[i] = s[i]
  BY <1>2, <1>3, <1>4, <1>6, HeldIsNat
<1>8. Total(t) = Total(s) + t[Len(t)]
  BY <1>5, <1>7, TotalAppend
<1> QED
  BY <1>1, <1>3, <1>5, <1>7, <1>8 DEF HeldBy

\* The first bucket, and the others.
LEMMA HeldTail ==
    ASSUME NEW b \in Seq(Bucket), b # <<>>
    PROVE  /\ Head(b) \in Bucket /\ Tail(b) \in Seq(Bucket)
           /\ HeldBy(b) = Head(b).suppressed + HeldBy(Tail(b))
<1>1. PICK d \in Seq(Bucket) : d = Tail(b)
  BY HeadTailProperties
<1>2. /\ Len(b) = Len(d) + 1 /\ Head(b) = b[1] /\ Head(b) \in Bucket
      /\ \A i \in 1 .. Len(d) : b[i + 1] = d[i]
  <2>1. Len(b) \in Nat /\ Len(b) # 0
    OBVIOUS
  <2>2. Head(b) = b[1]
    OBVIOUS
  <2> QED
    BY <1>1, <2>1, <2>2, HeadTailProperties
<1>3. PICK s \in Seq(Nat), t \in Seq(Nat) : s = Suppressed(d) /\ t = Suppressed(b)
  BY HeldIsNat
<1>4. PICK n \in Nat : n = Len(d)
  OBVIOUS
<1>5. Len(s) = n /\ Len(t) = n + 1
  BY <1>2, <1>3, <1>4, HeldIsNat
<1>6. 1 \in 1 .. Len(b) /\ \A i \in 1 .. n : i + 1 \in 1 .. Len(b)
  BY <1>2, <1>4
<1>9. /\ \A i \in 1 .. Len(b) : t[i] = b[i].suppressed
      /\ \A i \in 1 .. Len(d) : s[i] = d[i].suppressed
  BY <1>3, HeldIsNat
<1>7. t[1] = b[1].suppressed /\ \A i \in 1 .. n : t[i + 1] = s[i]
  <2>1. t[1] = b[1].suppressed
    BY <1>6, <1>9
  <2>2. ASSUME NEW i \in 1 .. n PROVE t[i + 1] = s[i]
    <3>1. t[i + 1] = b[i + 1].suppressed
      BY <1>6, <1>9
    <3>2. b[i + 1] = d[i] /\ s[i] = d[i].suppressed
      BY <1>2, <1>4, <1>9
    <3> QED
      BY <3>1, <3>2
  <2> QED
    BY <2>1, <2>2
<1>8. Total(t) = t[1] + Total(s)
  BY <1>5, <1>7, TotalFirst
<1> QED
  BY <1>1, <1>2, <1>3, <1>7, <1>8 DEF HeldBy

\* The first event, and the others.
LEMMA ToldTail ==
    ASSUME NEW b \in Seq(Event), b # <<>>
    PROVE  /\ Head(b) \in Event /\ Tail(b) \in Seq(Event)
           /\ ToldBy(b) = Head(b).occurrences + ToldBy(Tail(b))
<1>1. PICK d \in Seq(Event) : d = Tail(b)
  BY HeadTailProperties
<1>2. /\ Len(b) = Len(d) + 1 /\ Head(b) = b[1] /\ Head(b) \in Event
      /\ \A i \in 1 .. Len(d) : b[i + 1] = d[i]
  <2>1. Len(b) \in Nat /\ Len(b) # 0
    OBVIOUS
  <2>2. Head(b) = b[1]
    OBVIOUS
  <2> QED
    BY <1>1, <2>1, <2>2, HeadTailProperties
<1>3. PICK s \in Seq(Nat), t \in Seq(Nat) : s = Told(d) /\ t = Told(b)
  BY ToldIsNat
<1>4. PICK n \in Nat : n = Len(d)
  OBVIOUS
<1>5. Len(s) = n /\ Len(t) = n + 1
  BY <1>2, <1>3, <1>4, ToldIsNat
<1>6. 1 \in 1 .. Len(b) /\ \A i \in 1 .. n : i + 1 \in 1 .. Len(b)
  BY <1>2, <1>4
<1>9. /\ \A i \in 1 .. Len(b) : t[i] = b[i].occurrences
      /\ \A i \in 1 .. Len(d) : s[i] = d[i].occurrences
  BY <1>3, ToldIsNat
<1>7. t[1] = b[1].occurrences /\ \A i \in 1 .. n : t[i + 1] = s[i]
  <2>1. t[1] = b[1].occurrences
    BY <1>6, <1>9
  <2>2. ASSUME NEW i \in 1 .. n PROVE t[i + 1] = s[i]
    <3>1. t[i + 1] = b[i + 1].occurrences
      BY <1>6, <1>9
    <3>2. b[i + 1] = d[i] /\ s[i] = d[i].occurrences
      BY <1>2, <1>4, <1>9
    <3> QED
      BY <3>1, <3>2
  <2> QED
    BY <2>1, <2>2
<1>8. Total(t) = t[1] + Total(s)
  BY <1>5, <1>7, TotalFirst
<1> QED
  BY <1>1, <1>2, <1>3, <1>7, <1>8 DEF ToldBy

\* A bucket that changes what it holds.
LEMMA HeldChange ==
    ASSUME NEW b \in Seq(Bucket), NEW k \in 1 .. Len(b), NEW x \in Bucket
    PROVE  /\ [b EXCEPT ![k] = x] \in Seq(Bucket)
           /\ HeldBy([b EXCEPT ![k] = x]) + b[k].suppressed = HeldBy(b) + x.suppressed
<1>1. PICK d \in Seq(Bucket) : d = [b EXCEPT ![k] = x]
  BY ExceptSeq
<1>2. Len(d) = Len(b) /\ d[k] = x /\ \A i \in 1 .. Len(b) : i # k => d[i] = b[i]
  BY <1>1, ExceptSeq
<1>3. PICK s \in Seq(Nat), t \in Seq(Nat) : s = Suppressed(b) /\ t = Suppressed(d)
  BY HeldIsNat
<1>4. Len(s) = Len(b) /\ Len(t) = Len(b)
  BY <1>2, <1>3, HeldIsNat
<1>5. /\ s[k] = b[k].suppressed /\ t[k] = x.suppressed
      /\ \A i \in 1 .. Len(b) : i # k => t[i] = s[i]
  BY <1>2, <1>3, HeldIsNat
<1>6. Total(t) + s[k] = Total(s) + t[k]
  BY <1>4, <1>5, TotalChange
<1> QED
  BY <1>1, <1>3, <1>5, <1>6 DEF HeldBy

-----------------------------------------------------------------------------
\* Flushing some buckets loses nothing of what they held.
LEMMA FlushKeeps ==
    ASSUME NEW b \in Seq(Bucket), NEW gone
    PROVE  /\ Flush(gone, b) \in [buckets : Seq(Bucket), output : Seq(Event)]
           /\ HeldBy(Flush(gone, b).buckets) + ToldBy(Flush(gone, b).output) = HeldBy(b)
           /\ Keys \subseteq gone => Flush(gone, b).buckets = <<>>
<1> DEFINE V == [buckets : Seq(Bucket), output : Seq(Event)]
           start == [buckets |-> <<>>, output |-> <<>>]
           Treated(p, x) == IF x.key \in gone
                         THEN [p EXCEPT !.output = p.output \o Flushed(x)]
                         ELSE [p EXCEPT !.buckets = Append(p.buckets, x)]
           done == CHOOSE f : f = [i \in 0 .. Len(b) |->
                IF i = 0 THEN [buckets |-> <<>>, output |-> <<>>]
                ELSE IF b[i].key \in gone
                THEN [f[i - 1] EXCEPT !.output = @ \o Flushed(b[i])]
                ELSE [f[i - 1] EXCEPT !.buckets = Append(@, b[i])]]
<1>1. Flush(gone, b) = done[Len(b)]
  BY DEF Flush
<1>2. PICK N \in Nat : N = Len(b)
  OBVIOUS
<1>3. \A i \in 1 .. N : b[i] \in Bucket
  BY <1>2
<1>4. ASSUME NEW p \in V, NEW x \in Bucket
      PROVE  /\ Treated(p, x) \in V
             /\ HeldBy(Treated(p, x).buckets) + ToldBy(Treated(p, x).output)
                    = HeldBy(p.buckets) + ToldBy(p.output) + x.suppressed
             /\ x.key \in gone => Treated(p, x).buckets = p.buckets
  <2>1. PICK h \in Nat, t \in Nat, y \in Nat :
            h = HeldBy(p.buckets) /\ t = ToldBy(p.output) /\ y = x.suppressed
    BY HeldIsNat, ToldIsNat DEF Bucket
  <2>2. CASE x.key \in gone
    <3>1. PICK e \in Seq(Event) : e = p.output \o Flushed(x) /\ ToldBy(e) = t + y
      <4>1. p.output \in Seq(Event) /\ Flushed(x) \in Seq(Event)
        BY FlushedTells
      <4> QED
        BY <2>1, <4>1, FlushedTells, ToldConcat
    <3>2. Treated(p, x) = [p EXCEPT !.output = e]
      BY <2>2, <3>1
    <3>3. Treated(p, x) \in V /\ Treated(p, x).buckets = p.buckets /\ Treated(p, x).output = e
      BY <3>2
    <3>4. h + (t + y) = h + t + y
      OBVIOUS
    <3> HIDE DEF Treated
    <3> QED
      BY <2>1, <3>1, <3>3, <3>4
  <2>3. CASE x.key \notin gone
    <3>1. PICK c \in Seq(Bucket) : c = Append(p.buckets, x) /\ HeldBy(c) = h + y
      BY <2>1, HeldAppend
    <3>2. Treated(p, x) = [p EXCEPT !.buckets = c]
      BY <2>3, <3>1
    <3>3. Treated(p, x) \in V /\ Treated(p, x).buckets = c /\ Treated(p, x).output = p.output
      BY <3>2
    <3>4. (h + y) + t = h + t + y
      OBVIOUS
    <3> HIDE DEF Treated
    <3> QED
      BY <2>1, <2>3, <3>1, <3>3, <3>4
  <2> QED
    BY <2>2, <2>3
<1> DEFINE G == [p \in V \X (1 .. N) |-> Treated(p[1], b[p[2]])]
<1>5. start \in V
  OBVIOUS
<1>6. Builds(V, start, N, G)
  <2>1. \A p \in V \X (1 .. N) : Treated(p[1], b[p[2]]) \in V
    BY <1>3, <1>4
  <2> HIDE DEF V, start, Treated
  <2> QED
    BY <1>5, <2>1 DEF Builds
<1>7. PICK f : Built(f, V, start, N, G)
  BY <1>6, RecursionBuilds
<1>8. f \in [0 .. N -> V] /\ f[0] = start /\ \A i \in 1 .. N : f[i] = Treated(f[i - 1], b[i])
  <2>1. f \in [0 .. N -> V] /\ f[0] = start /\ \A i \in 1 .. N : f[i] = G[<<f[i - 1], i>>]
    BY <1>7 DEF Built
  <2>2. ASSUME NEW i \in 1 .. N PROVE f[i] = Treated(f[i - 1], b[i])
    <3>1. i - 1 \in 0 .. N
      OBVIOUS
    <3>2. f[i - 1] \in V
      BY <2>1, <3>1
    <3>3. <<f[i - 1], i>> \in V \X (1 .. N)
      BY <3>2
    <3> HIDE DEF V, Treated
    <3>4. G[<<f[i - 1], i>>] = Treated(f[i - 1], b[i])
      BY <3>3
    <3> QED
      BY <2>1, <3>4
  <2> QED
    BY <2>1, <2>2
<1> HIDE DEF G
<1>9. f = [i \in 0 .. N |-> IF i = 0 THEN start ELSE Treated(f[i - 1], b[i])]
  <2>1. \A i \in 0 .. N : i # 0 => i \in 1 .. N
    OBVIOUS
  <2> HIDE DEF V, start, Treated
  <2> QED
    BY <1>8, <2>1
<1>10. done = [i \in 0 .. N |-> IF i = 0 THEN start ELSE Treated(done[i - 1], b[i])]
  <2>1. \E g : g = [i \in 0 .. Len(b) |->
                IF i = 0 THEN [buckets |-> <<>>, output |-> <<>>]
                ELSE IF b[i].key \in gone
                THEN [g[i - 1] EXCEPT !.output = @ \o Flushed(b[i])]
                ELSE [g[i - 1] EXCEPT !.buckets = Append(@, b[i])]]
    BY <1>2, <1>9
  <2> HIDE DEF V
  <2> QED
    BY <1>2, <2>1
<1> HIDE DEF done
<1>11. PICK s : Sums(Suppressed(b), s) /\ HeldBy(b) = s[N]
  BY <1>2, HeldIsNat, TotalBuilt DEF HeldBy
<1>12. \A i \in 1 .. N : s[i] = s[i - 1] + b[i].suppressed
  BY <1>2, <1>11, HeldIsNat DEF Sums
<1> DEFINE Good(i) == /\ done[i] \in V
                      /\ HeldBy(done[i].buckets) + ToldBy(done[i].output) = s[i]
                      /\ Keys \subseteq gone => done[i].buckets = <<>>
           S == {n \in Nat : n <= N => Good(n)}
<1>13. 0 \in S
  <2>1. done[0] = start
    <3>1. 0 \in 0 .. N
      OBVIOUS
    <3> HIDE DEF start, Treated
    <3> QED
      BY <1>10, <3>1
  <2>2. HeldBy(start.buckets) + ToldBy(start.output) = 0
    BY NothingHeld
  <2>3. s[0] = 0
    BY ONLY <1>11 DEF Sums
  <2>4. start.buckets = <<>>
    OBVIOUS
  <2> HIDE DEF start, V
  <2>5. Good(0)
    BY <1>5, <2>1, <2>2, <2>3, <2>4
  <2> QED
    BY <2>5
<1>14. ASSUME NEW n \in Nat, n \in S PROVE n + 1 \in S
  <2> SUFFICES ASSUME n + 1 <= N PROVE Good(n + 1)
    OBVIOUS
  <2>1. PICK j \in 1 .. N : j = n + 1 /\ j - 1 = n
    OBVIOUS
  <2>2. Good(n)
    BY <1>14
  <2>3. done[j] = Treated(done[n], b[j])
    <3> HIDE DEF V, start, Treated
    <3> QED
      BY <1>10, <2>1
  <2>4. b[j] \in Bucket /\ b[j].key \in Keys
    BY <1>3 DEF Bucket
  <2>5. s[j] = s[n] + b[j].suppressed
    BY <1>12, <2>1
  <2> HIDE DEF Treated, V
  <2>6. /\ done[j] \in V
        /\ HeldBy(done[j].buckets) + ToldBy(done[j].output) = s[j]
    BY <1>4, <2>2, <2>3, <2>4, <2>5
  <2>7. Keys \subseteq gone => done[j].buckets = <<>>
    BY <1>4, <2>2, <2>3, <2>4
  <2> QED
    BY <2>1, <2>6, <2>7
<1> HIDE DEF S
<1>15. N \in S
  BY <1>13, <1>14, NaturalSteps
<1> QED
  BY <1>1, <1>2, <1>11, <1>15 DEF S

\* There is nothing to flush where there is no bucket.
LEMMA FlushNothing ==
    ASSUME NEW gone
    PROVE  Flush(gone, <<>>).buckets = <<>>
<1>1. PICK b \in Seq(Bucket) : b = <<>> /\ Len(b) = 0
  <2>1. <<>> \in Seq(Bucket) /\ Len(<<>>) = 0
    OBVIOUS
  <2> QED
    BY <2>1
<1> DEFINE done == CHOOSE f : f = [i \in 0 .. Len(b) |->
                IF i = 0 THEN [buckets |-> <<>>, output |-> <<>>]
                ELSE IF b[i].key \in gone
                THEN [f[i - 1] EXCEPT !.output = @ \o Flushed(b[i])]
                ELSE [f[i - 1] EXCEPT !.buckets = Append(@, b[i])]]
<1>2. Flush(gone, <<>>) = done[0]
  BY <1>1 DEF Flush
<1> DEFINE g == [i \in {0} |-> [buckets |-> <<>>, output |-> <<>>]]
<1>3. g = [i \in 0 .. Len(b) |->
                IF i = 0 THEN [buckets |-> <<>>, output |-> <<>>]
                ELSE IF b[i].key \in gone
                THEN [g[i - 1] EXCEPT !.output = @ \o Flushed(b[i])]
                ELSE [g[i - 1] EXCEPT !.buckets = Append(@, b[i])]]
  <2>1. 0 .. Len(b) = {0}
    BY <1>1
  <2> QED
    BY <2>1
<1>4. done = [i \in 0 .. Len(b) |->
                IF i = 0 THEN [buckets |-> <<>>, output |-> <<>>]
                ELSE IF b[i].key \in gone
                THEN [done[i - 1] EXCEPT !.output = @ \o Flushed(b[i])]
                ELSE [done[i - 1] EXCEPT !.buckets = Append(@, b[i])]]
  <2> HIDE DEF g
  <2> QED
    BY <1>3
<1> HIDE DEF done
<1>5. 0 \in 0 .. Len(b)
  BY <1>1
<1>6. done[0] = [buckets |-> <<>>, output |-> <<>>]
  BY <1>4, <1>5
<1> QED
  BY <1>2, <1>6

-----------------------------------------------------------------------------
\* The account of the recorder: what it has, and what it says where that is too little.
Account == confirmed + excused + lost.occurrences + HeldBy(buckets) + ToldBy(output)

RecorderInv ==
    /\ fenced \in BOOLEAN /\ buckets \in Seq(Bucket) /\ output \in Seq(Event)
    /\ lost \in [attempts : Nat, occurrences : Nat, saturated : BOOLEAN]
    /\ facts \in Nat /\ confirmed \in Nat /\ excused \in Nat
    /\ Account <= facts
    /\ Account # facts => lost.saturated \/ vague
    /\ fenced => buckets = <<>>

\* What a reduction must return: it keeps what the buckets held, and adds so much.
Accounts(r, more) ==
    /\ r \in [buckets : Seq(Bucket), output : Seq(Event)]
    /\ HeldBy(r.buckets) + ToldBy(r.output) = HeldBy(buckets) + more

\* Closing buckets adds what the events tell.
LEMMA ClosedKeeps ==
    ASSUME NEW b \in Seq(Bucket), NEW gone, NEW events \in Seq(Event)
    PROVE  /\ Closed(gone, b, events) \in [buckets : Seq(Bucket), output : Seq(Event)]
           /\ HeldBy(Closed(gone, b, events).buckets) + ToldBy(Closed(gone, b, events).output)
                = HeldBy(b) + ToldBy(events)
           /\ Keys \subseteq gone => Closed(gone, b, events).buckets = <<>>
<1>1. PICK p \in [buckets : Seq(Bucket), output : Seq(Event)] : p = Flush(gone, b)
  BY FlushKeeps
<1>2. /\ HeldBy(p.buckets) + ToldBy(p.output) = HeldBy(b)
      /\ Keys \subseteq gone => p.buckets = <<>>
  BY <1>1, FlushKeeps
<1>3. PICK e \in Seq(Event) : e = p.output \o events /\ ToldBy(e) = ToldBy(p.output) + ToldBy(events)
  BY ToldConcat
<1>4. PICK q \in [buckets : Seq(Bucket), output : Seq(Event)] : q = [p EXCEPT !.output = e]
  OBVIOUS
<1>5. q = Closed(gone, b, events) /\ q.buckets = p.buckets /\ q.output = e
  BY <1>1, <1>3, <1>4 DEF Closed
<1>6. PICK h \in Nat, t \in Nat, y \in Nat :
        h = HeldBy(p.buckets) /\ t = ToldBy(p.output) /\ y = ToldBy(events)
  BY HeldIsNat, ToldIsNat
<1>7. h + (t + y) = (h + t) + y
  OBVIOUS
<1> QED
  BY <1>2, <1>3, <1>5, <1>6, <1>7

\* An observation that joins its bucket, or opens one, adds itself.
LEMMA JoinedKeeps ==
    ASSUME NEW b \in Seq(Bucket), NEW key \in Keys
    PROVE  /\ Joined(b, key) \in [buckets : Seq(Bucket), output : Seq(Event)]
           /\ HeldBy(Joined(b, key).buckets) + ToldBy(Joined(b, key).output) = HeldBy(b) + 1
<1>1. PICK h \in Nat : h = HeldBy(b)
  BY HeldIsNat
<1>2. CASE \E j \in DOMAIN b : b[j].key = key
  <2> DEFINE k == CHOOSE i \in DOMAIN b : b[i].key = key
             grown == [b[k] EXCEPT !.suppressed = @ + 1]
             empty == [b[k] EXCEPT !.suppressed = 0]
  <2>1. k \in 1 .. Len(b)
    BY <1>2
  <2>2. Joined(b, key) =
            IF grown.suppressed = Batch
            THEN [buckets |-> [b EXCEPT ![k] = empty], output |-> Flushed(grown)]
            ELSE [buckets |-> [b EXCEPT ![k] = grown], output |-> <<>>]
    BY <1>2 DEF Joined
  <2> HIDE DEF k
  <2>7. PICK x \in Bucket : x = b[k]
    BY <2>1
  <2>3. PICK y \in Nat : y = b[k].suppressed /\ y = x.suppressed
    BY <2>7 DEF Bucket
  <2>4. /\ grown \in Bucket /\ grown.suppressed = y + 1
        /\ empty \in Bucket /\ empty.suppressed = 0
    <3>1. y + 1 \in Nat /\ grown = [x EXCEPT !.suppressed = y + 1] /\ empty = [x EXCEPT !.suppressed = 0]
      BY <2>3, <2>7
    <3> HIDE DEF grown, empty
    <3> QED
      BY <3>1 DEF Bucket
  <2> HIDE DEF grown, empty
  <2>5. CASE grown.suppressed = Batch
    <3>1. PICK d \in Seq(Bucket) : d = [b EXCEPT ![k] = empty] /\ HeldBy(d) + y = h + 0
      BY <1>1, <2>1, <2>3, <2>4, HeldChange
    <3>2. PICK e \in Seq(Event) : e = Flushed(grown) /\ ToldBy(e) = y + 1
      BY <2>4, FlushedTells
    <3>3. PICK u \in Nat : u = HeldBy(d)
      BY HeldIsNat
    <3>4. u + (y + 1) = h + 1
      <4>1. u + y = h
        BY <3>1, <3>3
      <4> QED
        BY ONLY <4>1, u \in Nat, y \in Nat, h \in Nat
    <3> QED
      BY <1>1, <2>2, <2>5, <3>1, <3>2, <3>3, <3>4
  <2>6. CASE grown.suppressed # Batch
    <3>1. PICK d \in Seq(Bucket) : d = [b EXCEPT ![k] = grown] /\ HeldBy(d) + y = h + (y + 1)
      BY <1>1, <2>1, <2>3, <2>4, HeldChange
    <3>2. <<>> \in Seq(Event) /\ ToldBy(<<>>) = 0
      BY NothingHeld
    <3>3. PICK u \in Nat : u = HeldBy(d)
      BY HeldIsNat
    <3>4. u + 0 = h + 1
      BY <3>1, <3>3
    <3> QED
      BY <1>1, <2>2, <2>6, <3>1, <3>2, <3>3, <3>4
  <2> QED
    BY <2>5, <2>6
<1>3. CASE ~\E j \in DOMAIN b : b[j].key = key
  <2> DEFINE new == [key |-> key, suppressed |-> 0]
  <2>1. new \in Bucket /\ new.suppressed = 0
    BY DEF Bucket
  <2>2. Joined(b, key) =
          [buckets |-> Append(IF Len(b) = MaxBuckets THEN Tail(b) ELSE b, new),
           output |-> (IF Len(b) = MaxBuckets THEN Flushed(Head(b)) ELSE <<>>) \o <<Single>>]
    BY <1>3 DEF Joined
  <2> HIDE DEF new
  <2>3. PICK z \in Seq(Event) : z = <<Single>> /\ ToldBy(z) = 1
    BY ToldOnce DEF Single
  <2>4. CASE Len(b) = MaxBuckets
    <3>1. b # <<>>
      BY <2>4, RecorderAssumption
    <3>2. PICK y \in Nat : y = Head(b).suppressed /\ Head(b) \in Bucket
      BY <3>1, HeldTail DEF Bucket
    <3>3. PICK t \in Seq(Bucket) : t = Tail(b) /\ h = y + HeldBy(t)
      BY <1>1, <3>1, <3>2, HeldTail
    <3>4. PICK u \in Nat : u = HeldBy(t)
      BY HeldIsNat
    <3>5. PICK d \in Seq(Bucket) : d = Append(t, new) /\ HeldBy(d) = u + 0
      BY <2>1, <3>4, HeldAppend
    <3>6. PICK f \in Seq(Event) : f = Flushed(Head(b)) /\ ToldBy(f) = y
      BY <3>2, FlushedTells
    <3>7. PICK e \in Seq(Event) : e = f \o <<Single>> /\ ToldBy(e) = y + 1
      <4>1. f \o z \in Seq(Event) /\ ToldBy(f \o z) = ToldBy(f) + ToldBy(z)
        BY ToldConcat
      <4> QED
        BY ONLY <2>3, <3>6, <4>1
    <3>8. (u + 0) + (y + 1) = h + 1
      BY <3>3, <3>4
    <3>9. Joined(b, key) = [buckets |-> d, output |-> e]
      BY <2>2, <2>4, <3>3, <3>5, <3>6, <3>7
    <3>10. HeldBy(d) + ToldBy(e) = h + 1
      BY <3>5, <3>7, <3>8
    <3> QED
      BY <1>1, <3>9, <3>10
  <2>5. CASE Len(b) # MaxBuckets
    <3>1. PICK d \in Seq(Bucket) : d = Append(b, new) /\ HeldBy(d) = h + 0
      BY <1>1, <2>1, HeldAppend
    <3>2. PICK f \in Seq(Event) : f = <<>> /\ ToldBy(f) = 0
      <4>1. <<>> \in Seq(Event)
        OBVIOUS
      <4> QED
        BY <4>1, NothingHeld
    <3>3. PICK e \in Seq(Event) : e = f \o <<Single>> /\ ToldBy(e) = 0 + 1
      <4>1. f \o z \in Seq(Event) /\ ToldBy(f \o z) = ToldBy(f) + ToldBy(z)
        BY ToldConcat
      <4> QED
        BY ONLY <2>3, <3>2, <4>1
    <3>4. (h + 0) + (0 + 1) = h + 1
      OBVIOUS
    <3>5. Joined(b, key) = [buckets |-> d, output |-> e]
      BY <2>2, <2>5, <3>1, <3>2, <3>3
    <3>6. HeldBy(d) + ToldBy(e) = h + 1
      BY <3>1, <3>3, <3>4
    <3> QED
      BY <1>1, <3>5, <3>6
  <2> QED
    BY <2>4, <2>5
<1> QED
  BY <1>2, <1>3

\* What a reduction returns becomes the state of the runtime.
LEMMA ReducedStands ==
    ASSUME RecorderInv, NEW r, NEW more \in Nat, Accounts(r, more), NEW atEnd \in BOOLEAN,
           Reduce(r, atEnd), facts' = facts + more, fenced' \in BOOLEAN,
           fenced' => r.buckets = <<>>
    PROVE  RecorderInv'
<1>1. /\ output = <<>> /\ buckets' = r.buckets /\ output' = r.output
      /\ lost' = lost /\ confirmed' = confirmed /\ excused' = excused /\ vague' = vague
  BY DEF Reduce
<1>2. buckets' \in Seq(Bucket) /\ output' \in Seq(Event)
  BY <1>1 DEF Accounts
<1>3. PICK c \in Nat, e \in Nat, l \in Nat, f \in Nat :
        c = confirmed /\ e = excused /\ l = lost.occurrences /\ f = facts
  BY DEF RecorderInv
<1>4. PICK h \in Nat, x \in Nat, y \in Nat :
        h = HeldBy(buckets) /\ x = HeldBy(buckets') /\ y = ToldBy(output')
  BY <1>2, HeldIsNat, ToldIsNat DEF RecorderInv
<1>5. x + y = h + more
  BY <1>1, <1>4 DEF Accounts
<1>6. c + e + l + h + 0 <= f /\ (c + e + l + h + 0 # f => lost.saturated \/ vague)
  BY <1>1, <1>3, <1>4, NothingHeld DEF RecorderInv, Account
<1>7. PICK a \in Nat : a = c + e + l
  OBVIOUS
<1>8. a + x + y = (a + h) + more /\ a + h <= f /\ (a + h # f => lost.saturated \/ vague)
  BY ONLY <1>5, <1>6, <1>7, c \in Nat, e \in Nat, l \in Nat, h \in Nat, x \in Nat, y \in Nat,
     more \in Nat, f \in Nat
<1>9. Account' = a + x + y
  BY <1>1, <1>3, <1>4, <1>7 DEF Account
<1>10. Account' <= facts' /\ (Account' # facts' => lost.saturated \/ vague)
  BY ONLY <1>3, <1>8, <1>9, facts' = facts + more, a \in Nat, h \in Nat, x \in Nat, y \in Nat,
     more \in Nat, f \in Nat
<1>11. facts' \in Nat
  BY <1>3
<1> QED
  BY <1>1, <1>2, <1>10, <1>11 DEF RecorderInv

\* An accepted fact is one more in the account.
LEMMA AcceptKeeps ==
    ASSUME RecorderInv, NEW r, Accounts(r, 1), Accept(r), fenced => r.buckets = <<>>
    PROVE  RecorderInv'
<1> DEFINE s == IF disabled THEN [buckets |-> buckets, output |-> <<Single>>]
                ELSE IF ordinal = MaxOrdinal THEN Closed(Keys, buckets, <<Single>>)
                ELSE r
<1>1. Reduce(s, FALSE) /\ facts' = facts + 1 /\ fenced' = fenced /\ fenced' \in BOOLEAN
  BY DEF Accept, RecorderInv
<1>2. PICK z \in Seq(Event) : z = <<Single>> /\ ToldBy(z) = 1
  BY ToldOnce DEF Single
<1>3. buckets \in Seq(Bucket)
  BY DEF RecorderInv
<1>4. Accounts([buckets |-> buckets, output |-> z], 1)
  BY <1>2, <1>3 DEF Accounts
<1>5. Accounts(Closed(Keys, buckets, z), 1) /\ Closed(Keys, buckets, z).buckets = <<>>
  <2>1. PICK p \in [buckets : Seq(Bucket), output : Seq(Event)] :
            /\ p = Closed(Keys, buckets, z)
            /\ HeldBy(p.buckets) + ToldBy(p.output) = HeldBy(buckets) + ToldBy(z)
            /\ p.buckets = <<>>
    BY <1>3, ClosedKeeps
  <2> QED
    BY <1>2, <2>1 DEF Accounts
<1>6. Accounts(s, 1) /\ (fenced => s.buckets = <<>>)
  <2>1. fenced => buckets = <<>>
    BY DEF RecorderInv
  <2> QED
    BY <1>2, <1>4, <1>5, <2>1
<1> HIDE DEF s
<1> QED
  BY <1>1, <1>6, ReducedStands

\* Facts, in the ways they are reduced.
LEMMA FactKeeps ==
    ASSUME RecorderInv, Milestone \/ Observation \/ SessionRetired
    PROVE  RecorderInv'
<1>1. PICK z \in Seq(Event) : z = <<Single>> /\ ToldBy(z) = 1
  BY ToldOnce DEF Single
<1>2. buckets \in Seq(Bucket)
  BY DEF RecorderInv
<1>3. CASE Milestone
  <2>1. Accounts([buckets |-> buckets, output |-> z], 1)
    BY <1>1, <1>2 DEF Accounts
  <2>2. fenced => [buckets |-> buckets, output |-> z].buckets = <<>>
    BY DEF RecorderInv
  <2>3. Accept([buckets |-> buckets, output |-> z])
    BY <1>1, <1>3 DEF Milestone
  <2> QED
    BY <2>1, <2>2, <2>3, AcceptKeeps
<1>4. CASE SessionRetired
  <2>1. PICK key \in Keys : Accept(Retired(key.subject, z))
    BY <1>1, <1>4 DEF SessionRetired
  <2>2. Accounts(Retired(key.subject, z), 1)
    <3>1. PICK p \in [buckets : Seq(Bucket), output : Seq(Event)] :
            /\ p = Retired(key.subject, z)
            /\ HeldBy(p.buckets) + ToldBy(p.output) = HeldBy(buckets) + ToldBy(z)
      BY <1>2, ClosedKeeps DEF Retired
    <3> QED
      BY <1>1, <3>1 DEF Accounts
  <2>3. ~fenced
    BY <1>4 DEF SessionRetired
  <2> QED
    BY <2>1, <2>2, <2>3, AcceptKeeps
<1>5. CASE Observation
  <2>1. PICK key \in Keys, acts \in BOOLEAN : Accept(Observed(key, acts))
    BY <1>5 DEF Observation
  <2>2. ~fenced
    BY <1>5 DEF Observation
  <2> DEFINE changed == {k \in Keys : k.subject = key.subject /\ k.policy = key.policy
                                      /\ (acts \/ k # key)}
  <2>3. PICK n \in Seq(Event) : n = <<>> /\ ToldBy(n) = 0
    <3>1. <<>> \in Seq(Event)
      OBVIOUS
    <3> QED
      BY <3>1, NothingHeld
  <2>4. PICK p \in [buckets : Seq(Bucket), output : Seq(Event)] :
            /\ p = Closed(changed, buckets, <<>>)
            /\ HeldBy(p.buckets) + ToldBy(p.output) = HeldBy(buckets) + 0
    <3> HIDE DEF changed
    <3> QED
      BY <1>2, <2>3, ClosedKeeps
  <2>5. PICK q \in [buckets : Seq(Bucket), output : Seq(Event)] :
            /\ q = IF acts THEN [buckets |-> p.buckets, output |-> <<Single>>]
                   ELSE Joined(p.buckets, key)
            /\ HeldBy(q.buckets) + ToldBy(q.output) = HeldBy(p.buckets) + 1
    <3>1. CASE acts
      <4>1. PICK q \in [buckets : Seq(Bucket), output : Seq(Event)] :
                q = [buckets |-> p.buckets, output |-> z]
        OBVIOUS
      <4>2. HeldBy(q.buckets) + ToldBy(q.output) = HeldBy(p.buckets) + 1
        BY <1>1, <4>1
      <4> QED
        BY <1>1, <3>1, <4>1, <4>2
    <3>2. CASE ~acts
      BY <3>2, JoinedKeeps
    <3> QED
      BY <3>1, <3>2
  <2>6. Observed(key, acts) = [q EXCEPT !.output = p.output \o q.output]
    BY <2>4, <2>5 DEF Observed
  <2>7. PICK e \in Seq(Event) :
            e = p.output \o q.output /\ ToldBy(e) = ToldBy(p.output) + ToldBy(q.output)
    <3>1. p.output \in Seq(Event) /\ q.output \in Seq(Event)
      OBVIOUS
    <3> QED
      BY <3>1, ToldConcat
  <2>8. PICK r \in [buckets : Seq(Bucket), output : Seq(Event)] : r = Observed(key, acts)
    BY <2>6, <2>7
  <2>9. r.buckets = q.buckets /\ r.output = e
    BY <2>6, <2>7, <2>8
  <2>10. PICK a \in Nat, b \in Nat, c \in Nat, d \in Nat, h \in Nat :
            /\ a = HeldBy(p.buckets) /\ b = ToldBy(p.output)
            /\ c = HeldBy(q.buckets) /\ d = ToldBy(q.output) /\ h = HeldBy(buckets)
    BY <1>2, HeldIsNat, ToldIsNat
  <2>11. c + (b + d) = h + 1
    <3>1. a + b = h + 0 /\ c + d = a + 1
      BY <2>4, <2>5, <2>10
    <3> QED
      BY <3>1
  <2>12. Accounts(Observed(key, acts), 1)
    BY <2>7, <2>8, <2>9, <2>10, <2>11 DEF Accounts
  <2> QED
    BY <2>1, <2>2, <2>12, AcceptKeeps
<1> QED
  BY <1>3, <1>4, <1>5

\* Retiring a session and closing the runtime add nothing and lose nothing.
LEMMA ClosingKeeps ==
    ASSUME RecorderInv, Retire \/ CloseRuntime
    PROVE  RecorderInv'
<1>1. PICK n \in Seq(Event) : n = <<>> /\ ToldBy(n) = 0
  <2>1. <<>> \in Seq(Event)
    OBVIOUS
  <2> QED
    BY <2>1, NothingHeld
<1>2. buckets \in Seq(Bucket) /\ facts \in Nat /\ facts + 0 = facts
  BY DEF RecorderInv
<1>3. CASE Retire
  <2>1. PICK key \in Keys : Reduce(Retired(key.subject, n), FALSE)
    BY <1>1, <1>3 DEF Retire
  <2>2. Accounts(Retired(key.subject, n), 0)
    BY <1>1, <1>2, ClosedKeeps DEF Accounts, Retired
  <2>3. fenced' = fenced /\ facts' = facts + 0 /\ fenced' \in BOOLEAN
    BY <1>2, <1>3 DEF Retire, RecorderInv
  <2>4. fenced' => Retired(key.subject, n).buckets = <<>>
    <3> SUFFICES ASSUME fenced PROVE Retired(key.subject, n).buckets = <<>>
      BY <2>3
    <3>1. buckets = <<>>
      BY DEF RecorderInv
    <3>2. PICK p \in [buckets : Seq(Bucket), output : Seq(Event)] :
            p = Flush({k \in Keys : k.subject = key.subject}, buckets)
      BY <1>2, FlushKeeps
    <3>3. p.buckets = <<>>
      BY <3>1, <3>2, FlushNothing
    <3>4. Retired(key.subject, n) = [p EXCEPT !.output = p.output \o n]
      BY <3>2 DEF Retired, Closed
    <3> QED
      BY <3>3, <3>4
  <2> QED
    BY <2>1, <2>2, <2>3, <2>4, ReducedStands
<1>4. CASE CloseRuntime
  <2>1. Reduce(Closed(Keys, buckets, n), TRUE) /\ fenced' = TRUE /\ facts' = facts + 0
    BY <1>1, <1>2, <1>4 DEF CloseRuntime
  <2>2. Accounts(Closed(Keys, buckets, n), 0) /\ Closed(Keys, buckets, n).buckets = <<>>
    BY <1>1, <1>2, ClosedKeeps DEF Accounts
  <2> QED
    BY <2>1, <2>2, ReducedStands
<1> QED
  BY <1>3, <1>4

\* What a gap that is written leaves of the account.
LEMMA GapTells ==
    ASSUME RecorderInv, NEW works \in BOOLEAN, FlushGap(works)
    PROVE  /\ AfterGap(works) \in [attempts : Nat, occurrences : Nat, saturated : BOOLEAN]
           /\ excused' \in Nat
           /\ excused' + AfterGap(works).occurrences = excused + lost.occurrences
           /\ (lost.saturated \/ vague) => (AfterGap(works).saturated \/ vague')
<1>1. lost \in [attempts : Nat, occurrences : Nat, saturated : BOOLEAN]
  BY DEF RecorderInv
<1>2. PICK e \in Nat, l \in Nat : e = excused /\ l = lost.occurrences
  BY <1>1 DEF RecorderInv
<1>3. /\ NothingLost \in [attempts : Nat, occurrences : Nat, saturated : BOOLEAN]
      /\ NothingLost.occurrences = 0 /\ NothingLost.saturated = FALSE
  BY DEF NothingLost
<1>4. e + 0 = e /\ e + l \in Nat /\ (e + l) + 0 = e + l
  OBVIOUS
<1>5. CASE ~works
  <2>1. excused' = excused /\ AfterGap(works) = lost
    BY <1>5 DEF FlushGap, AfterGap
  <2>2. vague => vague'
    BY DEF FlushGap
  <2>3. (lost.saturated \/ vague) => (AfterGap(works).saturated \/ vague')
    BY <2>1, <2>2
  <2>4. excused' \in Nat /\ excused' + AfterGap(works).occurrences = excused + lost.occurrences
    BY <1>2, <2>1
  <2> QED
    BY <1>1, <2>1, <2>3, <2>4
<1>6. CASE works
  <2>1. AfterGap(works) = NothingLost
    BY <1>6 DEF AfterGap
  <2>2. excused' = e + l
    <3>1. CASE lost = NothingLost
      <4>1. l = 0 /\ excused' = excused
        BY <1>2, <1>3, <3>1 DEF FlushGap
      <4> QED
        BY <1>2, <4>1
    <3>2. CASE lost # NothingLost
      BY <1>2, <1>6, <3>2 DEF FlushGap
    <3> QED
      BY <3>1, <3>2
  <2>3. (lost.saturated \/ vague) => vague'
    <3>1. lost.saturated => lost # NothingLost
      BY <1>3
    <3>2. vague' = (vague \/ ((lost # NothingLost /\ works) /\ lost.saturated))
      BY DEF FlushGap
    <3> HIDE DEF NothingLost
    <3> QED
      BY <1>6, <3>1, <3>2
  <2>4. excused' \in Nat /\ excused' + AfterGap(works).occurrences = excused + lost.occurrences
    BY <1>2, <1>3, <1>4, <2>1, <2>2
  <2> QED
    BY <1>3, <2>1, <2>3, <2>4
<1> QED
  BY <1>5, <1>6

\* An event that is written, or is missed.
LEMMA WriteKeeps ==
    ASSUME RecorderInv, Write
    PROVE  RecorderInv'
<1>1. PICK gap \in BOOLEAN, event \in BOOLEAN :
        /\ FlushGap(gap)
        /\ lost' = IF event THEN AfterGap(gap) ELSE Missed(AfterGap(gap), Head(output).occurrences)
        /\ confirmed' = IF event THEN confirmed + Head(output).occurrences ELSE confirmed
  BY DEF Write
<1>2. /\ output # <<>> /\ output' = Tail(output) /\ output \in Seq(Event)
      /\ fenced' = fenced /\ buckets' = buckets /\ facts' = facts
  BY DEF Write, runtime, RecorderInv
<1>3. PICK n \in Nat : n = Head(output).occurrences
  BY <1>2, ToldTail DEF Event
<1>4. PICK h \in Nat, t \in Nat : h = HeldBy(buckets) /\ t = ToldBy(Tail(output))
  BY <1>2, ToldTail, HeldIsNat, ToldIsNat DEF RecorderInv
<1>5. ToldBy(output) = n + t /\ Tail(output) \in Seq(Event)
  BY <1>2, <1>3, <1>4, ToldTail
<1>6. PICK g \in [attempts : Nat, occurrences : Nat, saturated : BOOLEAN] : g = AfterGap(gap)
  BY <1>1, GapTells
<1>7. PICK c \in Nat, e \in Nat, l \in Nat, f \in Nat :
        c = confirmed /\ e = excused /\ l = lost.occurrences /\ f = facts
  BY DEF RecorderInv
<1>8. PICK x \in Nat, m \in Nat : x = excused' /\ m = g.occurrences
  BY <1>1, GapTells
<1>9. x + m = e + l /\ (lost.saturated \/ vague => g.saturated \/ vague')
  BY <1>1, <1>6, <1>7, <1>8, GapTells
<1>10. c + e + l + h + (n + t) <= f /\ (c + e + l + h + (n + t) # f => lost.saturated \/ vague)
  BY <1>4, <1>5, <1>7 DEF RecorderInv, Account
<1>11. CASE event
  <2>1. lost' = g /\ confirmed' = c + n
    BY <1>1, <1>3, <1>6, <1>7, <1>11
  <2>2. Account' = (c + n) + x + m + h + t
    BY <1>2, <1>4, <1>8, <2>1 DEF Account
  <2>3. (c + n) + x + m + h + t = c + e + l + h + (n + t)
    BY ONLY <1>9, c \in Nat, n \in Nat, x \in Nat, m \in Nat, h \in Nat, t \in Nat, e \in Nat,
       l \in Nat
  <2>4. Account' <= facts' /\ (Account' # facts' => lost'.saturated \/ vague')
    BY <1>2, <1>7, <1>9, <1>10, <2>1, <2>2, <2>3
  <2>5. confirmed' \in Nat /\ excused' \in Nat /\ facts' \in Nat
    BY <1>2, <1>7, <1>8, <2>1
  <2> QED
    BY <1>2, <1>5, <2>1, <2>4, <2>5 DEF RecorderInv
<1>12. CASE ~event
  <2>1. lost' = Missed(g, n) /\ confirmed' = c
    BY <1>1, <1>3, <1>6, <1>7, <1>12
  <2>2. PICK p \in Nat : p = lost'.occurrences /\ p = Saturating(m, n)
    BY <1>8, <2>1, RecorderAssumption DEF Missed, Saturating
  <2>3. lost' \in [attempts : Nat, occurrences : Nat, saturated : BOOLEAN]
    <3>1. Saturating(g.attempts, 1) \in Nat /\ Saturating(g.occurrences, n) \in Nat
      BY RecorderAssumption DEF Saturating
    <3> QED
      BY <2>1, <3>1 DEF Missed
  <2>4. p <= m + n /\ (p # m + n => lost'.saturated) /\ (g.saturated => lost'.saturated)
    <3>1. p <= m + n /\ (p # m + n => m + n > MaxCount)
      BY <2>2, RecorderAssumption DEF Saturating
    <3>2. lost'.saturated = (g.saturated \/ g.attempts + 1 > MaxCount \/ m + n > MaxCount)
      BY <1>8, <2>1 DEF Missed
    <3> QED
      BY <3>1, <3>2
  <2>5. Account' = c + x + p + h + t
    BY <1>2, <1>4, <1>8, <2>1, <2>2 DEF Account
  <2>6. c + x + (m + n) + h + t = c + e + l + h + (n + t)
    BY ONLY <1>9, c \in Nat, n \in Nat, x \in Nat, m \in Nat, h \in Nat, t \in Nat, e \in Nat,
       l \in Nat
  <2>7. /\ c + x + p + h + t <= c + x + (m + n) + h + t
        /\ c + x + p + h + t # c + x + (m + n) + h + t => p # m + n
    BY ONLY <2>4, c \in Nat, n \in Nat, x \in Nat, m \in Nat, h \in Nat, t \in Nat, p \in Nat
  <2>8. Account' <= facts'
    BY ONLY <1>2, <1>7, <1>10, <2>5, <2>6, <2>7, c \in Nat, n \in Nat, x \in Nat, m \in Nat,
       h \in Nat, t \in Nat, p \in Nat, f \in Nat, e \in Nat, l \in Nat
  <2>9. Account' # facts' => lost'.saturated \/ vague'
    BY <1>2, <1>7, <1>9, <1>10, <2>4, <2>5, <2>6, <2>7
  <2>10. confirmed' \in Nat /\ excused' \in Nat /\ facts' \in Nat
    BY <1>2, <1>7, <1>8, <2>1
  <2> QED
    BY <1>2, <1>5, <2>3, <2>8, <2>9, <2>10 DEF RecorderInv
<1> QED
  BY <1>11, <1>12

\* The gap at the end of a closing.
LEMMA WriteGapKeeps ==
    ASSUME RecorderInv, WriteGap
    PROVE  RecorderInv'
<1>1. PICK gap \in BOOLEAN : FlushGap(gap) /\ lost' = AfterGap(gap)
  BY DEF WriteGap
<1>2. /\ output' = output /\ fenced' = fenced /\ buckets' = buckets /\ facts' = facts
      /\ confirmed' = confirmed
  BY DEF WriteGap, runtime
<1>3. /\ lost' \in [attempts : Nat, occurrences : Nat, saturated : BOOLEAN] /\ excused' \in Nat
      /\ excused' + lost'.occurrences = excused + lost.occurrences
      /\ (lost.saturated \/ vague) => (lost'.saturated \/ vague')
  BY <1>1, GapTells
<1>4. PICK c \in Nat, e \in Nat, l \in Nat, f \in Nat :
        c = confirmed /\ e = excused /\ l = lost.occurrences /\ f = facts
  BY DEF RecorderInv
<1>5. PICK x \in Nat, m \in Nat : x = excused' /\ m = lost'.occurrences
  BY <1>3
<1>6. PICK h \in Nat, t \in Nat : h = HeldBy(buckets) /\ t = ToldBy(output)
  BY HeldIsNat, ToldIsNat DEF RecorderInv
<1>7. x + m = e + l
  BY <1>3, <1>4, <1>5
<1>8. Account = c + e + l + h + t /\ Account' = c + x + m + h + t
  BY <1>2, <1>4, <1>5, <1>6 DEF Account
<1>9. c + e + l + h + t = c + x + m + h + t
  BY ONLY <1>7, c \in Nat, x \in Nat, m \in Nat, h \in Nat, t \in Nat, e \in Nat, l \in Nat
<1>10. Account' = Account
  BY <1>8, <1>9
<1> QED
  BY <1>2, <1>3, <1>10 DEF RecorderInv

-----------------------------------------------------------------------------
\* The invariant begins, and every step keeps it.
LEMMA RecorderInvInit ==
    ASSUME RecorderInit
    PROVE  RecorderInv
<1>1. <<>> \in Seq(Bucket) /\ <<>> \in Seq(Event)
  OBVIOUS
<1>2. /\ NothingLost \in [attempts : Nat, occurrences : Nat, saturated : BOOLEAN]
      /\ NothingLost.occurrences = 0
  BY DEF NothingLost
<1>3. /\ fenced = FALSE /\ buckets = <<>> /\ output = <<>> /\ lost = NothingLost
      /\ facts = 0 /\ confirmed = 0 /\ excused = 0
  BY DEF RecorderInit
<1>4. Account = 0
  BY <1>2, <1>3, NothingHeld DEF Account
<1> HIDE DEF NothingLost
<1>5. Account <= facts /\ Account = facts
  BY <1>3, <1>4
<1> QED
  BY <1>1, <1>2, <1>3, <1>5 DEF RecorderInv

\* Every step of the recorder keeps it.
LEMMA RecorderInvStep ==
    ASSUME RecorderInv, [RecorderNext]_recorderVars
    PROVE  RecorderInv'
<1>1. CASE UNCHANGED recorderVars
  BY <1>1 DEF recorderVars, runtime, tallies, RecorderInv, Account
<1> QED
  BY <1>1, FactKeeps, ClosingKeeps, WriteKeeps, WriteGapKeeps DEF RecorderNext

\* No fact the recorder of diagnostics.rs accepts is lost from its account: each is written,
\* held in a bucket, waits to be written, or is counted as missing, and the account is too
\* low only where a gap itself says that its counts are; what the runtime held is handed on
\* when it closes, and nothing is held later. For any keys, sizes and limits of the counts.
THEOREM FactsAlwaysAccounted == RecorderSpec => []FactsAreAccounted
<1>1. RecorderInit => RecorderInv
  BY RecorderInvInit
<1>2. RecorderInv /\ [RecorderNext]_recorderVars => RecorderInv'
  BY RecorderInvStep
<1>3. RecorderInv => FactsAreAccounted
  <2> SUFFICES ASSUME RecorderInv PROVE FactsAreAccounted
    OBVIOUS
  <2>1. Held = HeldBy(buckets) /\ Unwritten = ToldBy(output)
    BY DEF Held, Unwritten, HeldBy, ToldBy, Suppressed, Told
  <2>2. Tally = Account
    BY <2>1 DEF Tally, Account
  <2>3. fenced => Held = 0
    BY <2>1, NothingHeld DEF RecorderInv
  <2>4. PICK c \in Nat, e \in Nat, l \in Nat, h \in Nat, t \in Nat :
            /\ c = confirmed /\ e = excused /\ l = lost.occurrences
            /\ h = HeldBy(buckets) /\ t = ToldBy(output)
    BY HeldIsNat, ToldIsNat DEF RecorderInv
  <2>5. Account \in Nat
    BY <2>4 DEF Account
  <2> QED
    BY <2>2, <2>3, <2>5 DEF RecorderInv, FactsAreAccounted
<1> QED
  BY <1>1, <1>2, <1>3, PTL DEF RecorderSpec

-----------------------------------------------------------------------------
(***************************************************************************)
(* The desktop client, for any number of servers, operations, changes and  *)
(* troubles.                                                               *)
(***************************************************************************)

Kinds == Starts \cup Stops \cup {"fetch"}
Statuses == {"disconnected", "connecting", "connected", "error"}
Targeted == Targets \cup {Nothing}
Reports == [status : Statuses, target : Targeted]
Readings == [report : Reports, after : BOOLEAN]
Works ==
    [id : Nat, kind : Kinds, target : Targeted, run : Nat,
     step : {"work", "snapshot", "sent", "failed"}, urgent : BOOLEAN, bound : BOOLEAN,
     current : BOOLEAN, ok : BOOLEAN, catalog : Nat, reading : Readings \cup {Nothing}]
Polls ==
    [step : {"asked", "stored", "failed"}, current : BOOLEAN, reading : Readings \cup {Nothing}]
Hydrations ==
    [step : {"asked", "catalog", "status", "failed"}, run : Nat,
     report : Reports \cup {Nothing}, catalog : Nat]
Screens ==
    [pin : Statuses \cup {Nothing}, target : Targeted, overdue : BOOLEAN, report : Reports,
     after : BOOLEAN, disturbed : BOOLEAN, lit : Targeted, operation : Kinds \cup {Nothing},
     stop : Stops \cup {Nothing}, catalog : Nat]

Spendings == [acts : Nat, raises : Nat, changes : Nat, troubles : Nat]

\* The values of the variables.
Typed ==
    /\ daemon \in [runs : BOOLEAN, run : Nat, report : Reports, catalog : Nat]
    /\ ui \in Screens
    /\ binding \in [run : Nat, ready : BOOLEAN, changed : BOOLEAN]
    /\ jobs \subseteq Works
    /\ poll \in Polls \cup {Nothing}
    /\ hydration \in Hydrations \cup {Nothing}
    /\ spent \in Spendings

\* While the client recovers it has no binding, and nothing of the old one is listened to.
RetiredConsistent ==
    /\ hydration # Nothing =>
        ~binding.ready /\ (hydration.step = "status" => hydration.report \in Reports)
    /\ \A j \in jobs : IF j.bound THEN binding.ready ELSE j.step = "work" /\ ~j.current
    /\ ~binding.ready => poll = Nothing

\* The operation and the urgent stop on display are the workers of the binding, one each.
Slots ==
    /\ \A j \in jobs : j.bound => IF j.urgent THEN ui.stop = j.kind ELSE ui.operation = j.kind
    /\ \A i, j \in jobs : i.bound /\ j.bound /\ i.urgent = j.urgent => i = j
    /\ ui.stop # Nothing => ui.operation \in {Nothing, "fetch"}

OnConnection(j) == j.bound /\ j.kind \in Starts \cup Stops

\* The poll in the slot would show what was before an operation on the connection.
Early == InSlot("stored") /\ poll.current /\ ~poll.reading.after

\* An operation on the connection outdates what was under way, and nothing that is
\* current begins beside it.  It is outdated itself only by a user who raises the epoch:
\* then the screen is disturbed, or a reading of what became of it was applied.
Foremost ==
    /\ \A j \in jobs : OnConnection(j) =>
        j.current \/ ui.disturbed \/ (j.step # "work" /\ ui.after /\ ~Early)
    /\ \A i, j \in jobs : i.current /\ OnConnection(j) => i = j

\* What a worker brings that is current was read when no operation on the connection was
\* to be carried out.
BringsSettled ==
    \A j \in jobs : j.step = "sent" /\ j.current => j.reading \in Readings /\ j.reading.after

\* A current poll that read too early waits for the operation that will outdate it, unless
\* the user disturbed that; one that did not, read when nothing was to be carried out.
PollSettled ==
    InSlot("stored") /\ poll.current =>
        /\ poll.reading \in Readings
        /\ poll.reading.after \/ ui.disturbed \/ \E j \in jobs : OnConnection(j) /\ j.current
        /\ poll.reading.after => \A j \in jobs : OnConnection(j) => j.step # "work"

\* So does the status on display.
Awaited ==
    binding.ready /\ ~ui.after /\ ~ui.disturbed => \E j \in jobs : OnConnection(j) /\ j.current

Inv ==
    /\ Typed /\ RetiredConsistent /\ Slots /\ Foremost
    /\ BringsSettled /\ PollSettled /\ Awaited

-----------------------------------------------------------------------------
(* What the operators of the model return.                                 *)

\* Operations and urgent stops are kinds of work of their own, and Nothing is none.
LEMMA Names ==
    /\ Nothing \notin Kinds /\ Stops \subseteq Kinds /\ Starts \subseteq Kinds
    /\ \A k \in Kinds : k \notin Starts \cup Stops => k = "fetch"
    /\ "fetch" \notin Starts \cup Stops /\ "fetch" \in Kinds /\ "fetch" # Nothing
  BY NothingAssumption DEF Kinds, Starts, Stops

\* An operation on the connection is on display, and there is one at a time.
LEMMA OnConnectionShows ==
    ASSUME Typed, Slots
    PROVE  /\ \A j \in jobs : OnConnection(j) => ~Quiet(ui)
           /\ \A i, j \in jobs : OnConnection(i) /\ OnConnection(j) => i = j
<1>1. \A j \in jobs : OnConnection(j) => j.kind # Nothing /\ j.kind # "fetch"
  BY Names DEF OnConnection, Kinds
<1>2. ASSUME NEW j \in jobs, OnConnection(j)
      PROVE  Foreground(ui) = j.kind
  BY <1>1, <1>2 DEF Slots, OnConnection, Foreground
<1>3. ASSUME NEW i \in jobs, NEW j \in jobs, OnConnection(i), OnConnection(j)
      PROVE  i = j
  <2>1. i.urgent <=> j.urgent
    BY <1>1, <1>3 DEF Slots, OnConnection
  <2>2. i.urgent \in BOOLEAN /\ j.urgent \in BOOLEAN
    BY DEF Typed, Works
  <2>3. i.urgent = j.urgent
    BY <2>1, <2>2
  <2> QED
    BY <1>3, <2>3 DEF Slots, OnConnection
<1> QED
  BY <1>1, <1>2, <1>3 DEF Quiet

Outdate(j) == [j EXCEPT !.current = FALSE, !.reading = Nothing]

\* A worker that is outdated keeps everything but its reading.
LEMMA OutdatedIsSame ==
    ASSUME NEW some \in SUBSET Works
    PROVE  /\ Outdated(some) \subseteq Works
           /\ \A k \in Outdated(some) :
                /\ ~k.current
                /\ \E j \in some :
                    /\ k = Outdate(j)
                    /\ k.kind = j.kind /\ k.bound = j.bound
                    /\ k.step = j.step /\ k.urgent = j.urgent
           /\ \A j \in some : Outdate(j) \in Outdated(some)
  BY DEF Outdated, Outdate, Works

\* An outdated poll leaves nothing in the slot that is current.
LEMMA PollOutdatedIsNot ==
    ASSUME poll \in Polls \cup {Nothing}
    PROVE  /\ PollOutdated \in Polls \cup {Nothing}
           /\ PollOutdated # Nothing => ~PollOutdated.current
  BY DEF PollOutdated, Polls

\* Applying a reading shows it, and leaves the operations alone.
LEMMA ReducedShows ==
    ASSUME NEW u \in Screens, NEW reading \in Readings
    PROVE  /\ Reduced(u, reading) \in Screens
           /\ Reduced(u, reading).after = reading.after
           /\ Reduced(u, reading).disturbed = (u.disturbed /\ ~reading.after)
           /\ Reduced(u, reading).operation = u.operation
           /\ Reduced(u, reading).stop = u.stop
<1> DEFINE seen == [u EXCEPT !.report = reading.report, !.after = reading.after,
                             !.disturbed = @ /\ ~reading.after]
           next == IF Quiet(seen) /\ seen.pin # Nothing /\ PinEnds(reading.report, seen)
                   THEN Unpinned(seen) ELSE seen
<1>1. /\ seen \in Screens /\ seen.after = reading.after
      /\ seen.disturbed = (u.disturbed /\ ~reading.after)
      /\ seen.operation = u.operation /\ seen.stop = u.stop
  BY DEF Screens, Readings
<1> HIDE DEF seen
<1>2. /\ next \in Screens /\ next.after = seen.after /\ next.disturbed = seen.disturbed
      /\ next.operation = seen.operation /\ next.stop = seen.stop
  BY <1>1 DEF Screens, Unpinned, Targeted
<1> HIDE DEF next
<1>3. reading.report.target \in Targeted
  BY DEF Readings, Reports
<1>4. Reduced(u, reading) = IF Quiet(next) /\ next.pin = Nothing
                            THEN [next EXCEPT !.lit = reading.report.target] ELSE next
  BY DEF Reduced, seen, next
<1> QED
  BY <1>1, <1>2, <1>3, <1>4 DEF Screens

\* Pinning changes what is displayed of the servers, and no more.
LEMMA PinnedShows ==
    ASSUME NEW u \in Screens, NEW status \in Statuses, NEW target \in Targeted
    PROVE  /\ Pinned(u, status, target) \in Screens
           /\ Pinned(u, status, target).after = u.after
           /\ Pinned(u, status, target).disturbed = u.disturbed
           /\ Pinned(u, status, target).operation = u.operation
           /\ Pinned(u, status, target).stop = u.stop
  BY DEF Pinned, Screens

\* A completed work leaves the operation and the stop as they are.
LEMMA CompletedShows ==
    ASSUME NEW u \in Screens, NEW j \in Works
    PROVE  /\ Completed(u, j) \in Screens
           /\ Completed(u, j).after = u.after
           /\ Completed(u, j).disturbed = u.disturbed
           /\ Completed(u, j).operation = u.operation
           /\ Completed(u, j).stop = u.stop
<1>1. Nothing \in Targeted /\ "error" \in Statuses /\ "disconnected" \in Statuses
  BY DEF Targeted, Statuses
<1>2. j.target \in Targeted /\ u.report.target \in Targeted
  BY DEF Works, Screens, Reports
<1>3. CASE j.kind = "connect" /\ ~j.ok
  BY <1>1, <1>3, PinnedShows DEF Completed
<1>4. CASE j.kind = "up" /\ ~j.ok
  <2>1. Completed(u, j) = [Unpinned(u) EXCEPT !.lit = u.report.target]
    BY <1>4 DEF Completed
  <2> QED
    BY <1>2, <2>1 DEF Unpinned, Screens, Targeted
<1>5. CASE j.kind = "up" /\ j.ok
  <2>1. Completed(u, j) = [u EXCEPT !.lit = j.target]
    BY <1>5 DEF Completed
  <2> QED
    BY <1>2, <2>1 DEF Screens
<1>6. CASE j.kind = "down" /\ j.ok
  BY <1>1, <1>6, PinnedShows DEF Completed
<1>7. CASE /\ ~(j.kind = "connect" /\ ~j.ok) /\ j.kind # "up" /\ ~(j.kind = "down" /\ j.ok)
  BY <1>7 DEF Completed
<1> QED
  BY <1>3, <1>4, <1>5, <1>6, <1>7 DEF Works

-----------------------------------------------------------------------------
(* The inductive invariant, action by action.                              *)

\* The client begins without a binding.
LEMMA InitInv == DesktopInit => Inv
<1> SUFFICES ASSUME DesktopInit PROVE Inv
  OBVIOUS
<1>1. Typed
  BY DEF DesktopInit, Typed, Fresh, Report, Reports, Statuses, Targeted, Screens, Spendings
<1>2. jobs = {} /\ poll = Nothing /\ hydration = Nothing /\ ui.after /\ ui.stop = Nothing
  BY DEF DesktopInit, Fresh
<1> QED
  BY <1>1, <1>2 DEF Inv, RetiredConsistent, Slots, Foremost, BringsSettled, PollSettled, Awaited,
        InSlot, Early

\* A step of something else keeps the invariant.
LEMMA StutterInv == Inv /\ UNCHANGED desktopVars => Inv'
<1> SUFFICES ASSUME Inv, UNCHANGED desktopVars PROVE Inv'
  OBVIOUS
<1>1. /\ daemon' = daemon /\ ui' = ui /\ binding' = binding /\ jobs' = jobs
      /\ poll' = poll /\ hydration' = hydration /\ spent' = spent
  BY DEF desktopVars
<1> QED
  BY <1>1 DEF Inv, Typed, RetiredConsistent, Slots, Foremost, OnConnection, BringsSettled,
        PollSettled, Awaited, InSlot, Early

\* Counting is all that Spend does.
LEMMA SpentIsTyped ==
    ASSUME Typed,
           \/ UNCHANGED spent \/ Trouble
           \/ Spend("acts", MaxActs) \/ Spend("raises", MaxRaises)
           \/ Spend("changes", MaxChanges)
    PROVE  spent' \in Spendings
  BY DEF Typed, Trouble, Spend, Spendings

\* A call spends nothing, or one of the troubles.
LEMMA CallIsSpent ==
    ASSUME NEW run, Answered(run) \/ Unanswered(run)
    PROVE  UNCHANGED spent \/ Trouble
  BY DEF Answered, Unanswered

\* Steps of the daemon: the client does not look.
LEMMA DaemonInv ==
    ASSUME Inv, StatusChanges \/ DaemonEnds \/ DaemonStarts
    PROVE  Inv'
<1>1. UNCHANGED <<ui, binding, jobs, poll, hydration>>
  BY DEF StatusChanges, DaemonEnds, DaemonStarts
<1>2. spent' \in Spendings
  BY SpentIsTyped DEF Inv, StatusChanges, DaemonEnds, DaemonStarts
<1>3. daemon' \in [runs : BOOLEAN, run : Nat, report : Reports, catalog : Nat]
  <2>1. CASE StatusChanges
    <3>1. PICK report \in {[daemon.report EXCEPT !.status = "connected"], Report("error", Nothing)} :
              daemon' = [daemon EXCEPT !.report = report]
      BY <2>1 DEF StatusChanges
    <3>2. report \in Reports
      BY DEF Inv, Typed, Report, Reports, Statuses, Targeted
    <3> QED
      BY <3>1, <3>2 DEF Inv, Typed
  <2>2. CASE DaemonEnds
    BY <2>2 DEF DaemonEnds, Inv, Typed
  <2>3. CASE DaemonStarts
    <3>1. PICK report \in {Report("disconnected", Nothing)} \cup [status : {"connecting"}, target : Targets] :
              daemon' = [daemon EXCEPT !.runs = TRUE, !.run = @ + 1, !.report = report]
      BY <2>3 DEF DaemonStarts
    <3>2. report \in Reports
      BY DEF Report, Reports, Statuses, Targeted
    <3>3. daemon \in [runs : BOOLEAN, run : Nat, report : Reports, catalog : Nat] /\ daemon.run + 1 \in Nat
      BY DEF Inv, Typed
    <3> QED
      BY <3>1, <3>2, <3>3
  <2> QED
    BY <2>1, <2>2, <2>3
<1> QED
  BY <1>1, <1>2, <1>3 DEF Inv, Typed, RetiredConsistent, Slots, Foremost, OnConnection, BringsSettled,
        PollSettled, Awaited, InSlot, Early

\* The steps of the recovery's worker, of which nothing is shown before it is done.
LEMMA HydrationInv ==
    ASSUME Inv, HydrateCatalog \/ HydrateStatus \/ RecoveryFails
    PROVE  Inv'
<1>1. UNCHANGED <<daemon, ui, binding, jobs, poll>>
  BY DEF HydrateCatalog, HydrateStatus, RecoveryFails
<1>2. spent' \in Spendings
  BY SpentIsTyped, CallIsSpent DEF Inv, HydrateCatalog, HydrateStatus, RecoveryFails
<1>3. hydration # Nothing /\ hydration \in Hydrations /\ ~binding.ready
  BY DEF HydrateCatalog, HydrateStatus, RecoveryFails, Inv, Typed, RetiredConsistent
<1>4. /\ hydration' \in Hydrations \cup {Nothing}
      /\ hydration' # Nothing /\ hydration'.step = "status" => hydration'.report \in Reports
  <2>1. daemon.run \in Nat /\ daemon.catalog \in Nat /\ daemon.report \in Reports
    BY DEF Inv, Typed
  <2>2. \/ hydration' = Nothing
        \/ hydration' = [hydration EXCEPT !.step = "failed"]
        \/ hydration' = [hydration EXCEPT !.step = "catalog", !.run = daemon.run,
                                          !.catalog = daemon.catalog]
        \/ hydration' = [hydration EXCEPT !.step = "status", !.report = daemon.report]
    BY DEF HydrateCatalog, HydrateStatus, RecoveryFails
  <2> QED
    BY <1>3, <2>1, <2>2 DEF Hydrations
<1> QED
  BY <1>1, <1>2, <1>3, <1>4 DEF Inv, Typed, RetiredConsistent, Slots, Foremost, OnConnection,
        BringsSettled, PollSettled, Awaited, InSlot, Early

\* A client that recovered installs its binding.
LEMMA InstallInv ==
    ASSUME Inv, Install
    PROVE  Inv'
<1>1. /\ hydration # Nothing /\ hydration \in Hydrations /\ ~binding.ready
      /\ hydration.report \in Reports /\ poll = Nothing
  BY DEF Install, Inv, Typed, RetiredConsistent
<1>2. \A j \in jobs : ~j.bound
  BY <1>1 DEF Inv, RetiredConsistent
<1>3. /\ ui' = Fresh(hydration.report, hydration.catalog) /\ hydration' = Nothing
      /\ UNCHANGED <<daemon, jobs, poll, spent>>
  BY DEF Install
<1>4. ui' \in Screens /\ ui'.after /\ ui'.stop = Nothing
  BY <1>1, <1>3 DEF Fresh, Screens, Hydrations, Reports, Targeted
<1>5. binding' \in [run : Nat, ready : BOOLEAN, changed : BOOLEAN]
  BY <1>1 DEF Install, Inv, Typed, Hydrations
<1> QED
  BY <1>1, <1>2, <1>3, <1>4, <1>5 DEF Inv, Typed, RetiredConsistent, Slots, Foremost, OnConnection,
        BringsSettled, PollSettled, Awaited, InSlot, Early

\* Retiring the binding leaves nothing that is listened to.
LEMMA RecoverInv ==
    ASSUME Inv, Recover, UNCHANGED <<daemon, ui, spent>>
    PROVE  Inv'
<1>1. /\ poll' = Nothing /\ ~binding'.ready
      /\ binding' \in [run : Nat, ready : BOOLEAN, changed : BOOLEAN]
  BY DEF Recover, Inv, Typed
<1>2. /\ hydration' \in Hydrations /\ hydration'.step = "asked"
  BY DEF Recover, Hydrations
<1>3. /\ jobs' \subseteq Works
      /\ \A j \in jobs' : j.step = "work" /\ ~j.bound /\ ~j.current
  <2>1. jobs \subseteq Works
    BY DEF Inv, Typed
  <2>2. \A k \in jobs' : \E j \in jobs :
            j.step = "work" /\ k = [j EXCEPT !.bound = FALSE, !.current = FALSE]
    BY DEF Recover
  <2>3. ASSUME NEW k \in jobs'
        PROVE  k \in Works /\ k.step = "work" /\ ~k.bound /\ ~k.current
    <3>1. PICK j \in jobs :
              j.step = "work" /\ k = [j EXCEPT !.bound = FALSE, !.current = FALSE]
      BY <2>2
    <3>2. j \in Works
      BY <2>1
    <3> QED
      BY <3>1, <3>2 DEF Works
  <2> QED
    BY <2>3
<1> QED
  BY <1>1, <1>2, <1>3 DEF Inv, Typed, RetiredConsistent, Slots, Foremost, OnConnection,
        BringsSettled, PollSettled, Awaited, InSlot, Early

\* A pin grows old.
LEMMA PinAgesInv ==
    ASSUME Inv, PinAges
    PROVE  Inv'
<1>1. /\ UNCHANGED <<daemon, binding, jobs, poll, hydration, spent>>
      /\ ui' = [ui EXCEPT !.overdue = TRUE]
  BY DEF PinAges
<1>2. /\ ui' \in Screens /\ ui'.after = ui.after /\ ui'.disturbed = ui.disturbed
      /\ ui'.operation = ui.operation /\ ui'.stop = ui.stop
  BY <1>1 DEF Inv, Typed, Screens
<1> QED
  BY <1>1, <1>2 DEF Inv, Typed, RetiredConsistent, Slots, Foremost, OnConnection,
        BringsSettled, PollSettled, Awaited, InSlot, Early

\* A reading says it is settled if no operation on the connection is to be carried out.
LEMMA ReadingTells ==
    ASSUME Inv
    PROVE  /\ Reading \in Readings
           /\ Reading.after <=> \A j \in jobs : OnConnection(j) => j.step # "work"
  BY DEF Reading, Readings, Inv, Typed, OnConnection

\* The poll reads.
LEMMA PollReadsInv ==
    ASSUME Inv, PollReads
    PROVE  Inv'
<1>1. UNCHANGED <<daemon, ui, binding, jobs, hydration>>
  BY DEF PollReads
<1>2. spent' \in Spendings
  BY SpentIsTyped, CallIsSpent DEF Inv, PollReads
<1>3. poll # Nothing /\ poll \in Polls /\ poll.step = "asked"
  BY DEF PollReads, Inv, Typed
<1>4. \/ poll' = [poll EXCEPT !.step = "stored", !.reading = IF poll.current THEN Reading ELSE Nothing]
      \/ poll' = [poll EXCEPT !.step = "failed"]
  BY DEF PollReads
<1>5. /\ poll' \in Polls
      /\ poll'.step = "stored" /\ poll'.current => poll'.reading = Reading
  BY <1>3, <1>4, ReadingTells DEF Polls
<1>6. \A i, j \in jobs : OnConnection(i) /\ OnConnection(j) => i = j
  BY OnConnectionShows DEF Inv
<1>7. PollSettled'
  <2> SUFFICES ASSUME poll'.step = "stored", poll'.current
               PROVE  /\ poll'.reading \in Readings
                      /\ \/ poll'.reading.after \/ ui.disturbed
                         \/ \E j \in jobs : OnConnection(j) /\ j.current
                      /\ poll'.reading.after => \A j \in jobs : OnConnection(j) => j.step # "work"
    BY <1>1 DEF PollSettled, InSlot, OnConnection
  <2>1. poll'.reading = Reading
    BY <1>5
  <2>2. ASSUME ~Reading.after
        PROVE  ui.disturbed \/ \E j \in jobs : OnConnection(j) /\ j.current
    <3>1. PICK j \in jobs : OnConnection(j) /\ j.step = "work"
      BY <2>2, ReadingTells
    <3> QED
      BY <3>1 DEF Inv, Foremost
  <2> QED
    BY <2>1, <2>2, ReadingTells
<1>8. Foremost'
  <2>1. ASSUME NEW j \in jobs, OnConnection(j), j.step # "work"
        PROVE  ~Early'
    <3>1. Reading.after
      BY <1>6, <2>1, ReadingTells
    <3> QED
      BY <1>5, <3>1 DEF Early, InSlot
  <2> QED
    BY <1>1, <2>1 DEF Inv, Foremost, OnConnection
<1> QED
  BY <1>1, <1>2, <1>3, <1>5, <1>7, <1>8 DEF Inv, Typed, RetiredConsistent, Slots, OnConnection,
        BringsSettled, Awaited

\* The poll's result is shown, unless it is of an older epoch, and the next one begins.
LEMMA TimerTicksInv ==
    ASSUME Inv, TimerTicks
    PROVE  Inv'
<1>1. CASE Recover /\ UNCHANGED <<daemon, ui, spent>>
  BY <1>1, RecoverInv
<1>2. CASE /\ binding.ready
           /\ ui' = IF InSlot("stored") /\ poll.current THEN Reduced(ui, poll.reading) ELSE ui
           /\ poll' = AskedPoll
           /\ UNCHANGED <<daemon, binding, jobs, hydration, spent>>
  <2>1. poll' \in Polls /\ poll'.step = "asked"
    BY <1>2 DEF AskedPoll, Polls
  <2>2. ~Early' /\ PollSettled'
    BY <2>1 DEF Early, PollSettled, InSlot
  <2>3. /\ ui' \in Screens /\ ui'.operation = ui.operation /\ ui'.stop = ui.stop
        /\ Awaited' /\ Foremost'
    <3>1. CASE InSlot("stored") /\ poll.current
      <4>1. /\ poll.reading \in Readings
            /\ \/ poll.reading.after \/ ui.disturbed
               \/ \E j \in jobs : OnConnection(j) /\ j.current
            /\ poll.reading.after => \A j \in jobs : OnConnection(j) => j.step # "work"
        BY <3>1 DEF Inv, PollSettled
      <4>2. ui \in Screens
        BY DEF Inv, Typed
      <4>3. ui' = Reduced(ui, poll.reading)
        BY <1>2, <3>1
      <4>4. /\ ui' \in Screens /\ ui'.operation = ui.operation /\ ui'.stop = ui.stop
            /\ ui'.after = poll.reading.after
            /\ ui'.disturbed = (ui.disturbed /\ ~poll.reading.after)
        BY <4>1, <4>2, <4>3, ReducedShows
      <4>5. Awaited'
        BY <1>2, <4>1, <4>4 DEF Awaited, OnConnection
      <4>6. \A j \in jobs : OnConnection(j) =>
                j.current \/ ui'.disturbed \/ (j.step # "work" /\ ui'.after)
        <5>1. CASE poll.reading.after
          BY <4>1, <4>4, <5>1
        <5>2. CASE ~poll.reading.after
          <6>1. \A j \in jobs : OnConnection(j) => j.current \/ ui.disturbed
            BY <3>1, <5>2 DEF Inv, Foremost, Early
          <6>2. ui.disturbed => ui'.disturbed
            BY <4>4, <5>2
          <6> QED
            BY <6>1, <6>2
        <5> QED
          BY <5>1, <5>2
      <4>7. Foremost'
        BY <1>2, <2>2, <4>6 DEF Inv, Foremost, OnConnection
      <4> QED
        BY <4>4, <4>5, <4>7
    <3>2. CASE ~(InSlot("stored") /\ poll.current)
      BY <1>2, <2>2, <3>2 DEF Inv, Typed, Awaited, Foremost, OnConnection
    <3> QED
      BY <3>1, <3>2
  <2> QED
    BY <1>2, <2>1, <2>2, <2>3 DEF Inv, Typed, RetiredConsistent, Slots, OnConnection,
          BringsSettled
<1> QED
  BY <1>1, <1>2 DEF TimerTicks

\* An operation begins: it takes the free slot, and outdates all that was under way.
LEMMA BeginJobInv ==
    ASSUME Inv, NEW kind \in Kinds, NEW target \in Targeted, NEW shown \in Screens,
           shown.operation = ui.operation, shown.stop = ui.stop, shown.after = ui.after,
           shown.disturbed = ui.disturbed,
           BeginJob(kind, target, shown)
    PROVE  Inv'
<1> DEFINE own == [id |-> spent'.acts, kind |-> kind, target |-> target, run |-> binding.run,
                   step |-> "work", urgent |-> ui.operation # Nothing, bound |-> TRUE,
                   current |-> TRUE, ok |-> FALSE, catalog |-> 0, reading |-> Nothing]
<1>1. /\ binding.ready /\ CanStart(kind)
      /\ jobs' = Outdated(jobs) \cup {own} /\ poll' = PollOutdated
      /\ UNCHANGED <<daemon, binding, hydration>>
      /\ ui' = [shown EXCEPT
                  !.operation = IF ui.operation = Nothing THEN kind ELSE @,
                  !.stop = IF ui.operation = Nothing THEN @ ELSE kind,
                  !.after = @ /\ kind \notin Starts \cup Stops,
                  !.disturbed = @ /\ kind \notin Starts \cup Stops]
  BY DEF BeginJob
<1>2. spent' \in Spendings
  BY SpentIsTyped DEF Inv, BeginJob
<1>3. /\ own \in Works /\ own.kind = kind /\ own.bound /\ own.step = "work" /\ own.current
      /\ own.urgent = (ui.operation # Nothing)
  BY <1>2 DEF Works, Inv, Typed, Spendings
<1> HIDE DEF own
<1>4. /\ ui.stop = Nothing
      /\ ui.operation = Nothing \/ (ui.operation = "fetch" /\ kind \in Stops)
  BY <1>1 DEF CanStart
<1>5. jobs \in SUBSET Works /\ poll \in Polls \cup {Nothing}
  BY DEF Inv, Typed
<1>6. /\ ui' \in Screens
      /\ ui.operation = Nothing => ui'.operation = kind /\ ui'.stop = Nothing
      /\ ui.operation # Nothing => ui'.operation = "fetch" /\ ui'.stop = kind
      /\ ui'.after = (ui.after /\ kind \notin Starts \cup Stops)
      /\ ui'.disturbed = (ui.disturbed /\ kind \notin Starts \cup Stops)
  <2>1. shown.after \in BOOLEAN /\ shown.disturbed \in BOOLEAN
    BY DEF Screens
  <2> QED
    BY <1>1, <1>4, <2>1 DEF Screens
<1>7. \A k \in Outdated(jobs) :
        /\ k \in Works /\ ~k.current
        /\ IF k.bound THEN binding.ready ELSE k.step = "work"
        /\ k.bound => ui.operation = "fetch" /\ k.kind = "fetch" /\ ~k.urgent
  <2> SUFFICES ASSUME NEW k \in Outdated(jobs)
               PROVE  /\ k \in Works /\ ~k.current
                      /\ IF k.bound THEN binding.ready ELSE k.step = "work"
                      /\ k.bound => ui.operation = "fetch" /\ k.kind = "fetch" /\ ~k.urgent
    OBVIOUS
  <2>1. PICK j \in jobs : /\ k.kind = j.kind /\ k.bound = j.bound
                          /\ k.step = j.step /\ k.urgent = j.urgent
    BY <1>5, OutdatedIsSame
  <2>2. k \in Works /\ ~k.current
    BY <1>5, OutdatedIsSame
  <2>3. IF j.bound THEN binding.ready ELSE j.step = "work"
    BY DEF Inv, RetiredConsistent
  <2>4. j.bound => IF j.urgent THEN ui.stop = j.kind ELSE ui.operation = j.kind
    BY DEF Inv, Slots
  <2>5. j.kind # Nothing
    BY <1>5, Names DEF Works
  <2> QED
    BY <1>4, <2>1, <2>2, <2>3, <2>4, <2>5
<1>8. \A i, k \in Outdated(jobs) : i.bound /\ k.bound => i = k
  <2> SUFFICES ASSUME NEW i \in Outdated(jobs), NEW k \in Outdated(jobs), i.bound, k.bound
               PROVE  i = k
    OBVIOUS
  <2>1. PICK a \in jobs : /\ i = Outdate(a)
                          /\ i.bound = a.bound /\ i.urgent = a.urgent
    BY <1>5, OutdatedIsSame
  <2>2. PICK b \in jobs : /\ k = Outdate(b)
                          /\ k.bound = b.bound /\ k.urgent = b.urgent
    BY <1>5, OutdatedIsSame
  <2>3. a.bound /\ b.bound /\ ~a.urgent /\ ~b.urgent
    BY <1>7, <2>1, <2>2
  <2>4. a.urgent \in BOOLEAN /\ b.urgent \in BOOLEAN
    BY <1>5 DEF Works
  <2>5. a = b
    BY <2>3, <2>4 DEF Inv, Slots
  <2> QED
    BY <2>1, <2>2, <2>5
<1>9. Typed'
  BY <1>1, <1>2, <1>3, <1>5, <1>6, <1>7, PollOutdatedIsNot DEF Inv, Typed
<1>10. RetiredConsistent'
  BY <1>1, <1>3, <1>7 DEF Inv, RetiredConsistent
<1>11. Slots'
  <2>1. \A j \in jobs' : j.bound => IF j.urgent THEN ui'.stop = j.kind ELSE ui'.operation = j.kind
    <3>1. IF own.urgent THEN ui'.stop = own.kind ELSE ui'.operation = own.kind
      <4>1. CASE ui.operation = Nothing
        BY <1>3, <1>6, <4>1
      <4>2. CASE ui.operation # Nothing
        BY <1>3, <1>6, <4>2
      <4> QED
        BY <4>1, <4>2
    <3>2. \A k \in Outdated(jobs) : k.bound => ~k.urgent /\ ui'.operation = k.kind
      BY <1>6, <1>7, Names
    <3> QED
      BY <1>1, <3>1, <3>2
  <2>2. \A i, j \in jobs' : i.bound /\ j.bound /\ i.urgent = j.urgent => i = j
    <3>1. \A k \in Outdated(jobs) : k.bound => ~k.urgent /\ own.urgent
      <4>1. ui.operation = "fetch" => own.urgent
        BY <1>3, Names
      <4> QED
        BY <1>7, <4>1
    <3> QED
      BY <1>1, <1>8, <3>1
  <2>3. ui'.stop # Nothing => ui'.operation \in {Nothing, "fetch"}
    BY <1>6
  <2> QED
    BY <2>1, <2>2, <2>3 DEF Slots
<1>12. \A k \in Outdated(jobs) : ~OnConnection(k)
  BY <1>7, Names DEF OnConnection
<1>13. Foremost'
  BY <1>1, <1>3, <1>7, <1>12 DEF Foremost, OnConnection
<1>14. BringsSettled'
  BY <1>1, <1>3, <1>7 DEF BringsSettled
<1>15. PollSettled'
  BY <1>1, <1>5, PollOutdatedIsNot DEF PollSettled, InSlot
<1>16. Awaited'
  <2>1. CASE kind \in Starts \cup Stops
    BY <1>1, <1>3, <2>1 DEF Awaited, OnConnection
  <2>2. CASE kind \notin Starts \cup Stops
    <3>1. ui.stop = Nothing /\ ui.operation = Nothing
      BY <1>4, <2>2
    <3>2. \A j \in jobs : ~OnConnection(j)
      <4> SUFFICES ASSUME NEW j \in jobs, OnConnection(j) PROVE FALSE
        OBVIOUS
      <4>1. j.bound /\ j.kind # Nothing
        BY <1>5, Names DEF Works, OnConnection
      <4> QED
        BY <3>1, <4>1 DEF Inv, Slots
    <3>3. ui.after \/ ui.disturbed
      BY <1>1, <3>2 DEF Inv, Awaited
    <3> QED
      BY <1>6, <2>2, <3>3 DEF Awaited
  <2> QED
    BY <2>1, <2>2
<1> QED
  BY <1>9, <1>10, <1>11, <1>13, <1>14, <1>15, <1>16 DEF Inv

\* The user's operations.
LEMMA ActsInv ==
    ASSUME Inv, \/ \E kind \in Starts, target \in Targets : StartServer(kind, target)
                \/ Disconnect \/ Down \/ Fetch
    PROVE  Inv'
<1>1. ui \in Screens
  BY DEF Inv, Typed
<1>2. "connecting" \in Statuses /\ "disconnected" \in Statuses /\ Nothing \in Targeted
  BY DEF Statuses, Targeted
<1>3. CASE \E kind \in Starts, target \in Targets : StartServer(kind, target)
  <2>1. PICK kind \in Starts, target \in Targets : StartServer(kind, target)
    BY <1>3
  <2>2. kind \in Kinds /\ target \in Targeted
    BY Names DEF Targeted
  <2>3. BeginJob(kind, target, Pinned(ui, "connecting", target))
    BY <2>1 DEF StartServer
  <2> DEFINE shown == Pinned(ui, "connecting", target)
  <2>4. /\ shown \in Screens /\ shown.operation = ui.operation /\ shown.stop = ui.stop
        /\ shown.after = ui.after /\ shown.disturbed = ui.disturbed
    BY <1>1, <1>2, <2>2, PinnedShows
  <2> HIDE DEF shown
  <2>5. BeginJob(kind, target, shown)
    BY <2>3 DEF shown
  <2> QED
    BY <2>2, <2>4, <2>5, BeginJobInv
<1>4. CASE Disconnect
  <2> DEFINE shown == Pinned(ui, "disconnected", Nothing)
  <2>1. /\ shown \in Screens /\ shown.operation = ui.operation /\ shown.stop = ui.stop
        /\ shown.after = ui.after /\ shown.disturbed = ui.disturbed
    BY <1>1, <1>2, PinnedShows
  <2>2. BeginJob("disconnect", Nothing, shown)
    BY <1>4 DEF Disconnect
  <2> HIDE DEF shown
  <2>3. "disconnect" \in Kinds
    BY DEF Kinds, Stops
  <2> QED
    BY <1>2, <2>1, <2>2, <2>3, BeginJobInv
<1>5. CASE Down
  <2>1. "down" \in Kinds
    BY DEF Kinds, Stops
  <2> QED
    BY <1>1, <1>2, <1>5, <2>1, BeginJobInv DEF Down
<1>6. CASE Fetch
  <2>1. "fetch" \in Kinds
    BY DEF Kinds
  <2> QED
    BY <1>1, <1>2, <1>6, <2>1, BeginJobInv DEF Fetch
<1> QED
  BY <1>3, <1>4, <1>5, <1>6

\* The user raises the epoch: nothing that is under way counts any more, and the screen
\* is disturbed if that includes an operation on the connection.
LEMMA RaiseEpochInv ==
    ASSUME Inv, RaiseEpoch
    PROVE  Inv'
<1>1. /\ binding.ready /\ UNCHANGED <<daemon, binding, hydration>>
      /\ jobs' = Outdated(jobs) /\ poll' = PollOutdated
      /\ ui' = [ui EXCEPT !.disturbed = @ \/ ~Quiet(ui)]
  BY DEF RaiseEpoch
<1>2. jobs \in SUBSET Works /\ poll \in Polls \cup {Nothing} /\ ui \in Screens
  BY DEF Inv, Typed
<1>3. /\ ui' \in Screens /\ ui'.after = ui.after
      /\ ui'.operation = ui.operation /\ ui'.stop = ui.stop
      /\ ui'.disturbed = (ui.disturbed \/ ~Quiet(ui))
  <2>1. (ui.disturbed \/ ~Quiet(ui)) \in BOOLEAN
    OBVIOUS
  <2> QED
    BY <1>1, <1>2, <2>1 DEF Screens
<1>4. /\ jobs' \subseteq Works
      /\ \A k \in jobs' :
            /\ ~k.current
            /\ \E j \in jobs :
                /\ k = Outdate(j)
                /\ k.kind = j.kind /\ k.bound = j.bound
                /\ k.step = j.step /\ k.urgent = j.urgent
  BY <1>1, <1>2, OutdatedIsSame
<1>5. poll' \in Polls \cup {Nothing} /\ (poll' # Nothing => ~poll'.current)
  BY <1>1, <1>2, PollOutdatedIsNot
<1>6. spent' \in Spendings
  BY SpentIsTyped DEF Inv, RaiseEpoch
<1>7. Typed'
  BY <1>1, <1>3, <1>4, <1>5, <1>6 DEF Inv, Typed
<1>8. RetiredConsistent'
  BY <1>1, <1>4 DEF Inv, RetiredConsistent
<1>9. Slots'
  <2>1. \A k \in jobs' : k.bound => IF k.urgent THEN ui'.stop = k.kind ELSE ui'.operation = k.kind
    BY <1>3, <1>4 DEF Inv, Slots
  <2>2. \A i, k \in jobs' : i.bound /\ k.bound /\ i.urgent = k.urgent => i = k
    <3> SUFFICES ASSUME NEW i \in jobs', NEW k \in jobs', i.bound, k.bound, i.urgent = k.urgent
                 PROVE  i = k
      OBVIOUS
    <3>1. PICK a \in jobs : i = Outdate(a) /\ i.bound = a.bound /\ i.urgent = a.urgent
      BY <1>4
    <3>2. PICK b \in jobs : k = Outdate(b) /\ k.bound = b.bound /\ k.urgent = b.urgent
      BY <1>4
    <3>3. a = b
      BY <3>1, <3>2 DEF Inv, Slots
    <3> QED
      BY <3>1, <3>2, <3>3
  <2>3. ui'.stop # Nothing => ui'.operation \in {Nothing, "fetch"}
    BY <1>3 DEF Inv, Slots
  <2> QED
    BY <2>1, <2>2, <2>3 DEF Slots
<1>10. \A j \in jobs : OnConnection(j) => ~Quiet(ui)
  BY OnConnectionShows DEF Inv
<1>11. Foremost'
  <2>1. \A k \in jobs' : OnConnection(k)' => ui'.disturbed
    BY <1>3, <1>4, <1>10 DEF OnConnection
  <2>2. \A k \in jobs' : ~k.current
    BY <1>4
  <2> QED
    BY <2>1, <2>2 DEF Foremost, OnConnection
<1>12. BringsSettled' /\ PollSettled'
  BY <1>4, <1>5 DEF BringsSettled, PollSettled, InSlot
<1>13. Awaited'
  BY <1>1, <1>3, <1>10 DEF Inv, Awaited
<1> QED
  BY <1>7, <1>8, <1>9, <1>11, <1>12, <1>13 DEF Inv

\* A worker that goes on takes the place of the one it was.
LEMMA ReplacedInv ==
    ASSUME Inv, NEW j \in jobs, NEW k \in Works, j.bound,
           k.bound, k.kind = j.kind, k.urgent = j.urgent, k.current = j.current,
           k.step # "work",
           k.step = "sent" /\ k.current => k.reading \in Readings /\ k.reading.after,
           jobs' = (jobs \ {j}) \cup {k},
           daemon' \in [runs : BOOLEAN, run : Nat, report : Reports, catalog : Nat],
           binding' \in [run : Nat, ready : BOOLEAN, changed : BOOLEAN],
           binding'.ready = binding.ready,
           spent' \in Spendings,
           UNCHANGED <<ui, poll, hydration>>
    PROVE  Inv'
<1>1. Typed'
  BY DEF Inv, Typed
<1>2. RetiredConsistent'
  BY DEF Inv, RetiredConsistent
<1>3. Slots'
  BY DEF Inv, Slots
<1>4. Foremost'
  <2>1. Early' <=> Early
    BY DEF Early, InSlot
  <2>2. ASSUME NEW i \in jobs', OnConnection(i)
        PROVE  i.current \/ ui.disturbed \/ (i.step # "work" /\ ui.after /\ ~Early)
    <3>1. CASE i = k
      BY <2>2, <3>1 DEF Inv, Foremost, OnConnection
    <3>2. CASE i # k
      BY <2>2, <3>2 DEF Inv, Foremost
    <3> QED
      BY <3>1, <3>2
  <2>3. \A a, b \in jobs' : a.current /\ OnConnection(b) => a = b
    BY DEF Inv, Foremost, OnConnection
  <2> QED
    BY <2>1, <2>2, <2>3 DEF Foremost, OnConnection
<1>5. BringsSettled'
  BY DEF Inv, BringsSettled
<1>6. OnConnection(j) <=> OnConnection(k)
  BY DEF OnConnection
<1>7. /\ (\E i \in jobs : OnConnection(i) /\ i.current) => \E i \in jobs' : OnConnection(i) /\ i.current
      /\ (\A i \in jobs : OnConnection(i) => i.step # "work")
            => \A i \in jobs' : OnConnection(i) => i.step # "work"
  BY <1>6
<1>8. PollSettled'
  BY <1>7 DEF Inv, PollSettled, InSlot, OnConnection
<1>9. Awaited'
  BY <1>7 DEF Inv, Awaited, OnConnection
<1> QED
  BY <1>1, <1>2, <1>3, <1>4, <1>5, <1>8, <1>9 DEF Inv

\* What an operation makes of the daemon's answers is an answer.
LEMMA EffectsAreAnswers ==
    ASSUME Typed, NEW j \in Works, NEW effect \in Effects(j)
    PROVE  effect.report \in Reports /\ effect.catalog \in Nat /\ effect.ok \in BOOLEAN
<1> DEFINE refused == [report |-> daemon.report, catalog |-> daemon.catalog, ok |-> FALSE]
           Answers == [report : Reports, catalog : Nat, ok : BOOLEAN]
           started(report, ok) == [refused EXCEPT !.report = report, !.ok = ok]
<1>1. refused \in Answers
  BY DEF Typed
<1>2. \A report \in Reports, ok \in BOOLEAN : started(report, ok) \in Answers
  BY <1>1
<1>3. [refused EXCEPT !.catalog = @ + 1, !.ok = TRUE] \in Answers
  <2>1. daemon.catalog + 1 \in Nat /\ daemon.report \in Reports
    BY DEF Typed
  <2> QED
    BY <2>1
<1>4. /\ Report("error", Nothing) \in Reports /\ Report("disconnected", Nothing) \in Reports
      /\ Report("connecting", j.target) \in Reports
  BY DEF Report, Reports, Statuses, Targeted, Works
<1>5. effect \in {refused} \cup
        CASE j.kind \in Starts ->
               {started(Report("connecting", j.target), TRUE),
                started(Report("error", Nothing), FALSE)} \cup
               {started(Report("disconnected", Nothing), FALSE) : stopped \in {"up"} \cap {j.kind}}
          [] j.kind \in Stops -> {started(Report("disconnected", Nothing), TRUE)}
          [] OTHER -> {[refused EXCEPT !.catalog = @ + 1, !.ok = TRUE]}
  BY DEF Effects
<1> HIDE DEF refused, started
<1>6. effect \in Answers
  <2>1. CASE j.kind \in Starts
    BY <1>1, <1>2, <1>4, <1>5, <2>1
  <2>2. CASE j.kind \in Stops
    <3>1. j.kind \notin Starts
      BY <2>2 DEF Starts, Stops
    <3> QED
      BY <1>1, <1>2, <1>4, <1>5, <2>2, <3>1
  <2>3. CASE j.kind \notin Starts \cup Stops
    BY <1>1, <1>3, <1>5, <2>3
  <2> QED
    BY <2>1, <2>2, <2>3
<1> QED
  BY <1>6

\* An operation is carried out, or not.
LEMMA WorkEndsInv ==
    ASSUME Inv, NEW j \in jobs, WorkEnds(j)
    PROVE  Inv'
<1>1. PICK effect \in Effects(j), answered \in BOOLEAN :
        /\ IF answered THEN Answered(j.run) ELSE Unanswered(j.run)
        /\ daemon' = IF daemon.runs /\ daemon.run = j.run
                     THEN [daemon EXCEPT !.report = effect.report, !.catalog = effect.catalog]
                     ELSE daemon
        /\ jobs' = (jobs \ {j}) \cup
                IF j.bound
                THEN {[j EXCEPT !.step = "snapshot", !.ok = answered /\ effect.ok]}
                ELSE {}
  BY DEF WorkEnds
<1>2. Typed /\ j \in Works
  BY DEF Inv, Typed
<1>3. effect.report \in Reports /\ effect.catalog \in Nat /\ effect.ok \in BOOLEAN
  BY <1>2, EffectsAreAnswers
<1>4. daemon' \in [runs : BOOLEAN, run : Nat, report : Reports, catalog : Nat]
  BY <1>1, <1>2, <1>3 DEF Typed
<1>5. spent' \in Spendings
  BY <1>1, <1>2, SpentIsTyped, CallIsSpent
<1>6. UNCHANGED <<ui, poll, hydration>> /\ binding' = [binding EXCEPT !.changed = @ \/ ~j.bound]
  BY DEF WorkEnds
<1>7. /\ binding' \in [run : Nat, ready : BOOLEAN, changed : BOOLEAN]
      /\ binding'.ready = binding.ready
  <2>1. binding \in [run : Nat, ready : BOOLEAN, changed : BOOLEAN]
        /\ (binding.changed \/ ~j.bound) \in BOOLEAN
    BY <1>2 DEF Typed
  <2> QED
    BY <1>6, <2>1
<1>8. CASE j.bound
  <2> DEFINE k == [j EXCEPT !.step = "snapshot", !.ok = answered /\ effect.ok]
  <2>1. /\ k \in Works /\ k.bound /\ k.kind = j.kind /\ k.urgent = j.urgent
        /\ k.current = j.current /\ k.step = "snapshot"
    BY <1>2, <1>3, <1>8 DEF Works
  <2>2. jobs' = (jobs \ {j}) \cup {k}
    BY <1>1, <1>8
  <2> HIDE DEF k
  <2> QED
    BY <1>4, <1>5, <1>6, <1>7, <1>8, <2>1, <2>2, ReplacedInv
<1>9. CASE ~j.bound
  <2>1. jobs' = jobs \ {j}
    BY <1>1, <1>9
  <2>2. ~OnConnection(j)
    BY <1>9 DEF OnConnection
  <2>3. (\E i \in jobs : OnConnection(i) /\ i.current)
            => \E i \in jobs' : OnConnection(i) /\ i.current
    BY <2>1, <2>2
  <2>4. Typed' /\ RetiredConsistent' /\ Slots'
    BY <1>4, <1>5, <1>6, <1>7, <2>1 DEF Inv, Typed, RetiredConsistent, Slots
  <2>5. Foremost' /\ BringsSettled'
    BY <1>6, <2>1 DEF Inv, Foremost, OnConnection, BringsSettled, Early, InSlot
  <2>6. PollSettled' /\ Awaited'
    BY <1>6, <1>7, <2>1, <2>3 DEF Inv, PollSettled, InSlot, Awaited, OnConnection
  <2> QED
    BY <2>4, <2>5, <2>6 DEF Inv
<1> QED
  BY <1>8, <1>9

\* A worker reads after its work: if what it reads counts, it was the last operation on
\* the connection itself, or there is none.
LEMMA FollowUpInv ==
    ASSUME Inv, NEW j \in jobs, FollowUp(j)
    PROVE  Inv'
<1>1. j \in Works /\ j.step = "snapshot" /\ j.bound
  BY DEF FollowUp, Inv, Typed, RetiredConsistent
<1>2. UNCHANGED <<daemon, ui, binding, poll, hydration>>
  BY DEF FollowUp
<1>3. spent' \in Spendings
  BY SpentIsTyped, CallIsSpent DEF Inv, FollowUp
<1>4. /\ daemon' \in [runs : BOOLEAN, run : Nat, report : Reports, catalog : Nat]
      /\ binding' \in [run : Nat, ready : BOOLEAN, changed : BOOLEAN]
      /\ daemon.catalog \in Nat
  BY <1>2 DEF Inv, Typed
<1>5. Reading \in Readings /\ (j.current => Reading.after)
  <2>1. ASSUME j.current, NEW i \in jobs, OnConnection(i) /\ i.step = "work"
        PROVE  FALSE
    <3>1. i = j
      BY <2>1 DEF Inv, Foremost
    <3> QED
      BY <1>1, <2>1, <3>1
  <2> QED
    BY <2>1, ReadingTells
<1>6. PICK k : /\ jobs' = (jobs \ {j}) \cup {k}
               /\ \/ k = [j EXCEPT !.step = "sent",
                                   !.reading = IF j.current THEN Reading ELSE Nothing,
                                   !.catalog = daemon.catalog]
                  \/ k = [j EXCEPT !.step = "failed"]
  BY DEF FollowUp
<1>7. /\ k \in Works /\ k.bound /\ k.kind = j.kind /\ k.urgent = j.urgent
      /\ k.current = j.current /\ k.step # "work"
      /\ k.step = "sent" /\ k.current => k.reading \in Readings /\ k.reading.after
  <2>1. CASE k = [j EXCEPT !.step = "failed"]
    BY <1>1, <2>1 DEF Works
  <2>2. CASE k = [j EXCEPT !.step = "sent",
                           !.reading = IF j.current THEN Reading ELSE Nothing,
                           !.catalog = daemon.catalog]
    <3> DEFINE brought == IF j.current THEN Reading ELSE Nothing
    <3>1. brought \in Readings \cup {Nothing} /\ (j.current => brought = Reading)
      BY <1>5
    <3> HIDE DEF brought
    <3>2. k = [j EXCEPT !.step = "sent", !.reading = brought, !.catalog = daemon.catalog]
      BY <2>2 DEF brought
    <3>3. /\ k \in Works /\ k.bound /\ k.kind = j.kind /\ k.urgent = j.urgent
          /\ k.current = j.current /\ k.step = "sent" /\ k.reading = brought
      BY <1>1, <1>4, <3>1, <3>2 DEF Works
    <3> QED
      BY <1>5, <3>1, <3>3
  <2> QED
    BY <1>6, <2>1, <2>2
<1> QED
  BY <1>1, <1>2, <1>3, <1>4, <1>6, <1>7, ReplacedInv

\* A result arrives.  One that is current settles what is shown and outdates all others; so
\* does one that succeeded on the connection although it is not, but without a reading.  Any
\* other leaves the rest alone.
LEMMA DeliverInv ==
    ASSUME Inv, NEW j \in jobs, Deliver(j)
    PROVE  Inv'
<1> DEFINE u == IF j.urgent THEN ui ELSE [ui EXCEPT !.catalog = j.catalog]
           f == Finished(u, j)
           done == Completed(f, j)
           bumps == j.current \/ (j.ok /\ j.kind \in {"up", "down"})
<1>1. /\ j \in Works /\ j.step = "sent" /\ j.bound
      /\ jobs \in SUBSET Works /\ poll \in Polls \cup {Nothing}
  BY DEF Deliver, Inv, Typed, RetiredConsistent
<1>2. /\ UNCHANGED <<daemon, binding, hydration, spent>>
      /\ ui' = IF j.current THEN Reduced(done, j.reading) ELSE done
      /\ jobs' = IF bumps THEN Outdated(jobs \ {j}) ELSE jobs \ {j}
      /\ poll' = IF bumps THEN PollOutdated ELSE poll
  BY DEF Deliver
<1>3. /\ u \in Screens /\ u.after = ui.after /\ u.disturbed = ui.disturbed
      /\ u.operation = ui.operation /\ u.stop = ui.stop
  <2>1. ui \in Screens /\ j.catalog \in Nat
    BY <1>1 DEF Inv, Typed, Works
  <2> QED
    BY <2>1 DEF Screens
<1> HIDE DEF u
<1>4. /\ f \in Screens /\ f.after = u.after /\ f.disturbed = u.disturbed
      /\ j.urgent => f.operation = u.operation /\ f.stop = Nothing
      /\ ~j.urgent => f.operation = Nothing /\ f.stop = u.stop
  BY <1>3 DEF Finished, Screens
<1> HIDE DEF f
<1>5. /\ done \in Screens /\ done.after = f.after /\ done.disturbed = f.disturbed
      /\ done.operation = f.operation /\ done.stop = f.stop
  BY <1>1, <1>4, CompletedShows
<1> HIDE DEF done
<1>6. /\ j.current => bumps
      /\ bumps /\ ~j.current => OnConnection(j)
  BY <1>1 DEF OnConnection, Starts, Stops
<1> HIDE DEF bumps
<1>7. j.current => j.reading \in Readings /\ j.reading.after
  BY <1>1 DEF Inv, BringsSettled
<1>8. /\ ui' \in Screens /\ ui'.operation = f.operation /\ ui'.stop = f.stop
      /\ ui'.after = (j.current \/ ui.after)
      /\ ui'.disturbed = (ui.disturbed /\ ~j.current)
  <2>1. CASE j.current
    <3>1. ui' = Reduced(done, j.reading) /\ j.reading \in Readings /\ j.reading.after
      BY <1>2, <1>7, <2>1
    <3> DEFINE shown == Reduced(done, j.reading)
    <3>2. /\ shown \in Screens /\ shown.operation = done.operation /\ shown.stop = done.stop
          /\ shown.after = j.reading.after
          /\ shown.disturbed = (done.disturbed /\ ~j.reading.after)
      BY <1>5, <3>1, ReducedShows
    <3> HIDE DEF shown
    <3>3. shown.after = TRUE /\ shown.disturbed = FALSE
      BY <3>1, <3>2 DEF Readings
    <3>4. ui' = shown
      BY <3>1 DEF shown
    <3> QED
      BY <1>5, <2>1, <3>2, <3>3, <3>4
  <2>2. CASE ~j.current
    <3>1. ui.after \in BOOLEAN /\ ui.disturbed \in BOOLEAN
      BY DEF Inv, Typed, Screens
    <3> QED
      BY <1>2, <1>3, <1>4, <1>5, <2>2, <3>1
  <2> QED
    BY <2>1, <2>2
\* What is left of the others.
<1>9. \A k \in jobs' :
        /\ k \in Works
        /\ bumps => ~k.current
        /\ \E i \in jobs \ {j} :
            /\ k.kind = i.kind /\ k.bound = i.bound /\ k.step = i.step /\ k.urgent = i.urgent
            /\ IF bumps THEN k = Outdate(i) ELSE k = i
  <2>1. CASE bumps
    <3>1. jobs' = Outdated(jobs \ {j}) /\ jobs \ {j} \in SUBSET Works
      BY <1>1, <1>2, <2>1
    <3> QED
      BY <2>1, <3>1, OutdatedIsSame
  <2>2. CASE ~bumps
    <3>1. jobs' = jobs \ {j}
      BY <1>2, <2>2
    <3> QED
      BY <1>1, <2>2, <3>1
  <2> QED
    BY <2>1, <2>2
<1>10. bumps => \A i \in jobs \ {j} : ~OnConnection(i)
  BY <1>6, OnConnectionShows DEF Inv, Foremost
<1>11. Typed'
  <2>1. poll' \in Polls \cup {Nothing}
    BY <1>1, <1>2, PollOutdatedIsNot
  <2>2. jobs' \subseteq Works
    BY <1>9
  <2> QED
    BY <1>2, <1>8, <2>1, <2>2 DEF Inv, Typed
<1>12. RetiredConsistent'
  <2>1. \A k \in jobs' : IF k.bound THEN binding.ready ELSE k.step = "work" /\ ~k.current
    <3> SUFFICES ASSUME NEW k \in jobs'
                 PROVE  IF k.bound THEN binding.ready ELSE k.step = "work" /\ ~k.current
      OBVIOUS
    <3>1. PICK i \in jobs \ {j} :
            /\ k.bound = i.bound /\ k.step = i.step
            /\ IF bumps THEN k = Outdate(i) ELSE k = i
      BY <1>9
    <3>2. IF i.bound THEN binding.ready ELSE i.step = "work" /\ ~i.current
      BY DEF Inv, RetiredConsistent
    <3>3. bumps => ~k.current
      BY <1>9
    <3> QED
      BY <3>1, <3>2, <3>3
  <2>2. binding.ready
    BY <1>1 DEF Inv, RetiredConsistent
  <2> QED
    BY <1>2, <2>1, <2>2 DEF Inv, RetiredConsistent
<1>13. Slots'
  <2>1. ASSUME NEW i \in jobs \ {j}, i.bound
        PROVE  /\ i.urgent = ~j.urgent
               /\ IF i.urgent THEN ui'.stop = i.kind ELSE ui'.operation = i.kind
    <3>1. i.urgent \in BOOLEAN /\ j.urgent \in BOOLEAN
      BY <1>1 DEF Works
    <3>2. i.urgent # j.urgent
      BY <1>1, <2>1 DEF Inv, Slots
    <3>3. i.urgent = ~j.urgent
      BY <3>1, <3>2
    <3>4. IF i.urgent THEN ui.stop = i.kind ELSE ui.operation = i.kind
      BY <2>1 DEF Inv, Slots
    <3>5. CASE j.urgent
      BY <1>3, <1>4, <1>8, <3>3, <3>4, <3>5
    <3>6. CASE ~j.urgent
      BY <1>3, <1>4, <1>8, <3>3, <3>4, <3>6
    <3> QED
      BY <3>3, <3>5, <3>6
  <2>2. \A k \in jobs' : k.bound => IF k.urgent THEN ui'.stop = k.kind ELSE ui'.operation = k.kind
    BY <1>9, <2>1
  <2>3. ASSUME NEW i \in jobs', NEW k \in jobs', i.bound, k.bound
        PROVE  i = k
    <3>1. PICK a \in jobs \ {j} : /\ a.bound = i.bound /\ IF bumps THEN i = Outdate(a) ELSE i = a
      BY <1>9
    <3>2. PICK b \in jobs \ {j} : /\ b.bound = k.bound /\ IF bumps THEN k = Outdate(b) ELSE k = b
      BY <1>9
    <3>3. a.urgent = ~j.urgent /\ b.urgent = ~j.urgent
      BY <2>1, <2>3, <3>1, <3>2
    <3>4. a = b
      BY <2>3, <3>1, <3>2, <3>3 DEF Inv, Slots
    <3> QED
      BY <3>1, <3>2, <3>4
  <2>4. ui'.stop # Nothing => ui'.operation \in {Nothing, "fetch"}
    <3>1. ui.stop # Nothing => ui.operation \in {Nothing, "fetch"}
      BY DEF Inv, Slots
    <3>2. CASE j.urgent
      BY <1>4, <1>8, <3>2
    <3>3. CASE ~j.urgent
      BY <1>4, <1>8, <3>3
    <3> QED
      BY <3>2, <3>3
  <2> QED
    BY <2>2, <2>3, <2>4 DEF Slots
<1>14. CASE bumps
  <2>1. \A k \in jobs' : ~k.current /\ ~OnConnection(k)
    BY <1>9, <1>10, <1>14 DEF OnConnection
  <2>2. Foremost' /\ BringsSettled'
    BY <2>1 DEF Foremost, BringsSettled, OnConnection
  <2>3. poll' # Nothing => ~poll'.current
    BY <1>1, <1>2, <1>14, PollOutdatedIsNot
  <2>4. PollSettled'
    BY <2>3 DEF PollSettled, InSlot
  <2>5. Awaited'
    <3>1. CASE j.current
      BY <1>8, <3>1 DEF Awaited
    <3>2. CASE ~j.current
      <4>1. \A i \in jobs : ~(OnConnection(i) /\ i.current)
        BY <1>10, <1>14, <3>2
      <4> QED
        BY <1>2, <1>8, <3>2, <4>1 DEF Inv, Awaited
    <3> QED
      BY <3>1, <3>2
  <2> QED
    BY <1>11, <1>12, <1>13, <2>2, <2>4, <2>5 DEF Inv
<1>15. CASE ~bumps
  <2>1. /\ ~j.current /\ jobs' = jobs \ {j} /\ poll' = poll
        /\ ui'.after = ui.after /\ ui'.disturbed = ui.disturbed
    <3>1. ui.after \in BOOLEAN /\ ui.disturbed \in BOOLEAN
      BY DEF Inv, Typed, Screens
    <3> QED
      BY <1>2, <1>6, <1>8, <1>15, <3>1
  <2>2. (\E i \in jobs : OnConnection(i) /\ i.current)
            => \E i \in jobs' : OnConnection(i) /\ i.current
    BY <2>1
  <2>3. Foremost' /\ BringsSettled'
    BY <2>1 DEF Inv, Foremost, OnConnection, BringsSettled, Early, InSlot
  <2>4. PollSettled' /\ Awaited'
    BY <1>2, <2>1, <2>2 DEF Inv, PollSettled, InSlot, Awaited, OnConnection
  <2> QED
    BY <1>11, <1>12, <1>13, <2>3, <2>4 DEF Inv
<1> QED
  BY <1>14, <1>15

-----------------------------------------------------------------------------
(* The theorem.                                                            *)

\* The invariant holds of every state the client reaches.
THEOREM ClientIsConsistent == DesktopSpec => []Inv
<1>1. Inv /\ [DesktopNext]_desktopVars => Inv'
  <2> SUFFICES ASSUME Inv, [DesktopNext]_desktopVars PROVE Inv'
    OBVIOUS
  <2>1. CASE \/ \E kind \in Starts, target \in Targets : StartServer(kind, target)
             \/ Disconnect \/ Down \/ Fetch
    BY <2>1, ActsInv
  <2>2. CASE \E id \in 1 .. MaxActs : JobStep(id)
    <3>1. PICK j \in jobs : WorkEnds(j) \/ FollowUp(j) \/ Deliver(j) \/ DeliverFailure(j)
      BY <2>2 DEF JobStep
    <3>2. CASE WorkEnds(j)
      BY <3>2, WorkEndsInv
    <3>3. CASE FollowUp(j)
      BY <3>3, FollowUpInv
    <3>4. CASE Deliver(j)
      BY <3>4, DeliverInv
    <3>5. CASE DeliverFailure(j)
      BY <3>5, RecoverInv DEF DeliverFailure
    <3> QED
      BY <3>1, <3>2, <3>3, <3>4, <3>5
  <2>3. CASE KeepCurrent
    BY <2>3, PollReadsInv, TimerTicksInv, HydrationInv, InstallInv DEF KeepCurrent
  <2>4. CASE PinAges
    BY <2>4, PinAgesInv
  <2>5. CASE StatusChanges \/ DaemonEnds \/ DaemonStarts
    BY <2>5, DaemonInv
  <2>6. CASE RaiseEpoch
    BY <2>6, RaiseEpochInv
  <2>7. CASE UNCHANGED desktopVars
    BY <2>7, StutterInv
  <2> QED
    BY <2>1, <2>2, <2>3, <2>4, <2>5, <2>6, <2>7 DEF DesktopNext
<1> QED
  BY <1>1, InitInv, PTL DEF DesktopSpec

\* A status that is shown as the daemon's was read after the user's last operation on the
\* connection was carried out: polls and results that were under way at a click of the user
\* never bring the time before it back (reduce.rs, operation.rs), unless the user raised the
\* epoch during the operation and no reading of what became of it was applied since.
THEOREM ShownIsAlwaysSettled == DesktopSpec => []ShownIsSettled
<1>1. Inv => ShownIsSettled
  <2> SUFFICES ASSUME Inv, binding.ready, Quiet(ui) PROVE ui.after \/ ui.disturbed
    BY DEF ShownIsSettled
  <2>1. \A j \in jobs : ~OnConnection(j)
    BY OnConnectionShows DEF Inv
  <2> QED
    BY <2>1 DEF Inv, Awaited
<1> QED
  BY <1>1, ClientIsConsistent, PTL
=============================================================================
