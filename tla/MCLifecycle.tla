---------------------------- MODULE MCLifecycle -----------------------------
(***************************************************************************)
(* The instances of what frames the daemon's work: a behaviour is the      *)
(* admission of work and the termination, the locks the functions take,    *)
(* the recorder of diagnostics, or the desktop client of the daemon, and   *)
(* leaves the others as they begin.                                        *)
(***************************************************************************)
EXTENDS Lifecycle, LockUse, LockOrder, Recorder, Desktop

VARIABLE part

\* Two causes, under two policies, of two generations of a session.
Observations == [subject : 1 .. 2, policy : 1 .. 2, cause : 1 .. 2]
Watched == {key \in Observations : key.subject = 1 \/ (key.policy = 1 /\ key.cause = 1)}

FrameInit ==
    /\ part \in {"lifecycle", "locks", "recorder", "desktop"}
    /\ Init /\ LocksInit /\ RecorderInit /\ DesktopInit

FrameNext ==
    /\ UNCHANGED part
    /\ \/ part = "lifecycle" /\ Next /\ UNCHANGED <<lockVars, recorderVars, desktopVars>>
       \/ part = "locks" /\ LocksNext /\ UNCHANGED <<vars, recorderVars, desktopVars>>
       \/ part = "recorder" /\ RecorderNext /\ UNCHANGED <<vars, lockVars, desktopVars>>
       \/ part = "desktop" /\ DesktopNext /\ UNCHANGED <<vars, lockVars, recorderVars>>

\* Fairness and DesktopFairness, each of the part whose steps are taken: of the locks
\* nothing is asked but order.
Terminating == part = "lifecycle"
Showing == part = "desktop"

FrameFairness ==
    /\ \A w \in Workers :
          WF_vars(Terminating /\
              \/ Begin(w) \/ WakeUp(w) \/ Change(w) \/ Commit(w) \/ Unlock(w)
              \/ closed /\ Leave(w))
    /\ \A c \in Closers :
          /\ SF_vars(Terminating /\ (TakeEngine(c) \/ TakeCommit(c) \/ CleanUp(c)))
          /\ WF_vars(Terminating /\ (Close(c) \/ Notify(c) \/ Drain(c)))
    /\ \A id \in 1 .. MaxActs : WF_desktopVars(Showing /\ JobStep(id))
    /\ WF_desktopVars(Showing /\ KeepCurrent)
    /\ WF_desktopVars(Showing /\ PinAges)
    /\ WF_desktopVars(Showing /\ DaemonStarts)

FrameSpec ==
    FrameInit /\ [][FrameNext]_<<part, lockVars, vars, recorderVars, desktopVars>> /\ FrameFairness
=============================================================================
