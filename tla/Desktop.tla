------------------------------ MODULE Desktop -------------------------------
(***************************************************************************)
(* What the desktop client knows of its daemon (window.rs, reduce.rs,      *)
(* operation.rs and recovery.rs of oxidom-gui): operations on workers of   *)
(* their own, the poll, the status pinned ahead of the daemon, the binding *)
(* to one run of the daemon, and its recovery when a call fails.           *)
(*                                                                         *)
(* All of the client but its workers is one thread, so a handler is one    *)
(* step.  The daemon is seen as its answers: the default profile's status, *)
(* and a catalog that only this client changes.  A reading carries whether *)
(* its epoch is the client's instead of the epoch, and a worker whether    *)
(* its binding is the client's.  The starts of a pool are left out, and a  *)
(* catalog that cannot be read although the daemon answers everything      *)
(* else.                                                                   *)
(***************************************************************************)
EXTENDS Naturals

CONSTANTS
    Targets,      \* servers
    Nothing,      \* no server, operation, pin, reading, poll or recovery
    MaxActs,      \* bound on the user's operations
    MaxRaises,    \* bound on clears of the log and choices of a profile
    MaxChanges,   \* bound on what becomes of the cores that are started
    MaxTroubles   \* bound on failed calls and ends of the daemon

VARIABLES
    daemon,       \* whether it runs, which run, and what it answers
    ui,           \* SnapshotState, and the catalog on display
    binding,      \* the run the client is bound to; ready; retired_work_changed
    jobs,         \* client_job's workers, until their result is applied
    poll,         \* the poll in progress, or its result in the slot
    hydration,    \* the recovery's worker
    spent         \* operations, raises, changes and troubles so far

desktopVars == <<daemon, ui, binding, jobs, poll, hydration, spent>>

Starts == {"connect", "up"}
Stops == {"disconnect", "down"}

ASSUME NothingAssumption == Nothing \notin Starts \cup Stops \cup {"fetch"}

Report(status, target) == [status |-> status, target |-> target]

\* SnapshotState::new, with the catalog read beside it. `disturbed` is history: the user
\* raised the epoch during the last operation on the connection, and no reading of what
\* became of it was applied since.
Fresh(report, catalog) ==
    [pin |-> Nothing, target |-> Nothing, overdue |-> FALSE,
     report |-> report, after |-> TRUE, disturbed |-> FALSE, lit |-> report.target,
     operation |-> Nothing, stop |-> Nothing, catalog |-> catalog]

DesktopInit ==
    /\ daemon = [runs |-> TRUE, run |-> 1, report |-> Report("disconnected", Nothing),
                 catalog |-> 0]
    /\ ui = Fresh(daemon.report, daemon.catalog)
    /\ binding = [run |-> 1, ready |-> TRUE, changed |-> FALSE]
    /\ jobs = {} /\ poll = Nothing /\ hydration = Nothing
    /\ spent = [acts |-> 0, raises |-> 0, changes |-> 0, troubles |-> 0]

Spend(what, limit) ==
    /\ spent[what] < limit
    /\ spent' = [spent EXCEPT ![what] = @ + 1]

Trouble == Spend("troubles", MaxTroubles)

\* A call to a run of the daemon is answered, or fails: because the run is over, or the
\* bus gave up on it.
Answered(run) == daemon.runs /\ daemon.run = run /\ UNCHANGED spent
Unanswered(run) == IF daemon.runs /\ daemon.run = run THEN Trouble ELSE UNCHANGED spent

-----------------------------------------------------------------------------
(* The state of the client.                                                *)

Foreground(u) == IF u.stop # Nothing THEN u.stop ELSE u.operation

\* Nothing that the status could be about is under way.
Quiet(u) == Foreground(u) \in {Nothing, "fetch"}

\* can_start: nothing runs beside an operation but a stop beside a fetch.
CanStart(kind) ==
    /\ ui.stop = Nothing
    /\ ui.operation = Nothing \/ (ui.operation = "fetch" /\ kind \in Stops)

\* pin_status and pin_saved_start; lit is connected_id, the server shown as active.
Pinned(u, status, target) ==
    [u EXCEPT !.pin = status, !.target = target, !.lit = target, !.overdue = FALSE]

\* clear_pin
Unpinned(u) == [u EXCEPT !.pin = Nothing, !.target = Nothing, !.overdue = FALSE]

\* bump_epoch: no reading in progress stays current, and one in the slot is dropped.
Outdated(some) == {[j EXCEPT !.current = FALSE, !.reading = Nothing] : j \in some}
PollOutdated ==
    IF poll = Nothing \/ poll.step \in {"stored", "failed"} THEN Nothing
    ELSE [poll EXCEPT !.current = FALSE, !.reading = Nothing]

\* The daemon no longer says what it said before the pin.
Acknowledges(report, u) ==
    IF u.pin = "connecting"
    THEN report.status = "error" \/ (report.status # "disconnected" /\ report.target = u.target)
    ELSE report.status \notin {"connecting", "connected"}

\* Wrong on purpose: a pin has no deadline.
PinWaits(report, u) == Acknowledges(report, u)

PinEnds(report, u) == Acknowledges(report, u) \/ u.overdue

\* reduce, for a reading that is current.
Reduced(u, reading) ==
    LET seen == [u EXCEPT !.report = reading.report, !.after = reading.after,
                          !.disturbed = @ /\ ~reading.after]
        next == IF Quiet(seen) /\ seen.pin # Nothing /\ PinEnds(reading.report, seen)
                THEN Unpinned(seen) ELSE seen
    IN  IF Quiet(next) /\ next.pin = Nothing
        THEN [next EXCEPT !.lit = reading.report.target] ELSE next

\* The status read now; `after` says that no operation of the client on the connection
\* was still to be carried out.
Reading ==
    [report |-> daemon.report,
     after |-> ~\E j \in jobs : j.bound /\ j.step = "work" /\ j.kind \in Starts \cup Stops]

-----------------------------------------------------------------------------
(* The binding and its recovery.                                           *)

\* Retires the binding, if one is ready: what was read through it is dropped, and its
\* workers matter only for as long as they may still change the daemon.
Recover ==
    /\ binding' = [binding EXCEPT !.ready = FALSE, !.changed = FALSE]
    /\ jobs' = {[j EXCEPT !.bound = FALSE, !.current = FALSE] : j \in {j \in jobs : j.step = "work"}}
    /\ poll' = Nothing
    /\ hydration' = [step |-> "asked", run |-> 0, report |-> Nothing, catalog |-> 0]

\* recover_selected, and the catalog of the run it finds.
HydrateCatalog ==
    /\ hydration # Nothing /\ hydration.step = "asked"
    /\ \/ /\ Answered(daemon.run)
          /\ hydration' = [hydration EXCEPT !.step = "catalog", !.run = daemon.run,
                                            !.catalog = daemon.catalog]
       \/ Unanswered(daemon.run) /\ hydration' = [hydration EXCEPT !.step = "failed"]
    /\ UNCHANGED <<daemon, ui, binding, jobs, poll>>

\* The status, and validate_binding.
HydrateStatus ==
    /\ hydration # Nothing /\ hydration.step = "catalog"
    /\ \/ /\ Answered(hydration.run)
          /\ hydration' = [hydration EXCEPT !.step = "status", !.report = daemon.report]
       \/ Unanswered(hydration.run) /\ hydration' = [hydration EXCEPT !.step = "failed"]
    /\ UNCHANGED <<daemon, ui, binding, jobs, poll>>

\* The state is replaced as a whole, optimistic operations with it.
Install ==
    /\ hydration # Nothing /\ hydration.step = "status"
    /\ binding' = [binding EXCEPT !.run = hydration.run, !.ready = TRUE]
    /\ ui' = Fresh(hydration.report, hydration.catalog)
    /\ hydration' = Nothing
    /\ UNCHANGED <<daemon, jobs, poll, spent>>

RecoveryFails ==
    /\ hydration # Nothing /\ hydration.step = "failed"
    /\ hydration' = Nothing
    /\ UNCHANGED <<daemon, ui, binding, jobs, poll, spent>>

-----------------------------------------------------------------------------
(* Operations.                                                             *)

\* client_job, together with what its caller shows at once.
BeginJob(kind, target, shown) ==
    /\ binding.ready /\ CanStart(kind)
    /\ Spend("acts", MaxActs)
    /\ ui' = [shown EXCEPT
                !.operation = IF ui.operation = Nothing THEN kind ELSE @,
                !.stop = IF ui.operation = Nothing THEN @ ELSE kind,
                !.after = @ /\ kind \notin Starts \cup Stops,
                !.disturbed = @ /\ kind \notin Starts \cup Stops]
    /\ jobs' = Outdated(jobs) \cup
         {[id |-> spent'.acts, kind |-> kind, target |-> target, run |-> binding.run,
           step |-> "work", urgent |-> ui.operation # Nothing, bound |-> TRUE,
           current |-> TRUE, ok |-> FALSE, catalog |-> 0, reading |-> Nothing]}
    /\ poll' = PollOutdated
    /\ UNCHANGED <<daemon, binding, hydration>>

\* connect_server, up_profile and reconnect_profile
StartServer(kind, target) == BeginJob(kind, target, Pinned(ui, "connecting", target))

\* disconnect
Disconnect == BeginJob("disconnect", Nothing, Pinned(ui, "disconnected", Nothing))

\* down_profile, which shows nothing before it is done
Down == BeginJob("down", Nothing, ui)

\* refresh_subscription, and every other change of the catalog
Fetch == BeginJob("fetch", Nothing, ui)

\* The log is cleared or another profile chosen. The status on display stays that of the
\* default profile: the epoch is what these leave behind.
RaiseEpoch ==
    /\ binding.ready
    /\ Spend("raises", MaxRaises)
    /\ jobs' = Outdated(jobs) /\ poll' = PollOutdated
    /\ ui' = [ui EXCEPT !.disturbed = @ \/ ~Quiet(ui)]
    /\ UNCHANGED <<daemon, binding, hydration>>

\* What an operation may make of the daemon's answers, and whether it says it succeeded.
Effects(j) ==
    LET refused == [report |-> daemon.report, catalog |-> daemon.catalog, ok |-> FALSE]
        started(report, ok) == [refused EXCEPT !.report = report, !.ok = ok]
    IN  {refused} \cup
        CASE j.kind \in Starts ->
               {started(Report("connecting", j.target), TRUE),
                started(Report("error", Nothing), FALSE)} \cup
               {started(Report("disconnected", Nothing), FALSE) : stopped \in {"up"} \cap {j.kind}}
          [] j.kind \in Stops -> {started(Report("disconnected", Nothing), TRUE)}
          [] OTHER -> {[refused EXCEPT !.catalog = @ + 1, !.ok = TRUE]}

\* The call, and the drop of RetiredWork: of a retired binding, that it is over is all
\* that is heard.
WorkEnds(j) ==
    /\ j.step = "work"
    /\ \E effect \in Effects(j), answered \in BOOLEAN :
        /\ IF answered THEN Answered(j.run) ELSE Unanswered(j.run)
        /\ daemon' = IF daemon.runs /\ daemon.run = j.run
                     THEN [daemon EXCEPT !.report = effect.report, !.catalog = effect.catalog]
                     ELSE daemon
        /\ jobs' = (jobs \ {j}) \cup
                IF j.bound
                THEN {[j EXCEPT !.step = "snapshot", !.ok = answered /\ effect.ok]}
                ELSE {}
    /\ binding' = [binding EXCEPT !.changed = @ \/ ~j.bound]
    /\ UNCHANGED <<ui, poll, hydration>>

\* The catalog and the snapshot after the work, or their failure; a worker that is lost
\* counts as one.
FollowUp(j) ==
    /\ j.step = "snapshot"
    /\ \/ /\ Answered(j.run)
          /\ jobs' = (jobs \ {j}) \cup
                {[j EXCEPT !.step = "sent", !.reading = IF j.current THEN Reading ELSE Nothing, !.catalog = daemon.catalog]}
       \/ Unanswered(j.run) /\ jobs' = (jobs \ {j}) \cup {[j EXCEPT !.step = "failed"]}
    /\ UNCHANGED <<daemon, ui, binding, poll, hydration>>

\* finish_operation
Finished(u, j) == IF j.urgent THEN [u EXCEPT !.stop = Nothing] ELSE [u EXCEPT !.operation = Nothing]

\* The caller's completion.
Completed(u, j) ==
    CASE j.kind = "connect" /\ ~j.ok -> Pinned(u, "error", Nothing)
      [] j.kind = "up" /\ ~j.ok -> [Unpinned(u) EXCEPT !.lit = u.report.target]
      [] j.kind = "up" /\ j.ok -> [u EXCEPT !.lit = j.target]
      [] j.kind = "down" /\ j.ok -> Pinned(u, "disconnected", Nothing)
      [] OTHER -> u

\* Wrong on purpose: the result is applied under the epoch it was read in.
DeliverAsRead(j) ==
    /\ j.step = "sent"
    /\ LET done == Completed(Finished(IF j.urgent THEN ui ELSE [ui EXCEPT !.catalog = j.catalog], j), j)
       IN  ui' = IF j.current THEN Reduced(done, j.reading) ELSE done
    /\ jobs' = jobs \ {j}
    /\ UNCHANGED <<daemon, binding, poll, hydration, spent>>

\* The result arrives: the completion runs before a snapshot that is still current is
\* applied, under an epoch of its own.
Deliver(j) ==
    /\ j.step = "sent"
    /\ LET done == Completed(Finished(IF j.urgent THEN ui ELSE [ui EXCEPT !.catalog = j.catalog], j), j)
           bumps == j.current \/ (j.ok /\ j.kind \in {"up", "down"})
       IN  /\ ui' = IF j.current THEN Reduced(done, j.reading) ELSE done
           /\ jobs' = IF bumps THEN Outdated(jobs \ {j}) ELSE jobs \ {j}
           /\ poll' = IF bumps THEN PollOutdated ELSE poll
    /\ UNCHANGED <<daemon, binding, hydration, spent>>

\* Without a snapshot the binding is retired, and the result not looked at.
DeliverFailure(j) ==
    /\ j.step = "failed"
    /\ Recover
    /\ UNCHANGED <<daemon, ui, spent>>

JobStep(id) ==
    \E j \in {j \in jobs : j.id = id} :
        WorkEnds(j) \/ FollowUp(j) \/ Deliver(j) \/ DeliverFailure(j)

-----------------------------------------------------------------------------
(* The poll.                                                               *)

AskedPoll == [step |-> "asked", current |-> TRUE, reading |-> Nothing]

PollReads ==
    /\ poll # Nothing /\ poll.step = "asked"
    /\ \/ Answered(binding.run) /\ poll' = [poll EXCEPT !.step = "stored", !.reading = IF poll.current THEN Reading ELSE Nothing]
       \/ Unanswered(binding.run) /\ poll' = [poll EXCEPT !.step = "failed"]
    /\ UNCHANGED <<daemon, ui, binding, jobs, hydration>>

InSlot(step) == poll # Nothing /\ poll.step = step

\* The timer of 500 ms.
TimerTicks ==
    \/ /\ IF binding.ready THEN binding.changed \/ (InSlot("failed") /\ poll.current)
          ELSE hydration = Nothing
       /\ Recover
       /\ UNCHANGED <<daemon, ui, spent>>
    \/ /\ binding.ready /\ ~binding.changed
       /\ poll = Nothing \/ InSlot("stored") \/ (InSlot("failed") /\ ~poll.current)
       /\ ui' = IF InSlot("stored") /\ poll.current THEN Reduced(ui, poll.reading) ELSE ui
       /\ poll' = AskedPoll
       /\ UNCHANGED <<daemon, binding, jobs, hydration, spent>>

\* PENDING_STATUS_DEADLINE
PinAges ==
    /\ ui.pin # Nothing /\ ~ui.overdue
    /\ ui' = [ui EXCEPT !.overdue = TRUE]
    /\ UNCHANGED <<daemon, binding, jobs, poll, hydration, spent>>

-----------------------------------------------------------------------------
(* The daemon.                                                             *)

\* A core that was started carries the tunnel, or fails.
StatusChanges ==
    /\ daemon.runs /\ daemon.report.status = "connecting" /\ Spend("changes", MaxChanges)
    /\ \E report \in {[daemon.report EXCEPT !.status = "connected"], Report("error", Nothing)} :
        daemon' = [daemon EXCEPT !.report = report]
    /\ UNCHANGED <<ui, binding, jobs, poll, hydration>>

DaemonEnds ==
    /\ daemon.runs /\ Trouble
    /\ daemon' = [daemon EXCEPT !.runs = FALSE]
    /\ UNCHANGED <<ui, binding, jobs, poll, hydration>>

\* The next one adopts the sessions that are recorded, or none.
DaemonStarts ==
    /\ ~daemon.runs
    /\ \E report \in {Report("disconnected", Nothing)} \cup [status : {"connecting"}, target : Targets] :
        daemon' = [daemon EXCEPT !.runs = TRUE, !.run = @ + 1, !.report = report]
    /\ UNCHANGED <<ui, binding, jobs, poll, hydration, spent>>

\* The poll and the recovery, of which the timer starts the next.
KeepCurrent == PollReads \/ TimerTicks \/ HydrateCatalog \/ HydrateStatus \/ Install \/ RecoveryFails

DesktopNext ==
    \/ \E kind \in Starts, target \in Targets : StartServer(kind, target)
    \/ Disconnect \/ Down \/ Fetch \/ RaiseEpoch
    \/ \E id \in 1 .. MaxActs : JobStep(id)
    \/ KeepCurrent \/ PinAges
    \/ StatusChanges \/ DaemonEnds \/ DaemonStarts

\* Every call of the bus has a deadline, the timer and the loop of the client run, and a
\* daemon that ended is started again. Nothing is asked of the user.
DesktopFairness ==
    /\ \A id \in 1 .. MaxActs : WF_desktopVars(JobStep(id))
    /\ WF_desktopVars(KeepCurrent)
    /\ WF_desktopVars(PinAges)
    /\ WF_desktopVars(DaemonStarts)

DesktopSpec == DesktopInit /\ [][DesktopNext]_desktopVars /\ DesktopFairness

-----------------------------------------------------------------------------
(* Properties.                                                             *)

\* A status that is shown as the daemon's was read after the user's last operation on
\* the connection was carried out, as long as the client is bound to the run it was asked
\* of: the frame from before a click does not come back, although polls that were under
\* way at the click end after it. Only the user who clears the log or chooses a profile
\* before the operation has returned may see it, until the next reading, and not again.
ShownIsSettled == binding.ready /\ Quiet(ui) /\ ui.pin = Nothing => ui.after \/ ui.disturbed

\* A start that the daemon refused drops its pin and leaves the status to the reading its
\* worker brings (finish_up_profile): when its result has been looked at, the status on
\* display was read after the refusal, or is at least what the daemon says.
RefusedStartIsReported ==
    [][\A j \in jobs :
          /\ j.kind = "up" /\ j.step = "sent" /\ ~j.ok
          /\ binding'.ready /\ \A k \in jobs' : k.id # j.id
          => ui'.after \/ ui'.report = daemon.report]_desktopVars

\* What is on screen is what the daemon says.
Agrees ==
    /\ binding.ready /\ daemon.runs
    /\ ui.operation = Nothing /\ ui.stop = Nothing /\ ui.pin = Nothing
    /\ ui.report = daemon.report /\ ui.lit = daemon.report.target
    /\ ui.catalog = daemon.catalog

\* When nothing happens any more the client settles on the truth: no operation, pin or
\* recovery is left over, whichever calls failed, and whatever was still under way at a
\* daemon the client had given up on.
SettlesOnTruth == <>[]Agrees
=============================================================================
