--------------------------- MODULE ProbePipeline ---------------------------
(***************************************************************************)
(* The probe pipeline of the daemon: ProbeQueue, the threads that pump it, *)
(* the confirmations that jump it, and the pruning that follows an edit of *)
(* the subscriptions.                                                      *)
(*                                                                         *)
(* A direct job measures a server, a proxied job measures the connection   *)
(* of a profile, so a target is a server or a profile. What a probe        *)
(* measures is left out: a reading is there or it is not. Tokens are only  *)
(* compared for equality, and one nobody holds is issued again. Sessions   *)
(* are not modelled: which route a request takes and which proxied jobs a  *)
(* prune drops is open.                                                    *)
(***************************************************************************)
EXTENDS Integers, Sequences, FiniteSets

CONSTANTS
    Servers,      \* server ids
    Profiles,     \* profiles that may hold a session
    Pruners,      \* handlers that edit the subscriptions and then prune
    Cap,          \* MAX_CONCURRENT_PROBES
    MaxPumps,     \* bound: requests and workers inside pump_probes at a time
    MaxConfirms   \* bound: confirmations that hold a slot at a time

ASSUME PipelineAssumption ==
    /\ IsFiniteSet(Servers) /\ IsFiniteSet(Profiles)
    /\ Servers \cap Profiles = {}
    /\ Cap \in Nat \ {0}
    /\ MaxPumps \in Nat \ {0}
    /\ MaxConfirms \in Nat

VARIABLES
    closed,    \* lifecycle.closed
    catalog,   \* the servers of the registry
    running,   \* ProbeQueue.running, with the step of the thread behind a job
    queued,    \* ProbeQueue.queued
    readings,  \* the servers that have an entry in Shared.readings
    pumps,     \* threads about to ask for the next job
    prunes     \* per handler: how far its prune_readings is, and for whom

vars == <<closed, catalog, running, queued, readings, pumps, prunes>>

Target == Servers \cup Profiles
Token == 1 .. Cardinality(Target) * 2 + Cap + MaxConfirms
Waiting == {queued[i] : i \in 1 .. Len(queued)}

\* A pumped job is started, measured and finished by its worker; a confirming
\* one belongs to start_now; a stuck one lost its thread to the closure.
Step == {"starting", "measuring", "measured", "confirming", "stuck"}

\* holds
Holds(target) == \E job \in running \cup Waiting : job.target = target

\* queued.retain: the jobs that wait for one of the targets, in their order.
Retained(targets) ==
    LET kept[n \in 0 .. Len(queued)] ==
            IF n = 0 THEN <<>>
            ELSE IF queued[n].target \in targets THEN Append(kept[n - 1], queued[n])
            ELSE kept[n - 1]
    IN  kept[Len(queued)]

\* job: the next token that neither a running nor a waiting job has
FreshToken ==
    CHOOSE token \in Token :
        /\ \A job \in running \cup Waiting : job.token # token
        /\ \A lower \in 1 .. token - 1 :
              \E job \in running \cup Waiting : job.token = lower

-----------------------------------------------------------------------------

Init ==
    /\ closed = FALSE
    /\ catalog = Servers
    /\ running = {}
    /\ queued = <<>>
    /\ readings = {}
    /\ pumps = 0
    /\ prunes = [p \in Pruners |-> [step |-> "idle", alive |-> {}]]

\* enqueue_probe and enqueue_session_probe: nobody asks whether the id exists.
Request(target) ==
    /\ ~closed
    /\ pumps < MaxPumps
    /\ ~Holds(target)
    /\ queued' = Append(queued, [token |-> FreshToken, target |-> target])
    /\ pumps' = pumps + 1
    /\ UNCHANGED <<closed, catalog, running, readings, prunes>>

\* start_next can promote a job.
Startable == queued # <<>> /\ Cardinality(running) < Cap

\* One round of pump_probes that starts a job,
PumpStarts ==
    /\ pumps > 0
    /\ ~closed
    /\ Startable
    /\ running' = running \cup {[token |-> Head(queued).token,
                                 target |-> Head(queued).target, step |-> "starting"]}
    /\ queued' = Tail(queued)
    /\ pumps' = pumps - 1
    /\ UNCHANGED <<closed, catalog, readings, prunes>>

\* and the round that ends it.
PumpReturns ==
    /\ pumps > 0
    /\ closed \/ ~Startable
    /\ pumps' = pumps - 1
    /\ UNCHANGED <<closed, catalog, running, queued, readings, prunes>>

At(job, step) == (running \ {job}) \cup {[job EXCEPT !.step = step]}

\* spawn gives the job a thread and the pump goes on, or the closure came
\* first: then the job keeps its slot and the pump returns.
Spawn(job) ==
    /\ job \in running /\ job.step = "starting"
    /\ running' = At(job, IF closed THEN "stuck" ELSE "measuring")
    /\ pumps' = IF closed THEN pumps ELSE pumps + 1
    /\ UNCHANGED <<closed, catalog, queued, readings, prunes>>

\* run_probe. A direct probe leaves an entry whether it measured anything or
\* not, unless the daemon is stopping: then it is not kept, or never runs.
Measure(job) ==
    /\ job \in running /\ job.step = "measuring"
    /\ readings' = IF ~closed /\ job.target \in Servers
                   THEN readings \cup {job.target} ELSE readings
    /\ \/ running' = At(job, "measured")
       \/ closed /\ running' = At(job, "stuck")
    /\ UNCHANGED <<closed, catalog, queued, pumps, prunes>>

\* Wrong on purpose: a worker that is done leaves the queue to the others.
FinishAlone(job) ==
    /\ job \in running /\ job.step = "measured"
    /\ running' = running \ {job}
    /\ UNCHANGED <<closed, catalog, queued, readings, pumps, prunes>>

\* The worker releases its slot and pumps.
Finish(job) ==
    /\ job \in running /\ job.step = "measured"
    /\ running' = running \ {job}
    /\ pumps' = pumps + 1
    /\ UNCHANGED <<closed, catalog, queued, readings, prunes>>

Confirming == {job \in running : job.step = "confirming"}

\* Wrong on purpose: a job that waits for the same profile stays in the queue.
StartBeside(profile) ==
    /\ ~closed
    /\ Cardinality(Confirming) < MaxConfirms
    /\ running' = running \cup {[token |-> FreshToken, target |-> profile,
                                 step |-> "confirming"]}
    /\ UNCHANGED <<closed, catalog, queued, readings, pumps, prunes>>

\* start_now: a confirmation takes a slot of its own, past the queue and the cap.
StartNow(profile) ==
    /\ ~closed
    /\ Cardinality(Confirming) < MaxConfirms
    /\ queued' = Retained(Target \ {profile})
    /\ running' = running \cup {[token |-> FreshToken, target |-> profile,
                                 step |-> "confirming"]}
    /\ UNCHANGED <<closed, catalog, readings, pumps, prunes>>

\* The confirmation, or the start that failed, releases its slot and returns.
\* A confirmation that the closure overtook never gets to it.
ConfirmEnds(job) ==
    /\ job \in Confirming
    /\ \/ running' = running \ {job}
       \/ closed /\ running' = At(job, "stuck")
    /\ UNCHANGED <<closed, catalog, queued, readings, pumps, prunes>>

\* Wrong on purpose: a cancelled check leaves nothing behind.
CancelSilently(servers) ==
    /\ ~closed
    /\ queued' = Retained(Target \ servers)
    /\ UNCHANGED <<closed, catalog, running, readings, pumps, prunes>>

\* cancel_probes: direct jobs that wait are dropped, and each leaves an entry.
\* The commit guard keeps workers and requests out between the two.
Cancel(servers) ==
    /\ ~closed
    /\ queued' = Retained(Target \ servers)
    /\ readings' = readings \cup {s \in servers : \E job \in Waiting : job.target = s}
    /\ UNCHANGED <<closed, catalog, running, pumps, prunes>>

-----------------------------------------------------------------------------
(* An edit of the subscriptions, and the prune_readings it ends with: three *)
(* critical sections under three different locks.                          *)

Edit(p, servers) ==
    /\ ~closed
    /\ prunes[p].step = "idle"
    /\ servers \subseteq catalog /\ servers # catalog
    /\ catalog' = servers
    /\ prunes' = [prunes EXCEPT ![p].step = "capture"]
    /\ UNCHANGED <<closed, running, queued, readings, pumps>>

CaptureAlive(p) ==
    /\ prunes[p].step = "capture"
    /\ prunes' = [prunes EXCEPT ![p] = [step |-> "readings", alive |-> catalog]]
    /\ UNCHANGED <<closed, catalog, running, queued, readings, pumps>>

PruneReadings(p) ==
    /\ prunes[p].step = "readings"
    /\ readings' = readings \cap prunes[p].alive
    /\ prunes' = [prunes EXCEPT ![p].step = "queue"]
    /\ UNCHANGED <<closed, catalog, running, queued, pumps>>

\* retain_alive. A proxied job stays only with its profile and its server.
PruneQueue(p) ==
    /\ prunes[p].step = "queue"
    /\ \E kept \in SUBSET Profiles :
          queued' = Retained(kept \cup prunes[p].alive)
    /\ prunes' = [prunes EXCEPT ![p] = [step |-> "idle", alive |-> {}]]
    /\ UNCHANGED <<closed, catalog, running, readings, pumps>>

-----------------------------------------------------------------------------
(* The end of the daemon.                                                  *)

BeginTerminal ==
    /\ ~closed
    /\ closed' = TRUE
    /\ queued' = <<>>
    /\ UNCHANGED <<catalog, running, readings, pumps, prunes>>

Drained ==
    /\ pumps = 0
    /\ \A job \in running : job.step = "stuck"
    /\ \A p \in Pruners : prunes[p].step = "idle"

\* terminate, once nobody works any more: the slots left behind are taken back.
Clear ==
    /\ closed /\ Drained
    /\ running' = {}
    /\ UNCHANGED <<closed, catalog, queued, readings, pumps, prunes>>

Work ==
    \/ PumpStarts
    \/ PumpReturns
    \/ \E job \in running :
          Spawn(job) \/ Measure(job) \/ Finish(job) \/ ConfirmEnds(job)
    \/ \E p \in Pruners : CaptureAlive(p) \/ PruneReadings(p) \/ PruneQueue(p)

Next ==
    \/ \E target \in Target : Request(target)
    \/ \E profile \in Profiles : StartNow(profile)
    \/ \E servers \in SUBSET Servers : Cancel(servers)
    \/ \E p \in Pruners, servers \in SUBSET Servers : Edit(p, servers)
    \/ Work
    \/ BeginTerminal
    \/ Clear

Spec == Init /\ [][Next]_vars

\* Every thread goes on; requests, edits and confirmations need not come.
FairSpec ==
    /\ Spec
    /\ WF_vars(PumpStarts)
    /\ WF_vars(PumpReturns)
    /\ \A token \in Token :
          /\ WF_vars(\E job \in running : job.token = token /\ Spawn(job))
          /\ WF_vars(\E job \in running : job.token = token /\ Measure(job))
          /\ WF_vars(\E job \in running : job.token = token /\ Finish(job))

-----------------------------------------------------------------------------
(* Properties.                                                             *)

Job == [token : Token, target : Target]

\* Every variable holds a value of its type.
TypeOK ==
    /\ closed \in BOOLEAN
    /\ catalog \in SUBSET Servers
    /\ running \in SUBSET [token : Token, target : Target, step : Step]
    /\ queued \in Seq(Job)
    /\ readings \in SUBSET Servers
    /\ pumps \in Nat
    /\ prunes \in [Pruners -> [step : {"idle", "capture", "readings", "queue"},
                               alive : SUBSET Servers]]

\* A waiting target waits once and is not being measured, whatever mix of
\* requests and confirmations asked for it (enqueue, start_now).
WaitsOnce ==
    /\ Cardinality({job.target : job \in Waiting}) = Len(queued)
    /\ \A job \in Waiting, other \in running : job.target # other.target

\* However many confirmations hold a slot, the pump never adds a measurement
\* beyond the cap (start_next).
PumpedWithinCap ==
    Cardinality({job \in running : job.step \in {"starting", "measuring", "measured"}})
        <= Cap

\* Neither the queue nor the slots take a check they must not take.
ChecksAreBounded == WaitsOnce /\ PumpedWithinCap

\* A server whose check leaves the queue and the slots has an entry, by
\* whatever route the check left: finished, cancelled or pruned. Only a server
\* that is gone from the catalog, or a daemon that stops, leaves none. It takes
\* a server that left the catalog to stay away.
DepartureLeavesReading ==
    [][\A s \in Servers :
          Holds(s) /\ ~Holds(s)' /\ ~closed' /\ s \in catalog => s \in readings']_vars

\* A job waits only while the slots are taken or somebody is about to look.
FreedSlotIsUsed ==
    ~closed /\ Startable =>
        pumps > 0 \/ \E job \in running : job.step = "starting"

\* A waiting check is started, cancelled or pruned in the end.
WaitingEnds ==
    \A target \in Target :
        (\E job \in Waiting : job.target = target)
            ~> ~(\E job \in Waiting : job.target = target)
=============================================================================
