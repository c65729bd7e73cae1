------------------------------ MODULE Watchdog ------------------------------
(***************************************************************************)
(* What is measured through a session, and what the daemon concludes from  *)
(* it: the readings and the health it shows, and the streaks of unanswered *)
(* checks for which the watchdog restarts a live core (daemon.rs).         *)
(*                                                                         *)
(* One profile.  A measurement takes long and holds no lock, so the core   *)
(* it was asked of may be gone when it ends; what it was asked of is named *)
(* by the generation and the run of the core, which stands for the         *)
(* incarnation and the first log record of the attempt.  Starting, failing *)
(* and redialing are reduced to what they change here; module Connection   *)
(* has them in full.                                                       *)
(***************************************************************************)
EXTENDS Naturals

CONSTANTS
    Strikes,     \* the unanswered checks each mode concludes from
    None,        \* no streak, check, answer, reading or health
    MaxRuns,     \* bound on the starts
    MaxClaims,   \* bound on the generations
    MaxEpochs    \* bound on the changes of the watchdog's mode

VARIABLES
    session,     \* the profile's session
    runs,        \* runs of a core so far
    claims,      \* generations given out so far
    generation,  \* the current one, or 0
    due,         \* it was claimed and has not started yet
    mode,        \* the watchdog's mode in the configuration
    epoch,       \* the changes of it
    probes,      \* session probes and confirmations in progress
    check,       \* the watchdog's check in progress
    streak,      \* tunnel_failures
    reading,     \* proxied: the latency reading on display
    health,      \* runtime_facts: the health on display
    cleans,      \* a cleaning of readings found the profile without a session
    missed       \* the checks of the running core that went unanswered in a row

shown == <<streak, reading, health>>
settings == <<mode, epoch>>
vars == <<session, runs, claims, generation, due, settings, probes, check,
          shown, cleans, missed>>

Modes == {"off", "conservative", "aggressive"}
NoSession == [run |-> 0, status |-> "off", pending |-> FALSE, alive |-> FALSE]

-----------------------------------------------------------------------------
\* Who is measured

\* confirmation_is_current
IsCurrent(subject) ==
    /\ generation # 0 /\ generation = subject.generation
    /\ session.status # "off" /\ session.run = subject.run

\* Wrong on purpose: any core of the generation will do.
MayMeasureAnyCore(subject) ==
    generation # 0 /\ generation = subject.generation /\ session.status = "connected"

\* session_probe_is_current
MayMeasure(subject) == IsCurrent(subject) /\ session.status = "connected"

\* watchdog_is_current
StillWatched(attempt) == IsCurrent(attempt) /\ attempt.epoch = epoch

\* reported_status is Connected.
Reported == session.status = "connected" /\ ~session.pending

\* What a measurement through the tunnel may end with: an answer, none, or nothing
\* that says anything of the server, because the machine has no network.
Outcomes == {"reachable", "silent", "local"}

\* accept_runtime_health
Observed(subject, outcome) ==
    IF IsCurrent(subject) /\ outcome # "missing"
    THEN [generation |-> subject.generation, run |-> subject.run]
    ELSE health

-----------------------------------------------------------------------------
\* The session

\* connect, up_profile and a restart by the settings claim a generation.
Claim ==
    /\ claims < MaxClaims
    /\ claims' = claims + 1
    /\ generation' = claims + 1
    /\ due' = TRUE
    /\ health' = None
    /\ UNCHANGED <<session, runs, settings, probes, check, streak, reading,
                   cleans, missed>>

\* An accepted start, of a claim or of a session that failed, forgets what was seen
\* of the core before it and is followed by a confirmation, which takes the place of
\* a probe that waits; one that was dequeued and has not looked yet stays.
Start ==
    /\ generation # 0 /\ runs < MaxRuns
    /\ due \/ session.status = "failed"
    /\ runs' = runs + 1
    /\ due' = FALSE
    /\ streak' = None /\ health' = None
    /\ \E waiting \in SUBSET {p \in probes : p.kind = "queued"} :
       \/ /\ session' = [run |-> runs + 1, status |-> "connected",
                         pending |-> TRUE, alive |-> TRUE]
          /\ reading' = None
          /\ probes' = (probes \ waiting) \cup {[kind |-> "confirmation", generation |-> generation,
                                     run |-> runs + 1, answer |-> None]}
       \/ /\ session' = [run |-> runs + 1, status |-> "failed",
                         pending |-> FALSE, alive |-> FALSE]
          /\ reading' = runs + 1
          /\ probes' = probes \ waiting
    /\ missed' = 0
    /\ UNCHANGED <<claims, generation, settings, check, cleans>>

\* The core exits, and the supervisor finds out.
CoreExits ==
    /\ session.alive
    /\ session' = [session EXCEPT !.alive = FALSE]
    /\ UNCHANGED <<runs, claims, generation, due, settings, probes, check, shown,
                   cleans, missed>>

Sweep ==
    /\ session.status = "connected" /\ ~session.alive
    /\ session' = [session EXCEPT !.status = "failed"]
    /\ UNCHANGED <<runs, claims, generation, due, settings, probes, check, shown,
                   cleans, missed>>

\* stop_profile: the readings go in a second step.
Stop ==
    /\ session.status # "off"
    /\ session' = NoSession
    /\ generation' = 0 /\ due' = FALSE
    /\ health' = None
    /\ UNCHANGED <<runs, claims, settings, probes, check, streak, reading, cleans, missed>>

\* prune_readings, after this and other removals, looks at the sessions under the engine
\* lock, and cleans without it.
PruneLooks ==
    /\ session.status = "off" /\ ~cleans
    /\ cleans' = TRUE
    /\ UNCHANGED <<session, runs, claims, generation, due, settings, probes, check, shown,
                   missed>>

PruneCleans ==
    /\ cleans
    /\ cleans' = FALSE
    /\ reading' = None /\ streak' = None
    /\ UNCHANGED <<session, runs, claims, generation, due, settings, probes, check, health,
                   missed>>

\* set_settings
SetWatchdog ==
    /\ epoch < MaxEpochs
    /\ \E m \in Modes \ {mode} : mode' = m
    /\ epoch' = epoch + 1
    /\ streak' = None
    /\ missed' = 0
    /\ UNCHANGED <<session, runs, claims, generation, due, probes, check,
                   reading, health, cleans>>

-----------------------------------------------------------------------------
\* Session probes and confirmations

\* enqueue_session_probe: at most one waits or runs; it keeps the generation of the
\* request and finds its core when it starts.
Enqueue ==
    /\ session.status = "connected" /\ session.alive
    /\ \A p \in probes : p.kind = "measured"
    /\ probes' = probes \cup {[kind |-> "queued", generation |-> generation,
                               run |-> 0, answer |-> None]}
    /\ UNCHANGED <<session, runs, claims, generation, due, settings, check, shown,
                   cleans, missed>>

Becomes(p, q) == probes' = (probes \ {p}) \cup {q}

\* run_session_probe_for captures the run,
Capture(p) ==
    /\ p.kind = "queued"
    /\ Becomes(p, [p EXCEPT !.kind = "active", !.run = session.run])
    /\ UNCHANGED <<session, runs, claims, generation, due, settings, check, shown,
                   cleans, missed>>

\* and nothing is asked of another one, although its answer comes from whatever core
\* is there by then.
Measure(p) ==
    /\ p.kind # "queued" /\ p.answer = None
    /\ \E outcome \in IF MayMeasure(p) THEN Outcomes ELSE {"missing"} :
        Becomes(p, [p EXCEPT !.answer = outcome])
    /\ UNCHANGED <<session, runs, claims, generation, due, settings, check, shown,
                   cleans, missed>>

\* apply_session_probe_result
Publish(p) ==
    /\ p.answer # None /\ p.kind \in {"active", "confirmation"}
    /\ IF MayMeasure(p)
       THEN /\ reading' = p.run
            /\ health' = Observed(p, p.answer)
       ELSE UNCHANGED <<reading, health>>
    /\ IF p.kind = "active" THEN probes' = probes \ {p}
                            ELSE Becomes(p, [p EXCEPT !.kind = "measured"])
    /\ UNCHANGED <<session, runs, claims, generation, due, settings, check, streak,
                   cleans, missed>>

\* The verdict of a confirmation, if its subject is still there: the session is
\* confirmed, or fails and loses its core.
Confirm(p) ==
    /\ p.kind = "measured"
    /\ probes' = probes \ {p}
    /\ session' =
        IF ~MayMeasure(p) THEN session
        ELSE IF p.answer = "reachable" THEN [session EXCEPT !.pending = FALSE]
        ELSE [session EXCEPT !.status = "failed", !.pending = FALSE, !.alive = FALSE]
    /\ UNCHANGED <<runs, claims, generation, due, settings, check, shown, cleans,
                   missed>>

-----------------------------------------------------------------------------
\* The watchdog

\* A round that finds the watchdog off forgets the streaks;
Forget ==
    /\ check = None /\ mode = "off"
    /\ streak' = None
    /\ UNCHANGED <<session, runs, claims, generation, due, settings, probes, check,
                   reading, health, cleans, missed>>

\* another lists the sessions to be asked, which are those to come back when they fail:
\* by the setting, a run cgroup, or an armed failover, and any of these may change.
Watch ==
    /\ check = None /\ mode # "off"
    /\ Reported /\ session.alive /\ generation # 0
    /\ check' = [generation |-> generation, run |-> session.run, epoch |-> epoch,
                 mode |-> mode, step |-> "listed", answer |-> None]
    /\ UNCHANGED <<session, runs, claims, generation, due, settings, probes, shown,
                   cleans, missed>>

Ask ==
    /\ check # None /\ check.step = "listed"
    /\ check' = IF MayMeasure(check) THEN [check EXCEPT !.step = "asked"]
                ELSE [check EXCEPT !.step = "answered", !.answer = "missing"]
    /\ UNCHANGED <<session, runs, claims, generation, due, settings, probes, shown,
                   cleans, missed>>

\* `missed` is bookkeeping of this module: what an observer of the network would say
\* of the core that runs now.
Answer ==
    /\ check # None /\ check.step = "asked"
    /\ \E outcome \in Outcomes :
        /\ check' = [check EXCEPT !.step = "answered", !.answer = outcome]
        /\ missed' = IF check.run # session.run \/ check.epoch # epoch THEN missed
                     ELSE IF outcome # "silent" THEN 0
                     ELSE IF missed < Strikes["aggressive"] THEN missed + 1 ELSE missed
    /\ UNCHANGED <<session, runs, claims, generation, due, settings, probes, shown,
                   cleans>>

\* Wrong on purpose: a streak belongs to the profile.
CountedByProfile == (IF streak = None THEN 0 ELSE streak.count) + 1

\* A streak is continued by a check of the same core under the same policy.
Counted ==
    LET same == /\ streak # None
                /\ streak.generation = check.generation /\ streak.run = check.run
                /\ streak.epoch = check.epoch /\ streak.mode = check.mode
    IN  (IF same THEN streak.count ELSE 0) + 1

\* note_tunnel_probe
Note ==
    /\ check # None /\ check.step = "answered"
    /\ IF ~StillWatched(check) \/ mode # check.mode
       THEN check' = None /\ UNCHANGED <<streak, health>>
       ELSE LET strikes == Counted
                dead == check.answer = "silent" /\ strikes >= Strikes[mode]
            IN  /\ health' = Observed(check, check.answer)
                /\ streak' = IF check.answer # "silent" \/ dead THEN None
                             ELSE [generation |-> check.generation, run |-> check.run,
                                   epoch |-> check.epoch, mode |-> mode, count |-> strikes]
                /\ check' = IF dead THEN [check EXCEPT !.step = "dead"] ELSE None
    /\ UNCHANGED <<session, runs, claims, generation, due, settings, probes,
                   reading, cleans, missed>>

\* recover_dead_tunnel_for, if the session is still to come back;
\* retain_conservative_tunnel changes nothing.
Recover ==
    /\ check # None /\ check.step = "dead"
    /\ check' = None
    /\ \E resilient \in BOOLEAN :
        session' = IF /\ check.mode = "aggressive" /\ mode = "aggressive"
                      /\ StillWatched(check) /\ resilient /\ Reported
                   THEN [session EXCEPT !.status = "failed", !.alive = FALSE]
                   ELSE session
    /\ UNCHANGED <<runs, claims, generation, due, settings, probes, shown, cleans,
                   missed>>

-----------------------------------------------------------------------------
\* The mode is not the default one, so that the bounded changes of it are left for what
\* a change disturbs.
Init ==
    /\ session = NoSession
    /\ runs = 0 /\ claims = 0 /\ generation = 0 /\ due = FALSE
    /\ mode = "aggressive" /\ epoch = 0
    /\ probes = {} /\ check = None
    /\ streak = None /\ reading = None /\ health = None
    /\ cleans = FALSE
    /\ missed = 0

Round == Watch \/ Ask \/ Answer \/ Note \/ Recover

Next ==
    \/ Claim \/ Start \/ CoreExits \/ Sweep \/ Stop
    \/ PruneLooks \/ PruneCleans
    \/ SetWatchdog
    \/ Enqueue \/ \E p \in probes : Capture(p) \/ Measure(p) \/ Publish(p) \/ Confirm(p)
    \/ Forget \/ Round

Spec == Init /\ [][Next]_vars
-----------------------------------------------------------------------------
TypeOK ==
    /\ session.run \in 0 .. MaxRuns /\ session.status \in {"off", "connected", "failed"}
    /\ generation \in 0 .. MaxClaims
    /\ streak # None => streak.count \in 1 .. Strikes[streak.mode] - 1

\* The step that takes a core from a session is earned.
RestartIsEarned ==
    /\ session.alive /\ ~session'.alive
    /\ check # None /\ check.step = "dead" /\ check' = None
    => mode = "aggressive" /\ missed >= Strikes["aggressive"]

\* The watchdog restarts a core only under the aggressive policy, and only one that
\* itself left as many checks in a row unanswered, under this policy, as it asks for:
\* what an earlier core missed, or was missed under another policy, or on a machine
\* without a network, does not count.
RestartHasEvidence == [][RestartIsEarned]_vars

\* What is shown of a working connection was measured through its own core.
ShownIsOwn ==
    session.status = "connected" =>
        /\ reading # None => reading = session.run
        /\ health # None => health.run = session.run /\ health.generation = generation

=============================================================================
