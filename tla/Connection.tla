----------------------------- MODULE Connection -----------------------------
(***************************************************************************)
(* One profile's connection in the daemon: explicit starts, the            *)
(* confirmation that proves a core carries traffic, the supervisor that    *)
(* notices a dead core, the legacy reconnect loop, saved-profile failover, *)
(* and the settings, profile and catalog edits that race with all of them. *)
(*                                                                         *)
(* Every handler works in critical sections of the engine lock, so one     *)
(* critical section is one step, and a handler that drops the lock and     *)
(* takes it again is several steps with the values it carries between them *)
(* held in `starts`, `confirms`, `deaths`, `redials` or `recoverers`.      *)
(*                                                                         *)
(* Abstractions.                                                           *)
(*  - Generations, spawn sequence numbers and incarnations are only ever   *)
(*    compared for equality. A number nobody holds any more is issued      *)
(*    again, which keeps the state space finite.                           *)
(*  - A target is a single server. Pools, the system proxy, run cgroups,   *)
(*    readings, probe slots and diagnostics are left out.                  *)
(*  - The saved profile's primary is member 0: the walk round the members  *)
(*    is the same after a rotation of the list.                            *)
(*  - Waits end at any time, except those the failover policy times.       *)
(***************************************************************************)
EXTENDS FailoverPolicy

CONSTANTS
    Backoff,         \* reconnect_delay after a failure, in ticks
    Grants,          \* enabled [failover] policies that may be saved
    Tun,             \* the saved profile asks for an interface
    Holds,           \* on_core_exit = "hold"
    StandbyProxy,    \* config.standby_proxy
    Aggressive,      \* config.watchdog = "aggressive"
    PortChanges,     \* settings edits may change the inbound ports
    ExternalEdits,   \* the profile file may be edited without the daemon
    Catalogs,        \* the sets of members the subscriptions may come to hold
    Chosen,          \* the servers the user connects to directly
    MaxGenerations,  \* bound: generations still held by anyone at one time
    MaxThreads       \* bound: threads at work when another one is asked for

\* A TUN failover profile is refused unless it holds (TunEnvelope::new).
ASSUME ConnectionAssumption ==
    /\ Backoff \in Nat
    /\ {Tun, Holds, StandbyProxy, Aggressive, PortChanges, ExternalEdits} \subseteq BOOLEAN
    /\ Tun /\ Grants # {} => Holds
    /\ Catalogs \subseteq SUBSET Candidate
    /\ Chosen \subseteq Candidate
    /\ MaxGenerations \in Nat /\ MaxGenerations >= 1
    /\ MaxThreads \in Nat /\ MaxThreads >= 1

VARIABLES
    closed,      \* lifecycle: no new work, no delayed commit
    stopped,     \* terminate() has finished its cleanup
    standby,     \* the direct standby listeners are open
    reconnect,   \* config.reconnect
    saved,       \* the profile file: a grant, "plain" or "absent"
    catalog,     \* members among the servers of the subscriptions
    shared,      \* what the engine lock guards, and the failover workers
    starts,      \* explicit starts between claim_generation and their start
    confirms,    \* confirmation threads that have not applied their result
    deaths,      \* captured core deaths on their way to begin_reconnect
    redials      \* reconnect loops, one thread per claimed retry

configuration == <<reconnect, saved, catalog>>
threads == <<starts, confirms, deaths, redials>>
vars == <<closed, stopped, standby, configuration, shared, threads>>

NoTarget == -1
NoSubject == [generation |-> 0, run |-> 0, spawned |-> FALSE]
NoSession == [status |-> "absent", run |-> 0, spawned |-> FALSE]
NoEntry == [generation |-> 0]
NoRetry == [generation |-> 0]
NoOverride == [kind |-> "none", target |-> NoTarget]

Target == Candidate \cup {NoTarget}
Subject == [generation : Nat, run : Nat, spawned : BOOLEAN]

Session ==
    [status : {"disconnected", "connected", "exited", "failed"},
     alive : BOOLEAN, run : Nat, spawned : BOOLEAN, pending : BOOLEAN,
     target : Target, envelope : BOOLEAN, iface : {"none", "planned", "up"},
     holding : BOOLEAN]

Entry ==
    [generation : Nat \ {0}, grant : Grants, activation : ActivationRecord,
     subject : Subject, current : Candidate, automatic : BOOLEAN,
     worker : BOOLEAN, backoff : 0 .. Backoff, confirming : BOOLEAN]

Shared ==
    [generation : Nat,
     override : [kind : {"none", "failed", "reconnecting"}, target : Target],
     retry : [generation : Nat \ {0}, attempting : BOOLEAN, allowed : BOOLEAN]
             \cup {NoRetry},
     entry : Entry \cup {NoEntry},
     session : Session \cup {NoSession},
     recoverers : SUBSET [generation : Nat \ {0}, target : Target,
                          step : {"deciding", "starting", "erring"}]]

-----------------------------------------------------------------------------
(* Observations of the guarded state `s`.                                  *)

Present(s) == s.session # NoSession

\* generation_is_current
IsCurrent(s, g) == ~closed /\ g # 0 /\ s.generation = g

\* Activations::owns
Owns(s, g) == s.entry # NoEntry /\ s.entry.generation = g

\* Activations::armed. entry.disarmed is set and only set with activation.armed.
Armed(s) == s.entry # NoEntry /\ s.entry.activation.armed

\* capture_confirmation
Captured(s, g) ==
    [generation |-> g, run |-> s.session.run, spawned |-> s.session.spawned]

\* Wrong on purpose: a confirmation is believed about any core of its generation.
CurrentForAnyCore(s, subject) ==
    IsCurrent(s, subject.generation) /\ Present(s) /\ s.session.target # NoTarget

\* confirmation_is_current
Current(s, subject) ==
    /\ IsCurrent(s, subject.generation)
    /\ Present(s)
    /\ s.session.target # NoTarget
    /\ s.session.run = subject.run
    /\ s.session.spawned = subject.spawned

HasEnvelope(s) == Present(s) /\ s.session.envelope
InterfaceUp(s) == Present(s) /\ s.session.iface = "up"

\* An owned helper is checked before anything else and may be past restoring.
HelperOutcomes(s) == IF HasEnvelope(s) /\ InterfaceUp(s) THEN BOOLEAN ELSE {TRUE}

\* Entry::matches
Matches(s, target, subject) ==
    /\ Owns(s, subject.generation)
    /\ s.entry.current = target
    /\ s.entry.subject = subject

\* retry_receipt_is_current
RetryReceipt(s, target, g) ==
    /\ IsCurrent(s, g)
    /\ s.retry.generation = g
    /\ s.override = [kind |-> "reconnecting", target |-> target]

\* Wrong on purpose: only the receipt is compared, as complete_reconnect does.
RetryCurrentByReceipt(s, target, g) == RetryReceipt(s, target, g) /\ ~Owns(s, g)

\* retry_is_current; resilient() is config.reconnect when no program is run.
RetryCurrent(s, target, g) ==
    /\ RetryReceipt(s, target, g)
    /\ ~Owns(s, g)
    /\ reconnect
    /\ s.retry.allowed

RetryAllowed(s, g) == s.retry.generation = g /\ g # 0 /\ s.retry.allowed

\* The least number nobody holds: see the first abstraction above.
Least(held) ==
    CHOOSE n \in 1 .. Cardinality(held) + 1 :
        n \notin held /\ \A m \in 1 .. n - 1 : m \in held

HeldGenerations ==
    {shared.generation, shared.entry.generation, shared.retry.generation}
        \cup {c.generation : c \in starts \cup redials \cup shared.recoverers}
        \cup {c.subject.generation : c \in confirms \cup deaths}

FreshGeneration == Least(HeldGenerations \ {0})

Room ==
    Cardinality(starts) + Cardinality(confirms) + Cardinality(deaths)
        + Cardinality(redials) < MaxThreads
MayClaim == FreshGeneration <= MaxGenerations /\ Room

FreshRun ==
    Least({shared.session.run} \cup {c.subject.run : c \in confirms \cup deaths}
            \cup {r.subject.run : r \in redials}
            \cup (IF shared.entry = NoEntry THEN {} ELSE {shared.entry.subject.run}))

-----------------------------------------------------------------------------
(* Engine and session methods, as functions of the guarded state.          *)

\* XrayCore::disconnect followed by XrayCore::fail
CoreFailed(s, status) ==
    [s EXCEPT !.session.alive = FALSE, !.session.status = status]

\* stop_interface: the plan stays, an owned device is forgotten altogether.
InterfaceStopped(s) ==
    IF HasEnvelope(s)
    THEN [s EXCEPT !.session.iface = "none", !.session.envelope = FALSE]
    ELSE [s EXCEPT !.session.iface = IF @ = "up" THEN "planned" ELSE @]

\* stop_session
SessionStopped(s) ==
    [InterfaceStopped(s) EXCEPT
        !.session.status = "disconnected", !.session.alive = FALSE,
        !.session.pending = FALSE, !.session.target = NoTarget,
        !.session.holding = FALSE]

\* note_core_exit
CoreExitNoted(s) ==
    IF Holds \/ s.session.envelope
    THEN [s EXCEPT !.session.holding = TRUE]
    ELSE InterfaceStopped(s)

\* Engine::confirmation_failed: an initial TUN confirmation keeps its plan, an
\* installed hold keeps its routes and its target, anything else is stopped.
ConfirmationFailed(s) ==
    CASE s.session.envelope /\ s.session.iface # "up" ->
           [CoreFailed(s, "failed") EXCEPT !.session.holding = FALSE]
      [] (Holds \/ s.session.envelope) /\ s.session.iface = "up" ->
           CoreExitNoted(CoreFailed(s, "failed"))
      [] OTHER -> SessionStopped(s)

\* start_interface followed by confirm_traffic
TrafficConfirmed(s) ==
    [s EXCEPT !.session.iface = IF @ = "planned" THEN "up" ELSE @,
              !.session.pending = FALSE, !.session.holding = FALSE]

\* connect_session can reach the core: the server exists and so does, for an
\* owned interface, every member of its envelope.
CanReachCore(s, target) ==
    /\ Present(s)
    /\ target \in catalog
    /\ s.session.envelope => catalog = Candidate

\* connect_session ended before the core: only then is the session untouched.
MayFailEarly(s, target) == ~CanReachCore(s, target) \/ s.session.iface # "none"

\* Wrong on purpose: every start gives the routes of the session up first.
RunOpenedUnheld(s, target, run, launched) ==
    [s EXCEPT
        !.session.iface = IF @ = "up" THEN "planned" ELSE @,
        !.session.holding = FALSE,
        !.session.status = IF launched THEN "connected" ELSE "failed",
        !.session.alive = launched,
        !.session.run = run,
        !.session.spawned = launched,
        !.session.pending = TRUE,
        !.session.target = IF launched THEN target ELSE NoTarget]

\* connect_session reached the core and opened a run there. A session that
\* does not hold gives its routes up first; nothing here ends a hold.
RunOpened(s, target, run, launched) ==
    [s EXCEPT
        !.session.iface = IF @ = "up" /\ ~s.session.holding /\ ~s.session.envelope
                          THEN "planned" ELSE @,
        !.session.status = IF launched THEN "connected" ELSE "failed",
        !.session.alive = launched,
        !.session.run = run,
        !.session.spawned = launched,
        !.session.pending = TRUE,
        !.session.target = IF launched THEN target ELSE NoTarget]

-----------------------------------------------------------------------------
(* Failover entry and retry methods.                                       *)

\* Activations::disarm
Disarm(s) ==
    IF s.entry = NoEntry THEN s
    ELSE [s EXCEPT !.entry.activation = Disarmed(@)]

\* reconcile_profile: a saved profile other than the activated one revokes it.
ReconcileProfile(s, profile) ==
    IF s.entry # NoEntry /\ s.entry.grant # profile THEN Disarm(s) ELSE s

\* Wrong on purpose: a catalog that lost a member revokes nothing.
CatalogIgnored(s, servers) == s

\* reconcile_catalog
ReconcileCatalog(s, servers) == IF servers = Candidate THEN s ELSE Disarm(s)

\* invalidate_generation
Invalidated(s) ==
    [s EXCEPT !.generation = 0, !.entry = NoEntry, !.retry = NoRetry]

\* next_connect_generation
NextGeneration(s, g) == [Invalidated(s) EXCEPT !.generation = g]

OverrideCleared(s) == [s EXCEPT !.override = NoOverride]

OverrideFailed(s, target) ==
    [s EXCEPT !.override = [kind |-> "failed", target |-> target]]

\* claim_generation
ClaimGeneration(s, g) == OverrideCleared(NextGeneration(s, g))

\* Activations::install
Install(s, grant) ==
    [s EXCEPT !.entry =
        [generation |-> s.generation, grant |-> grant,
         activation |-> NewActivation(0), subject |-> NoSubject, current |-> 0,
         automatic |-> FALSE, worker |-> FALSE, backoff |-> 0,
         confirming |-> FALSE]]

\* Wrong on purpose: the schedule is dropped and the status stays.
CancelRetrySchedule(s, g) ==
    IF IsCurrent(s, g) /\ s.retry.generation = g THEN Invalidated(s) ELSE s

\* cancel_retry_locked
CancelRetry(s, g) ==
    IF IsCurrent(s, g) /\ (s.override.kind = "reconnecting" \/ s.retry.generation = g)
    THEN LET cancelled == Invalidated(s) IN
         IF s.override.kind = "reconnecting" THEN OverrideCleared(cancelled)
         ELSE cancelled
    ELSE s

\* Activations::bind
Bind(s, target, g) ==
    IF Owns(s, g)
    THEN [s EXCEPT !.entry.subject = Captured(s, g), !.entry.current = target,
                   !.entry.confirming = TRUE]
    ELSE s

\* Wrong on purpose: the activation is not told that its attempt succeeded.
SucceedUnreported(s, target, subject) ==
    IF Matches(s, target, subject)
    THEN [s EXCEPT !.entry.confirming = FALSE, !.entry.automatic = FALSE]
    ELSE s

\* Activations::success
Succeed(s, target, subject) ==
    IF ~Matches(s, target, subject) THEN s
    ELSE IF ~s.entry.automatic THEN [s EXCEPT !.entry.confirming = FALSE]
    ELSE [s EXCEPT
            !.entry.confirming = FALSE, !.entry.automatic = FALSE,
            !.entry.activation =
                IF IsInFlight(@, s.entry.current) THEN ConfirmedSuccess(@) ELSE @]

\* failover_helper_failed_locked
HelperLost(s) == CoreExitNoted(CoreFailed(Disarm(s), "failed"))

\* The tail of failover_failure_locked: space the next start and make sure a
\* worker is there to make it.
Recovering(s, activation) ==
    [s EXCEPT
        !.entry.activation = activation,
        !.entry.automatic = FALSE,
        !.entry.confirming = FALSE,
        !.entry.backoff = Backoff,
        !.entry.worker = TRUE,
        !.recoverers =
            IF s.entry.worker THEN @
            ELSE @ \cup {[generation |-> s.entry.generation, target |-> NoTarget,
                          step |-> "deciding"]}]

\* failover_failure_locked. It answers "owned" exactly when Owns holds.
FailureNoted(s, target, subject, eligible, coreDeath) ==
    LET entry == s.entry
        settled == [s EXCEPT !.entry.confirming = FALSE]
    IN  IF \/ ~IsCurrent(s, subject.generation)
           \/ ~Matches(s, target, subject)
           \/ ~Armed(s)
           \/ coreDeath /\ entry.confirming
        THEN s
        ELSE IF ~eligible THEN Disarm(settled)
        ELSE IF entry.automatic /\ IsInFlight(entry.activation, entry.current)
             THEN Recovering(s, AttemptFailed(entry.activation))
        ELSE IF ~entry.automatic /\ CanBeginEpisode(entry.activation, entry.current)
             THEN Recovering(s, BegunEpisode(entry.activation))
        ELSE settled

\* admit_failover_locked: what the profile file and the catalog must still say,
GrantStands(s) == saved = s.entry.grant /\ catalog = Candidate

\* Wrong on purpose: the worker decided a moment ago, so the grant still holds.
AdmitsDecided(s, target, g) ==
    /\ Owns(s, g)
    /\ GrantStands(s)
    /\ IsNext(s.entry.activation, target)

\* and when it admits the start of `target`.
AdmitsFailover(s, target, g) ==
    /\ Owns(s, g)
    /\ Armed(s)
    /\ GrantStands(s)
    /\ CanAdmit(s.entry.activation, target, s.entry.backoff)

FailoverAdmitted(s, target) ==
    [s EXCEPT !.entry.activation = Admitted(@, target),
              !.entry.automatic = TRUE,
              !.entry.current = target,
              !.entry.subject = NoSubject]

-----------------------------------------------------------------------------
(* start_connection_target_captured: the one path of every start.          *)

Accepts(s, origin, target, g) ==
    CASE origin = "explicit"  -> TRUE
      [] origin = "failover"  -> AdmitsFailover(s, target, g)
      [] origin = "reconnect" -> RetryCurrent(s, target, g) /\ ~s.retry.attempting

\* What a refused start changes.
Refusal(s, origin, g) ==
    CASE origin = "explicit"  -> s
      [] origin = "failover"  ->
           IF Owns(s, g) /\ Armed(s) /\ ~GrantStands(s) THEN Disarm(s) ELSE s
      [] origin = "reconnect" -> CancelRetry(s, g)

\* What an accepted start changes before the engine connects.
Admission(s, origin, target) ==
    CASE origin = "explicit"  -> s
      [] origin = "failover"  -> FailoverAdmitted(s, target)
      [] origin = "reconnect" -> [s EXCEPT !.retry.attempting = TRUE]

Refused(s, origin, target, g) ==
    /\ \/ ~IsCurrent(s, g) /\ shared' = s
       \/ /\ IsCurrent(s, g)
          /\ FALSE \in HelperOutcomes(s)
          /\ shared' = IF origin = "reconnect" THEN CancelRetry(HelperLost(s), g)
                       ELSE HelperLost(s)
       \/ /\ IsCurrent(s, g)
          /\ ~Accepts(s, origin, target, g)
          /\ shared' = Refusal(s, origin, g)
    /\ UNCHANGED <<confirms, standby>>

\* The start was accepted and ended in an error, before or at the core.
Failed(s, origin, target, g) ==
    /\ IsCurrent(s, g)
    /\ Accepts(s, origin, target, g)
    /\ LET admitted == Admission(s, origin, target) IN
          \/ /\ MayFailEarly(s, target)
             /\ shared' = Disarm(Bind(admitted, target, g))
          \/ /\ CanReachCore(s, target)
             /\ shared' = Disarm(Bind(RunOpened(admitted, target, FreshRun, FALSE),
                                      target, g))
    /\ standby' = FALSE
    /\ UNCHANGED confirms

\* The core runs; whether it carries traffic is for its confirmation to say.
Launched(s, origin, target, g) ==
    /\ IsCurrent(s, g)
    /\ Accepts(s, origin, target, g)
    /\ CanReachCore(s, target)
    /\ LET running == RunOpened(Admission(s, origin, target), target, FreshRun, TRUE)
       IN  /\ shared' = Bind(running, target, g)
           /\ confirms' = confirms \cup
                  {[subject |-> Captured(running, g), target |-> target,
                    origin |-> origin]}
    /\ standby' = FALSE

-----------------------------------------------------------------------------
(* Requests of the user: D-Bus methods.                                    *)

PreparedSession(envelope, withInterface) ==
    [status |-> "disconnected", alive |-> FALSE, run |-> 0, spawned |-> FALSE,
     pending |-> FALSE, target |-> NoTarget, envelope |-> envelope,
     iface |-> IF withInterface THEN "planned" ELSE "none", holding |-> FALSE]

\* up_profile up to the point where it drops the lock and starts.
Up ==
    /\ ~closed /\ MayClaim
    /\ ~Present(shared)
    /\ saved # "absent"
    /\ 0 \in catalog
    /\ saved \in Grants => catalog = Candidate
    /\ LET g == FreshGeneration
           prepared == [shared EXCEPT !.session =
                           PreparedSession(Tun /\ saved \in Grants, Tun)]
           claimed == ClaimGeneration(prepared, g)
       IN  /\ shared' = IF saved \in Grants THEN Install(claimed, saved) ELSE claimed
           /\ starts' = starts \cup {[generation |-> g, target |-> 0]}
    /\ UNCHANGED <<closed, stopped, standby, configuration, confirms, deaths, redials>>

\* connect: replaces what the session carries, but never an owned interface.
\* A file that is absent is read as a default profile without an interface.
Connect(target) ==
    /\ ~closed /\ MayClaim
    /\ target \in catalog
    /\ ~HasEnvelope(shared)
    /\ LET g == FreshGeneration
           withInterface == Tun /\ saved # "absent"
           prepared ==
               IF Present(shared)
               THEN [shared EXCEPT !.session.iface =
                        IF withInterface THEN "planned" ELSE "none"]
               ELSE [shared EXCEPT !.session = PreparedSession(FALSE, withInterface)]
       IN  /\ shared' = ClaimGeneration(prepared, g)
           /\ starts' = starts \cup {[generation |-> g, target |-> target]}
    /\ UNCHANGED <<closed, stopped, standby, configuration, confirms, deaths, redials>>

\* start_connection, the rest of both requests.
ExplicitStart(request) ==
    /\ request \in starts
    /\ \/ Refused(shared, "explicit", request.target, request.generation)
       \/ Failed(shared, "explicit", request.target, request.generation)
       \/ Launched(shared, "explicit", request.target, request.generation)
    /\ starts' = starts \ {request}
    /\ UNCHANGED <<closed, stopped, configuration, deaths, redials>>

\* cleanup_live_interface, failed: no longer up, although it was not removed.
HalfDeleted(session) == [session EXCEPT !.iface = IF @ = "up" THEN "planned" ELSE @]

\* stop_profile. The generation is gone even when the interface would not go.
Down ==
    /\ ~closed
    /\ Present(shared)
    /\ LET forgotten == Invalidated(OverrideCleared(shared)) IN
          \/ shared' = [forgotten EXCEPT !.session = NoSession]
          \/ /\ shared.session.iface # "none"
             /\ \/ shared' = forgotten
                \/ shared' = [forgotten EXCEPT !.session = HalfDeleted(@)]
    /\ UNCHANGED <<closed, stopped, standby, configuration, threads>>

\* delete_interface, which may fail before or after it took the interface down.
DeleteInterface ==
    /\ ~closed
    /\ Present(shared)
    /\ \/ shared' = Disarm(shared)
       \/ shared' = [Disarm(shared) EXCEPT !.session = HalfDeleted(@)]
       \/ shared' = [Disarm(shared) EXCEPT !.session.iface = "none",
                                           !.session.envelope = FALSE]
    /\ UNCHANGED <<closed, stopped, standby, configuration, threads>>

\* save_profile and set_profile_failover: reconcile, then write; a failed
\* write disarms. An enabled policy needs every member in the catalog.
SaveProfile(profile) ==
    /\ ~closed
    /\ profile # "absent"
    /\ profile \in Grants => catalog = Candidate
    /\ \/ saved' = profile /\ shared' = ReconcileProfile(shared, profile)
       \/ saved' = saved /\ shared' = Disarm(shared)
    /\ UNCHANGED <<closed, stopped, standby, reconnect, catalog, threads>>

\* remove_profile disarms first; the removal itself may fail.
RemoveProfile ==
    /\ ~closed
    /\ saved' \in {saved, "absent"}
    /\ shared' = Disarm(shared)
    /\ UNCHANGED <<closed, stopped, standby, reconnect, catalog, threads>>

\* The file is edited without the daemon.
EditFile(profile) ==
    /\ ExternalEdits
    /\ saved # profile
    /\ saved' = profile
    /\ UNCHANGED <<closed, stopped, standby, reconnect, catalog, shared, threads>>

\* cancel_disabled_retries: an attempt in progress may finish, and is then the
\* last; a retry between attempts ends here.
DisabledRetriesCancelled(s) ==
    IF s.retry # NoRetry /\ s.retry.generation = s.generation /\ s.retry.attempting
    THEN [s EXCEPT !.retry.allowed = FALSE]
    ELSE CancelRetry(s, s.generation)

\* set_settings up to the write of the configuration.
SettingsApplied(s, value) ==
    LET reconciled == ReconcileProfile(s, saved)
    IN  IF Present(s) /\ ~value THEN DisabledRetriesCancelled(reconciled)
        ELSE IF Present(s) THEN reconciled ELSE s

SetSettings(value) ==
    /\ ~closed
    /\ reconnect' = value
    /\ shared' = SettingsApplied(shared, value)
    /\ UNCHANGED <<closed, stopped, standby, saved, catalog, threads>>

\* set_settings with other ports: a running core is restarted on them, under a
\* new generation, and confirmed like an explicit start.
SetPorts(value) ==
    /\ ~closed /\ PortChanges /\ MayClaim
    /\ shared.session.status = "connected"
    /\ reconnect' = value
    /\ LET g == FreshGeneration
           target == shared.session.target
           restarted == NextGeneration(SettingsApplied(shared, value), g)
           running == RunOpened(restarted, target, FreshRun, TRUE)
       IN \/ /\ MayFailEarly(restarted, target)
             /\ shared' = restarted
             /\ UNCHANGED confirms
          \/ /\ CanReachCore(restarted, target)
             /\ shared' = RunOpened(restarted, target, FreshRun, FALSE)
             /\ UNCHANGED confirms
          \/ /\ CanReachCore(restarted, target)
             /\ shared' = running
             /\ confirms' = confirms \cup
                    {[subject |-> Captured(running, g), target |-> target,
                      origin |-> "explicit"]}
    /\ standby' = FALSE
    /\ UNCHANGED <<closed, stopped, saved, catalog, starts, deaths, redials>>

\* disconnect_if_active_gone, then capture_teardown.
TornDown(s, servers) ==
    LET gone == /\ Present(s)
                /\ s.session.target \notin servers \cup {NoTarget}
                /\ s.session.status # "disconnected"
        stopped1 ==
            IF ~gone THEN s
            ELSE IF ~s.session.envelope THEN SessionStopped(s)
            ELSE [CoreFailed(s, "failed") EXCEPT
                    !.session.pending = FALSE, !.session.target = NoTarget,
                    !.session.holding = TRUE]
        reconciled == ReconcileCatalog(stopped1, servers)
        orphaned == /\ s.override.target \notin servers \cup {NoTarget}
                    /\ Present(reconciled) =>
                          reconciled.session.target \in {NoTarget, s.override.target}
    IN  IF gone \/ orphaned THEN OverrideCleared(Invalidated(reconciled))
        ELSE reconciled

\* A subscription update, a removed subscription or a removed server.
ChangeCatalog(servers) ==
    /\ ~closed
    /\ servers # catalog
    /\ catalog' = servers
    /\ shared' = TornDown(shared, servers)
    /\ UNCHANGED <<closed, stopped, standby, reconnect, saved, threads>>

-----------------------------------------------------------------------------
(* confirm_connection: one thread per launched core. Its last critical     *)
(* section applies what it measured and then answers whoever waits.        *)

\* The reconnect loop waiting for this confirmation learns its result.
Answered(confirm, confirmed) ==
    redials' = {IF r.step = "awaiting" /\ r.subject = confirm.subject
                THEN [r EXCEPT !.step = IF confirmed THEN "confirmed" ELSE "failed"]
                ELSE r : r \in redials}

\* retry_allowed was withdrawn while this attempt was being confirmed.
LastAttempt(s, confirm) ==
    IF confirm.origin = "reconnect" /\ ~RetryAllowed(s, confirm.subject.generation)
    THEN CancelRetry(s, confirm.subject.generation) ELSE s

Reported(s, confirm) ==
    IF confirm.origin = "reconnect" THEN s ELSE OverrideFailed(s, confirm.target)

\* start_interface may fail; an owned one must, unless every member is there.
InterfaceOutcomes(s) ==
    IF s.session.iface = "none" THEN {TRUE}
    ELSE IF s.session.envelope /\ catalog # Candidate THEN {FALSE} ELSE BOOLEAN

\* A failed start_interface has rolled back, or failed to record its success.
InterfaceFailures(s) ==
    {s} \cup (IF s.session.iface = "planned"
              THEN {[s EXCEPT !.session.iface = "up"]} ELSE {})

\* apply_confirmation_success for a confirmation that is still current.
Committed(s, confirm) ==
    LET session == s.session
        mine == session.target = confirm.target
        owned == Owns(s, confirm.subject.generation)
    IN \/ /\ mine /\ session.status = "connected" /\ (owned => session.alive)
          /\ TRUE \in InterfaceOutcomes(s)
          /\ LET settled == Succeed(TrafficConfirmed(s), confirm.target, confirm.subject)
             IN  shared' = IF confirm.origin = "failover"
                           THEN OverrideCleared(settled) ELSE settled
          /\ Answered(confirm, TRUE)
       \/ /\ mine /\ session.status = "connected" /\ (owned => session.alive)
          /\ FALSE \in InterfaceOutcomes(s)
          /\ \E left \in InterfaceFailures(s) :
                shared' = LastAttempt(
                    Reported(ConfirmationFailed(Disarm(left)), confirm), confirm)
          /\ Answered(confirm, FALSE)
       \/ /\ owned /\ mine /\ ~session.alive
          /\ \E eligible \in BOOLEAN :
                shared' = FailureNoted(
                              CoreExitNoted(CoreFailed(s, "exited")),
                              confirm.target, confirm.subject, eligible, FALSE)
          /\ Answered(confirm, FALSE)
       \/ /\ ~(mine /\ session.status = "connected" /\ (owned => session.alive))
          /\ ~(owned /\ mine /\ ~session.alive)
          /\ shared' = s
          /\ Answered(confirm, FALSE)

\* apply_confirmation_failure for a confirmation that is still current. Only a
\* measured remote failure is evidence against the server.
Rejected(s, confirm, helper) ==
    LET active == s.session.target = confirm.target /\ s.session.status = "connected"
        failed == IF active THEN Reported(ConfirmationFailed(s), confirm) ELSE s
    IN  \E remote \in BOOLEAN :
            shared' = FailureNoted(LastAttempt(failed, confirm), confirm.target,
                                   confirm.subject, helper /\ remote, FALSE)

Confirm(confirm) ==
    /\ confirm \in confirms
    /\ confirms' = confirms \ {confirm}
    /\ IF ~Current(shared, confirm.subject)
       THEN shared' = shared /\ Answered(confirm, FALSE)
       ELSE \E helper \in HelperOutcomes(shared) :
                LET s == IF helper THEN shared ELSE HelperLost(shared) IN
                \/ helper /\ Committed(s, confirm)
                \/ ~helper /\ shared' = s /\ Answered(confirm, FALSE)
                \/ Rejected(s, confirm, helper) /\ Answered(confirm, FALSE)
    /\ UNCHANGED <<closed, stopped, standby, configuration, starts, deaths>>

-----------------------------------------------------------------------------
(* Supervision: the liveness sweep, the watchdog, and what a death starts. *)

\* The core process ends by itself.
CoreExits ==
    /\ Present(shared)
    /\ shared.session.alive
    /\ shared' = [shared EXCEPT !.session.alive = FALSE]
    /\ UNCHANGED <<closed, stopped, standby, configuration, threads>>

\* capture_core_deaths for this profile.
Sweep ==
    /\ ~closed /\ Room
    /\ Present(shared)
    /\ \/ /\ FALSE \in HelperOutcomes(shared)
          /\ shared' = HelperLost(shared)
          /\ UNCHANGED deaths
       \/ /\ ~shared.session.alive
          /\ shared.session.status = "connected"
          /\ shared' = CoreExitNoted(CoreFailed(shared, "exited"))
          /\ deaths' = deaths \cup
                {[target |-> shared.session.target, step |-> "begin",
                  subject |-> Captured(shared, shared.generation)]}
    /\ UNCHANGED <<closed, stopped, standby, configuration, starts, confirms, redials>>

\* recover_dead_tunnel_for: a streak of failed checks of a confirmed core kills
\* it. The check still names the running core, or nothing happens.
WatchRecover ==
    /\ Aggressive /\ Room
    /\ Current(shared, Captured(shared, shared.generation))
    /\ reconnect \/ Armed(shared)
    /\ \/ /\ FALSE \in HelperOutcomes(shared)
          /\ shared' = HelperLost(shared)
          /\ UNCHANGED deaths
       \/ /\ shared.session.status = "connected" /\ ~shared.session.pending
          /\ LET subject == Captured(shared, shared.generation)
                 target == shared.session.target
                 dead == CoreExitNoted(CoreFailed(shared, "exited"))
             IN  /\ shared' = IF Owns(dead, shared.generation) /\ dead.entry.current = target
                              THEN [dead EXCEPT !.entry.subject = subject] ELSE dead
                 /\ deaths' = deaths \cup
                       {[target |-> target, step |-> "begin", subject |-> subject]}
    /\ UNCHANGED <<closed, stopped, standby, configuration, starts, confirms, redials>>

\* Wrong on purpose: a death that failover owns goes to the reconnect loop too.
BeginReconnectAlways(death) ==
    /\ death \in deaths /\ death.step = "begin"
    /\ LET current == Current(shared, death.subject)
       IN  /\ shared' = IF current
                        THEN FailureNoted(shared, death.target, death.subject, TRUE, TRUE)
                        ELSE shared
           /\ deaths' = (deaths \ {death}) \cup
                 (IF current THEN {[death EXCEPT !.step = "claim"]} ELSE {})
    /\ UNCHANGED <<closed, stopped, standby, configuration, starts, confirms, redials>>

\* begin_reconnect, first critical section: an owned death goes to failover.
BeginReconnect(death) ==
    /\ death \in deaths /\ death.step = "begin"
    /\ LET current == Current(shared, death.subject)
           owned == Owns(shared, death.subject.generation)
       IN  /\ shared' = IF current
                        THEN FailureNoted(shared, death.target, death.subject, TRUE, TRUE)
                        ELSE shared
           /\ deaths' = (deaths \ {death}) \cup
                 (IF current /\ ~owned THEN {[death EXCEPT !.step = "claim"]} ELSE {})
    /\ UNCHANGED <<closed, stopped, standby, configuration, starts, confirms, redials>>

MayClaimReconnect(s, death) ==
    /\ Current(s, death.subject)
    /\ reconnect
    /\ s.session.target = death.target
    /\ s.session.status = "exited"
    /\ s.override # [kind |-> "reconnecting", target |-> death.target]

\* claim_reconnect, and the loop it starts.
ClaimReconnect(death) ==
    /\ death \in deaths /\ death.step = "claim"
    /\ deaths' = deaths \ {death}
    /\ LET g == death.subject.generation IN
        IF MayClaimReconnect(shared, death)
        THEN /\ shared' = [shared EXCEPT
                    !.override = [kind |-> "reconnecting", target |-> death.target],
                    !.retry = [generation |-> g, attempting |-> FALSE, allowed |-> TRUE]]
             /\ redials' = redials \cup
                    {[generation |-> g, target |-> death.target,
                      subject |-> NoSubject, step |-> "waiting"]}
        ELSE UNCHANGED <<shared, redials>>
    /\ UNCHANGED <<closed, stopped, standby, configuration, starts, confirms>>

-----------------------------------------------------------------------------
(* reconnect: the loop that redials the same target.                       *)

\* Wrong on purpose: a refused start is tried again like a failed one.
RedialStartStubborn(r) ==
    /\ r \in redials /\ r.step = "waiting"
    /\ LET others == redials \ {r} IN
          \/ /\ Refused(shared, "reconnect", r.target, r.generation)
             /\ redials' = redials
          \/ /\ Failed(shared, "reconnect", r.target, r.generation)
             /\ redials' = others \cup {[r EXCEPT !.step = "failed"]}
          \/ /\ Launched(shared, "reconnect", r.target, r.generation)
             /\ redials' = others \cup
                    {[r EXCEPT !.step = "awaiting",
                               !.subject = Captured(shared', r.generation)]}
    /\ UNCHANGED <<closed, stopped, configuration, starts, deaths>>

\* One start of the loop. A retry that is no longer wanted is cancelled by the
\* same step, whether a check before the start or the start itself notices.
RedialStart(r) ==
    /\ r \in redials /\ r.step = "waiting"
    /\ LET others == redials \ {r} IN
          \/ /\ Refused(shared, "reconnect", r.target, r.generation)
             /\ redials' = others
          \/ /\ Failed(shared, "reconnect", r.target, r.generation)
             /\ redials' = others \cup {[r EXCEPT !.step = "failed"]}
          \/ /\ Launched(shared, "reconnect", r.target, r.generation)
             /\ redials' = others \cup
                    {[r EXCEPT !.step = "awaiting",
                               !.subject = Captured(shared', r.generation)]}
    /\ UNCHANGED <<closed, stopped, configuration, starts, deaths>>

\* complete_reconnect; a legacy helper that cannot be restored counts as dead.
RedialComplete(r) ==
    /\ r \in redials /\ r.step = "confirmed"
    /\ LET done == /\ RetryReceipt(shared, r.target, r.generation)
                   /\ Current(shared, r.subject)
                   /\ shared.session.target = r.target
                   /\ shared.session.status = "connected"
                   /\ ~shared.session.pending
                   /\ shared.session.alive
       IN \/ /\ done
             /\ shared' = [OverrideCleared(shared) EXCEPT !.retry = NoRetry]
             /\ redials' = redials \ {r}
          \/ /\ done => InterfaceUp(shared) /\ ~HasEnvelope(shared)
             /\ shared' = shared
             /\ redials' = (redials \ {r}) \cup {[r EXCEPT !.step = "failed"]}
    /\ UNCHANGED <<closed, stopped, standby, configuration, starts, confirms, deaths>>

\* Wrong on purpose: the loop ends and leaves its schedule behind.
RedialAgainUncancelled(r) ==
    /\ r \in redials /\ r.step = "failed"
    /\ IF RetryCurrent(shared, r.target, r.generation)
       THEN /\ shared' = [shared EXCEPT !.retry.attempting = FALSE]
            /\ redials' = (redials \ {r}) \cup
                    {[r EXCEPT !.step = "waiting", !.subject = NoSubject]}
       ELSE /\ shared' = shared
            /\ redials' = redials \ {r}
    /\ UNCHANGED <<closed, stopped, standby, configuration, starts, confirms, deaths>>

\* The attempt did not recover the tunnel: wait again, or stop for good.
RedialAgain(r) ==
    /\ r \in redials /\ r.step = "failed"
    /\ IF RetryCurrent(shared, r.target, r.generation)
       THEN /\ shared' = [shared EXCEPT !.retry.attempting = FALSE]
            /\ redials' = (redials \ {r}) \cup
                    {[r EXCEPT !.step = "waiting", !.subject = NoSubject]}
       ELSE /\ shared' = CancelRetry(shared, r.generation)
            /\ redials' = redials \ {r}
    /\ UNCHANGED <<closed, stopped, standby, configuration, starts, confirms, deaths>>

-----------------------------------------------------------------------------
(* run_failover: the worker of one activation.                             *)

\* The state with worker r at another step, or gone.
At(r, step, target) ==
    [shared EXCEPT !.recoverers =
        (@ \ {r}) \cup {[r EXCEPT !.step = step, !.target = target]}]
Gone(r) == [shared EXCEPT !.recoverers = @ \ {r}]

\* Wrong on purpose: a worker that leaves keeps its place taken.
RecovererDecideForgetful(r) ==
    /\ r \in shared.recoverers /\ r.step = "deciding"
    /\ \/ /\ ~Owns(shared, r.generation) \/ ~IsCurrent(shared, r.generation)
          /\ shared' = Gone(r)
       \/ /\ Owns(shared, r.generation) /\ IsCurrent(shared, r.generation)
          /\ LET activation == shared.entry.activation
                 kind == Kind(activation, shared.entry.backoff)
             IN  \/ /\ kind \in {"idle", "exhausted", "disarmed"}
                    /\ shared' = Gone(r)
                 \/ /\ kind = "attempt"
                    /\ \E m \in Candidate :
                          IsNext(activation, m) /\ shared' = At(r, "starting", m)
    /\ UNCHANGED <<closed, stopped, standby, configuration, threads>>

RecovererDecide(r) ==
    /\ r \in shared.recoverers /\ r.step = "deciding"
    /\ \/ /\ ~Owns(shared, r.generation) \/ ~IsCurrent(shared, r.generation)
          /\ shared' = Gone(r)
       \/ /\ Owns(shared, r.generation) /\ IsCurrent(shared, r.generation)
          /\ LET activation == shared.entry.activation
                 kind == Kind(activation, shared.entry.backoff)
             IN  \/ /\ kind \in {"idle", "exhausted", "disarmed"}
                    /\ shared' = [Gone(r) EXCEPT !.entry.worker = FALSE]
                 \/ /\ kind = "attempt"
                    /\ \E m \in Candidate :
                          IsNext(activation, m) /\ shared' = At(r, "starting", m)
    /\ UNCHANGED <<closed, stopped, standby, configuration, threads>>

RecovererStart(r) ==
    /\ r \in shared.recoverers /\ r.step = "starting"
    /\ \/ Refused(Gone(r), "failover", r.target, r.generation)
       \/ Failed(At(r, "erring", r.target), "failover", r.target, r.generation)
       \/ Launched(At(r, "deciding", NoTarget), "failover", r.target, r.generation)
    /\ UNCHANGED <<closed, stopped, configuration, starts, deaths, redials>>

\* A start that ended in an error is a local failure: it revokes the grant.
RecovererError(r) ==
    /\ r \in shared.recoverers /\ r.step = "erring"
    /\ LET next == At(r, "deciding", NoTarget) IN
       shared' = IF IsCurrent(shared, r.generation) THEN Disarm(next) ELSE next
    /\ UNCHANGED <<closed, stopped, standby, configuration, threads>>

-----------------------------------------------------------------------------
(* Standby, time and the end of the daemon.                                *)

\* Wrong on purpose: neither a retry nor an activation keeps the ports shut.
BusyNow(s) ==
    Present(s) /\ (s.session.status = "connected" \/ s.session.holding)

\* What reconcile_standby calls busy.
Busy(s) ==
    /\ Present(s)
    /\ \/ s.session.status = "connected"
       \/ s.session.holding
       \/ /\ reconnect /\ s.generation # 0
          /\ s.session.status = "exited" \/ s.override.kind = "reconnecting"
       \/ Owns(s, s.generation)

\* Many handlers end in reconcile_standby, after they dropped the lock. Opening
\* the listeners may fail.
ReconcileStandby ==
    /\ ~closed
    /\ \/ standby' = (StandbyProxy /\ ~Busy(shared))
       \/ ~standby /\ standby' = FALSE
    /\ UNCHANGED <<closed, stopped, configuration, shared, threads>>

\* A timer tick: the instants the failover entry waits for come closer.
Tick ==
    /\ shared.entry # NoEntry
    /\ shared.entry.activation.cooldown > 0 \/ shared.entry.backoff > 0
    /\ shared' = [shared EXCEPT
                    !.entry.activation = Elapsed(@),
                    !.entry.backoff = IF @ > 0 THEN @ - 1 ELSE 0]
    /\ UNCHANGED <<closed, stopped, standby, configuration, threads>>

\* begin_terminal
BeginTerminal ==
    /\ ~closed
    /\ closed' = TRUE
    /\ shared' = Invalidated(shared)
    /\ UNCHANGED <<stopped, standby, configuration, threads>>

\* terminate after drain(): nobody holds a ticket any more.
Shutdown ==
    /\ closed /\ ~stopped
    /\ starts = {} /\ confirms = {} /\ deaths = {} /\ redials = {}
    /\ shared.recoverers = {}
    /\ stopped' = TRUE
    /\ standby' = FALSE
    /\ \/ shared' = [shared EXCEPT !.session = NoSession]
       \/ /\ Present(shared) /\ shared.session.iface # "none"
          /\ shared' = CoreFailed(shared, "disconnected")
    /\ UNCHANGED <<closed, configuration, threads>>

\* The process has ended: its threads are gone and nothing is left to do.
Ended == stopped /\ UNCHANGED vars

-----------------------------------------------------------------------------

Init ==
    /\ closed = FALSE
    /\ stopped = FALSE
    /\ standby = FALSE
    /\ reconnect \in BOOLEAN
    /\ saved \in Grants \cup {"plain"}
    /\ catalog = Candidate
    /\ shared = [generation |-> 0, override |-> NoOverride, retry |-> NoRetry,
                 entry |-> NoEntry, session |-> NoSession, recoverers |-> {}]
    /\ starts = {} /\ confirms = {} /\ deaths = {} /\ redials = {}

User ==
    \/ Up
    \/ \E target \in Chosen : Connect(target)
    \/ Down
    \/ DeleteInterface
    \/ \E profile \in Grants \cup {"plain"} : SaveProfile(profile)
    \/ RemoveProfile
    \/ \E profile \in Grants \cup {"plain", "absent"} : EditFile(profile)
    \/ \E value \in BOOLEAN : SetSettings(value) \/ SetPorts(value)
    \/ \E servers \in Catalogs : ChangeCatalog(servers)

\* The steps of the threads that work for generation g.
Starting(g) == \E c \in starts : c.generation = g /\ ExplicitStart(c)
Confirming(g) == \E c \in confirms : c.subject.generation = g /\ Confirm(c)
Dying(g) ==
    \E d \in deaths :
        d.subject.generation = g /\ (BeginReconnect(d) \/ ClaimReconnect(d))
Redialing(g) ==
    \E r \in redials :
        r.generation = g /\ (RedialStart(r) \/ RedialComplete(r) \/ RedialAgain(r))
Failing(g) ==
    \E r \in shared.recoverers :
        r.generation = g /\ (RecovererDecide(r) \/ RecovererStart(r) \/ RecovererError(r))

Threads(g) == Starting(g) \/ Confirming(g) \/ Dying(g) \/ Redialing(g) \/ Failing(g)

Next ==
    \/ User
    \/ \E g \in 0 .. MaxGenerations : Threads(g)
    \/ CoreExits
    \/ Sweep
    \/ WatchRecover
    \/ ReconcileStandby
    \/ Tick
    \/ BeginTerminal
    \/ Shutdown
    \/ Ended

Spec == Init /\ [][Next]_vars

\* Threads run, probes and waits time out, the supervisor polls: none of this
\* is promised of the user, of the core or of the watchdog.
Fairness ==
    /\ \A g \in 0 .. MaxGenerations :
          /\ WF_vars(Starting(g))
          /\ WF_vars(Confirming(g))
          /\ WF_vars(Dying(g))
          /\ WF_vars(Redialing(g))
          /\ WF_vars(Failing(g))
    /\ WF_vars(Sweep)
    /\ WF_vars(Tick)
    /\ WF_vars(Shutdown)

FairSpec == Spec /\ Fairness
-----------------------------------------------------------------------------
(* Properties.                                                             *)

\* Every variable holds a value of its type.
TypeOK ==
    /\ {closed, stopped, standby, reconnect} \subseteq BOOLEAN
    /\ saved \in Grants \cup {"plain", "absent"}
    /\ catalog \in SUBSET Candidate
    /\ shared \in Shared
    /\ starts \in SUBSET [generation : Nat \ {0}, target : Candidate]
    /\ confirms \in SUBSET [subject : Subject, target : Candidate,
                            origin : {"explicit", "failover", "reconnect"}]
    /\ deaths \in SUBSET [target : Candidate, subject : Subject,
                          step : {"begin", "claim"}]
    /\ redials \in SUBSET [generation : Nat \ {0}, target : Candidate,
                           subject : Subject,
                           step : {"waiting", "awaiting", "confirmed", "failed"}]

\* What clients are told is "running" (reported_status).
Running(s) == Present(s) /\ s.session.status = "connected" /\ ~s.session.pending

\* A session starts to be reported as running only in the step that consumes
\* the confirmation of that very run, made for the generation still current:
\* a late answer about an earlier core never vouches for the one that replaced
\* it (confirmation_is_current, apply_confirmation_success).
RunningIsProved ==
    [][Running(shared') /\ ~(Running(shared) /\ shared.session.run = shared'.session.run)
        => \E c \in confirms \ confirms' :
              /\ c.subject = Captured(shared', shared'.generation)
              /\ c.target = shared'.session.target]_vars

\* An automatic attempt in flight is always going to be settled: while its
\* grant stands, the confirmation of the subject the entry is bound to is
\* still out (admit_failover_locked, bind, failover_failure_locked).
InFlightHasConfirmation ==
    Armed(shared) /\ shared.entry.activation.inFlight =>
        \E c \in confirms :
            c.subject = shared.entry.subject /\ c.target = shared.entry.current

\* An open episode that may still start someone has exactly one worker to do
\* it; the `worker` flag neither strands an episode nor doubles its worker.
EpisodeHasWorker ==
    LET workers == {r \in shared.recoverers : r.generation = shared.entry.generation}
    IN  /\ Cardinality(workers) <= 1
        /\ Armed(shared) /\ Kind(shared.entry.activation, 0) \in {"wait", "attempt"}
              => workers # {}

\* Nothing that recovers on its own is left alone: neither an attempt in flight nor an
\* open episode.
EpisodeIsAttended == InFlightHasConfirmation /\ EpisodeHasWorker

Reconnecting(s) == ~closed /\ s.override.kind = "reconnecting"

\* A retry belongs to the current generation and has a loop behind it: neither
\* a cancellation nor the end of a loop leaves a schedule nobody follows
\* (claim_reconnect, complete_reconnect, cancel_retry_locked).
RetryHasLoop ==
    shared.retry # NoRetry =>
        /\ shared.retry.generation = shared.generation
        /\ \E r \in redials : r.generation = shared.generation

\* A death never starts a second loop for a target that is being redialed in
\* the same generation (the already_reconnecting check of claim_reconnect).
OneLoopPerTarget ==
    \A d \in deaths : d.step = "claim" /\ MayClaimReconnect(shared, d) =>
        ~ \E r \in redials :
              r.generation = d.subject.generation /\ r.target = d.target

\* A retry has one loop: never none, and never two.
RetryHasOneLoop == RetryHasLoop /\ OneLoopPerTarget

\* "reconnecting" is shown only while a retry is scheduled or under way.
ReconnectingMeansRetrying ==
    Reconnecting(shared) => shared.retry # NoRetry

\* Replacing what a session carries ends the episode of what it carried: once
\* the replacement is proved, nobody is still reconnecting to another target.
ReplacementEndsRetry ==
    Reconnecting(shared) /\ Running(shared) =>
        shared.override.target = shared.session.target

\* A generation failover owns, revoked and exhausted grants included, never
\* has a legacy retry, a reconnect loop or the reconnecting status.
OwnedSuppressesLegacy ==
    shared.entry # NoEntry =>
        /\ shared.entry.generation = shared.generation
        /\ shared.retry = NoRetry
        /\ shared.override.kind # "reconnecting"
        /\ ~ \E r \in redials : r.generation = shared.generation

Held(s) == Present(s) /\ s.session.holding /\ s.session.iface = "up"

\* While a session holds its routes, a recovery of its generation keeps them
\* until a core is proved: nothing but a confirmation or an explicit stop or
\* deletion, also one that fails and leaves the rest of the session as it is,
\* ends the hold (connect_session, confirmation_failed, note_core_exit). The
\* session that no generation works for may also lose its server to an update.
HoldOutlivesRecovery ==
    [][(/\ Held(shared)
        /\ shared'.generation = shared.generation
        /\ shared.generation # 0 \/ catalog' = catalog)
       => \/ Held(shared') \/ Running(shared') \/ ~Present(shared')
          \/ shared'.session.iface = "none"
          \/ shared'.session = HalfDeleted(shared.session)]_vars

\* The direct listeners are closed whenever a core runs or routes are held.
StandbyExcludesCore ==
    standby => ~(Present(shared) /\ (shared.session.alive \/ shared.session.holding))

\* They never open while someone may still start a core unasked: through the
\* waits of a reconnect loop that is still wanted, and for as long as a failover
\* activation is owned, exhausted or revoked (reconcile_standby). A loop whose
\* receipt was taken away is not wanted: its next start is refused.
StandbyStaysShut ==
    [][~standby /\ standby' =>
          /\ shared.entry = NoEntry
          /\ \A r \in redials : ~RetryCurrent(shared, r.target, r.generation)]_vars

\* What is open beside a recovery stays out of its way.
StandbyYields == []StandbyExcludesCore /\ StandbyStaysShut

\* No edit that goes through the daemon leaves a grant armed that the profile
\* file or the catalog no longer supports.
ArmedGrantStands == Armed(shared) => GrantStands(shared)

\* The daemon's entry carries out the abstract recovery contract.
Recovery == INSTANCE SequentialRecovery WITH
    grant <- IF shared.entry = NoEntry THEN "absent"
             ELSE IF Armed(shared) THEN "armed" ELSE "revoked",
    stage <- IF shared.entry = NoEntry \/ ~shared.entry.activation.episode THEN "idle"
             ELSE IF shared.entry.activation.inFlight THEN "trying" ELSE "waiting",
    tried <- IF shared.entry = NoEntry THEN {} ELSE shared.entry.activation.visited,
    rest  <- IF shared.entry = NoEntry THEN 0 ELSE shared.entry.activation.cooldown

\* Whatever the interleaving, automatic starts are sequential, authorized,
\* within the budget and spaced.
ImplementsRecovery == Recovery!Spec

\* An open episode with a member to try and budget left does not wait for ever:
\* its worker outlives every failed start, and time reaches its deadline.
EpisodeMovesOn ==
    LET waiting == Armed(shared) /\ Kind(shared.entry.activation, 0) \in {"wait", "attempt"}
    IN  waiting ~> ~waiting

\* The death of a core that an armed activation carries is never dropped: the
\* episode it opens or resumes is on its way until the core is replaced or the
\* grant is gone (capture_core_deaths, begin_reconnect, failover_failure_locked).
OwnedDeathIsNoted ==
    LET unnoticed == /\ Armed(shared) /\ Present(shared)
                     /\ shared.session.status = "exited"
                     /\ ~shared.entry.activation.episode
    IN  unnoticed ~> ~unnoticed

\* A death the policy owns is taken up, and what it is waiting to do is done.
RecoveryMovesOn == OwnedDeathIsNoted /\ EpisodeMovesOn

\* Switching automatic recovery off ends a retry that is waiting or under way,
\* without another start (cancel_disabled_retries, reconnect).
RetryRetires ==
    LET unwanted == shared.retry # NoRetry /\ ~reconnect
    IN  unwanted ~> ~unwanted

\* Termination is not held up: every thread gives its work up (terminate, drain).
Drains == closed ~> stopped
=============================================================================
