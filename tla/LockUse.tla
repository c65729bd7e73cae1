------------------------------ MODULE LockUse -------------------------------
(***************************************************************************)
(* What every bus call and every worker of daemon.rs and of                *)
(* daemon/failover.rs does with the locks of the daemon's Shared.          *)
(*                                                                         *)
(* Each function is the sequence of what it does with them: it takes one,  *)
(* gives one back, or emits diagnostic facts; a call is the sequence of    *)
(* the callee, spliced in.  What decides between the branches of a         *)
(* function is left out: module LockOrder lets a thread skip any part that *)
(* leaves it with the locks it had.  The leaf lock inside Lifecycle covers *)
(* no call and is part of module Lifecycle.                                *)
(***************************************************************************)
EXTENDS Sequences

Takes(l) == [does |-> "take", lock |-> l]
Gives(l) == [does |-> "give", lock |-> l]

Emits == << [does |-> "emit"] >>

\* A guard over a body, and one dropped where it was taken.
Under(l, body) == <<Takes(l)>> \o body \o <<Gives(l)>>
Brief(l) == Under(l, <<>>)

\* The application order of a transition: its gate, then the engine.
Transition(body) == Under("diagnostic_order", Under("engine", body))

-----------------------------------------------------------------------------
\* Generations and overrides

GenerationIsCurrent == Brief("current_generations")
NextConnectGeneration ==
    Brief("failover") \o Brief("current_generations") \o Brief("runtime_facts")
InvalidateGeneration == NextConnectGeneration
ClearOverride == Brief("override_status")
ClaimGeneration == NextConnectGeneration \o ClearOverride \o Brief("identities")
AcceptRuntimeHealth == GenerationIsCurrent \o Brief("runtime_facts")

\* Termination

BeginTerminal ==
    Transition(InvalidateGeneration \o Brief("commit") \o Brief("probes"))
EndDaemon ==
    BeginTerminal
    \o Under("terminal_cleanup", Brief("standby") \o Brief("probes") \o Brief("engine"))

\* The standby listener

StopStandby == Brief("standby")
\* Wrong on purpose: the override is read before the engine is taken.
StandbyOverrideFirst ==
    Under("override_status",
        Under("engine", GenerationIsCurrent \o Brief("failover") \o Brief("standby")))

ReconcileStandby ==
    Under("engine",
        Under("override_status",
            GenerationIsCurrent \o Brief("failover") \o Brief("standby")))

\* Retries

RetryReceiptIsCurrent ==
    GenerationIsCurrent \o Brief("runtime_facts") \o Brief("override_status")
RetryIsCurrent ==
    GenerationIsCurrent \o Brief("failover") \o Brief("runtime_facts")
    \o RetryReceiptIsCurrent
CancelRetryLocked ==
    GenerationIsCurrent
    \o Under("override_status", Brief("runtime_facts") \o InvalidateGeneration)
CancelDisabledRetries ==
    GenerationIsCurrent \o Brief("runtime_facts") \o CancelRetryLocked
ReconnectIsPending == Under("engine", RetryIsCurrent \o CancelRetryLocked)
CancelRuntimeRetry == Under("engine", CancelRetryLocked)
\* Wrong on purpose: the identity is read without the gate.
RetryFactUngated == Under("engine", Brief("identities")) \o Emits

RetryFact == Transition(Brief("identities")) \o Emits
CompleteReconnect ==
    Transition(
        RetryReceiptIsCurrent \o GenerationIsCurrent \o ClearOverride
        \o Brief("runtime_facts") \o Brief("identities"))
    \o Emits
ClaimReconnect ==
    GenerationIsCurrent
    \o Transition(
        GenerationIsCurrent \o GenerationIsCurrent \o Brief("override_status")
        \o Brief("override_status") \o Brief("identities") \o Brief("runtime_facts"))
    \o Emits

\* Failover

HelperReady == Brief("failover")
FailureLocked == Under("failover", GenerationIsCurrent) \o Brief("failover")
AdmitLocked == Brief("failover")

\* Sessions as a caller sees them

ProjectedSessionInfo ==
    GenerationIsCurrent
    \o Under("runtime_facts", Brief("failover") \o Brief("failover"))
SessionInfo == Under("engine", Under("override_status", ProjectedSessionInfo))

-----------------------------------------------------------------------------
\* Starting and confirming

StartConnection ==
    GenerationIsCurrent \o Brief("probes")
    \o Under("diagnostic_order",
        Under("engine",
            GenerationIsCurrent \o HelperReady \o AdmitLocked \o RetryIsCurrent
            \o Brief("runtime_facts") \o CancelRetryLocked \o Brief("proxied")
            \o Brief("tunnel_failures") \o StopStandby \o Brief("runtime_facts")
            \o Brief("identities") \o Brief("identities") \o Brief("failover")
            \o Brief("failover") \o GenerationIsCurrent \o Brief("proxied")
            \o Brief("probes"))
        \o Brief("probes"))
    \o ReconcileStandby \o Emits

SessionProbeOutcome == Under("engine", GenerationIsCurrent)
ApplySessionProbeResult ==
    Under("engine", GenerationIsCurrent \o Brief("proxied") \o AcceptRuntimeHealth)
RunSessionProbe == Brief("engine") \o SessionProbeOutcome \o ApplySessionProbeResult
ConfirmPool == RunSessionProbe \o Under("engine", GenerationIsCurrent)

ApplyConfirmationSuccess ==
    Transition(
        GenerationIsCurrent \o HelperReady \o GenerationIsCurrent \o Brief("failover")
        \o Brief("failover") \o Brief("override_status") \o Brief("identities")
        \o Brief("runtime_facts") \o CancelRetryLocked \o Brief("failover")
        \o ClearOverride \o GenerationIsCurrent \o Brief("failover") \o FailureLocked)
    \o ReconcileStandby \o Emits
ApplyConfirmationFailure ==
    Transition(
        GenerationIsCurrent \o HelperReady \o Brief("override_status")
        \o Brief("identities") \o Brief("runtime_facts") \o CancelRetryLocked
        \o FailureLocked)
    \o ReconcileStandby \o Emits
ConfirmConnection ==
    Under("engine", GenerationIsCurrent \o Brief("failover"))
    \o Under("commit", Brief("proxied") \o Brief("probes")) \o Emits
    \o ConfirmPool
    \o Under("engine", GenerationIsCurrent \o AcceptRuntimeHealth \o Brief("proxied"))
    \o Brief("probes")
    \o ApplyConfirmationSuccess \o ApplyConfirmationFailure

RunFailover ==
    Under("engine", Under("failover", GenerationIsCurrent))
    \o StartConnection
    \o Under("engine", GenerationIsCurrent \o Brief("failover"))
Reconnect ==
    ReconnectIsPending \o CancelRuntimeRetry \o RetryFact \o Brief("runtime_facts")
    \o GenerationIsCurrent \o StartConnection
    \o CompleteReconnect
    \o Under("engine", RetryIsCurrent \o Brief("runtime_facts"))
BeginReconnect ==
    Under("engine", GenerationIsCurrent \o FailureLocked) \o ClaimReconnect

\* The supervisor

CaptureCoreDeaths ==
    Transition(HelperReady \o GenerationIsCurrent \o Brief("identities")) \o Emits
SuperviseOnce == CaptureCoreDeaths \o BeginReconnect \o ReconcileStandby
StatusInfo ==
    SuperviseOnce
    \o Under("engine",
        Under("override_status", ProjectedSessionInfo \o Brief("standby")))

-----------------------------------------------------------------------------
\* Leaving: what is gone from the catalogue or stopped

RetireStoppedContexts == Transition(Brief("identities")) \o Emits
PruneReadings ==
    RetireStoppedContexts \o Brief("engine") \o Brief("readings") \o Brief("history")
    \o Brief("proxied") \o Brief("tunnel_failures") \o Brief("probes")
CaptureTeardown ==
    Brief("failover") \o Brief("override_status") \o InvalidateGeneration
    \o ClearOverride \o Brief("identities") \o InvalidateGeneration \o ClearOverride
    \o Brief("identities")
StopProfile ==
    Transition(
        ClearOverride \o InvalidateGeneration \o Brief("identities")
        \o Brief("identities"))
    \o Emits \o PruneReadings \o ReconcileStandby
UpdateSubscriptions ==
    Under("subscription_work",
        Brief("engine") \o Brief("engine")
        \o << Takes("diagnostic_order"), Takes("engine"), Takes("commit") >>
        \o Brief("failover") \o InvalidateGeneration \o ClearOverride \o CaptureTeardown
        \o << Gives("engine"), Gives("diagnostic_order"), Gives("commit") >>
        \o Emits \o PruneReadings \o ReconcileStandby)
RemoveServers == Transition(CaptureTeardown) \o Emits \o PruneReadings
ImportLinks == Brief("engine") \o PruneReadings

\* The watchdog and the other periodic workers

WatchdogAttempt == GenerationIsCurrent \o Brief("identities")
NoteTunnelProbe ==
    Transition(GenerationIsCurrent \o AcceptRuntimeHealth \o Brief("tunnel_failures"))
    \o Emits
RecoverDeadTunnel ==
    Transition(GenerationIsCurrent \o Brief("failover") \o HelperReady
               \o Brief("failover"))
    \o Emits
RetainConservativeTunnel == Transition(GenerationIsCurrent) \o Emits
TunnelWatchdog ==
    Brief("engine")
    \o Under("engine", Brief("tunnel_failures") \o Brief("failover") \o WatchdogAttempt)
    \o SessionProbeOutcome \o NoteTunnelProbe \o RecoverDeadTunnel \o BeginReconnect
    \o RetainConservativeTunnel
PoolStatusLoop == Brief("engine") \o Brief("engine") \o Brief("commit") \o Brief("engine")

\* Probes

PumpProbes == Brief("probes")
EnqueueSessionProbe ==
    GenerationIsCurrent \o Under("commit", Brief("probes")) \o PumpProbes
ActiveProbeLoop == Brief("engine") \o EnqueueSessionProbe
EnqueueProbe == Brief("engine") \o EnqueueSessionProbe
RunDirectProbe ==
    Brief("engine") \o Brief("commit")
    \o Under("commit", Brief("readings") \o Brief("history"))
RunProbe == RunDirectProbe \o RunSessionProbe \o Brief("probes") \o PumpProbes
CancelProbes == Under("commit", Brief("probes") \o Brief("readings"))
ProbeState == Brief("probes") \o Under("readings", Brief("proxied"))
ProbeHistory == Brief("history")

\* Geo data, the core and its log

ResolveXray == Brief("commit")
GeoAssets == Brief("geo")
RuntimeInfo == Brief("engine") \o ResolveXray \o GeoAssets \o Brief("core_version")
StartGeoDownload == Brief("engine") \o Brief("geo")
RunGeoDownload ==
    Brief("engine") \o Brief("geo") \o Brief("commit") \o Brief("engine") \o Brief("geo")
FindGeoAssets == Brief("engine") \o ResolveXray
AdoptGeoAssets == FindGeoAssets \o Brief("commit") \o Brief("geo")
ClearLogs == Brief("commit")

\* Connecting and profiles

Connect == Transition(ClaimGeneration) \o Emits \o StartConnection
UpProfile ==
    Brief("readings") \o Transition(ClaimGeneration \o Brief("failover")) \o Emits
    \o StartConnection \o SessionInfo
SaveProfile == Under("engine", Brief("failover") \o Under("commit", Brief("failover")))
RemoveProfile == Under("engine", Brief("failover") \o Brief("commit"))
DeleteInterface == Transition(Brief("failover") \o Brief("identities")) \o Emits
SetSettings ==
    Transition(
        Brief("tunnel_failures") \o Brief("identities") \o Brief("failover")
        \o Brief("failover") \o CancelDisabledRetries \o StopStandby
        \o NextConnectGeneration \o Brief("identities") \o Brief("identities")
        \o Brief("probes"))
    \o Emits \o ReconcileStandby

\* Catalogue edits, settings and marks: nothing but the engine.
EditCatalogue == Brief("engine")

-----------------------------------------------------------------------------
\* What a thread may run: the bus calls and the workers.
HandlerSteps == [
    terminate |-> EndDaemon, update_subscriptions |-> UpdateSubscriptions,
    remove_server |-> RemoveServers, import_links |-> ImportLinks,
    catalogue |-> EditCatalogue, connect |-> Connect, up_profile |-> UpProfile,
    stop_profile |-> StopProfile, save_profile |-> SaveProfile,
    remove_profile |-> RemoveProfile, delete_interface |-> DeleteInterface,
    set_settings |-> SetSettings, status |-> StatusInfo, session_status |-> SessionInfo,
    enqueue_probe |-> EnqueueProbe, cancel_probes |-> CancelProbes,
    probe_state |-> ProbeState, probe_history |-> ProbeHistory,
    runtime_info |-> RuntimeInfo, download_geo |-> StartGeoDownload,
    find_geo |-> FindGeoAssets, adopt_geo |-> AdoptGeoAssets, clear_logs |-> ClearLogs,
    confirmation |-> ConfirmConnection, failover |-> RunFailover,
    reconnect |-> Reconnect, supervisor |-> SuperviseOnce,
    watchdog |-> TunnelWatchdog, active_probes |-> ActiveProbeLoop,
    pool_status |-> PoolStatusLoop, probe |-> RunProbe, geo_download |-> RunGeoDownload ]
=============================================================================
