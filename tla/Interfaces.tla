----------------------------- MODULE Interfaces -----------------------------
(***************************************************************************)
(* The network interface of one profile: its plan, its start, its removal, *)
(* the chain of an `oxidom run` cgroup, the journal that lets the next     *)
(* daemon take away what this one left behind, and that recovery.          *)
(*                                                                         *)
(* Two kinds of interface exist. A legacy one is recorded by names and may *)
(* leave its device behind on purpose; an owned one, of TUN failover, is   *)
(* recorded by identity and nothing of it may ever be forgotten.           *)
(*                                                                         *)
(* Every operation holds the engine lock, so operations do not interleave  *)
(* with each other. A step is one system call or one write of the journal: *)
(* a crash, the death of the helper or the end of the cgroup comes between *)
(* any two of them. The device that dies with its descriptor, before it is *)
(* made persistent, is left out.                                           *)
(***************************************************************************)
EXTENDS Integers, Sequences

CONSTANTS
    Faulty,     \* what may fail
    MaxFaults,  \* bound: failures in one behaviour
    MaxCrashes  \* bound: crashes in one behaviour

ASSUME InterfacesAssumption ==
    /\ Faulty \subseteq {"save", "device", "helper", "route", "nft", "mark", "block", "core", "plan"}
    /\ MaxFaults \in Nat /\ MaxCrashes \in Nat

VARIABLES
    kernel,   \* the objects that exist, each with the kind of interface it is of
    chain,    \* the profile's nftables chain
    slice,    \* whether the directory of the profile's cgroup exists
    saved,    \* State in memory: the record of the session and of the cgroup
    disk,     \* State in the file
    session,  \* the session of the profile
    live,     \* Session.interface
    work,     \* what the running operation still has to do
    daemon,   \* whether the daemon runs
    faults,   \* failures so far
    crashes   \* crashes so far

vars == <<kernel, chain, slice, saved, disk, session, live, work, daemon, faults, crashes>>

Kinds == {"legacy", "owned"}
Routing == {"private", "rule", "bypass", "capture"}
Parts == Routing \cup {"device", "helper"}

NoRecord == [kind |-> "none", dirty |-> FALSE, planned |-> FALSE, created |-> FALSE,
             helper |-> FALSE, nft |-> FALSE]
NoInterface ==
    [kind |-> "none", dirty |-> FALSE, planned |-> FALSE, created |-> FALSE,
     fresh |-> FALSE, up |-> FALSE, helper |-> FALSE, tried |-> FALSE, restarts |-> 0,
     cgroup |-> FALSE, chain |-> "off"]
NoSession == [here |-> FALSE, holds |-> TRUE, holding |-> FALSE, core |-> FALSE]
NoState == [session |-> FALSE, interface |-> NoRecord, bound |-> FALSE]
NoWork == [name |-> "idle", todo |-> <<>>, then |-> <<>>, verdict |-> "release",
           deletes |-> FALSE, failed |-> FALSE]

Init ==
    /\ kernel = {} /\ chain = "off" /\ slice = FALSE
    /\ saved = NoState /\ disk = NoState
    /\ session = NoSession /\ live = NoInterface
    /\ work = NoWork
    /\ daemon = TRUE /\ faults = 0 /\ crashes = 0

-----------------------------------------------------------------------------
(* How an operation goes on.                                               *)

\* `then` is done after `todo`, which a failure cuts short. These steps look at
\* `failed` themselves; every other step of `then` is dropped with the failure.
Unconditional == {"stopped", "undone", "rollback", "rejected", "released", "exit",
                  "recovered"}

Running(w) == w.todo # <<>> \/ w.then # <<>>
Idle == daemon /\ ~Running(work)
At(step) == daemon /\ Running(work) /\ Head(work.todo \o work.then)[1] = step
Settled(w) == IF Running(w) THEN w ELSE NoWork

Advanced ==
    Settled(IF work.todo # <<>> THEN [work EXCEPT !.todo = Tail(@)]
                                ELSE [work EXCEPT !.then = Tail(@)])

\* What a failure leaves of the steps that were to follow.
Kept(steps) ==
    LET kept[n \in 0 .. Len(steps)] ==
            IF n = 0 THEN <<>>
            ELSE kept[n - 1] \o (IF steps[n][1] \in Unconditional THEN <<steps[n]>> ELSE <<>>)
    IN  kept[Len(steps)]

Broken ==
    LET rest == IF work.todo # <<>> THEN work.then ELSE Tail(work.then)
    IN  Settled([work EXCEPT !.todo = <<>>, !.failed = TRUE, !.then = Kept(rest)])

Begin(name, todo, then) ==
    Settled([NoWork EXCEPT !.name = name, !.todo = todo, !.then = then])

\* The current step becomes `todo`, followed by `then` and what was left.
Expanded(todo, then, verdict, deletes) ==
    Settled([work EXCEPT !.todo = todo, !.then = then \o Advanced.then,
                         !.verdict = verdict, !.deletes = deletes, !.failed = FALSE])

Works == faults' = faults
Fails(what) ==
    /\ what \in Faulty
    /\ faults < MaxFaults
    /\ faults' = faults + 1

\* State::save writes everything it holds, or nothing.
Saves(state) == Works /\ disk' = state
SaveFails == Fails("save") /\ UNCHANGED disk
TriesToSave(state) == Saves(state) \/ SaveFails

-----------------------------------------------------------------------------
(* What the daemon knows.                                                  *)

\* Interface::state: the identity of an owned interface, the names of a legacy one.
Recorded(interface) ==
    IF interface.kind = "none" THEN NoRecord
    ELSE [kind |-> interface.kind, dirty |-> interface.dirty, planned |-> interface.planned,
          created |-> interface.kind = "legacy" /\ interface.created,
          helper |-> interface.helper,
          nft |-> interface.cgroup \/ interface.chain # "off"]

\* ensure_no_unresolved_owner
Unresolved == saved.interface.kind = "owned" /\ live.kind = "none"

\* ensure_interface_ready
InterfaceReady == ~Unresolved /\ ~live.dirty

\* persist_interface_state, before it saves.
Journal(interface) == [saved EXCEPT !.interface = Recorded(interface)]

\* sync_session leaves the record of an owner alone that this daemon cannot name.
Synced(here, interface) ==
    IF (saved.interface.kind = "owned" /\ interface.kind = "none") \/ ~here THEN saved
    ELSE [saved EXCEPT !.session = TRUE, !.interface = Recorded(interface)]

\* Wrong on purpose: the policy is not asked.
VerdictAlwaysReleases == "release"

\* teardown_verdict
Verdict == IF saved.bound /\ session.holds /\ slice THEN "block" ELSE "release"

\* configure_interface_plan stops the old interface with a block, whatever the policy.
SwitchVerdict == IF saved.bound /\ slice THEN "block" ELSE "release"

-----------------------------------------------------------------------------
(* Objects in the kernel.                                                  *)

Exists(part) == <<live.kind, part>> \in kernel
DeviceExists == \E kind \in Kinds: <<kind, "device">> \in kernel

\* A device takes the routes through it along.
WithoutDevice(kind) == kernel \ {<<kind, part>>: part \in {"device", "capture"}}

UnaffectedByStep == <<slice, session, daemon, crashes>>

AddObject ==
    /\ At("add")
    /\ LET part == Head(work.todo)[2] IN
       \/ /\ Works
          /\ kernel' = kernel \cup {<<live.kind, part>>}
          /\ work' = Advanced
       \/ /\ Fails("route")
          /\ work' = Broken
          /\ UNCHANGED kernel
    /\ UNCHANGED <<UnaffectedByStep, chain, saved, disk, live>>

ObjectKind == IF work.name = "recover" THEN saved.interface.kind ELSE live.kind

\* A helper that is still attached keeps the device of a legacy interface busy.
Busy(part) == part = "device" /\ <<"legacy", "helper">> \in kernel

\* Recovery and an owned interface give up at the first object they cannot delete; the
\* removal of a live legacy interface goes on and reports afterwards.
DeleteObject ==
    /\ At("delete")
    /\ LET part == Head(work.todo)[2] IN
       \/ /\ Works
          /\ ~Busy(part)
          /\ kernel' = IF part = "device" THEN WithoutDevice(ObjectKind)
                       ELSE kernel \ {<<ObjectKind, part>>}
          /\ work' = Advanced
       \/ /\ (Busy(part) /\ Works) \/ Fails("route")
          /\ work' = IF work.name # "recover" /\ live.kind = "legacy"
                     THEN [Advanced EXCEPT !.failed = TRUE] ELSE Broken
          /\ UNCHANGED kernel
    /\ UNCHANGED <<UnaffectedByStep, chain, saved, disk, live>>

-----------------------------------------------------------------------------
(* Starting: start_interface and the two sequences it runs.                *)

LegacyStart ==
    << <<"create">>, <<"journal">>, <<"spawn">>, <<"journal">>, <<"add", "private">>,
       <<"add", "rule">>, <<"add", "bypass">>, <<"add", "capture">>, <<"mark">>, <<"up">> >>

\* Wrong on purpose: the persistent device is made before its record is.
OwnedStartUnjournalled ==
    << <<"create">>, <<"intend">>, <<"spawn">>, <<"journal">>, <<"add", "bypass">>,
       <<"add", "private">>, <<"add", "rule">>, <<"add", "capture">>, <<"mark">>, <<"up">> >>

OwnedStart ==
    << <<"intend">>, <<"create">>, <<"spawn">>, <<"journal">>, <<"add", "bypass">>,
       <<"add", "private">>, <<"add", "rule">>, <<"add", "capture">>, <<"mark">>, <<"up">> >>

\* apply_confirmation_success asks for the interface once traffic is confirmed.
StartInterface ==
    /\ Idle
    /\ session.core /\ live.kind # "none"
    /\ InterfaceReady
    /\ IF live.up
       THEN /\ Works
            /\ work' = Begin("start", << <<"restore">> >>, << <<"rejected">> >>)
            /\ UNCHANGED <<saved, disk>>
       ELSE /\ saved' = Journal(live)
            /\ \/ /\ saved.session
                  /\ Saves(saved')
                  /\ work' = Begin("start",
                                   IF live.kind = "owned" THEN OwnedStart ELSE LegacyStart,
                                   << <<"rollback">>, <<"rejected">> >>)
               \/ /\ SaveFails
                  /\ work' = [Begin("start", <<>>, << <<"rejected">> >>) EXCEPT !.failed = TRUE]
    /\ UNCHANGED <<UnaffectedByStep, kernel, chain, live>>

\* create_persistent attaches to a device that exists; create_exclusive, whose device
\* becomes persistent only here, refuses one.
Create ==
    /\ At("create")
    /\ \/ /\ Works
          /\ live.kind = "owned" => ~DeviceExists
          /\ kernel' = IF DeviceExists THEN kernel ELSE kernel \cup {<<live.kind, "device">>}
          /\ live' = IF DeviceExists THEN live
                     ELSE [live EXCEPT !.created = TRUE, !.fresh = TRUE]
          /\ work' = Advanced
       \/ /\ Fails("device") \/ (Works /\ live.kind = "owned" /\ DeviceExists)
          /\ work' = Broken
          /\ UNCHANGED <<kernel, live>>
    /\ UNCHANGED <<UnaffectedByStep, chain, saved, disk>>

\* plan_owned_interface and commit_owned_intent: the complete identity is on disk.
Intend ==
    /\ At("intend")
    /\ live' = [live EXCEPT !.planned = TRUE]
    /\ saved' = Journal(live')
    /\ \/ Saves(saved') /\ work' = Advanced
       \/ SaveFails /\ work' = Broken
    /\ UNCHANGED <<UnaffectedByStep, kernel, chain>>

WriteJournal ==
    /\ At("journal")
    /\ saved' = Journal(live)
    /\ \/ Saves(saved') /\ work' = Advanced
       \/ SaveFails /\ work' = Broken
    /\ UNCHANGED <<UnaffectedByStep, kernel, chain, live>>

Spawn ==
    /\ At("spawn")
    /\ \/ /\ Works
          /\ kernel' = kernel \cup {<<live.kind, "helper">>}
          /\ live' = [live EXCEPT !.helper = TRUE, !.tried = TRUE]
          /\ work' = Advanced
       \/ /\ Fails("helper")
          /\ live' = [live EXCEPT !.tried = TRUE]
          /\ work' = Broken
          /\ UNCHANGED kernel
    /\ UNCHANGED <<UnaffectedByStep, chain, saved, disk>>

\* The chain becomes a mark again. Without its directory a legacy interface forgets
\* the cgroup, and an owned one refuses.
Mark ==
    /\ At("mark")
    /\ \/ /\ ~live.cgroup
          /\ Works /\ work' = Advanced
          /\ UNCHANGED <<chain, live>>
       \/ /\ live.cgroup /\ slice
          /\ Works /\ work' = Advanced
          /\ chain' = "mark" /\ live' = [live EXCEPT !.chain = "mark"]
       \/ /\ live.cgroup /\ slice
          /\ Fails("nft") /\ work' = Broken
          /\ UNCHANGED <<chain, live>>
       \/ /\ live.cgroup /\ ~slice /\ live.kind = "legacy"
          /\ \/ Works /\ chain' = "off"
             \/ Fails("nft") /\ UNCHANGED chain
          /\ live' = [live EXCEPT !.cgroup = FALSE, !.chain = "off"]
          /\ work' = Advanced
       \/ /\ live.cgroup /\ ~slice /\ live.kind = "owned"
          /\ Works /\ work' = Broken
          /\ UNCHANGED <<chain, live>>
    /\ UNCHANGED <<UnaffectedByStep, kernel, saved, disk>>

\* The interface stands, and the whole state is saved.
Up ==
    /\ At("up")
    /\ live' = [live EXCEPT !.up = TRUE, !.fresh = FALSE]
    /\ saved' = Synced(session.here, live')
    /\ \/ Saves(saved') /\ work' = Begin("start", <<>>, <<>>)
       \/ SaveFails /\ work' = [Begin("start", <<>>, << <<"rejected">> >>) EXCEPT !.failed = TRUE]
    /\ UNCHANGED <<UnaffectedByStep, kernel, chain>>

-----------------------------------------------------------------------------
(* Removing: cleanup_live_interface and what surrounds it.                 *)

\* Wrong on purpose: the routes of marked traffic go before its chain does.
CleanupRoutesFirst(deletes) ==
    IF live.kind = "owned"
    THEN << <<"identify">>, <<"reap">>, <<"delete", "capture">>, <<"delete", "private">>,
            <<"delete", "bypass">>, <<"delete", "rule">>, <<"chain">>, <<"delete", "device">> >>
    ELSE << <<"reap">>, <<"delete", "capture">>, <<"delete", "bypass">>, <<"delete", "rule">>,
            <<"delete", "private">>, <<"chain">> >>

CleanupOf(deletes) ==
    IF live.kind = "owned"
    THEN << <<"identify">>, <<"chain">>, <<"reap">>, <<"delete", "capture">>,
            <<"delete", "private">>, <<"delete", "bypass">>, <<"delete", "rule">>,
            <<"delete", "device">> >>
    ELSE << <<"chain">>, <<"reap">>, <<"delete", "capture">>, <<"delete", "bypass">>,
            <<"delete", "rule">>, <<"delete", "private">> >>
         \o (IF deletes THEN << <<"delete", "device">> >> ELSE <<>>)

\* Every removal of an owned interface says so on disk first. `ends` is the step that
\* reports: "stopped", "deleted" or "undone".
Removal(deletes, ends, verdict) ==
    IF live.kind = "owned"
    THEN /\ live' = [live EXCEPT !.dirty = TRUE]
         /\ saved' = Journal(live')
         /\ \/ Saves(saved') /\ work' = Expanded(CleanupOf(deletes), << <<ends>> >>, verdict, deletes)
            \/ SaveFails /\ work' = Broken
    ELSE /\ Works
         /\ work' = Expanded(CleanupOf(deletes), << <<ends>> >>, verdict, deletes)
         /\ UNCHANGED <<live, saved, disk>>

\* stop_interface_with
Stop ==
    /\ At("stop")
    /\ IF live.kind = "none"
       THEN /\ Works
            /\ work' = IF Unresolved THEN Broken ELSE Advanced
            /\ UNCHANGED <<live, saved, disk>>
       ELSE Removal(work.name = "delete", IF work.name = "delete" THEN "deleted" ELSE "stopped",
                    IF work.name = "switch" THEN SwitchVerdict ELSE Verdict)
    /\ UNCHANGED <<UnaffectedByStep, kernel, chain>>

\* The device still carries the identity that was recorded.
Identify ==
    /\ At("identify")
    /\ live' = [live EXCEPT !.dirty = TRUE, !.up = FALSE]
    /\ \/ Works /\ work' = Advanced
       \/ Fails("device") /\ work' = Broken
    /\ UNCHANGED <<UnaffectedByStep, kernel, chain, saved, disk>>

\* set_chain: whether a chain has to be removed is what the interface remembers of it.
SetChain ==
    /\ At("chain")
    /\ \/ /\ work.verdict = "release" /\ live.chain = "off"
          /\ Works /\ work' = Advanced
          /\ UNCHANGED <<chain, live>>
       \/ /\ work.verdict = "release" /\ live.chain # "off"
          /\ Works /\ work' = Advanced
          /\ chain' = "off" /\ live' = [live EXCEPT !.chain = "off"]
       \/ /\ work.verdict = "release" /\ live.chain = "mark"
          /\ Fails("nft") /\ work' = Broken
          /\ UNCHANGED <<chain, live>>
       \/ /\ work.verdict = "release" /\ live.chain = "block"
          /\ Fails("nft") /\ work' = Advanced
          /\ live' = [live EXCEPT !.chain = "off"]
          /\ UNCHANGED chain
       \/ /\ work.verdict = "block"
          /\ Works /\ slice /\ work' = Advanced
          /\ chain' = "block" /\ live' = [live EXCEPT !.chain = "block"]
       \/ /\ work.verdict = "block"
          /\ Fails("nft") \/ (Works /\ ~slice)
          /\ work' = Broken
          /\ UNCHANGED <<chain, live>>
    /\ UNCHANGED <<UnaffectedByStep, kernel, saved, disk>>

Reap ==
    /\ At("reap")
    /\ Works
    /\ kernel' = IF live.helper THEN kernel \ {<<live.kind, "helper">>} ELSE kernel
    /\ live' = [live EXCEPT !.helper = FALSE, !.up = FALSE, !.fresh = FALSE]
    /\ work' = Advanced
    /\ UNCHANGED <<UnaffectedByStep, chain, saved, disk>>

\* finish_interface_deletion: the record goes only when everything it names is gone;
\* the binding of a released cgroup goes after it.
FinishDeletion ==
    LET gone == [saved EXCEPT !.interface = NoRecord]
        unbound == IF work.verdict = "release" THEN [gone EXCEPT !.bound = FALSE] ELSE gone
    IN  \/ /\ Saves(unbound)
           /\ saved' = unbound /\ live' = NoInterface /\ work' = Advanced
        \/ /\ Fails("save")
           /\ \/ saved' = Journal(live) /\ live' = live /\ UNCHANGED disk
              \/ /\ work.verdict = "release" /\ saved.bound
                 /\ saved' = unbound /\ live' = NoInterface /\ disk' = gone
           /\ work' = Broken

Stopped ==
    /\ At("stopped")
    /\ IF live.kind = "owned" /\ ~work.failed
       THEN FinishDeletion
       ELSE /\ live' = IF work.failed THEN live
                       ELSE [live EXCEPT !.cgroup = (work.verdict = "block")]
            /\ saved' = [Synced(session.here, live')
                           EXCEPT !.bound = @ /\ (work.failed \/ work.verdict = "block")]
            /\ \/ Saves(saved') /\ work' = IF work.failed THEN Broken ELSE Advanced
               \/ SaveFails /\ work' = Broken
    /\ UNCHANGED <<UnaffectedByStep, kernel, chain>>

Deleted ==
    /\ At("deleted")
    /\ IF work.failed
       THEN /\ Works
            /\ work' = Broken
            /\ UNCHANGED <<live, saved, disk>>
       ELSE FinishDeletion
    /\ UNCHANGED <<UnaffectedByStep, kernel, chain>>

\* The start failed: what it did is undone, unless an owned device was not even made.
Rollback ==
    /\ At("rollback")
    /\ IF live.kind = "owned" /\ ~live.created
       THEN /\ Works
            /\ work' = Expanded(<<>>, << <<"undone">> >>, "release", FALSE)
            /\ UNCHANGED <<live, saved, disk>>
       ELSE /\ live' = [live EXCEPT !.dirty = (live.kind = "owned")]
            /\ saved' = Journal(live')
            /\ \/ /\ Saves(saved')
                  /\ work' = Expanded(CleanupOf(live.fresh), << <<"undone">> >>, Verdict,
                                      live.fresh)
               \/ /\ SaveFails
                  /\ work' = [Expanded(<<>>, << <<"undone">> >>, "release", FALSE)
                                 EXCEPT !.failed = TRUE]
    /\ UNCHANGED <<UnaffectedByStep, kernel, chain>>

RolledBack ==
    /\ At("undone")
    /\ live' = IF work.failed \/ (live.kind = "legacy" /\ ~work.deletes) THEN live
               ELSE [live EXCEPT !.created = FALSE]
    /\ saved' = Synced(session.here, live')
    /\ TriesToSave(saved')
    /\ work' = [Advanced EXCEPT !.failed = TRUE]
    /\ UNCHANGED <<UnaffectedByStep, kernel, chain>>

\* confirmation_failed: nothing, the hold, or stop_session.
Rejected ==
    /\ At("rejected")
    /\ \/ /\ ~work.failed
          /\ Works /\ work' = Advanced
          /\ UNCHANGED <<session, saved, disk>>
       \/ /\ work.failed
          /\ live.kind = "owned" /\ ~live.up
          /\ session' = [session EXCEPT !.core = FALSE, !.holding = FALSE]
          /\ saved' = Synced(session.here, live)
          /\ TriesToSave(saved')
          /\ work' = Advanced
       \/ /\ work.failed
          /\ live.up /\ (session.holds \/ live.kind = "owned")
          /\ session' = [session EXCEPT !.core = FALSE, !.holding = TRUE]
          /\ Works /\ work' = Advanced
          /\ UNCHANGED <<saved, disk>>
       \/ /\ work.failed
          /\ live.kind # "owned" /\ ~(live.up /\ session.holds)
          /\ Works
          /\ work' = Expanded(<< <<"stop">> >>, << <<"released">> >>, "release", FALSE)
          /\ UNCHANGED <<session, saved, disk>>
    /\ UNCHANGED <<slice, daemon, crashes, kernel, chain, live>>

\* The rest of stop_session, whether the interface could be stopped or not.
Released ==
    /\ At("released")
    /\ session' = [session EXCEPT !.core = FALSE, !.holding = FALSE]
    /\ saved' = Synced(session.here, live)
    /\ TriesToSave(saved')
    /\ work' = Advanced
    /\ UNCHANGED <<slice, daemon, crashes, kernel, chain, live>>

-----------------------------------------------------------------------------
(* What the daemon is asked for, and what happens to it.                   *)

\* configure_interface_plan, once nothing is in the way.
PlannedInterface(kind) ==
    [NoInterface EXCEPT !.kind = kind, !.planned = (kind = "legacy"),
                        !.created = (kind = "legacy" /\ (live.created \/ ~DeviceExists)),
                        !.cgroup = (saved.bound /\ slice)]

\* A cgroup that ended is forgotten while the plan is made.
UnboundIfEnded ==
    IF saved.bound /\ ~slice
    THEN saved' = [saved EXCEPT !.bound = FALSE] /\ TriesToSave(saved')
    ELSE Works /\ UNCHANGED <<saved, disk>>

\* Up, Connect and a chosen pool, until the generation is claimed: prepare_session, the
\* policy, and the plan the profile asks for. Failover takes a new session and a device
\* that does not exist, and holds.
Plan(kind, holds) ==
    /\ Idle
    /\ InterfaceReady /\ live.kind # "owned"
    /\ kind = "owned" => ~session.here /\ ~DeviceExists /\ holds
    /\ session' = [session EXCEPT !.here = TRUE, !.holds = holds]
    /\ IF live.kind = "none"
       THEN /\ live' = IF kind = "none" THEN NoInterface ELSE PlannedInterface(kind)
            /\ IF kind = "none" THEN Works /\ UNCHANGED <<saved, disk>> ELSE UnboundIfEnded
            /\ UNCHANGED work
       ELSE /\ Works
            /\ work' = IF kind = "none"
                       THEN Begin("disable", << <<"stop">> >>, << <<"forget">> >>)
                       ELSE Begin("switch", << <<"stop">> >>, << <<"plan">> >>)
            /\ UNCHANGED <<live, saved, disk>>
    /\ UNCHANGED <<kernel, chain, slice, daemon, crashes>>

\* The new plan replaces the stopped interface; it may not be found.
Replan ==
    /\ At("plan")
    /\ \/ /\ live' = PlannedInterface("legacy")
          /\ work' = Advanced
          /\ UnboundIfEnded
       \/ /\ Fails("plan")
          /\ work' = Broken
          /\ UNCHANGED <<live, saved, disk>>
    /\ UNCHANGED <<UnaffectedByStep, kernel, chain>>

Forget ==
    /\ At("forget")
    /\ Works
    /\ live' = NoInterface
    /\ work' = Advanced
    /\ UNCHANGED <<UnaffectedByStep, kernel, chain, saved, disk>>

\* connect_session: a held interface is left in place for the new core.
Connect ==
    /\ Idle
    /\ session.here /\ InterfaceReady
    /\ Works
    /\ work' = Begin("connect",
                     IF live.kind = "owned" /\ live.up THEN << <<"restore">> >>
                     ELSE IF ~session.holding /\ live.kind = "legacy" /\ (live.up \/ live.helper)
                     THEN << <<"stop">> >> ELSE <<>>,
                     << <<"launch">> >>)
    /\ UNCHANGED <<UnaffectedByStep, kernel, chain, saved, disk, live>>

Launch ==
    /\ At("launch")
    /\ \/ /\ session' = [session EXCEPT !.core = TRUE]
          /\ saved' = Synced(TRUE, live)
          /\ TriesToSave(saved')
          /\ work' = Advanced
       \/ /\ Fails("core")
          /\ session' = [session EXCEPT !.core = FALSE]
          /\ work' = Broken
          /\ UNCHANGED <<saved, disk>>
    /\ UNCHANGED <<slice, daemon, crashes, kernel, chain, live>>

\* ensure_interface_helper: an owned helper is restarted once, a legacy one as often as
\* it dies; routes are not touched.
Restore ==
    /\ At("restore")
    /\ \/ /\ ~live.up \/ live.helper
          /\ Works /\ work' = Advanced
          /\ UNCHANGED <<kernel, live>>
       \/ /\ live.up /\ ~live.helper
          /\ live.kind = "owned" /\ live.tried /\ live.restarts = 1
          /\ Works /\ work' = Broken
          /\ UNCHANGED <<kernel, live>>
       \/ /\ live.up /\ ~live.helper
          /\ live.kind = "owned" /\ live.tried => live.restarts = 0
          /\ LET admitted == [live EXCEPT !.tried = TRUE,
                                !.restarts = IF live.kind = "owned" /\ live.tried THEN 1 ELSE @]
             IN \/ /\ Works
                   /\ kernel' = kernel \cup {<<live.kind, "helper">>}
                   /\ live' = [admitted EXCEPT !.helper = TRUE]
                   /\ work' = [work EXCEPT !.todo = << <<"rejournal">> >>]
                \/ /\ Fails("helper")
                   /\ live' = admitted
                   /\ work' = Broken
                   /\ UNCHANGED kernel
    /\ UNCHANGED <<UnaffectedByStep, chain, saved, disk>>

\* finish_helper_persistence: a helper whose record cannot be written is stopped again.
Rejournal ==
    /\ At("rejournal")
    /\ saved' = Journal(live)
    /\ \/ /\ Saves(saved')
          /\ work' = Advanced
          /\ UNCHANGED <<kernel, live>>
       \/ /\ SaveFails
          /\ kernel' = kernel \ {<<live.kind, "helper">>}
          /\ live' = [live EXCEPT !.helper = FALSE, !.tried = TRUE, !.restarts = 1]
          /\ work' = Broken
    /\ UNCHANGED <<UnaffectedByStep, chain>>

\* The sweep restores a helper that died.
Supervise ==
    /\ Idle
    /\ session.core /\ InterfaceReady
    /\ live.up /\ ~live.helper
    /\ Works
    /\ work' = Begin("supervise", << <<"restore">> >>, <<>>)
    /\ UNCHANGED <<UnaffectedByStep, kernel, chain, saved, disk, live>>

\* note_core_exit
CoreExits ==
    /\ Idle
    /\ session.core
    /\ Works
    /\ IF session.holds \/ live.kind = "owned"
       THEN /\ session' = [session EXCEPT !.core = FALSE, !.holding = TRUE]
            /\ UNCHANGED work
       ELSE /\ session' = [session EXCEPT !.core = FALSE]
            /\ work' = Begin("release", << <<"stop">> >>, <<>>)
    /\ UNCHANGED <<slice, daemon, crashes, kernel, chain, saved, disk, live>>

\* confirmation_failed, for a check that found no traffic.
ConfirmationFailed ==
    /\ Idle
    /\ session.core
    /\ Works
    /\ work' = [Begin("fail", <<>>, << <<"rejected">> >>) EXCEPT !.failed = TRUE]
    /\ UNCHANGED <<UnaffectedByStep, kernel, chain, saved, disk, live>>

\* confirm_traffic
Confirmed ==
    /\ Idle
    /\ session.core /\ session.holding
    /\ Works
    /\ session' = [session EXCEPT !.holding = FALSE]
    /\ UNCHANGED <<slice, daemon, crashes, kernel, chain, saved, disk, live, work>>

\* disconnect_if_active_within, for a profile whose server is gone.
ServerGone ==
    /\ Idle
    /\ session.core
    /\ IF live.kind = "owned"
       THEN /\ session' = [session EXCEPT !.core = FALSE, !.holding = TRUE]
            /\ saved' = Synced(TRUE, live)
            /\ TriesToSave(saved')
            /\ UNCHANGED work
       ELSE /\ Works
            /\ work' = Begin("stop", << <<"stop">> >>, << <<"released">> >>)
            /\ UNCHANGED <<session, saved, disk>>
    /\ UNCHANGED <<slice, daemon, crashes, kernel, chain, live>>

\* remove_session, by `down`.
Down ==
    /\ Idle
    /\ session.here
    /\ Works
    /\ work' = Begin("down", << <<"stop">> >>, << <<"removed">> >>)
    /\ UNCHANGED <<UnaffectedByStep, kernel, chain, saved, disk, live>>

Removed ==
    /\ At("removed")
    /\ session' = NoSession /\ live' = NoInterface
    /\ LET without == [saved EXCEPT !.session = FALSE, !.interface = NoRecord] IN
       \/ Saves(without) /\ saved' = without /\ work' = Advanced
       \/ SaveFails /\ UNCHANGED saved /\ work' = Broken
    /\ UNCHANGED <<slice, daemon, crashes, kernel, chain>>

\* delete_interface, by `tun --down`.
DeleteInterface ==
    /\ Idle
    /\ live.kind # "none"
    /\ Works
    /\ work' = Begin("delete", << <<"stop">> >>, <<>>)
    /\ UNCHANGED <<UnaffectedByStep, kernel, chain, saved, disk, live>>

\* `oxidom run`: the scope is there, with a directory of its own when the last one
\* ended, and mark_cgroup binds it. A chain made for an older directory matches nobody.
RunScope ==
    /\ Idle
    /\ live.up
    /\ slice' = TRUE
    /\ chain' = IF ~slice /\ chain # "off" THEN "stale" ELSE chain
    /\ live' = [live EXCEPT !.cgroup = TRUE]
    /\ LET bound == [saved EXCEPT !.bound = TRUE]
           journalled == [Journal(live') EXCEPT !.bound = TRUE] IN
       \/ /\ Saves(journalled) /\ saved' = journalled
          /\ work' = Begin("run", << <<"install">> >>, <<>>)
       \/ /\ Fails("save")
          /\ \/ saved' = bound /\ UNCHANGED disk
             \/ saved' = journalled /\ disk' = bound
          /\ UNCHANGED work
    /\ UNCHANGED <<session, daemon, crashes, kernel>>

\* Wrong on purpose: an interface that remembers a mark does not write it again.
InstallOnce ==
    /\ At("install")
    /\ Works
    /\ chain' = IF live.chain = "mark" THEN chain ELSE "mark"
    /\ live' = [live EXCEPT !.chain = "mark"]
    /\ work' = Advanced
    /\ UNCHANGED <<UnaffectedByStep, kernel, saved, disk>>

\* The rule is written even over an earlier one, whose directory may be gone. If it is not,
\* the binding is given up, and an error of the two writes that say so is ignored.
Install ==
    /\ At("install")
    /\ \/ /\ Works /\ slice
          /\ chain' = "mark"
          /\ live' = [live EXCEPT !.chain = "mark"]
          /\ work' = Advanced
          /\ UNCHANGED <<saved, disk>>
       \/ /\ live' = [live EXCEPT !.chain = "off", !.cgroup = FALSE]
          /\ saved' = [Journal(live') EXCEPT !.bound = FALSE]
          /\ \/ (Fails("mark") \/ (~slice /\ Works)) /\ disk' = saved'
             \/ /\ "save" \in Faulty
                /\ Fails("mark") \/ (~slice /\ Fails("save"))
                /\ disk' \in {disk, [saved EXCEPT !.bound = FALSE]}
          /\ work' = Broken
          /\ UNCHANGED chain
    /\ UNCHANGED <<UnaffectedByStep, kernel>>

\* shutdown keeps what recovery could not clean.
Shutdown ==
    /\ Idle
    /\ Works
    /\ work' = IF session.here /\ (saved.interface.kind = "none" \/ live.kind # "none")
               THEN Begin("down", << <<"stop">> >>, << <<"removed">>, <<"exit">> >>)
               ELSE Begin("down", <<>>, << <<"exit">> >>)
    /\ UNCHANGED <<UnaffectedByStep, kernel, chain, saved, disk, live>>

\* The memory of the daemon is lost.
Gone ==
    /\ daemon' = FALSE
    /\ saved' = NoState /\ session' = NoSession /\ live' = NoInterface
    /\ work' = NoWork

\* A helper is stopped when its handle is dropped,
Exit ==
    /\ At("exit")
    /\ Works
    /\ kernel' = IF live.helper THEN kernel \ {<<live.kind, "helper">>} ELSE kernel
    /\ Gone
    /\ UNCHANGED <<slice, crashes, chain, disk>>

\* and survives a crash.
Crash ==
    /\ daemon
    /\ crashes < MaxCrashes
    /\ crashes' = crashes + 1
    /\ Works
    /\ Gone
    /\ UNCHANGED <<kernel, chain, slice, disk>>

\* Whoever looks for a helper does so at the beginning of an operation.
HelperDies ==
    /\ Idle \/ ~daemon
    /\ \E kind \in Kinds:
         /\ <<kind, "helper">> \in kernel
         /\ kernel' = kernel \ {<<kind, "helper">>}
         /\ live' = IF live.kind = kind THEN [live EXCEPT !.helper = FALSE] ELSE live
    /\ Works
    /\ UNCHANGED <<UnaffectedByStep, chain, saved, disk, work>>

\* The last process of the scope ended, and systemd removes the directory.
SliceEnds ==
    /\ slice
    /\ slice' = FALSE
    /\ Works
    /\ UNCHANGED <<kernel, chain, saved, disk, session, live, work, daemon, crashes>>

-----------------------------------------------------------------------------
(* Recovery: load_checked, recover and recover_interface.                  *)

\* Wrong on purpose: sessions are not rebuilt from the records before they are recovered.
BootUnlisted ==
    /\ ~daemon
    /\ daemon' = TRUE
    /\ saved' = disk
    /\ session' = NoSession
    /\ work' = NoWork
    /\ Works
    /\ UNCHANGED <<kernel, chain, slice, disk, live, crashes>>

Boot ==
    /\ ~daemon
    /\ daemon' = TRUE
    /\ saved' = disk
    /\ session' = [NoSession EXCEPT !.here = disk.session]
    /\ work' = [NoWork EXCEPT !.name = "recover", !.todo = << <<"chains">> >>,
                              !.then = << <<"recovered">> >>]
    /\ Works
    /\ UNCHANGED <<kernel, chain, slice, disk, live, crashes>>

\* What recovery takes away, in its order.
RecoveryOf(state) ==
    LET record == state.interface
        unchain == IF record.nft /\ ~state.bound THEN << <<"unchain">> >> ELSE <<>>
        device == << <<"delete", "device">> >>
    IN  CASE record.kind = "owned" ->
                << <<"reintend">>, <<"recognise">>, <<"kill">> >> \o unchain
                \o << <<"delete", "capture">>, <<"delete", "private">>, <<"delete", "bypass">>,
                      <<"delete", "rule">> >> \o device
          [] record.kind = "legacy" ->
                unchain \o << <<"kill">>, <<"delete", "capture">>, <<"delete", "bypass">>,
                              <<"delete", "rule">>, <<"delete", "private">> >>
                \o (IF record.created THEN device ELSE <<>>)
          [] OTHER -> <<>>

\* recover_run_cgroups. That the block could not be put back is only logged.
RecoverChains ==
    /\ At("chains")
    /\ saved' = [saved EXCEPT !.bound = @ /\ slice]
    /\ \/ /\ Works
          /\ chain' = IF ~saved.bound THEN chain ELSE IF slice THEN "block" ELSE "off"
       \/ /\ saved.bound
          /\ Fails(IF slice THEN "block" ELSE "nft")
          /\ UNCHANGED chain
    /\ work' = [work EXCEPT !.todo = RecoveryOf(saved')]
    /\ UNCHANGED <<UnaffectedByStep, kernel, disk, live>>

IntendAgain ==
    /\ At("reintend")
    /\ saved' = [saved EXCEPT !.interface.dirty = TRUE]
    /\ \/ Saves(saved') /\ work' = Advanced
       \/ SaveFails /\ work' = Broken
    /\ UNCHANGED <<UnaffectedByStep, kernel, chain, live>>

Recognise ==
    /\ At("recognise")
    /\ \/ Works /\ work' = Advanced
       \/ Fails("device") /\ work' = Broken
    /\ UNCHANGED <<UnaffectedByStep, kernel, chain, saved, disk, live>>

Kill ==
    /\ At("kill")
    /\ \/ /\ Works
          /\ kernel' = IF saved.interface.helper
                       THEN kernel \ {<<saved.interface.kind, "helper">>} ELSE kernel
          /\ work' = Advanced
       \/ /\ saved.interface.helper
          /\ Fails("helper")
          /\ work' = Broken
          /\ UNCHANGED kernel
    /\ UNCHANGED <<UnaffectedByStep, chain, saved, disk, live>>

Unchain ==
    /\ At("unchain")
    /\ \/ Works /\ chain' = "off" /\ work' = Advanced
       \/ Fails("nft") /\ work' = Broken /\ UNCHANGED chain
    /\ UNCHANGED <<UnaffectedByStep, kernel, saved, disk, live>>

\* A session that was cleaned is forgotten; one whose pool core still runs is kept
\* without its interface; one whose core would not stop is kept for the next start.
Recovered ==
    /\ At("recovered")
    /\ work' = Advanced
    /\ \E adopted \in {FALSE} \cup {saved.session /\ saved.interface.kind # "owned"}:
         LET stays == adopted \/ work.failed
         IN \/ /\ saved' = [saved EXCEPT !.session = @ /\ stays,
                                         !.interface = IF work.failed THEN @ ELSE NoRecord]
               /\ session' = [session EXCEPT !.here = @ /\ stays, !.core = adopted]
               /\ IF saved' = saved /\ saved.bound = disk.bound
                  THEN Works /\ UNCHANGED disk ELSE TriesToSave(saved')
            \/ /\ Fails("core")
               /\ IF saved.bound = disk.bound THEN UNCHANGED disk ELSE disk' = saved
               /\ UNCHANGED <<saved, session>>
    /\ UNCHANGED <<slice, daemon, crashes, kernel, chain, live>>

-----------------------------------------------------------------------------
Next ==
    \/ \E kind \in Kinds \cup {"none"}, holds \in BOOLEAN: Plan(kind, holds)
    \/ Connect \/ StartInterface \/ Supervise \/ Confirmed \/ ConfirmationFailed
    \/ CoreExits \/ ServerGone \/ Down \/ DeleteInterface \/ RunScope \/ Shutdown
    \/ Create \/ Intend \/ WriteJournal \/ Spawn \/ AddObject \/ Mark \/ Up
    \/ Stop \/ Identify \/ SetChain \/ Reap \/ DeleteObject \/ Stopped \/ Deleted
    \/ Rollback \/ RolledBack \/ Rejected \/ Released
    \/ Replan \/ Forget \/ Launch \/ Restore \/ Rejournal \/ Removed \/ Install \/ Exit
    \/ Crash \/ HelperDies \/ SliceEnds
    \/ Boot \/ RecoverChains \/ IntendAgain \/ Recognise \/ Kill \/ Unchain \/ Recovered

Spec == Init /\ [][Next]_vars

-----------------------------------------------------------------------------
(* Properties.                                                             *)

TypeOK ==
    /\ kernel \subseteq Kinds \X Parts
    /\ chain \in {"off", "mark", "block", "stale"}
    /\ slice \in BOOLEAN /\ daemon \in BOOLEAN
    /\ faults \in 0..MaxFaults /\ crashes \in 0..MaxCrashes
    /\ live.kind \in Kinds \cup {"none"} /\ live.chain \in {"off", "mark", "block"}
    /\ live.restarts \in 0..1
    /\ live.kind # "none" => session.here
    /\ work.verdict \in {"release", "block"}

\* Whatever fails and whenever the daemon dies: while the persistent device, a route or
\* the rule of an owned interface exists, the state file names its complete identity.
OwnedRemembered ==
    kernel \cap ({"owned"} \X (Routing \cup {"device"})) # {} =>
        disk.interface.kind = "owned" /\ disk.interface.planned

\* As long as nothing failed, the state file knows of every route and rule of a legacy
\* interface; crashes are no failures here.
LegacyRemembered ==
    faults = 0 /\ kernel \cap ({"legacy"} \X Routing) # {} => disk.interface.kind = "legacy"

\* What is in the kernel can be found again and taken down by the next daemon.
Remembered == OwnedRemembered /\ LegacyRemembered

\* A cgroup that is marked always finds the rule and the table its mark leads to: its
\* chain is changed before they go and after they came.
MarkIsCarried ==
    chain = "mark" /\ slice => \E kind \in Kinds: {kind} \X {"rule", "private"} \subseteq kernel

\* Traffic is captured into an owned interface only while the servers it reaches them
\* through are exempt.
CaptureFollowsBypass ==
    <<"owned", "capture">> \in kernel => <<"owned", "bypass">> \in kernel

\* At every step of an installation, a teardown or a recovery, what sends traffic
\* somewhere comes after what carries it there, and goes before it.
RoutesInOrder == MarkIsCarried /\ CaptureFollowsBypass

\* Between operations, as long as nothing failed, a running cgroup that is bound is marked
\* or blocked, and its traffic never leaves on the ordinary route.
BoundIsProtected ==
    Idle /\ faults = 0 /\ saved.bound /\ slice => chain \in {"mark", "block"}

\* A daemon that has no session, after `down`, a shutdown or a recovery in which nothing
\* failed, has left no route and no rule of an interface.
NothingLeftBehind ==
    Idle /\ faults = 0 /\ ~session.here => kernel \cap (Kinds \X Routing) = {}

\* A reconnect of a session that holds its traffic leaves every route where it was.
HeldRoutesStay ==
    [][work.name = "connect" /\ session.holding /\ daemon' =>
         kernel \cap (Kinds \X Routing) \subseteq kernel']_vars

\* As long as nothing failed, a running cgroup that is bound under a policy of holding
\* stays bound: through switches, `down`, the exit of the core, crashes and recoveries.
HeldStaysBound ==
    [][faults' = 0 /\ disk.bound /\ slice /\ slice' /\ session.here /\ session.holds
         => disk'.bound]_vars

\* Traffic that is held stays held, in the routes and in the cgroup.
HoldStands == HeldRoutesStay /\ HeldStaysBound

\* No running cgroup stays blocked after the daemon forgot it.
BlockIsRecorded == Idle /\ faults = 0 /\ chain = "block" /\ slice => saved.bound
=============================================================================
