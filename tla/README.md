# Oxidom: models, checks and proofs

oxidom is a daemon that runs [Xray](https://github.com/XTLS/Xray-core) cores for a
user: it keeps subscriptions of servers, starts a core for a profile, proves that
the core carries traffic, measures servers, and recovers connections that die. A
command line and a desktop client talk to it over D-Bus. This directory holds TLA+
models of the daemon's own logic, TLC configurations that check them on small
instances, and TLAPS proofs of what matters most for every instance.

All paths below are relative to the repository's root; `daemon.rs` is
`crates/oxidom/src/daemon.rs`, `engine.rs` is `crates/oxidom-core/src/engine.rs`.

## Inventory

### How the daemon is put together

D-Bus methods are served by **one executor thread**, so two methods never interleave,
except that a method may hand its last part to a thread of its own. Everything else
runs beside them: the supervisor that polls for dead cores, one confirmation thread
per launched core, one reconnect loop per retry, one failover worker per activation,
the watchdog, the probe workers, the subscription worker and the standby listeners.
They share one `Shared` object with eighteen locks. A handler works in critical sections
of the engine lock and does its network I/O (a probe takes seconds) between them, with
copies of what it read before.

What ties the sections together are receipts: the **connect generation** (replaced by
every explicit start), the **incarnation and spawn number** of a core, and the retry's
generation. A late result is applied when its receipt is current. Most of the
program's difficulty is in that sentence.

### Components

| Component | Source | State | Operations | What makes it correct |
|---|---|---|---|---|
| Failover policy | `oxidom-core/src/failover.rs` | one `Activation`: current, visited, attempts, in flight, armed, cooldown | new, begin_episode, next, admit, attempt_failed, confirm_success, disarm, progress | sequential, bounded, spaced and revocable starts; the walk always finds the member it decided on |
| Failover in the daemon | `daemon/failover.rs` | the entry of the running activation: subject, automatic, worker, backoff, confirming | install, bind, admission, failure, success, helper failure, worker, reconciliation | every attempt is settled, every open episode has one worker, an owned generation has no legacy reconnect |
| Connection lifecycle | `daemon.rs` | generation, override, retry, session per profile | up, connect, down, confirmation, sweep, reconnect, settings, profile and catalog edits | running is proved; the reported status, schedules and loops agree |
| Engine sessions | `engine.rs`, `xray/core.rs` | session, core incarnation, interface, hold | prepare, connect, stop, note_core_exit, confirm_traffic, confirmation_failed | a hold outlives recoveries; a stop stops everything |
| Probe pipeline | `daemon.rs` (ProbeQueue) | running, queued, readings | enqueue, pump, start_now, cancel, retain_alive, terminal clear | a target waits once, a check never vanishes, a free slot is used |
| Admission and termination | `daemon/lifecycle.rs`, `terminate` | closed, active, condition variable, commit lock, kept result | enter, commit, wait, close, drain | nothing accepted after closure, cleanup alone and once, termination ends |
| Retry facts | `daemon/runtime.rs` | backoff, attempting, allowed, health | begin, disable, idle | agree with the loop that runs |
| Locks of the daemon | `daemon.rs`, `daemon/failover.rs` | the eighteen locks of `Shared` | every bus call and worker | one order; facts after the gate |
| Watchdog | `daemon.rs` | streaks of unanswered checks, epochs, readings, health | ask, note, recover, publish | a restart has evidence against that core; what is shown was measured through it |
| Owned interfaces and recovery, run cgroups | `engine.rs`, `oxidom-core/src/tun` | plan, device, routes, helper, chain of a cgroup, journal | start, stop, switch, delete, bind, release, recover after a crash | whatever exists is remembered on disk, traffic is carried or blocked, nothing is left behind |
| Subscription updates, servers, handles | `engine.rs`, `subscription.rs`, `alias.rs` | servers per subscription, overrides, handles | prepare, fetch without a lock, merge; every edit of the catalog | a late fetch overwrites nothing that was edited, handles are unique |
| Log book and its feed | `oxidom-core/src/logbook.rs`, `oxidom-gui/src/gui/logfeed.rs` | the daemon's ring, the client's ring, a cursor, held records, the view | push, read from a cursor, clear, absorb, release | the view is one log: each line once, in its place, gaps announced |
| Diagnostics: recorder | `crates/oxidom/src/diagnostics.rs` | buckets, what was lost | record, flush, fence, append | every fact is written, held, or counted as missing once |
| Diagnostics: journal | `oxidom-core/src/diagnostics.rs`, `diagnostics/reader.rs` | two generations of a file, a lock, cursors | append, repair, rotate, page | what was acknowledged stays, pages have no silent hole |
| Desktop client | `oxidom-gui/src/gui/{window,reduce,operation,recovery}.rs` | the snapshot on display, the pinned status, epochs, workers, the binding | operate, poll, deliver, recover, clear the log | not the frame from before a click, unless the user raises the epoch; the truth in the end |
| Standby proxy | `daemon.rs` | direct listeners | reconcile, open, close | never on the ports beside a core |
| Store lease, daemon discovery, system proxy, pools, geo data, parsers, command line, platform helpers | see `PROJECT.json` | | | |

`PROJECT.json` lists every component with its sources and its status, and the hazards
with the line where each one bites.

### What is hard about it

- **Late results.** A confirmation, a captured death or a decided failover start is
  applied seconds after it was read; the session, the profile file, the catalog and
  the settings may be different by then.
- **Two recoveries.** Saved-profile failover and the legacy same-target reconnect react
  to the same death, and only one of them may.
- **Flags and threads.** Worker flags, retry schedules and the "reconnecting" status
  describe threads that end on a dozen different exits.
- **Holds.** A TUN session that holds must keep its routes through a recovery, while
  most ways of starting and failing a core give routes up.
- **Closure.** Termination races with tickets, commits and timed waits.
- **Half-finished kernel state.** An interface is a dozen system calls and journal
  writes; each may fail and the daemon may die between any two of them.
- **Copies of copies.** The log is a ring read into a feed that merges another ring; the
  journal is read while it is repaired and rotated; the desktop client shows a status
  ahead of the daemon and must find back to it.
- **Queues past their cap.** Confirmations jump the probe queue, and pruning uses a set
  of servers captured under another lock.

## Modules

| Module | Models | Uses |
|---|---|---|
| `SequentialRecovery` | the contract of automatic recovery, abstractly | |
| `FailoverPolicy` | the methods of `Activation` as operators on a record | |
| `Activation` | the policy object under an arbitrary caller | `FailoverPolicy`; implements `SequentialRecovery` |
| `Connection` | one profile's connection: daemon, failover entry, sessions, threads | `FailoverPolicy`; implements `SequentialRecovery` |
| `Interfaces` | the interface and the cgroup of one profile, step by step, with crashes | |
| `ProbePipeline`, `MCProbePipeline` | the probe queue and its threads | |
| `Lifecycle` | admission, commits and termination | |
| `LockDiscipline` | the contract of the lock order, abstractly | |
| `LockUse` | what each function of the daemon does with the locks | |
| `LockOrder` | threads that run these functions | implements `LockDiscipline` |
| `Watchdog` | checks, streaks, readings and health of one session | |
| `Catalog` | servers, handles, edits and updates | |
| `LogFeed` | the daemon's log book and the client's view of it | |
| `Recorder`, `Journal` | the two halves of diagnostics: what is written, and the file | |
| `Desktop` | what the desktop client shows of its daemon | |
| `MCParts`, `MCLifecycle` | instances: a behaviour is one of the modules they extend | |
| `MCRecovery` | instances of `Connection`: a proxy-only profile, or an interface that holds | |
| `ConnectionProofs`, `InterfacesProofs`, `InterfacesOrderProofs`, `LockDisciplineProofs` | theorems about the module of the name | TLAPS |
| `PartsProofs` | theorems about `Activation`, `Watchdog`, `Journal` and `Catalog` | TLAPS |
| `FrameProofs` | theorems about `Lifecycle`, `LockOrder`, `Recorder` and `Desktop` | TLAPS, `LockDisciplineProofs` |
| `ReportProofs` | theorems about `ProbePipeline` and `LogFeed` | TLAPS, `InductionLemmas` |
| `InductionLemmas` | lemmas on induction over the naturals and on functions built by recursion | TLAPS |

Definitions commented "Wrong on purpose" are plausible bugs in the operation below
them. No specification uses them; replacing the operation by one of them must make a
run fail, which shows that the property it is paired with in `PROJECT.json` ("mutants")
depends on the code it is about.

`MCParts` and `MCLifecycle` put modules that share no state side by side: the variable
`part` is chosen once and only that module's steps are taken. This is not a composition
(the parts do not interact in the code either); it is one run with several questions.
Their variables differ in name so that they can be extended together. `MCRecovery` does the
same with instances of one module, whose policies and bounds differ from part to part.

Most modules state their types as `TypeOK` (`ActivationTypeOK` and so on). They are proved
for `Activation`, `Connection`, `Lifecycle`, `Watchdog`, `Interfaces`, `ProbePipeline` and
`Catalog`, and the types of `Desktop`, `LockOrder`, `Recorder`, `Journal` and `LogFeed` are part of their
inductive invariants. They are not repeated in the configurations.

### SequentialRecovery, FailoverPolicy, Activation

`SequentialRecovery` has four variables: the grant (absent, armed, revoked), the stage
of the episode (idle, waiting, trying), the members already ruled out, and the rest
before the next automatic start. It says: only an armed grant starts anybody, one
member at a time, none twice, never the member that failed first, at most
`MaxAttempts` of them, at least `Cooldown` apart, also across episodes.

`FailoverPolicy` is `Activation` of `failover.rs`, one operator per method, with the
`ensure!`s as guards (`CanBeginEpisode`, `CanAdmit`, `IsInFlight`). Members are indices.
Instants are the ticks that remain until them. `Kind` is the decision of `next()` and
`IsNext` the member it names, in cyclic order after the current one. `Activation` lets
any method come at any time; a method that returns an error changes nothing.

### Connection

| Variable | In the code |
|---|---|
| `shared.generation`, `shared.override` | `Shared.connect_generation`, `status_override` |
| `shared.retry` | `RuntimeFacts.retry` of the profile: generation, attempting, allowed |
| `shared.entry` | `Activations`' entry of the profile |
| `shared.session` | the engine's `Session`: core, pending, target, interface, holding |
| `shared.recoverers` | `run_failover` threads and how far they are |
| `starts` | D-Bus handlers between `claim_generation` and their start |
| `confirms` | `confirm_connection` threads, with what they captured |
| `deaths` | captured deaths between the supervisor and `claim_reconnect` |
| `redials` | `reconnect` loops |
| `saved`, `catalog`, `reconnect` | the profile file, the members among the servers, the setting |
| `standby` | the direct listeners are open |
| `closed`, `stopped` | the lifecycle; the end of `terminate` |

A critical section of the engine lock is one action. A handler that drops the lock is
several actions: `Up` and `Connect` end in `claim_generation`, and `ExplicitStart` is the
start that follows. Every start goes through `Refused`, `Failed` or `Launched`
(`start_connection_target_captured`), whatever its origin, and `Accepts`, `Refusal` and
`Admission` say what the three origins do differently. `Confirm` is the last section of
`confirm_connection` with all its outcomes: committed, interface failed, core died under
it, failed, stale. `Sweep` and `WatchRecover` detect deaths, `BeginReconnect` and
`ClaimReconnect` hand them on, `RedialStart`, `RedialComplete` and `RedialAgain` are one
round of the reconnect loop, `RecovererDecide`, `RecovererStart` and `RecovererError` one
round of the failover worker. `ReconcileStandby` is separate because the code calls it
after it dropped the lock. `Down` and `DeleteInterface` may fail before they touch the
interface or after they took it down (`HalfDeleted`).

Left out of `Connection`: pools (a target is one server), the system proxy, run
cgroups, readings, probe slots and diagnostics, the adoption of sessions at start
(`Init` is a daemon with no session), and the content of policies and TUN envelopes. The
kernel side of an interface is one step that may fail; `Interfaces` has it in full. Where the
code stops an interface on its own account and only warns when that fails (`stop_session`,
`note_core_exit` without a hold), `InterfaceStopped` is the stop that goes through: what a
failed one leaves in the kernel, and who finds it, is again the subject of `Interfaces`.

### Interfaces

| Variable | In the code |
|---|---|
| `kernel` | devices, routes, rules and helper processes, each of the kind of interface it is of |
| `chain`, `slice` | the nftables chain of the profile's cgroup; whether the cgroup exists |
| `saved`, `disk` | `State` in memory and in the file: the records of session, interface and cgroup |
| `session`, `live` | `Session` and its `Interface` |
| `work` | what the running operation still has to do, and what follows if it does not fail |
| `daemon`, `faults`, `crashes` | whether it runs; failures and crashes so far |

Every operation holds the engine lock, so one runs at a time, and an action is one system
call or one write of the state file. `Plan` begins a start or a switch; `Create`,
`Intend`, `WriteJournal`, `Spawn`, `AddObject`, `Mark` and `Up` are the steps of
`Interface::start` in the order the two kinds need; `Stop` ... `Reap`, `DeleteObject`,
`Stopped`, `Deleted` those of a removal; `Rollback` and `Rejected` what a failed start
does. `Install` is the mark that `run` writes again; if that fails the binding is given up,
and an error of the writes that say so is ignored, as in the code. `Boot` is the next
daemon: `RecoverChains`, `IntendAgain`, `Recognise`, `Kill`, `Unchain`, `Recovered` are `recover` and `recover_owned`. `Crash` comes between any two
steps, `HelperDies` while no operation runs, and `SliceEnds` whenever the user's process
ends. A call that fails (`Broken`) cuts off the steps left and goes on with those that look
at the failure: a start rolls back, a removal keeps its record for the next attempt.

Left out: addresses and the choice of tables, several profiles, and the device that
vanishes with its descriptor before it was made persistent.

### ProbePipeline

`queued` and `running` are the two halves of `ProbeQueue`; a running job carries the step
of the thread behind it. `pumps` counts the threads inside `pump_probes`. `Request` is
`enqueue_probe` and `enqueue_session_probe`, `PumpStarts` and `PumpReturns` are one round
of `pump_probes`, `Spawn`, `Measure` and `Finish` the worker, `StartNow` and `ConfirmEnds`
the slot of a confirmation, `Cancel` is `cancel_probes`, and `Edit`, `CaptureAlive`,
`PruneReadings` and `PruneQueue` an edit of the subscriptions with its `prune_readings`,
which takes three locks one after the other. What is measured is left out: a reading
is there or not.

### Lifecycle

`closed`, `active` and the condition variable of `lifecycle.rs` (a sleeper is asleep or
woken), the engine and commit locks as owners, and per caller of `terminate` where it
is. A worker enters, works, sleeps, takes the locks, asks whether the daemon is open
and changes something, or leaves. `close` sets the flag in one critical section and
notifies in a later one, as the code does.

### LockDiscipline, LockUse, LockOrder

`LockDiscipline` is the promise the comments on `Shared` make, for any locks and any
ranks: a thread asks for a lock only above all it holds. `LockUse` has one definition per
bus call or worker, the sequence of what it takes, gives back and emits, with the
sequence of every callee spliced in at its place, so that a lock taken three calls deep
is taken there. `LockOrder` runs them: a thread may skip any stretch that leaves it with
the locks it had, which covers every branch and early return. What a function must be by
itself is `Orderly`: it leaves with no lock, asks for its locks in the one order, emits facts
with no lock held but the queue of subscription updates, and is at the identity of a session
only under its gate. `RunsAreOrderly` checks this of every function; that threads which run
orderly functions implement `LockDiscipline` is proved from it, for any number of them.
`FactsFollowTheGate` says the two rules about facts and identities of the threads themselves.

### Watchdog

One session with its core (a run number stands for the incarnation), the generation, and
three kinds of measurement that hold no lock while they last: probes of the session,
confirmations, and the watchdog's check. `Capture`, `Measure` and `Publish` are a probe;
`Watch`, `Ask`, `Answer`, `Note` and `Recover` a round of the watchdog; `PruneLooks` and
`PruneCleans` the cleaning of readings. A measurement may have its answer, none, or fail
for a local reason, which the code tells apart. `missed` counts what the running core
left unanswered and is there only to state the property.

### Catalog

Subscriptions with their servers; a server has the identity its parser derived, its
overrides with the value under them, and its handle. `update` is the one update that
holds `subscription_work`: prepared, fetching, merged. Between these the user may add,
edit, replace, move and remove subscriptions and servers, choose handles, and start
sessions. `Refreshed` is `preserve_server_identity` with its greedy matching by identity,
then by connection, then by what only an override changed, and the re-layering of overrides;
`MergedAll` merges the targets one after the other. `AssignAliases` is `alias::assign`: the
handles that an earlier server has are cleared, then the servers without one are named one
after the other. What the code does in a loop is a recursive function on `0 .. n` here.

### LogFeed

The daemon's book is a ring with numbers; the client reads it from a cursor with a poll
and with whatever operation just ended, holds records for the reordering window and
merges them with its own book. A gap is announced in the view. `Legacy` is a daemon
without cursors, of which each answer is the whole book. A new daemon is a new book.
The client's binding goes with a daemon that is replaced (`Restart`) or with a call that fails
although the daemon stays (`CallFails`), and comes back with the recovery (`Rebind`). What
the code filters and sorts is said by recursive functions: `Picked` keeps what stands at
some positions, in its order, and `ByTime` goes through the moments, which is the stable
sort of `absorb`. `FeedAssumption` says that the capacity and the limit are at least one,
as the constants in the code are, and that the window fits into the time of the run.

### Recorder, Journal

`Recorder` is `DiagnosticsRuntime` with `Persistence`: equal watchdog observations are
summed up in buckets, a full or displaced bucket is written, and what could not be
written is counted until a record of the gap is. Counters run out at `MaxOrdinal` and
`MaxCount` as they do at `u64::MAX`. `Journal` is the file: `access()` in its steps under
a lock two processes compete for (open, repair of an unfinished line, rotation, append in
two parts, acknowledgement), each of which may fail or be the last of its process; and
the reader, whose cursor names an inode and an offset. Numbers of inodes are given again.

### Desktop

| Variable | In the code |
|---|---|
| `daemon` | whether it runs, which run it is, and what it answers |
| `ui` | `SnapshotState` and what is on display: the last report, the pin, the operations |
| `binding` | the run of the daemon the client is bound to; whether it is ready |
| `jobs` | the workers of `client_job` until their result is applied |
| `poll`, `hydration` | the poll's worker and its slot; the worker of a recovery |
| `spent` | operations, epochs raised otherwise, changes of cores, and troubles so far |

`BeginJob` is `client_job` with the status its caller pins; `WorkEnds`, `FollowUp` and
`Deliver` are the call, the snapshot after it, and `finish_operation` with the caller's
completion. `TimerTicks` is the timer of 500 ms: it applies a stored reading, asks for the
next, or recovers. Instead of an epoch number a reading carries whether its epoch is
still the client's, and a worker whether its epoch and its binding are. `RaiseEpoch` is the user
who clears the log or chooses another profile: these do nothing to the daemon's status, but
what was under way comes under an older epoch. `ui.disturbed` is history: it remembers that
this happened during the last operation on the connection, until a reading of what became
of it is applied.

## Runs

"States" are the distinct states of the run.

| Run | Asks | States |
|---|---|---|
| `parts` | five parts, each alone: `activation` (accounting, refinement of `SequentialRecovery`; 145 states), `catalog` (updates against edits; 398 k), `watchdog` (evidence, readings; 848 k), `log` (the merged view; 594 k), `journal` (acknowledged records, pages; 526 k) | 2.36 M |
| `failover` | one profile with failover while the user replaces it, changes its ports and edits it: attempts settle, episodes have their worker, no legacy reconnect, no armed grant without its file and catalog; there are fewer members than budget (1.73 M). Beside it a TUN profile that holds, owned or redialed: the routes stay through recoveries (530 k) | 2.26 M |
| `failover_budget` | three members, two attempts, file edited behind the daemon's back, ports changed, aggressive watchdog, direct listeners: the daemon's entry refines `SequentialRecovery`; under fair threads an open episode moves on and an owned death is taken up; the listeners stay shut | 307 k |
| `reconnect` | same-target reconnect under replacement, stops, settings, catalog: loops, schedules and status agree; "running" is proved; under fair threads an unwanted retry ends and a closing daemon drains | 340 k |
| `probes` | one server, two profiles, two slots and one confirmation: no double waiting, the cap, a reading for every check that leaves, and waiting ends under fair threads | 467 k |
| `lifecycle` | four parts, each alone: termination (three workers, two callers), the locks (every path of every function), the recorder, and the desktop client | 467 k |
| `interfaces` | one interface of either kind and one cgroup, one failure and two crashes anywhere | 3.2 M |
| `restarted_ports`, `replaced_target`, `probe_slots`, `leaked_block`, `dropped_snapshot` | each shows one disagreement between the code and what a doc, a comment or a test says; see below | |

What the passing runs show, beyond the table of `PROJECT.json`:

- `interfaces`: `Remembered` (what is in the kernel can be found by the next daemon),
  `RoutesInOrder` (at *every* step, what sends traffic somewhere comes after what carries
  it there), `BoundIsProtected` and `HoldStands` (bound traffic of a holding policy never
  leaves on the ordinary route, through switches, exits and crashes), and
  `NothingLeftBehind` (a daemon without a session left no route and no rule).
- `parts`: `EditsStand`, `RunningIsListed`, `HandlesAreUnique` and `HwidIsConsented` of the
  catalog; `RestartHasEvidence` and `ShownIsOwn` of the watchdog; `ViewIsALog` and
  `OursStay` of the log; `AcknowledgedStands` and `PagesAreContinuous` of the journal.
- `lifecycle`: `AcceptedBeforeClosure`, `EndsOnce`, `Terminates`; `FactsFollowTheGate` and
  `RunsAreOrderly` of the locks; `FactsAreAccounted` of the recorder; `ShownIsSettled`
  and `SettlesOnTruth` of the desktop client.

### Bounds, and why they are enough

- *Numbers.* Generations, incarnations, spawn numbers and tokens are only compared for
  equality. A number nobody holds is issued again, so the models are finite without
  cutting executions short. `MaxGenerations` bounds the generations held **at one time**,
  by the session and by threads that have yet to notice that they are stale. With 2 there
  is a current and a stale generation, which is what a receipt can confuse.
- *Threads.* `MaxThreads` bounds explicit starts, confirmations, deaths and reconnect
  loops together when another is asked for. With 2 every pair of kinds meets. Threads
  that recovery itself makes are not cut off. The interface of `failover` is redialed with two
  generations and two threads; owned by failover it has two generations and one thread, or one
  generation and two threads. The two together (2.6 M states) were checked by hand.
- *Members and attempts.* Two members and two attempts give success, failure and an
  episode that has tried everybody with budget left; three members and two attempts
  give a second attempt in one episode; `Activation` has four members and two attempts,
  so that a spent budget leaves members untried. The proofs have any number.
- *Time.* `Cooldown` and `Backoff` are one or two ticks: the worker must wait, and the two
  deadlines are reached in either order. Every other wait may end at any time.
- *Probes.* A check of the server waits behind, beside and ahead of those of two profiles,
  and may be overtaken, cancelled and pruned; `MaxPumps` 2 lets two threads pump at once.
- *Interfaces.* With one failure and two crashes, the second crash can interrupt the
  recovery from the first. Two failures with one crash (7 M states) were checked by hand
  with the same result.
- *Locks.* One thread, which may run any function, so that `RunsAreOrderly` shows
  `FunctionsAreOrderly`: every function of `LockUse` is orderly by itself. What any number of
  threads does together is proved from that. Two threads (1 M states) were checked by hand.
- *Watchdog.* Both modes conclude from the second miss, so that a streak can be completed by
  another core, generation or mode; two runs and two generations are an old and a new one.
  The proofs have any number of strikes, runs and generations.
- *Catalog.* Two subscriptions and the local group may have the same server; a feed may send
  an entry again changed, renamed or beside another; three edits and two updates let an
  edit fall before, into and after an update that follows another.
- *Log.* Books, held records and view of two records with three written, so that every ring
  drops; a page of one record, so that reading takes several rounds. Two events (7 M
  states) were checked by hand.
- *Journal.* Generations of two records and five records written: two rotations, which is
  what it takes for a cursor's inode to be given again. Two writers are the daemon that runs
  and one that starts.
- *Recorder.* Two buckets for five keys, of two observations, so that buckets fill and are
  displaced; the ordinal runs out after six of eight facts, the counts after three.
- *Desktop.* Two operations, which may be the stop beside a fetch, one epoch raised otherwise,
  one change of a core and one trouble. The inductive invariant was checked by hand with two
  servers, two operations and two raises (1.9 M states).
- *Symmetry* is used in `probe_slots`, which has no liveness: no action or property names a
  server, a profile or a handler.

### Fairness

- `Connection!FairSpec`: weak fairness per generation of each kind of thread, of the
  supervisor's sweep, of the timer and of the shutdown after the drain. Every wait in
  these threads has a timeout in the code (probe timeouts, reconnect delays, the
  cooldown), and the engine lock is never held across one. Nothing is promised of the
  user, the core, the watchdog or the standby listeners.
- `ProbePipeline!FairSpec`: weak fairness of pumps and of each probe worker, whose
  measurements have timeouts. Requests and confirmations need not come or end: a
  confirmation may hold its slot for ever, and `WaitingEnds` is checked where there are
  fewer confirmations than slots.
- `Lifecycle!FairSpec`: per worker, weak fairness of going on with what it has begun, and
  of leaving once the daemon is closed; per caller of `terminate`, strong fairness of
  taking a lock (a lock that is free again and again is granted in the end) and weak
  fairness of the rest. Timeouts are **not** fair, so `Terminates` shows that a sleeper is
  woken, not that its time runs out. `Terminates` says that again and again every caller
  of `terminate` is out or has returned: none is stuck inside.
- `DesktopFairness`: weak fairness of each worker's next step (every bus call has a
  deadline), of the client's loop with its poll and recovery, of the deadline of a pinned
  status, and of the start of a daemon that ended (bus activation). Nothing is asked of the
  user, and troubles are bounded: a client whose every call fails settles on nothing.
- `MCLifecycle!FrameFairness` writes the last two out, each under its part; `FairSpec` and
  `DesktopSpec` are the specifications of the modules alone.

### Disagreements the runs show

- `restarted_ports`: a port change during a reconnect attempt replaces the generation
  without clearing the override (`daemon.rs:4736`). The core works, "reconnecting" stays
  and nothing is scheduled; the next death of that core is not redialed.
- `replaced_target`: `connect` claims its generation before it starts (`daemon.rs:4008`).
  If the core it replaces dies in the gap, that death carries the new generation and the
  replaced server is redialed over the chosen one.
- `probe_slots`: a slot a confirmation releases is not offered to the check that waits
  for it (`daemon.rs:2430`).
- `dropped_snapshot`: clearing the log, or choosing another profile, raises the client's epoch
  (`window.rs:1731`), also during an Up. If the daemon then refuses that Up, `finish_operation`
  says that its snapshot is outdated (`reduce.rs:269`) and it is dropped (`window.rs:4204`);
  `finish_up_profile` unpins all the same and counts on "the worker's snapshot" to say what is
  up (`window.rs:3629`). A status that a poll read before the refusal stays on display until the
  next poll.
- `leaked_block`: a switch that plans the interface anew blocks the bound cgroup, and the new
  `Interface` remembers no chain (`engine.rs:2217`). If its core exits before it stands,
  the release finds nothing to do and the record of the cgroup goes: the name stays
  blocked with nobody to undo it.

`ShownIsSettled` excludes the case of `dropped_snapshot` by name (`ui.disturbed`): a client
whose user raised the epoch during the last operation may show the frame from before it, until
the next reading. `ReconnectingMeansRetrying` holds in `reconnect`, where ports do not change, and fails in
`restarted_ports`. `StandbyYields` holds in `failover_budget`, where nobody replaces a server
by another; with such a replacement the defect of `replaced_target` also opens the direct
listeners while the stale retry is scheduled. `DepartureLeavesReading` holds in `probes`,
where a removed server stays away: if its content comes back before a prune with the older
set of servers, the prune drops the check that waits for it without a reading
(`daemon.rs:2685`). Each passing run says in its configuration what it excludes.

### Observations without a run

Behaviours met while modelling that the modules have or exclude, and that no line of the
docs clearly contradicts, or that need more than the bounds:

- *Interfaces.* A re-installation of the mark that fails forgets a mark that is still in
  force (`mark_cgroup`; the fault "mark" is excluded). A recovery whose block fails takes
  the routes all the same, against the comment at `engine.rs:1235` (the fault "block" is
  excluded). An explicit `down` after a failed legacy recovery drops the record of what was
  left. `LegacyRemembered` and `NothingLeftBehind` therefore speak of runs in which nothing
  failed; `OwnedRemembered` does not need that.
- *Catalog.* The matching of fetched to known servers is greedy: a feed that lists two
  entries of one connection can give both the identity of one known server
  (`docs/subscriptions-and-protocols.md:52`). The feeds of `parts` have no such pair.
- *Log.* After a clear with unread lines, rounds of an idle book announce the same gap
  again (`logfeed.rs`, the branch without a cursor). A clear does not reset
  `released_ours`, so after a restart of the daemon the client's cleared lines come back
  (`docs/gui.md:503`). An older daemon, which has no cursor, is modelled without restarts (the
  client refuses to bind to another run of one, `client.rs:98`) and without failed calls: after
  a call that failed while it stayed, the next round delivers the client's own lines again
  (`reset_pending`, `logfeed.rs:107`, `logfeed.rs:230`) beside its own book read from the start
  (the local cursor of zero, `logfeed.rs:124`), and they are on screen twice for a round.
- *Journal.* A cursor at offset zero says nothing of the content of its file: after two
  rotations that give its inode again, it skips records without a gap.
  `PagesAreContinuous` states this exception.
- *Desktop.* A disconnect that fails leaves "disconnected" shown until the deadline of the
  pin, although the tunnel is up (`window.rs:3366`). An operation whose catalog cannot be
  read keeps the old catalog on display without a recovery (`window.rs:4140`); the module
  excludes it. An older worker's snapshot may be applied after a newer poll and is
  corrected by the next one.

## Proofs

Every theorem is about every value of the constants that the named assumption of its module
allows; the assumptions say what the code validates, or keep model values apart.
`InductionLemmas` is the ground of what is proved of loops: `NaturalSteps` is induction over
the naturals for a set (the library's rule takes an operator, which the provers cannot
instantiate), and `RecursionBuilds` says that a function on `0 .. n` with given steps exists,
so that a recursive function of a model is the one its definition describes.

### Activation (`PartsProofs`)

For every number of members (at least two), every budget and every cooldown (at least one),
which is what `validate()` accepts (`FailoverPolicy!PolicyAssumption`):

| Theorem | Says |
|---|---|
| `TypeCorrect` | `ActivationSpec => []ActivationTypeOK` |
| `AccountingCorrect` | `ActivationSpec => []EpisodeAccounting` |
| `AttemptHasMember` | `ActivationSpec => []AttemptNamesACandidate`: the `expect` in `next()` never panics |
| `Refinement` | `ActivationSpec => ImplementsRecovery`: the object implements `SequentialRecovery` |

The argument: `TypeOK` is inductive by itself. `TypeOK /\ EpisodeAccounting` is inductive:
an episode opens only outside an episode, where nothing is visited, and so visits
exactly one member; an admission visits a member that was not visited and counts one
attempt, so the cardinality of the visited set stays one ahead of the count
(`BegunIsAccounted`, `AdmittedIsAccounted`). The accounting is what the other two need. The
current member of an episode is visited, hence a member that is not visited is another
one, the set of open members is not empty, and the walk stops at the nearest of them
(`WalkStops`, from the well-foundedness of the naturals). For the refinement, the
contract counts ruled-out members and the object counts attempts; the accounting turns
`attempts < MaxAttempts` into `Cardinality(tried) <= MaxAttempts`.

### Admission and termination (`FrameProofs`)

For any finite number of workers and any number of callers of `terminate`
(`Lifecycle!LifecycleAssumption`, which only keeps the two apart):

| Theorem | Says |
|---|---|
| `TypeCorrect` | `Spec => []TypeOK` |
| `Acceptance` | `Spec => []AcceptedBeforeClosure`: no accepted transition or commit is in progress after closure |
| `CleanUpComesLast` | `Spec => []CleanUpIsAlone`: the shutdown of the engine finds every ticket back |
| `OneCleanUp` | `Spec => []OneResult`: all callers return the result of the one cleanup |
| `TerminationIsFinal` | `Spec => []EndsOnce`: the two together, as the run checks them |

The argument: `active` is the number of workers that are not out (`Counted`, by adding or
removing one member of a finite set), so it never leaves the naturals although `Leave`
subtracts. Whoever is inside a critical section owns its lock (`LocksOwned`); `close()` is
reached with both locks, so nobody else is inside a section, and none of them is accepted
once the flag is set. Whoever is past `close()` finds the daemon closed, and whoever is
past `drain()` found `active` zero (`PastClosure`): by `Counted` no worker is left, and
`Enter` refuses new ones, so this stays true. The kept result is set once and copied from
then on (`Kept`). Lemmas on `Awakened` and `DrainersAwakened` say what a notification may
do to everyone else: nothing, but for those who sleep.

### Locks (`LockDisciplineProofs`, `FrameProofs`)

`LockDisciplineProofs` proves for any set of threads and of locks, finite or not; the first
theorem assumes ranks between zero and some number:

| Theorem | Says |
|---|---|
| `NeverACircle` | `Spec => []NoCircle`: no set of threads waits for each other in a circle |
| `AlwaysExclusive` | `Spec => []Exclusive`: no lock is held by two threads |

The argument: it is inductive that whoever asks for a lock asks above all it holds
(`Ordered`). Among threads that all wait for locks of each other, take one that asks for
the highest lock, which exists because ranks are bounded: its holder is in the circle too,
and asks for a lock above it.

`FrameProofs` adds for any number of threads and for any functions (`LockOrderAssumption`:
functions are sequences of steps, and being idle is neither a function nor a lock), assuming
`FunctionsAreOrderly`:

| Theorem | Says |
|---|---|
| `LocksFollowTheFunctions` | `LocksSpec => []LocksInv`: what a thread holds is what its function took and did not give back |
| `FactsAlwaysFollowTheGate` | `LocksSpec => []FactsFollowTheGate` |
| `ThreadsAreDisciplined` | `LocksSpec => ImplementsDiscipline`: threads implement `LockDiscipline` |
| `ThreadsNeverWaitInACircle` | the two theorems above, of these threads |

`FunctionsAreOrderly` is a fact about the concrete functions of `LockUse`, which the
`lifecycle` run shows (`RunsAreOrderly`). The proof is what carries it from one thread to all: a
thread that skips a stretch arrives where the same locks are held (`Reaches`), so whatever
path it takes it holds `HeldBefore` of the place it is at.

### Watchdog (`PartsProofs`)

For any number of strikes per mode (`Constants`: positive for both modes that conclude, and
`None` is no check) and any bounds:

| Theorem | Says |
|---|---|
| `WatchdogTypeCorrect` | `Spec => []TypeOK` |
| `RestartIsAlwaysEarned` | `Spec => RestartHasEvidence`: only a core that itself missed the checks is restarted |
| `ShownIsAlwaysOwn` | `Spec => []ShownIsOwn`: what is shown was measured through the core there is |

The argument: `Inv` adds to the types that a check and a streak are no younger than the
present and the streak no younger than the check (`Dated`), that the streak of the core
that runs counts no check but those the core missed (`StreakIsMissed`), that a check that
found silence is one of them (`SilentIsMissed`), and that a check on its way to a restart
ends as many in a row as the mode asks for (`DeadIsMissed`). The dates are what keeps the
evidence against one core from passing for another's: the generation, the run and the
change of the mode it names never come again. `ShownIsOwn` is inductive beside
`Inv`: a reading is published only where its subject is the session's present run.

### Connection (`ConnectionProofs`)

For every number of members, budget, cooldown, backoff, sets of
grants and of catalogs, and any number of generations and threads (`PolicyAssumption` and
`ConnectionAssumption`, which say what the code validates):

| Theorem | Says |
|---|---|
| `TypeCorrect` | `Spec => []TypeOK` |
| `FailoverExcludesReconnect` | `Spec => []OwnedSuppressesLegacy` |
| `EntryCarriesOutContract` | `Spec => ImplementsRecovery`: the daemon's entry, under all its threads, implements `SequentialRecovery` |
| `EpisodesAreAttended` | `Spec => []EpisodeIsAttended`: one worker for an armed episode, one confirmation for an attempt |
| `RunningOnlyIfProved` | `Spec => RunningIsProved` |
| `HoldsOutliveRecovery` | `Spec => HoldOutlivesRecovery` |
| `RetryFollowed` | `Spec => []RetryHasOneLoop` |
| `StandbyWaits` | `Spec => StandbyStaysShut` |
| `GrantsStand` | `Spec => []ArmedGrantStands`, assuming `~ExternalEdits` |
| `ReconnectingIsRetrying` | `Spec => []ReconnectingMeansRetrying`, assuming `~PortChanges` |
| `StandbyExcluded` | `Spec => StandbyYields`, assuming `~Tun` |

The three assumptions are those of the runs that check the same properties, and each is
needed: a profile file that is edited behind the daemon's back is read only at the next
start, a change of the ports forgets the retry and keeps the status (`restarted_ports`), and a
profile whose interface holds its routes may hold them without a core beside open listeners.

The argument. `Base` is inductive: `TypeOK`, that the threads are finitely many, and that a
closed daemon has no generation, a schedule is of the current generation and the session is
sound (`Grounded`). It is proved once per operator that changes the shared state and then
once per action; `NextCases` names the actions and every later invariant is proved against
it. On top of `Base`, each by itself:

- `OwnedInv` adds to `OwnedSuppressesLegacy` that no death of an owned generation is on its
  way to `claim_reconnect`: that is the only place where a legacy loop begins.
- `EntryAccounted` is the accounting of the activation, of an entry. It is preserved
  because the daemon changes an entry by methods of the policy only; the refinement then maps
  each action to the method it calls, or to a stutter.
- `OnceInv` says that a generation is started by one handler, and that a confirmation of
  failover's has an entry. `LoopInv` says that two loops of one generation are after
  different servers, and that one the status no longer names has nothing left to redial. With
  them a schedule has its loop (`RetryHasLoop`).
- `EpisodeInv` is what makes an episode move on: the entry knows which attempt is automatic
  and for whom, the attempt is bound to the run that the session carries, the `worker` flag is
  there exactly when there is a worker, and a worker past its decision still may do what it
  decided. `InFlightHasConfirmation` follows that attempt to its confirmation.
- `StandbyInv` says that beside open listeners nothing runs, nothing is held, and a session
  that failover owns is the one its Up has just prepared.

`RunningIsProved`, `HoldOutlivesRecovery` and `StandbyStaysShut` are about single steps and
follow from `Base`. A stop or deletion of the interface that fails halfway ends a hold too; the
second of these says so.

Two properties were sharpened while they were proved. `HoldOutlivesRecovery` had been read by
TLC in a weaker way than it was meant, and says now that the whole hold stays. `StandbyYields`
now says of every loop that is still wanted, and of every generation that failover owns,
that the listeners wait for it.

### Desktop client (`FrameProofs`)

For any number of servers and any bounds (`Desktop!NothingAssumption`: no operation is called nothing):

| Theorem | Says |
|---|---|
| `ClientIsConsistent` | `DesktopSpec => []Inv` |
| `ShownIsAlwaysSettled` | `DesktopSpec => []ShownIsSettled`: the frame from before a click does not come back, unless the user raised the epoch before the operation returned |

The argument: the operation and the urgent stop on display are the workers of the binding,
one each (`Slots`), so that an operation on the connection is on display and is the only one
(`OnConnectionShows`). It outdates everything that was under way and nothing current begins
beside it (`Foremost`). Only a user who raises the epoch outdates the operation itself: then
the screen is disturbed, or what is shown, and what is in the slot, was read after it was
carried out (`Early`). What a worker brings under a current epoch was therefore read when no
operation was to be carried out (`BringsSettled`); a current poll that read too early, and the
status it left on display, wait for an operation that is still there and will outdate them, or
the screen is disturbed (`PollSettled`, `Awaited`). A binding that is retired leaves nobody who
is listened to (`RetiredConsistent`). `RaiseEpochInv` is the step that disturbs; a reading of
what became of the operation ends it.

### Interfaces (`InterfacesProofs`, `InterfacesOrderProofs`)

`InterfacesProofs` proves for any number of failures and crashes, and for any set of steps
that may fail (`Interfaces!InterfacesAssumption`):

| Theorem | Says |
|---|---|
| `InterfacesAreTyped` | `Spec => []TypeOK` |
| `RememberedHolds` | `Spec => []Remembered`: what is in the kernel is in the state file |
| `NothingIsLeftBehind` | `Spec => []NothingLeftBehind` |

The argument. What the running operation still has to do, `work.todo`, and what follows it,
`work.then`, are lists, and an invariant about a step in the middle of an installation is
about what is still in the list. `Control` says which lists there are: `work.then` is one of
twenty-one (`Thens`), its first step (`Stage`) says what the operation is about, and
`work.todo` has only steps of that kind (`Shaped`). `Has` and `Before` say that a step is
still to come, and that it comes before another; `TailKeeps` that this stays so as the list
is worked off, `CleanupIs` and `RecoveryIs` that a teardown and a recovery have all it takes.
One lemma per group of actions then says what they change (`BuildStep`, `CleanStep`, ...,
`WorldStep`), and each invariant is proved against these:

- `Owned`: whatever fails, an object of an owned interface is named on disk and by the daemon
  (`OwnedKnown`). An installation that has still something to create has named it, or begins
  with the naming (`OwnedIntended`); a removal or a recovery that nothing failed in still has
  to delete every object there is (`OwnedCleaned`, `OwnedRecovered`), so that the record
  is dropped only when nothing is left (`OwnedGone`).
- `Routed`: the same of the routes of both kinds, as long as nothing failed. A legacy device
  may stay behind without a record, its routes may not; that a recovery deletes routes
  before the device matters, because a device that is busy cuts the rest off.

`InterfacesOrderProofs` goes on from there:

| Theorem | Says |
|---|---|
| `CaptureHolds` | `Spec => []CaptureFollowsBypass`, whatever fails |
| `RoutesHold` | `Spec => []RoutesInOrder`, assuming that "mark" and "block" do not fail |
| `HoldHolds` | `Spec => HoldStands`, whatever fails |
| `BoundHolds` | `Spec => []BoundIsProtected`: between operations a running, bound cgroup is marked or blocked, as long as nothing failed |

The assumption of `RoutesHold` is that of `Interfaces.cfg`, and each part is needed: see the first of the
observations above. Everything else may fail, any number of times.

The argument:

- `Exempted`: an installation that has not exempted the servers yet does so before it
  captures, and a removal or a recovery that still finds them captured stops that before
  they are exempt no more. A rollback is where both meet: it begins with whatever the
  installation left.
- `Marking`: a running cgroup that is marked has the rule and the table of some interface
  (`MarkKnown`), is bound on disk, and a daemon knows of it: its interface remembers the mark
  and carries it, or the recovery has its chains still to do. This is what a removal needs in
  order to find the chain it must change first, and what lets a crash at any step be
  followed by a block before the routes go. `MarkBuilt` and `MarkCleaned` are about the
  order of the lists; `MarkReported` and `MarkGone` say that a removal that succeeded, or
  one whose interface is about to be forgotten, left no mark; `Installing` that `run` marks
  a scope only when it is bound on disk, on an interface that stands.
- `Holding`, for `HoldHolds`: a connection comes to a stop of the interface only for a session
  that holds nothing (`ConnectHolds`); of what is bound on disk the daemon knows
  (`BoundKnown`); and a removal of bound traffic under a policy of holding, or to plan the
  interface anew, has the verdict to block (`VerdictKept`). `Steady` is what every step but a
  decision on the policy keeps of these.

- `Listed` and `Helped`, for `BoundHolds`: what the lists of a running operation look like when
  nothing failed (an installation, a removal and a recovery each in full; a switch in the
  stages it goes through), and that a device in force has the helper that is known, or a block
  in force somebody who will undo it. On top of these `Protected` says where a bound, running
  cgroup may be without mark and block: before the recovery looked at its chains, just before
  its mark, or while a removal that goes through releases it on purpose (`Guarded`), and
  then nothing keeps the device busy that it deletes (`Loosed`).

### Probe pipeline (`ReportProofs`)

For any finite sets of servers and profiles, any number of handlers that prune, any cap
(at least one) and any bounds (`PipelineAssumption`, which keeps servers and profiles apart):

| Theorem | Says |
|---|---|
| `TypesHold` | `Spec => []TypeOK`, tokens included |
| `ChecksStayBounded` | `Spec => []ChecksAreBounded` |
| `DeparturesLeaveReadings` | `Spec => DepartureLeavesReading` |

The argument: `PipelineInv` is `TypeOK`, that no target is there twice and the pump and the
confirmations keep to their caps (`Occupied`), and that who was measured has an entry as long
as its server is in the catalog, while an edit that prunes captured everything the catalog
still has (`Entered`). The caps are cardinalities of parts of `running`, followed one job at a
time. `Selected` says what is left of the queue when only some targets stay: jobs of the
queue, in its order, each once, and all of those targets. A token nobody has exists since
there are fewer jobs than tokens.

### Log (`ReportProofs`)

For any capacity, limit and reordering window and any bounds (`FeedAssumption`):

| Theorem | Says |
|---|---|
| `ViewIsAlwaysALog` | `FeedSpec => []ViewIsALog` |
| `OursAlwaysStay` | `FeedSpec => OursStay` |

The inductive invariant is `FeedInv`. A daemon without a cursor is a case of its own
(`OldDaemon`): each round replaces what is held and resets the view, so that nothing is shown
twice, and nothing is promised about the order. For any other daemon:

- `Replied`: what was answered is a piece of the book the client is bound to, for a cursor the
  feed has reached or passed, and the last answer reaches no further than the feed's cursor.
- `ShownOnce`: a record is on screen, held, or still to come. What is shown or held is behind
  the cursors, and nothing is both. This is why dropping what the cursor has passed
  (`Fresh`) is enough for `NeverTwice`, also when the poll and an operation asked from the
  same cursor (`RoundShows`).
- `AllTold`: a record written before an answer was given is not after what the answer
  reached, unless it was gone by then. It relates the moments of records to the cursors: with
  an answer no older than the window, what is still to come is younger than what is
  released. `InTime` is what follows for the view, what is held and the client's own
  records, and gives `InOrder` (`RoundInTime`).
- `OursKept`: the client's lines on screen are among those kept for the next reset, unless
  these fill their capacity; `OursStay` needs it in a round that resets.

`NoSilentGap` is inductive beside these: a round moves the cursor by what it takes and by
what it says is missing (`RoundAccounts`). Sequences are reasoned about by what stands in
them: `Picked` keeps the order and the distinctness of what it picks, and `ByTime` is a
rearrangement in order, each by induction over how far the recursion is.

### Recorder (`FrameProofs`)

`FactsAlwaysAccounted` is `RecorderSpec => []FactsAreAccounted`, for any number of keys, sizes of
buckets and limits of counts (`RecorderAssumption`). The inductive `RecorderInv` is about one
number, `Account`: what is written, what was excused, what is counted as missing, what the
buckets hold and what waits to be written. A step moves occurrences from one to another; each
of the reductions (`Accounts`) is shown to keep their sum, a loop over the buckets by
induction over how many it has seen. The account is never more than there were facts, and less
only where a counter ran out, which the gap says.

### Journal (`PartsProofs`)

For any number of processes, any capacity of a file and any length of a page
(`JournalAssumption`):

| Theorem | Says |
|---|---|
| `AcknowledgedAlwaysStands` | `JournalSpec => AcknowledgedStands` |
| `PagesAlwaysContinue` | `JournalSpec => []PagesAreContinuous` |

The argument: `JournalInv` says that the two generations are different files (`FilesDiffer`)
and that the process with the lock finds the current one as it left it, with the record it
writes behind all others and nobody's success (`WritesAlone`). `PagesTold` relates both
generations and the reader to the history of complete lines: the generations hold the last of
it in order (`GenerationsTold`, `Tells`), who writes goes on after it (`HistoryGoesOn`), the
cursor stands for its first lines (`CursorTold`): by the last of those it consumed or, if it
consumed none, by its file; and a page is the stretch it says it is (`PageTold`).

### Catalog (`PartsProofs`)

For any subscriptions, feeds, drafts and handles and any number of edits and updates
(`CatalogAssumption`: the local group is not a URL, a feed is a sequence of entries, an absent
value is none of the values, and a suggested handle none that is absent):

| Theorem | Says |
|---|---|
| `HandlesAreAlwaysUnique` | `CatalogSpec => []HandlesAreUnique` |
| `RunningIsAlwaysListed` | `CatalogSpec => []RunningIsListed` |
| `HwidIsAlwaysConsented` | `CatalogSpec => HwidIsConsented` |
| `CatalogIsTyped` | `CatalogSpec => []CatalogTypeOK` |

The argument: `CatalogInv` says that the catalog is typed, lists each subscription once and has
a handle of its own for each server (`CatalogKept`), that only an update of one target may add
a subscription (`UpdateIs`), and that what runs is listed. Each loop has a lemma by induction
over how far it is: `Retained` keeps what it should, `Refreshed` gives one server per entry,
`MergedAll` merges target after target without listing anything twice. Of `AssignAliases`:
clearing leaves handles that differ; while a server has none, the first of them gets a handle
that is free, since among one more numbers than handles in use there is one that no handle has;
that makes one nameless server less, and after as many rounds as there were, none is left.

### Only model-checked

- all liveness (`Terminates`, `RecoveryMovesOn`, `RetryRetires`, `Drains`, `WaitingEnds`,
  `SettlesOnTruth`), which is out of the prover's reach;
- `EditsStand` of `Catalog`, which is not true for every feed: see the observations above;
- `RunsAreOrderly` of `LockOrder`, a fact about thirty-one concrete sequences; it is the
  hypothesis of the theorems about any number of threads.

## Not modelled

The map covers about a tenth of the repository's implementation lines. What holds state,
threads and recovery is in it; most of the rest is widgets and pages of the desktop
client, the command line, parsers of links, subscriptions and configurations, the wire
format, and tests beside the code they test. In particular:

- *Store lease and daemon discovery*: one lock of the operating system on one file, and I/O
  on two buses; the code adds the attempt and its messages.
- *System proxy*: GNOME settings with an owner and a marker. "The mode is set last" does not
  hold when the mode is manual already, which is what makes it worth a module.
- *Pools*: selection is pure; a target is one server in these models.
- *Geo data and managed cores*: downloads, and their cancellation.
- *Text*: parsers, redaction, rendering, reports, the wire format.
- *Desktop*: cards with their latency, profiles beside the default, pools, widgets.
- *Kernel and platform*: netlink, nftables, cgroup lookups, the TUN helper's relaying; they
  are steps that succeed or fail.
- *Loss of power*: the journal and the state file promise what survives a process.

## Plan

1. The system proxy: its owner among sessions, its marker, and the restoration after a
   crash.
2. Pools: selection against a reference definition, and a pool as target of `Connection`.
3. The latency of cards in the reducer, and profiles beside the default, in `Desktop`.
4. Cancellation of downloads; aliases and binds as pure algorithms.
5. Proofs: `EditsStand` of `Catalog` for the feeds it is true of.
