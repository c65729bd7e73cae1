--------------------------- MODULE FailoverPolicy ---------------------------
(***************************************************************************)
(* The failover policy, oxidom_core::failover: which authorized member may *)
(* be started next, how many starts an episode may consume, and how far    *)
(* apart they are.                                                         *)
(*                                                                         *)
(* The operators on a record `a` are the methods of the Activation object. *)
(* Activation is that object under an arbitrary caller; Connection calls   *)
(* the operators on the activation inside the daemon's failover entry.     *)
(*                                                                         *)
(* Members are indices of policy.members (validate() keeps the list free   *)
(* of duplicates, so an index and an id name the same member). Instants    *)
(* are the ticks that remain until them: cooldown is cooldown_until - now. *)
(***************************************************************************)
EXTENDS Integers, FiniteSets

CONSTANTS
    Members,      \* policy.members.len()
    MaxAttempts,  \* policy.max_attempts
    Cooldown      \* policy.cooldown_secs in ticks

\* FailoverPolicy::validate accepts an enabled policy only in these ranges.
ASSUME PolicyAssumption ==
    /\ Members \in Nat /\ Members >= 2
    /\ MaxAttempts \in Nat /\ MaxAttempts >= 1
    /\ Cooldown \in Nat /\ Cooldown >= 1

Candidate == 0 .. Members - 1

ActivationRecord ==
    [current : Candidate, visited : SUBSET Candidate, attempts : Nat,
     episode : BOOLEAN, inFlight : BOOLEAN, armed : BOOLEAN,
     cooldown : 0 .. Cooldown]

NoActivation == [current |-> -1]

-----------------------------------------------------------------------------
(* Queries.                                                                *)

\* How many members past `from` the walk reaches `m`, going round the list.
Distance(from, m) == IF m >= from THEN m - from ELSE m + Members - from

\* Members at offsets 1 .. len - 1 of the current one that are not visited.
Open(a) == {m \in Candidate : m # a.current /\ m \notin a.visited}

\* `find`: the first open member after the current one, in cyclic order.
IsNext(a, m) ==
    /\ m \in Open(a)
    /\ \A other \in Open(a) : Distance(a.current, m) <= Distance(a.current, other)

\* The Decision of next(now, backoff_until), without the member of Attempt.
Kind(a, backoff) ==
    CASE ~a.armed                                             -> "disarmed"
      [] a.armed /\ a.inFlight                                -> "inFlight"
      [] a.armed /\ ~a.inFlight /\ ~a.episode                 -> "idle"
      [] OTHER ->
           IF a.attempts >= MaxAttempts \/ Candidate \subseteq a.visited
           THEN "exhausted"
           ELSE IF a.cooldown > 0 \/ backoff > 0 THEN "wait" ELSE "attempt"

-----------------------------------------------------------------------------
(* Methods. A guard is the `ensure!` of the method.                        *)

NewActivation(initial) ==
    [current |-> initial, visited |-> {}, attempts |-> 0, episode |-> FALSE,
     inFlight |-> FALSE, armed |-> TRUE, cooldown |-> 0]

\* Wrong on purpose: a revoked activation still opens an episode.
CanBeginRevokedEpisode(a, failed) == ~a.episode /\ a.current = failed

CanBeginEpisode(a, failed) == a.armed /\ ~a.episode /\ a.current = failed

BegunEpisode(a) ==
    [a EXCEPT !.visited = @ \cup {a.current}, !.episode = TRUE]

CanAdmit(a, m, backoff) == Kind(a, backoff) = "attempt" /\ IsNext(a, m)

Admitted(a, m) ==
    [a EXCEPT !.current = m, !.visited = @ \cup {m}, !.attempts = @ + 1,
              !.inFlight = TRUE, !.cooldown = Cooldown]

\* check_in_flight
IsInFlight(a, m) == a.inFlight /\ a.current = m

AttemptFailed(a) == [a EXCEPT !.inFlight = FALSE]

\* Wrong on purpose: what the episode has ruled out outlives it.
ConfirmedSuccessRemembering(a) ==
    [a EXCEPT !.inFlight = FALSE, !.episode = FALSE, !.attempts = 0]

ConfirmedSuccess(a) ==
    [a EXCEPT !.inFlight = FALSE, !.episode = FALSE, !.attempts = 0, !.visited = {}]

Disarmed(a) == [a EXCEPT !.armed = FALSE]

\* One tick passes: the deadline comes one tick closer.
Elapsed(a) == [a EXCEPT !.cooldown = IF @ > 0 THEN @ - 1 ELSE 0]
=============================================================================
