------------------------- MODULE SequentialRecovery -------------------------
(***************************************************************************)
(* What one saved-profile failover activation promises, whatever component *)
(* carries it out: recovery is sequential, bounded, spaced and authorized. *)
(* The module is the abstract specification that Activation (the policy    *)
(* object) and Connection (the daemon) are shown to implement.             *)
(*                                                                         *)
(* An activation is armed by an explicit Up and can only lose that grant.  *)
(* A failure of the running member opens an episode; an episode tries      *)
(* members one at a time, none of them twice and never the member that     *)
(* failed first, at most MaxAttempts of them, and leaves at least Cooldown *)
(* ticks between two automatic starts, across episodes too.                *)
(***************************************************************************)
EXTENDS Integers, FiniteSets

CONSTANTS
    Members,      \* policy.members.len(); a member is its index in the list
    MaxAttempts,  \* policy.max_attempts
    Cooldown      \* policy.cooldown_secs, in ticks of the model's clock

VARIABLES
    grant,  \* "absent": no activation; "armed"; "revoked": it lost its grant
    stage,  \* "idle": no episode; "waiting": between starts; "trying": one start
    tried,  \* the members this episode has ruled out
    rest    \* ticks before the next automatic start is allowed

vars == <<grant, stage, tried, rest>>

Candidate == 0 .. Members - 1

TypeOK ==
    /\ grant \in {"absent", "armed", "revoked"}
    /\ stage \in {"idle", "waiting", "trying"}
    /\ tried \in SUBSET Candidate
    /\ rest \in 0 .. Cooldown

Init ==
    /\ grant = "absent"
    /\ stage = "idle"
    /\ tried = {}
    /\ rest = 0

-----------------------------------------------------------------------------

\* An explicit Up makes a new activation, whatever the previous one had left.
Authorize ==
    /\ grant' = "armed"
    /\ stage' = "idle"
    /\ tried' = {}
    /\ rest' = 0

\* Stop, replacement or shutdown discards the activation.
Withdraw ==
    /\ grant' = "absent"
    /\ stage' = "idle"
    /\ tried' = {}
    /\ rest' = 0

\* The running member m failed: an episode begins and m is ruled out.
Fail(m) ==
    /\ grant = "armed"
    /\ stage = "idle"
    /\ stage' = "waiting"
    /\ tried' = {m}
    /\ UNCHANGED <<grant, rest>>

\* Start m automatically. A start that cannot spawn its core loses the grant.
Try(m) ==
    /\ grant = "armed"
    /\ stage = "waiting"
    /\ m \notin tried
    /\ Cardinality(tried) <= MaxAttempts
    /\ rest = 0
    /\ grant' \in {"armed", "revoked"}
    /\ stage' = "trying"
    /\ tried' = tried \cup {m}
    /\ rest' = Cooldown

\* The one start in progress did not carry traffic.
TryFailed ==
    /\ stage = "trying"
    /\ stage' = "waiting"
    /\ UNCHANGED <<grant, tried, rest>>

\* It did: the episode is over and its budget returns, the spacing does not.
Recovered ==
    /\ stage = "trying"
    /\ stage' = "idle"
    /\ tried' = {}
    /\ UNCHANGED <<grant, rest>>

\* The saved authorization or the catalog changed under the activation.
Revoke ==
    /\ grant = "armed"
    /\ grant' = "revoked"
    /\ UNCHANGED <<stage, tried, rest>>

Pass ==
    /\ rest > 0
    /\ rest' = rest - 1
    /\ UNCHANGED <<grant, stage, tried>>

Next ==
    \/ Authorize
    \/ Withdraw
    \/ \E m \in Candidate : Fail(m) \/ Try(m)
    \/ TryFailed
    \/ Recovered
    \/ Revoke
    \/ Pass

Spec == Init /\ [][Next]_vars
=============================================================================
