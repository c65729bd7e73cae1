----------------------------- MODULE Activation -----------------------------
(***************************************************************************)
(* One failover Activation under a caller that may call any method at any  *)
(* time. A method that returns an error leaves the object unchanged, so    *)
(* only successful calls are steps.                                        *)
(***************************************************************************)
EXTENDS FailoverPolicy

VARIABLE activation

Exists == activation # NoActivation

ActivationInit == activation = NoActivation

Create(initial) == activation' = NewActivation(initial)

Drop == Exists /\ activation' = NoActivation

BeginEpisode(failed) ==
    /\ Exists
    /\ CanBeginEpisode(activation, failed)
    /\ activation' = BegunEpisode(activation)

Admit(m, backoff) ==
    /\ Exists
    /\ CanAdmit(activation, m, backoff)
    /\ activation' = Admitted(activation, m)

FailAttempt(m) ==
    /\ Exists
    /\ IsInFlight(activation, m)
    /\ activation' = AttemptFailed(activation)

ConfirmSuccess(m) ==
    /\ Exists
    /\ IsInFlight(activation, m)
    /\ activation' = ConfirmedSuccess(activation)

Disarm == Exists /\ activation' = Disarmed(activation)

Tick == Exists /\ activation.cooldown > 0 /\ activation' = Elapsed(activation)

ActivationNext ==
    \/ \E m \in Candidate :
          \/ Create(m)
          \/ BeginEpisode(m)
          \/ \E backoff \in 0 .. 1 : Admit(m, backoff)
          \/ FailAttempt(m)
          \/ ConfirmSuccess(m)
    \/ Drop
    \/ Disarm
    \/ Tick

ActivationSpec == ActivationInit /\ [][ActivationNext]_activation

-----------------------------------------------------------------------------
(* Properties.                                                             *)

\* The object is absent or a well-formed record.
ActivationTypeOK == activation \in ActivationRecord \cup {NoActivation}

\* The budget and the visited set tell the same story: an episode has ruled
\* out the member that failed first and one more member per admitted start,
\* never more than max_attempts of them, and outside an episode nothing is
\* counted, visited or in flight (begin_episode, admit, confirm_success).
EpisodeAccounting ==
    Exists =>
        /\ activation.attempts <= MaxAttempts
        /\ activation.episode =>
              /\ activation.current \in activation.visited
              /\ Cardinality(activation.visited) = activation.attempts + 1
        /\ ~activation.episode =>
              /\ activation.visited = {}
              /\ activation.attempts = 0
              /\ ~activation.inFlight

\* The `expect("an unvisited candidate remains")` of next() never panics: when
\* the walk is asked for a member, one other than the current is unvisited.
AttemptNamesACandidate ==
    Exists => (Kind(activation, 0) = "attempt" =>
                  \E m \in Candidate : IsNext(activation, m))

\* What a client of the recovery contract sees of the object.
Grant == IF ~Exists THEN "absent" ELSE IF activation.armed THEN "armed" ELSE "revoked"
Stage ==
    IF ~Exists \/ ~activation.episode THEN "idle"
    ELSE IF activation.inFlight THEN "trying" ELSE "waiting"
Tried == IF Exists THEN activation.visited ELSE {}
Rest == IF Exists THEN activation.cooldown ELSE 0

\* The object implements sequential, bounded, spaced, revocable recovery.
Recovery == INSTANCE SequentialRecovery WITH
    grant <- Grant, stage <- Stage, tried <- Tried, rest <- Rest

\* Every call on the object is a step the recovery contract allows.
ImplementsRecovery == Recovery!Spec
=============================================================================
