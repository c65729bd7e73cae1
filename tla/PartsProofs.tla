---------------------------- MODULE PartsProofs -----------------------------
(***************************************************************************)
(* What TLAPS proves of the parts that share no state, which MCParts       *)
(* checks together: the activation of failover, the watchdog, the journal  *)
(* of diagnostics and the catalog of servers, each on its own variables    *)
(* and for every value of its constants.                                   *)
(***************************************************************************)
EXTENDS Activation, Watchdog, Journal, Catalog, InductionLemmas, FiniteSetTheorems,
        SequenceTheorems, TLAPS

-----------------------------------------------------------------------------
(***************************************************************************)
(* The activation of failover, for every number of members, every budget   *)
(* and every cooldown.                                                     *)
(***************************************************************************)

\* An attempt is only decided for an armed, open episode between two starts,
\* with budget, an untried member and no wait left.
LEMMA AttemptDecided ==
    ASSUME NEW a \in ActivationRecord, NEW backoff \in Int,
           Kind(a, backoff) = "attempt"
    PROVE  /\ a.armed /\ a.episode /\ ~a.inFlight
           /\ a.attempts < MaxAttempts
           /\ ~(Candidate \subseteq a.visited)
           /\ a.cooldown = 0
BY PolicyAssumption DEF Kind, ActivationRecord

\* A record of the activation is never mistaken for its absence.
LEMMA RecordExists ==
    ASSUME NEW a \in ActivationRecord
    PROVE  a # NoActivation
<1>1. a.current # -1
  BY PolicyAssumption DEF ActivationRecord, Candidate
<1> QED
  BY <1>1 DEF NoActivation

\* Every method returns a well-formed record.
LEMMA MethodsAreTyped ==
    ASSUME NEW a \in ActivationRecord, NEW m \in Candidate
    PROVE  /\ NewActivation(m) \in ActivationRecord
           /\ BegunEpisode(a) \in ActivationRecord
           /\ Admitted(a, m) \in ActivationRecord
           /\ AttemptFailed(a) \in ActivationRecord
           /\ ConfirmedSuccess(a) \in ActivationRecord
           /\ Disarmed(a) \in ActivationRecord
           /\ Elapsed(a) \in ActivationRecord
<1>1. NewActivation(m) \in ActivationRecord
  BY PolicyAssumption DEF ActivationRecord, NewActivation
<1>2. BegunEpisode(a) \in ActivationRecord
  BY DEF ActivationRecord, BegunEpisode
<1>3. Admitted(a, m) \in ActivationRecord
  <2>1. a.visited \cup {m} \in SUBSET Candidate
    BY DEF ActivationRecord
  <2>2. a.attempts + 1 \in Nat /\ Cooldown \in 0 .. Cooldown
    BY PolicyAssumption DEF ActivationRecord
  <2> QED
    BY <2>1, <2>2 DEF ActivationRecord, Admitted
<1>4. AttemptFailed(a) \in ActivationRecord
  BY DEF ActivationRecord, AttemptFailed
<1>5. ConfirmedSuccess(a) \in ActivationRecord
  BY DEF ActivationRecord, ConfirmedSuccess
<1>6. Disarmed(a) \in ActivationRecord
  BY DEF ActivationRecord, Disarmed
<1>7. Elapsed(a) \in ActivationRecord
  BY PolicyAssumption DEF ActivationRecord, Elapsed
<1> QED
  BY <1>1, <1>2, <1>3, <1>4, <1>5, <1>6, <1>7

\* The object is absent or a well-formed record, after any sequence of calls.
THEOREM TypeCorrect == ActivationSpec => []ActivationTypeOK
<1>1. ActivationInit => ActivationTypeOK
  BY DEF ActivationInit, ActivationTypeOK
<1>2. ActivationTypeOK /\ [ActivationNext]_activation => ActivationTypeOK'
  <2> SUFFICES ASSUME ActivationTypeOK, [ActivationNext]_activation PROVE ActivationTypeOK'
    OBVIOUS
  <2>0. Exists => activation \in ActivationRecord
    BY DEF ActivationTypeOK, Exists
  <2>1. ASSUME NEW m \in Candidate, Create(m) PROVE ActivationTypeOK'
    BY <2>1, PolicyAssumption DEF Create, ActivationTypeOK, NewActivation, ActivationRecord
  <2>2. ASSUME NEW m \in Candidate, BeginEpisode(m) PROVE ActivationTypeOK'
    BY <2>0, <2>2, MethodsAreTyped DEF BeginEpisode, ActivationTypeOK
  <2>3. ASSUME NEW m \in Candidate, NEW backoff \in 0 .. 1, Admit(m, backoff)
        PROVE  ActivationTypeOK'
    BY <2>0, <2>3, MethodsAreTyped DEF Admit, ActivationTypeOK
  <2>4. ASSUME NEW m \in Candidate, FailAttempt(m) PROVE ActivationTypeOK'
    BY <2>0, <2>4, MethodsAreTyped DEF FailAttempt, ActivationTypeOK
  <2>5. ASSUME NEW m \in Candidate, ConfirmSuccess(m) PROVE ActivationTypeOK'
    BY <2>0, <2>5, MethodsAreTyped DEF ConfirmSuccess, ActivationTypeOK
  <2>6. CASE Drop
    BY <2>6 DEF Drop, ActivationTypeOK
  <2>7. 0 \in Candidate
    BY PolicyAssumption DEF Candidate
  <2>8. CASE Disarm
    BY <2>0, <2>7, <2>8, MethodsAreTyped DEF Disarm, ActivationTypeOK
  <2>9. CASE Tick
    BY <2>0, <2>7, <2>9, MethodsAreTyped DEF Tick, ActivationTypeOK
  <2>10. CASE UNCHANGED activation
    BY <2>10 DEF ActivationTypeOK
  <2> QED
    BY <2>1, <2>2, <2>3, <2>4, <2>5, <2>6, <2>8, <2>9, <2>10 DEF ActivationNext
<1> QED
  BY <1>1, <1>2, PTL DEF ActivationSpec

-----------------------------------------------------------------------------
(* The accounting of an episode.                                           *)

\* The members are finitely many, and so is every set of visited ones.
LEMMA VisitedIsFinite ==
    ASSUME NEW S \in SUBSET Candidate
    PROVE  IsFiniteSet(S) /\ Cardinality(S) \in Nat
<1>1. IsFiniteSet(Candidate)
  BY PolicyAssumption, FS_Interval DEF Candidate
<1> QED
  BY <1>1, FS_Subset, FS_CardinalityType

\* What EpisodeAccounting says of one record.
Accounted(a) ==
    /\ a.attempts <= MaxAttempts
    /\ a.episode =>
          /\ a.current \in a.visited
          /\ Cardinality(a.visited) = a.attempts + 1
    /\ ~a.episode =>
          /\ a.visited = {}
          /\ a.attempts = 0
          /\ ~a.inFlight

\* Opening an episode on an accounted record visits exactly one member.
LEMMA BegunIsAccounted ==
    ASSUME NEW a \in ActivationRecord, Accounted(a), ~a.episode
    PROVE  Accounted(BegunEpisode(a))
<1> DEFINE b == BegunEpisode(a)
<1>1. b.visited = {a.current} /\ b.attempts = 0 /\ b.episode /\ b.current = a.current
  BY DEF BegunEpisode, Accounted, ActivationRecord
<1>2. Cardinality({a.current}) = 1
  BY FS_Singleton
<1> QED
  BY <1>1, <1>2, PolicyAssumption DEF Accounted

\* Admitting a new member visits one more and consumes one attempt.
LEMMA AdmittedIsAccounted ==
    ASSUME NEW a \in ActivationRecord, Accounted(a), NEW m \in Candidate,
           a.episode, m \notin a.visited, a.attempts < MaxAttempts
    PROVE  Accounted(Admitted(a, m))
<1> DEFINE b == Admitted(a, m)
<1>1. /\ b.visited = a.visited \cup {m} /\ b.attempts = a.attempts + 1
      /\ b.episode /\ b.current = m
  BY DEF Admitted, ActivationRecord
<1>2. a.visited \in SUBSET Candidate /\ a.attempts \in Nat
  BY DEF ActivationRecord
<1>3. Cardinality(a.visited \cup {m}) = Cardinality(a.visited) + 1
  BY <1>2, VisitedIsFinite, FS_AddElement
<1>4. Cardinality(b.visited) = b.attempts + 1
  BY <1>1, <1>3 DEF Accounted
<1>5. b.attempts <= MaxAttempts
  BY <1>1, <1>2, PolicyAssumption
<1>6. b.current \in b.visited
  BY <1>1
<1>7. Accounted(b)
  <2> HIDE DEF b
  <2> QED
    BY <1>1, <1>4, <1>5, <1>6 DEF Accounted
<1> QED
  BY <1>7

\* The budget and the visited set agree after any sequence of calls. It is
\* inductive together with the type: an episode only opens from an empty set,
\* and a member is only added when it is new.
THEOREM AccountingCorrect == ActivationSpec => []EpisodeAccounting
<1>1. ActivationInit => EpisodeAccounting
  BY DEF ActivationInit, EpisodeAccounting, Exists
<1>2. ActivationTypeOK /\ EpisodeAccounting /\ [ActivationNext]_activation => EpisodeAccounting'
  <2> SUFFICES ASSUME ActivationTypeOK, EpisodeAccounting, [ActivationNext]_activation,
                      activation' # NoActivation
               PROVE  Accounted(activation')
    BY DEF EpisodeAccounting, Exists, Accounted
  <2>0. Exists => activation \in ActivationRecord /\ Accounted(activation)
    BY DEF ActivationTypeOK, Exists, EpisodeAccounting, Accounted
  <2>1. ASSUME NEW m \in Candidate, Create(m) PROVE Accounted(activation')
    BY <2>1, PolicyAssumption DEF Create, NewActivation, Accounted
  <2>2. ASSUME NEW m \in Candidate, BeginEpisode(m) PROVE Accounted(activation')
    BY <2>0, <2>2, BegunIsAccounted DEF BeginEpisode, CanBeginEpisode
  <2>3. ASSUME NEW m \in Candidate, NEW backoff \in 0 .. 1, Admit(m, backoff)
        PROVE  Accounted(activation')
    <3>1. Kind(activation, backoff) = "attempt" /\ m \notin activation.visited
      BY <2>3 DEF Admit, CanAdmit, IsNext, Open
    <3>2. activation.episode /\ activation.attempts < MaxAttempts
      BY <2>0, <2>3, <3>1, AttemptDecided DEF Admit
    <3> QED
      BY <2>0, <2>3, <3>1, <3>2, AdmittedIsAccounted DEF Admit
  <2>4. ASSUME NEW m \in Candidate, FailAttempt(m) PROVE Accounted(activation')
    BY <2>0, <2>4 DEF FailAttempt, AttemptFailed, ActivationRecord, Accounted
  <2>5. ASSUME NEW m \in Candidate, ConfirmSuccess(m) PROVE Accounted(activation')
    BY <2>0, <2>5, PolicyAssumption
       DEF ConfirmSuccess, ConfirmedSuccess, ActivationRecord, Accounted
  <2>6. CASE Drop
    BY <2>6 DEF Drop
  <2>7. CASE Disarm
    BY <2>0, <2>7 DEF Disarm, Disarmed, ActivationRecord, Accounted
  <2>8. CASE Tick
    BY <2>0, <2>8 DEF Tick, Elapsed, ActivationRecord, Accounted
  <2>9. CASE UNCHANGED activation
    BY <2>0, <2>9 DEF Exists
  <2> QED
    BY <2>1, <2>2, <2>3, <2>4, <2>5, <2>6, <2>7, <2>8, <2>9 DEF ActivationNext
<1> QED
  BY <1>1, <1>2, TypeCorrect, PTL DEF ActivationSpec

-----------------------------------------------------------------------------
(* The walk round the members.                                             *)

\* A non-empty set of naturals has a least element.
LEMMA LeastNatural ==
    ASSUME NEW D \in SUBSET Nat, D # {}
    PROVE  \E d \in D : \A e \in D : d <= e
<1>1. PICK d \in D : \A e \in D : ~(<<e, d>> \in OpToRel(<, Nat))
  BY NatLessThanWellFounded, WFMin
<1>2. ASSUME NEW e \in D, e < d PROVE FALSE
  <2>1. <<e, d>> \in Nat \X Nat
    OBVIOUS
  <2>2. <<e, d>> \in OpToRel(<, Nat)
    BY <1>2, <2>1 DEF OpToRel
  <2> QED
    BY <1>1, <2>2
<1>3. \A e \in D : d <= e
  BY <1>2
<1> QED
  BY <1>3

\* As long as a member is open, the walk stops at one.
LEMMA WalkStops ==
    ASSUME NEW a \in ActivationRecord, Open(a) # {}
    PROVE  \E m \in Candidate : IsNext(a, m)
<1> DEFINE D == {Distance(a.current, m) : m \in Open(a)}
<1>1. Open(a) \subseteq Candidate /\ a.current \in Candidate
  BY DEF Open, ActivationRecord
<1>2. D \in SUBSET Nat
  BY <1>1, PolicyAssumption DEF Distance, Candidate
<1>3. PICK d \in D : \A e \in D : d <= e
  <2>1. D # {}
    OBVIOUS
  <2> HIDE DEF D
  <2> QED
    BY <1>2, <2>1, LeastNatural
<1>4. PICK m \in Open(a) : d = Distance(a.current, m)
  OBVIOUS
<1>5. \A other \in Open(a) : Distance(a.current, m) <= Distance(a.current, other)
  BY <1>3, <1>4
<1> QED
  BY <1>1, <1>4, <1>5 DEF IsNext

\* The `expect` of next() never panics: a decision to attempt names a member.
\* The current member is visited, so an unvisited one is another one.
THEOREM AttemptHasMember == ActivationSpec => []AttemptNamesACandidate
<1>1. ActivationTypeOK /\ EpisodeAccounting => AttemptNamesACandidate
  <2> SUFFICES ASSUME ActivationTypeOK, EpisodeAccounting, Exists,
                      Kind(activation, 0) = "attempt"
               PROVE  \E m \in Candidate : IsNext(activation, m)
    BY DEF AttemptNamesACandidate
  <2>1. activation \in ActivationRecord
    BY DEF ActivationTypeOK, Exists
  <2>2. activation.episode /\ ~(Candidate \subseteq activation.visited)
    BY <2>1, AttemptDecided
  <2>3. activation.current \in activation.visited
    BY <2>2 DEF EpisodeAccounting
  <2>4. Open(activation) # {}
    BY <2>2, <2>3 DEF Open
  <2> QED
    BY <2>1, <2>4, WalkStops
<1> QED
  BY <1>1, TypeCorrect, AccountingCorrect, PTL

-----------------------------------------------------------------------------
(* Refinement.                                                             *)

\* What the contract sees of an existing object.
LEMMA SeenThrough ==
    ASSUME activation \in ActivationRecord
    PROVE  /\ Exists
           /\ Grant = IF activation.armed THEN "armed" ELSE "revoked"
           /\ Stage = IF ~activation.episode THEN "idle"
                      ELSE IF activation.inFlight THEN "trying" ELSE "waiting"
           /\ Tried = activation.visited
           /\ Rest = activation.cooldown
BY RecordExists DEF Exists, Grant, Stage, Tried, Rest

\* Every call on the object is a step of the recovery contract, whatever the
\* caller: automatic recovery is sequential, bounded, spaced and authorized.
THEOREM Refinement == ActivationSpec => ImplementsRecovery
<1>1. ActivationInit => Recovery!Init
  BY DEF ActivationInit, Recovery!Init, Grant, Stage, Tried, Rest, Exists
<1>2. /\ ActivationTypeOK /\ ActivationTypeOK' /\ EpisodeAccounting /\ [ActivationNext]_activation
      => [Recovery!Next]_Recovery!vars
  <2> SUFFICES ASSUME ActivationTypeOK, ActivationTypeOK', EpisodeAccounting, [ActivationNext]_activation
               PROVE  [Recovery!Next]_Recovery!vars
    OBVIOUS
  <2> USE DEF Recovery!Candidate, Candidate
  <2> DEFINE a == activation
             b == activation'
  <2>a. Exists => a \in ActivationRecord /\ Accounted(a)
    BY DEF ActivationTypeOK, Exists, EpisodeAccounting, Accounted
  <2>b. b # NoActivation => b \in ActivationRecord
    BY DEF ActivationTypeOK
  <2>c. a \in ActivationRecord =>
           /\ Grant = IF a.armed THEN "armed" ELSE "revoked"
           /\ Stage = IF ~a.episode THEN "idle"
                      ELSE IF a.inFlight THEN "trying" ELSE "waiting"
           /\ Tried = a.visited
           /\ Rest = a.cooldown
    BY SeenThrough
  <2>d. b \in ActivationRecord =>
           /\ Grant' = IF b.armed THEN "armed" ELSE "revoked"
           /\ Stage' = IF ~b.episode THEN "idle"
                       ELSE IF b.inFlight THEN "trying" ELSE "waiting"
           /\ Tried' = b.visited
           /\ Rest' = b.cooldown
    BY RecordExists DEF Exists, Grant, Stage, Tried, Rest
  <2>1. ASSUME NEW m \in Candidate, Create(m) PROVE Recovery!Authorize
    <3>1. b \in ActivationRecord
      BY <2>1, MethodsAreTyped, PolicyAssumption DEF Create, ActivationTypeOK, NewActivation, ActivationRecord
    <3> QED
      BY <2>1, <2>d, <3>1 DEF Create, NewActivation, Recovery!Authorize
  <2>2. ASSUME NEW m \in Candidate, BeginEpisode(m) PROVE Recovery!Fail(m)
    <3>1. a \in ActivationRecord /\ Accounted(a) /\ b = BegunEpisode(a)
      BY <2>2, <2>a DEF BeginEpisode
    <3>2. a.armed /\ ~a.episode /\ a.current = m /\ a.visited = {} /\ ~a.inFlight
      BY <2>2, <3>1 DEF BeginEpisode, CanBeginEpisode, Accounted
    <3>3. /\ b.armed = a.armed /\ b.cooldown = a.cooldown /\ b.inFlight = a.inFlight
          /\ b.episode /\ b.visited = {m}
      BY <3>1, <3>2 DEF BegunEpisode, ActivationRecord
    <3>4. b \in ActivationRecord
      BY <3>1, MethodsAreTyped
    <3> QED
      BY <2>c, <2>d, <3>1, <3>2, <3>3, <3>4 DEF Recovery!Fail
  <2>3. ASSUME NEW m \in Candidate, NEW backoff \in 0 .. 1, Admit(m, backoff)
        PROVE  Recovery!Try(m)
    <3>1. a \in ActivationRecord /\ Accounted(a) /\ b = Admitted(a, m)
      BY <2>3, <2>a DEF Admit
    <3>2. Kind(a, backoff) = "attempt" /\ m \notin a.visited
      BY <2>3 DEF Admit, CanAdmit, IsNext, Open
    <3>3. /\ a.armed /\ a.episode /\ ~a.inFlight /\ a.cooldown = 0
          /\ a.attempts < MaxAttempts
      BY <3>1, <3>2, AttemptDecided
    <3>4. Cardinality(a.visited) <= MaxAttempts
      BY <3>1, <3>3, PolicyAssumption DEF Accounted, ActivationRecord
    <3>5. /\ b.armed = a.armed /\ b.cooldown = Cooldown /\ b.inFlight
          /\ b.episode = a.episode /\ b.visited = a.visited \cup {m}
      BY <3>1 DEF Admitted, ActivationRecord
    <3>6. b \in ActivationRecord
      BY <3>1, MethodsAreTyped
    <3>7. Recovery!Cardinality(a.visited) = Cardinality(a.visited)
      BY DEF Recovery!Cardinality, Cardinality
    <3>8. Recovery!Cardinality(Tried) <= MaxAttempts
      BY <2>c, <3>1, <3>4, <3>7
    <3> QED
      BY <2>c, <2>d, <3>1, <3>2, <3>3, <3>5, <3>6, <3>8 DEF Recovery!Try
  <2>4. ASSUME NEW m \in Candidate, FailAttempt(m) PROVE Recovery!TryFailed
    <3>1. /\ a \in ActivationRecord /\ Accounted(a) /\ b = AttemptFailed(a)
          /\ a.inFlight
      BY <2>4, <2>a DEF FailAttempt, IsInFlight
    <3>2. /\ a.episode
          /\ b.armed = a.armed /\ b.cooldown = a.cooldown /\ ~b.inFlight
          /\ b.episode = a.episode /\ b.visited = a.visited
      BY <3>1 DEF AttemptFailed, ActivationRecord, Accounted
    <3>3. b \in ActivationRecord
      BY <2>4, <3>1, MethodsAreTyped
    <3> QED
      BY <2>c, <2>d, <3>1, <3>2, <3>3 DEF Recovery!TryFailed
  <2>5. ASSUME NEW m \in Candidate, ConfirmSuccess(m) PROVE Recovery!Recovered
    <3>1. /\ a \in ActivationRecord /\ Accounted(a) /\ b = ConfirmedSuccess(a)
          /\ a.inFlight
      BY <2>5, <2>a DEF ConfirmSuccess, IsInFlight
    <3>2. /\ a.episode
          /\ b.armed = a.armed /\ b.cooldown = a.cooldown
          /\ ~b.episode /\ b.visited = {}
      BY <3>1 DEF ConfirmedSuccess, ActivationRecord, Accounted
    <3>3. b \in ActivationRecord
      BY <2>5, <3>1, MethodsAreTyped
    <3> QED
      BY <2>c, <2>d, <3>1, <3>2, <3>3 DEF Recovery!Recovered
  <2>6. CASE Drop
    BY <2>6 DEF Drop, Recovery!Withdraw, Recovery!Next, Grant, Stage, Tried, Rest, Exists
  <2>7. CASE Disarm
    <3>1. a \in ActivationRecord /\ b = Disarmed(a)
      BY <2>7, <2>a DEF Disarm
    <3>2. /\ ~b.armed /\ b.cooldown = a.cooldown /\ b.inFlight = a.inFlight
          /\ b.episode = a.episode /\ b.visited = a.visited
      BY <3>1 DEF Disarmed, ActivationRecord
    <3>3. b \in ActivationRecord
      BY <3>1, <3>2 DEF Disarmed, ActivationRecord
    <3>4. Stage' = Stage /\ Tried' = Tried /\ Rest' = Rest /\ Grant' = "revoked"
      BY <2>c, <2>d, <3>1, <3>2, <3>3
    <3>5. CASE a.armed
      BY <2>c, <3>1, <3>4, <3>5 DEF Recovery!Revoke, Recovery!Next
    <3>6. CASE ~a.armed
      BY <2>c, <3>1, <3>4, <3>6 DEF Recovery!vars
    <3> QED
      BY <3>5, <3>6
  <2>8. CASE Tick
    <3>1. a \in ActivationRecord /\ b = Elapsed(a) /\ a.cooldown > 0
      BY <2>8, <2>a DEF Tick
    <3>2. /\ b.armed = a.armed /\ b.cooldown = a.cooldown - 1
          /\ b.inFlight = a.inFlight
          /\ b.episode = a.episode /\ b.visited = a.visited
      BY <3>1 DEF Elapsed, ActivationRecord
    <3>3. b \in ActivationRecord
      BY <3>1, <3>2, PolicyAssumption DEF Elapsed, ActivationRecord
    <3>4. Recovery!Pass
      BY <2>c, <2>d, <3>1, <3>2, <3>3 DEF Recovery!Pass
    <3> QED
      BY <3>4 DEF Recovery!Next
  <2>9. CASE UNCHANGED activation
    BY <2>9 DEF Recovery!vars, Grant, Stage, Tried, Rest, Exists
  <2> QED
    BY <2>1, <2>2, <2>3, <2>4, <2>5, <2>6, <2>7, <2>8, <2>9 DEF ActivationNext, Recovery!Next
<1> QED
  BY <1>1, <1>2, TypeCorrect, AccountingCorrect, PTL
     DEF ActivationSpec, ImplementsRecovery, Recovery!Spec

-----------------------------------------------------------------------------
(***************************************************************************)
(* The watchdog, for any number of starts, claims and changes of the mode, *)
(* and any numbers of strikes.                                             *)
(***************************************************************************)

Sessions == [run : Nat, status : {"off", "connected", "failed"},
             pending : BOOLEAN, alive : BOOLEAN]
Checks == [generation : Nat, run : Nat, epoch : Nat, mode : {"conservative", "aggressive"},
           step : {"listed", "asked", "answered", "dead"},
           answer : Outcomes \cup {"missing", None}]
Streaks == [generation : Nat, run : Nat, epoch : Nat,
            mode : {"conservative", "aggressive"}, count : Nat \ {0}]

\* What the code's constants and the bounds are, and that None is no check.
Constants ==
    /\ MaxRuns \in Nat /\ MaxClaims \in Nat /\ MaxEpochs \in Nat
    /\ Strikes \in [{"conservative", "aggressive"} -> Nat \ {0}]
    /\ None \notin Checks

\* The values of what the argument looks at.
Typed ==
    /\ session \in Sessions /\ session.run \in {0, runs}
    /\ session.status # "off" => session.run # 0
    /\ runs \in 0 .. MaxRuns /\ claims \in 0 .. MaxClaims /\ epoch \in Nat
    /\ generation \in {0, claims}
    /\ mode \in Modes
    /\ missed \in 0 .. Strikes["aggressive"]
    /\ check # None => check \in Checks
    /\ streak # None => streak \in Streaks /\ streak.count < Strikes[streak.mode]

\* What was begun at some time is no younger than now, and the number of a change of
\* the mode stands for the mode.
Past(x) ==
    /\ x.generation <= claims /\ x.run <= runs /\ x.epoch <= epoch
    /\ x.epoch = epoch => x.mode = mode

\* A check is no older than the streak, which an earlier one left.
Dated ==
    /\ check # None => Past(check)
    /\ streak # None => Past(streak)
    /\ check # None /\ streak # None =>
        /\ streak.generation <= check.generation
        /\ streak.run <= check.run /\ streak.epoch <= check.epoch

Answered == check # None /\ check.step = "answered"

\* The streak of the core that runs counts no check but one that `missed` counts; the
\* answer that is not noted yet is in `missed` and not in the streak.
StreakIsMissed ==
    streak # None /\ StillWatched(streak) /\ streak.mode = "aggressive" =>
        \/ ~Answered /\ streak.count <= missed
        \/ Answered /\ (check.answer = "silent" => streak.count < missed)

SilentIsMissed ==
    Answered /\ check.answer = "silent" /\ StillWatched(check) => missed >= 1

\* A check on its way to a restart ends as many in a row.
DeadIsMissed ==
    check # None /\ check.step = "dead" /\ StillWatched(check) /\ check.mode = "aggressive"
        => missed >= Strikes["aggressive"]

Inv == Typed /\ Dated /\ StreakIsMissed /\ SilentIsMissed /\ DeadIsMissed

-----------------------------------------------------------------------------
\* What a step may do, by what the invariant looks at.

\* A step that leaves the watchdog's own state and the numbers alone, and the run of
\* the session with whether there is one.
Beside ==
    /\ UNCHANGED <<runs, claims, generation, mode, epoch, check, streak, missed>>
    /\ session' \in Sessions
    /\ session'.run = session.run
    /\ (session'.status = "off") = (session.status = "off")

\* The actions that are no more than that.
LEMMA BesideSteps ==
    ASSUME Constants, Typed,
           \/ CoreExits \/ Sweep \/ PruneLooks \/ Enqueue
           \/ \E p \in probes : Capture(p) \/ Measure(p) \/ Publish(p) \/ Confirm(p)
           \/ UNCHANGED vars
    PROVE  Beside
<1> USE DEF Beside, settings, shown, Typed, Sessions
<1>1. CASE CoreExits
  BY <1>1 DEF CoreExits
<1>2. CASE Sweep
  BY <1>2 DEF Sweep
<1>3. CASE PruneLooks
  BY <1>3 DEF PruneLooks
<1>4. CASE Enqueue
  BY <1>4 DEF Enqueue
<1>5. ASSUME NEW p \in probes, Capture(p) \/ Measure(p) \/ Publish(p) PROVE Beside
  BY <1>5 DEF Capture, Measure, Publish
<1>6. ASSUME NEW p \in probes, Confirm(p) PROVE Beside
  <2>1. CASE session' = session
    BY <1>6, <2>1 DEF Confirm
  <2>2. CASE MayMeasure(p) /\ session' # session
    BY <1>6, <2>2 DEF Confirm, MayMeasure, IsCurrent
  <2> QED BY <1>6, <2>1, <2>2 DEF Confirm
<1>7. CASE UNCHANGED vars
  BY <1>7 DEF vars
<1> QED BY <1>1, <1>2, <1>3, <1>4, <1>5, <1>6, <1>7

\* What happens beside the streak and the check keeps the invariant.
LEMMA BesideKeepsInv ==
    ASSUME Constants, Inv, Beside
    PROVE  Inv'
<1> USE DEF Inv, Beside
<1>1. Typed'
  BY DEF Typed
<1>2. Dated'
  BY DEF Dated, Past
<1>3. \A x : StillWatched(x)' = StillWatched(x)
  BY DEF StillWatched, IsCurrent
<1>4. StreakIsMissed' /\ SilentIsMissed' /\ DeadIsMissed'
  BY <1>3 DEF StreakIsMissed, SilentIsMissed, DeadIsMissed, Answered
<1> QED BY <1>1, <1>2, <1>4

-----------------------------------------------------------------------------
\* The watchdog's own steps

\* What the order of numbers is for: a check that comes after the streak of the core
\* that runs is a check of that core, under the same policy.
LEMMA CheckFollowsStreak ==
    ASSUME Typed, Dated, check # None, streak # None, StillWatched(streak)
    PROVE  StillWatched(check) /\ check.mode = streak.mode
BY DEF Typed, Dated, Past, StillWatched, IsCurrent, Sessions, Checks, Streaks

\* With Counted and the negative answer of a current check there are as many in
\* `missed`.
LEMMA CountedIsMissed ==
    ASSUME Constants, Inv, Answered, check.answer = "silent", StillWatched(check),
           check.mode = "aggressive"
    PROVE  Counted \in Nat \ {0} /\ Counted <= missed
<1>1. missed \in Nat /\ missed >= 1
  BY DEF Inv, SilentIsMissed, Typed, Constants
<1>2. CASE /\ streak # None
           /\ streak.generation = check.generation /\ streak.run = check.run
           /\ streak.epoch = check.epoch /\ streak.mode = check.mode
  <2>1. StillWatched(streak)
    BY <1>2 DEF StillWatched, IsCurrent
  <2>2. streak.count \in Nat \ {0} /\ streak.count < missed
    BY <1>2, <2>1 DEF Inv, StreakIsMissed, Typed, Streaks
  <2>3. Counted = streak.count + 1
    BY <1>2 DEF Counted
  <2> QED BY <2>2, <2>3, <1>1
<1>3. CASE ~(/\ streak # None
             /\ streak.generation = check.generation /\ streak.run = check.run
             /\ streak.epoch = check.epoch /\ streak.mode = check.mode)
  <2>1. Counted = 1
    BY <1>3 DEF Counted
  <2> QED BY <2>1, <1>1
<1> QED BY <1>2, <1>3

\* A streak counts from one.
LEMMA CountedIsCount ==
    ASSUME Typed
    PROVE  Counted \in Nat \ {0}
BY DEF Typed, Counted, Streaks

-----------------------------------------------------------------------------
\* Every step preserves the invariant.

\* A session that is claimed, started or stopped invalidates what was observed before.
LEMMA SessionSteps ==
    ASSUME Constants, Inv, Claim \/ Start \/ Stop
    PROVE  Inv'
<1> USE DEF settings, Inv
<1>1. CASE Claim
  <2>1. Typed' /\ Dated'
    BY <1>1 DEF Claim, Typed, Dated, Past, Constants, Checks, Streaks
  <2>2. check # None => ~StillWatched(check)'
    BY <1>1 DEF Claim, Typed, Dated, Past, StillWatched, IsCurrent, Checks
  <2>3. streak # None => ~StillWatched(streak)'
    BY <1>1 DEF Claim, Typed, Dated, Past, StillWatched, IsCurrent, Streaks
  <2>4. check' = check /\ streak' = streak
    BY <1>1 DEF Claim
  <2>5. StreakIsMissed' /\ SilentIsMissed' /\ DeadIsMissed'
    BY <2>2, <2>3, <2>4 DEF StreakIsMissed, SilentIsMissed, DeadIsMissed, Answered
  <2> QED BY <2>1, <2>5
<1>2. CASE Start
  <2>1. session' \in Sessions /\ session'.run = runs + 1
    <3>1. runs + 1 \in Nat
      BY DEF Typed, Constants
    <3>2. \E status \in {"connected", "failed"}, up \in BOOLEAN :
            session' = [run |-> runs + 1, status |-> status, pending |-> up, alive |-> up]
      BY <1>2 DEF Start
    <3> QED BY <3>1, <3>2 DEF Sessions
  <2>2. Typed' /\ Dated'
    BY <1>2, <2>1 DEF Start, Typed, Dated, Past, Constants, Checks, Streaks
  <2>3. check # None => ~StillWatched(check)'
    BY <1>2, <2>1 DEF Start, Typed, Dated, Past, StillWatched, IsCurrent, Checks
  <2>4. check' = check /\ streak' = None
    BY <1>2 DEF Start
  <2>5. StreakIsMissed' /\ SilentIsMissed' /\ DeadIsMissed'
    BY <2>3, <2>4 DEF StreakIsMissed, SilentIsMissed, DeadIsMissed, Answered
  <2> QED BY <2>2, <2>5
<1>3. CASE Stop
  <2>1. Typed' /\ Dated'
    BY <1>3 DEF Stop, NoSession, Typed, Dated, Past, Constants, Sessions
  <2>2. \A x : ~StillWatched(x)'
    BY <1>3 DEF Stop, StillWatched, IsCurrent
  <2>3. check' = check /\ streak' = streak
    BY <1>3 DEF Stop
  <2>4. StreakIsMissed' /\ SilentIsMissed' /\ DeadIsMissed'
    BY <2>2, <2>3 DEF StreakIsMissed, SilentIsMissed, DeadIsMissed, Answered
  <2> QED BY <2>1, <2>4
<1> QED BY <1>1, <1>2, <1>3

\* Forgetting a streak, for whatever reason, asks for nothing.
LEMMA ForgettingSteps ==
    ASSUME Constants, Inv, PruneCleans \/ Forget \/ SetWatchdog
    PROVE  Inv'
<1> USE DEF settings, Inv
<1>1. CASE PruneCleans \/ Forget
  <2>1. Typed' /\ Dated'
    BY <1>1 DEF PruneCleans, Forget, Typed, Dated, Past
  <2>2. \A x : StillWatched(x)' = StillWatched(x)
    BY <1>1 DEF PruneCleans, Forget, StillWatched, IsCurrent
  <2>3. check' = check /\ streak' = None /\ missed' = missed
    BY <1>1 DEF PruneCleans, Forget
  <2>4. StreakIsMissed' /\ SilentIsMissed' /\ DeadIsMissed'
    BY <2>2, <2>3 DEF StreakIsMissed, SilentIsMissed, DeadIsMissed, Answered
  <2> QED BY <2>1, <2>4
<1>2. CASE SetWatchdog
  <2>1. Typed' /\ Dated'
    BY <1>2 DEF SetWatchdog, Typed, Dated, Past, Constants, Checks
  <2>2. check # None => ~StillWatched(check)'
    BY <1>2 DEF SetWatchdog, Typed, Dated, Past, StillWatched, Checks
  <2>3. check' = check /\ streak' = None
    BY <1>2 DEF SetWatchdog
  <2>4. StreakIsMissed' /\ SilentIsMissed' /\ DeadIsMissed'
    BY <2>2, <2>3 DEF StreakIsMissed, SilentIsMissed, DeadIsMissed, Answered
  <2> QED BY <2>1, <2>4
<1> QED BY <1>1, <1>2

\* A session is listed to be asked, and its core is asked if it may still be measured.
LEMMA WatchAndAsk ==
    ASSUME Constants, Inv, Watch \/ Ask
    PROVE  Inv'
<1> USE DEF settings, shown, Inv
<1>1. streak' = streak /\ missed' = missed
      /\ \A x : StillWatched(x)' = StillWatched(x)
  BY DEF Watch, Ask, StillWatched, IsCurrent
<1>2. CASE Watch
  <2>1. check = None /\ check' \in Checks /\ check'.step = "listed"
        /\ check'.generation = claims /\ check'.run = runs
        /\ check'.epoch = epoch /\ check'.mode = mode
    BY <1>2 DEF Watch, Typed, Checks, Modes, Reported, Sessions
  <2>2. Typed' /\ Dated'
    BY <1>2, <2>1 DEF Watch, Typed, Dated, Past, Checks, Streaks
  <2>3. ~Answered /\ ~Answered'
    BY <2>1 DEF Answered
  <2>4. StreakIsMissed' /\ SilentIsMissed' /\ DeadIsMissed'
    BY <1>1, <2>1, <2>3 DEF StreakIsMissed, SilentIsMissed, DeadIsMissed
  <2> QED BY <2>2, <2>4
<1>3. CASE Ask
  <2>1. check # None /\ check.step = "listed" /\ check \in Checks
    BY <1>3 DEF Ask, Typed
  <2>2. /\ check' \in Checks
        /\ check'.generation = check.generation /\ check'.run = check.run
        /\ check'.epoch = check.epoch /\ check'.mode = check.mode
        /\ check'.step = "asked" \/ (check'.step = "answered" /\ check'.answer = "missing")
    BY <1>3, <2>1 DEF Ask, Checks
  <2>3. Typed' /\ Dated'
    BY <1>3, <2>1, <2>2 DEF Ask, Typed, Dated, Past
  <2>4. StreakIsMissed' /\ SilentIsMissed' /\ DeadIsMissed'
    BY <1>1, <2>1, <2>2 DEF StreakIsMissed, SilentIsMissed, DeadIsMissed, Answered
  <2> QED BY <2>3, <2>4
<1> QED BY <1>2, <1>3

\* The answer arrives.
LEMMA AnswerStep ==
    ASSUME Constants, Inv, Answer
    PROVE  Inv'
<1> USE DEF settings, shown, Inv
<1>1. check # None /\ check.step = "asked" /\ check \in Checks /\ ~Answered
  BY DEF Answer, Typed, Answered
<1>2. PICK outcome \in Outcomes :
        /\ check' = [check EXCEPT !.step = "answered", !.answer = outcome]
        /\ missed' = IF check.run # session.run \/ check.epoch # epoch THEN missed
                     ELSE IF outcome # "silent" THEN 0
                     ELSE IF missed < Strikes["aggressive"] THEN missed + 1 ELSE missed
  BY DEF Answer
<1>3. /\ check' \in Checks
      /\ check'.generation = check.generation /\ check'.run = check.run
      /\ check'.epoch = check.epoch /\ check'.mode = check.mode
      /\ check'.step = "answered" /\ check'.answer = outcome
  BY <1>1, <1>2 DEF Checks
<1>4. missed' \in 0 .. Strikes["aggressive"]
  BY <1>2 DEF Typed, Constants
<1>5. Typed' /\ Dated'
  BY <1>1, <1>3, <1>4 DEF Answer, Typed, Dated, Past
<1>6. streak' = streak /\ \A x : StillWatched(x)' = StillWatched(x)
  BY DEF Answer, StillWatched, IsCurrent
<1>7. StillWatched(check') => check.run = session.run /\ check.epoch = epoch
  BY <1>3 DEF StillWatched, IsCurrent
<1>8. SilentIsMissed' /\ DeadIsMissed'
  <2>1. check.run = session.run /\ check.epoch = epoch /\ outcome = "silent" => missed' >= 1
    BY <1>2 DEF Typed, Constants
  <2>2. StillWatched(check)' => StillWatched(check')
    BY DEF StillWatched, IsCurrent, Answer
  <2> QED BY <1>3, <1>7, <2>1, <2>2 DEF SilentIsMissed, DeadIsMissed, Answered
<1>9. StreakIsMissed'
  <2> SUFFICES ASSUME streak # None, StillWatched(streak), streak.mode = "aggressive",
                      outcome = "silent"
               PROVE  streak.count < missed'
    BY <1>3, <1>6 DEF StreakIsMissed, Answered, Constants
  <2>1. streak.count \in Nat /\ streak.count <= missed
        /\ streak.count < Strikes["aggressive"]
    BY <1>1 DEF StreakIsMissed, Typed, Streaks
  <2>2. check.run = session.run /\ check.epoch = epoch
    BY <1>1, CheckFollowsStreak DEF StillWatched, IsCurrent
  <2> QED BY <1>2, <2>1, <2>2 DEF Typed, Constants
<1> QED BY <1>5, <1>8, <1>9

\* The answer is noted: it ends the streak, or adds to it.
LEMMA NoteStep ==
    ASSUME Constants, Inv, Note
    PROVE  Inv'
<1> USE DEF settings, Inv
<1>1. check # None /\ check.step = "answered" /\ check \in Checks /\ Answered
  BY DEF Note, Typed, Answered
<1>2. /\ UNCHANGED <<session, runs, claims, generation, mode, epoch, missed>>
      /\ \A x : StillWatched(x)' = StillWatched(x)
  BY DEF Note, StillWatched, IsCurrent
<1>3. CASE ~StillWatched(check) \/ mode # check.mode
  <2>1. check' = None /\ streak' = streak
    BY <1>3 DEF Note
  <2>2. Typed' /\ Dated'
    BY <1>2, <2>1 DEF Typed, Dated, Past
  <2>3. streak # None => ~StillWatched(streak)
    BY <1>1, <1>3, CheckFollowsStreak DEF StillWatched, Dated, Past, Checks
  <2>4. StreakIsMissed' /\ SilentIsMissed' /\ DeadIsMissed'
    BY <1>2, <2>1, <2>3 DEF StreakIsMissed, SilentIsMissed, DeadIsMissed, Answered
  <2> QED BY <2>2, <2>4
<1>4. CASE StillWatched(check) /\ mode = check.mode
  <2> DEFINE dead == check.answer = "silent" /\ Counted >= Strikes[mode]
             counted == [generation |-> check.generation, run |-> check.run,
                         epoch |-> check.epoch, mode |-> mode, count |-> Counted]
  <2>1. /\ streak' = IF check.answer # "silent" \/ dead THEN None ELSE counted
        /\ check' = IF dead THEN [check EXCEPT !.step = "dead"] ELSE None
    BY <1>4 DEF Note
  <2>2. Counted \in Nat \ {0}
    BY CountedIsCount
  <2>3. mode \in {"conservative", "aggressive"} /\ Strikes[mode] \in Nat \ {0}
    BY <1>1, <1>4 DEF Checks, Constants
  <2>4. counted \in Streaks
    BY <1>1, <2>2, <2>3 DEF Checks, Streaks
  <2>5. CASE check.answer # "silent"
    <3>1. check' = None /\ streak' = None
      BY <2>1, <2>5
    <3> QED BY <1>2, <3>1
            DEF Typed, Dated, Past, StreakIsMissed, SilentIsMissed, DeadIsMissed, Answered
  <2>6. CASE dead
    <3>1. streak' = None /\ check' = [check EXCEPT !.step = "dead"]
      BY <2>1, <2>6
    <3>2. /\ check' \in Checks /\ check'.step = "dead"
          /\ check'.generation = check.generation /\ check'.run = check.run
          /\ check'.epoch = check.epoch /\ check'.mode = check.mode
      BY <1>1, <3>1 DEF Checks
    <3>3. Typed' /\ Dated'
      BY <1>1, <1>2, <3>1, <3>2 DEF Typed, Dated, Past
    <3>4. StreakIsMissed' /\ SilentIsMissed'
      BY <3>1, <3>2 DEF StreakIsMissed, SilentIsMissed, Answered
    <3>5. mode = "aggressive" => missed >= Strikes["aggressive"]
      BY <1>1, <1>4, <2>2, <2>3, <2>6, CountedIsMissed DEF Typed, Constants
    <3>6. DeadIsMissed'
      BY <1>2, <1>4, <3>2, <3>5 DEF DeadIsMissed
    <3> QED BY <3>3, <3>4, <3>6
  <2>7. CASE check.answer = "silent" /\ ~dead
    <3>1. streak' = counted /\ check' = None
      BY <2>1, <2>7
    <3>2. counted.count = Counted /\ counted.mode = mode
          /\ counted.generation = check.generation /\ counted.run = check.run
          /\ counted.epoch = check.epoch
      OBVIOUS
    <3>3. Counted < Strikes[mode]
      BY <2>2, <2>3, <2>7
    <3>4. Typed' /\ Dated'
      BY <1>1, <1>2, <2>4, <3>1, <3>2, <3>3 DEF Typed, Dated, Past
    <3>5. mode = "aggressive" => Counted <= missed
      BY <1>1, <1>4, <2>7, CountedIsMissed
    <3>6. StreakIsMissed'
      BY <1>2, <3>1, <3>2, <3>5 DEF StreakIsMissed, Answered
    <3>7. SilentIsMissed' /\ DeadIsMissed'
      BY <3>1 DEF SilentIsMissed, DeadIsMissed, Answered
    <3> QED BY <3>4, <3>6, <3>7
  <2> QED BY <2>5, <2>6, <2>7
<1> QED BY <1>3, <1>4

\* The verdict ends the check; it may fail the session, to be restarted.
LEMMA RecoverStep ==
    ASSUME Constants, Inv, Recover
    PROVE  Inv'
<1> USE DEF settings, shown, Inv
<1>1. /\ check' = None
      /\ UNCHANGED <<runs, claims, generation, mode, epoch, streak, missed>>
      /\ check # None /\ check.step = "dead" /\ ~Answered
  BY DEF Recover, Answered
<1>2. /\ session' \in Sessions /\ session'.run = session.run
      /\ (session'.status = "off") = (session.status = "off")
  <2>1. CASE session' = session
    BY <2>1 DEF Typed
  <2>2. CASE session' # session
    <3>1. session' = [session EXCEPT !.status = "failed", !.alive = FALSE] /\ Reported
      BY <2>2 DEF Recover
    <3> QED BY <3>1 DEF Reported, Typed, Sessions
  <2> QED BY <2>1, <2>2
<1>3. \A x : StillWatched(x)' = StillWatched(x)
  BY <1>1, <1>2 DEF StillWatched, IsCurrent
<1>4. Typed' /\ Dated'
  BY <1>1, <1>2 DEF Typed, Dated, Past
<1>5. StreakIsMissed' /\ SilentIsMissed' /\ DeadIsMissed'
  BY <1>1, <1>3 DEF StreakIsMissed, SilentIsMissed, DeadIsMissed, Answered
<1> QED BY <1>4, <1>5

\* Every step keeps the invariant.
LEMMA InvStep ==
    ASSUME Constants, Inv, [Next]_vars
    PROVE  Inv'
<1>1. CASE Claim \/ Start \/ Stop
  BY <1>1, SessionSteps
<1>2. CASE PruneCleans \/ Forget \/ SetWatchdog
  BY <1>2, ForgettingSteps
<1>3. CASE Watch \/ Ask
  BY <1>3, WatchAndAsk
<1>4. CASE Answer
  BY <1>4, AnswerStep
<1>5. CASE Note
  BY <1>5, NoteStep
<1>6. CASE Recover
  BY <1>6, RecoverStep
<1>7. CASE \/ CoreExits \/ Sweep \/ PruneLooks \/ Enqueue
           \/ \E p \in probes : Capture(p) \/ Measure(p) \/ Publish(p) \/ Confirm(p)
           \/ UNCHANGED vars
  BY <1>7, BesideSteps, BesideKeepsInv DEF Inv
<1> QED BY <1>1, <1>2, <1>3, <1>4, <1>5, <1>6, <1>7 DEF Next, Round

\* The invariant holds of every behaviour.
LEMMA InvAlways ==
    ASSUME Constants
    PROVE  Spec => []Inv
<1>1. Init => Inv
  BY DEF Init, Inv, Typed, Dated, StreakIsMissed, SilentIsMissed, DeadIsMissed, Answered,
         Constants, NoSession, Sessions, Modes
<1>2. Inv /\ [Next]_vars => Inv'
  BY InvStep
<1> QED BY <1>1, <1>2, PTL DEF Spec

-----------------------------------------------------------------------------
\* The values are what the bounds and the strikes allow: a streak never reaches what
\* its mode concludes from.
THEOREM WatchdogTypeCorrect ==
    ASSUME Constants
    PROVE  Spec => []TypeOK
<1>1. Inv => TypeOK
  BY DEF Inv, Typed, TypeOK, Constants, Sessions, Streaks
<1> QED BY <1>1, InvAlways, PTL

\* The watchdog restarts no core but one that itself left as many checks in a row
\* unanswered as the aggressive policy asks for, whatever numbers of starts, claims and
\* strikes there are.
THEOREM RestartIsAlwaysEarned ==
    ASSUME Constants
    PROVE  Spec => RestartHasEvidence
<1>1. Inv /\ [Next]_vars => RestartIsEarned
  <2> SUFFICES ASSUME Inv, [Next]_vars, session.alive, ~session'.alive,
                      check # None, check.step = "dead", check' = None
               PROVE  mode = "aggressive" /\ missed >= Strikes["aggressive"]
    BY DEF RestartIsEarned
  <2>1. Recover
    BY DEF Next, Round, vars, settings, shown, Claim, Start, CoreExits, Sweep, Stop,
           PruneLooks, PruneCleans, SetWatchdog, Enqueue, Capture, Measure, Publish,
           Confirm, Forget, Watch, Ask, Answer, Note
  <2>2. mode = "aggressive" /\ check.mode = "aggressive" /\ StillWatched(check)
    BY <2>1 DEF Recover
  <2> QED BY <2>2 DEF Inv, DeadIsMissed
<1> QED BY <1>1, InvAlways, PTL DEF Spec, RestartHasEvidence

\* What a measurement adds to the health is about the core that runs.
LEMMA ObservedIsOwn ==
    ASSUME NEW subject, NEW outcome, ShownIsOwn, session.status = "connected",
           Observed(subject, outcome) # None
    PROVE  /\ Observed(subject, outcome).run = session.run
           /\ Observed(subject, outcome).generation = generation
BY DEF Observed, IsCurrent, ShownIsOwn

\* Every step keeps what is shown the session's own.
LEMMA ShownStep ==
    ASSUME Typed, ShownIsOwn, [Next]_vars
    PROVE  ShownIsOwn'
<1> SUFFICES ASSUME session'.status = "connected"
             PROVE  /\ reading' # None => reading' = session'.run
                    /\ health' # None => health'.run = session'.run
                                         /\ health'.generation = generation'
  BY DEF ShownIsOwn
<1> USE DEF settings, shown
<1>1. CASE Claim \/ PruneCleans
  BY <1>1 DEF Claim, PruneCleans, ShownIsOwn
<1>2. CASE Start
  BY <1>2 DEF Start
<1>3. CASE Stop
  BY <1>3 DEF Stop, NoSession
<1>4. ASSUME CoreExits \/ Sweep \/ Recover \/ \E p \in probes : Confirm(p)
      PROVE  session'.run = session.run /\ session.status = "connected"
             /\ UNCHANGED <<reading, health, generation>>
  <2>1. CASE CoreExits
    BY <2>1 DEF CoreExits, Typed, Sessions
  <2>2. CASE Sweep
    BY <2>2 DEF Sweep, Typed, Sessions
  <2>3. CASE Recover
    <3>1. CASE session' = session
      BY <2>3, <3>1 DEF Recover
    <3>2. CASE session' = [session EXCEPT !.status = "failed", !.alive = FALSE]
      BY <3>2 DEF Typed, Sessions
    <3> QED BY <2>3, <3>1, <3>2 DEF Recover
  <2>4. ASSUME NEW p \in probes, Confirm(p)
        PROVE  session'.run = session.run /\ session.status = "connected"
               /\ UNCHANGED <<reading, health, generation>>
    <3>1. CASE session' = session
      BY <2>4, <3>1 DEF Confirm
    <3>2. CASE session' # session
      BY <2>4, <3>2 DEF Confirm, MayMeasure, Typed, Sessions
    <3> QED BY <3>1, <3>2
  <2> QED BY <1>4, <2>1, <2>2, <2>3, <2>4
<1>5. CASE CoreExits \/ Sweep \/ Recover \/ \E p \in probes : Confirm(p)
  BY <1>4, <1>5 DEF ShownIsOwn
<1>6. ASSUME NEW p \in probes, Publish(p)
      PROVE  ShownIsOwn'
  <2>1. UNCHANGED <<session, generation>>
    BY <1>6 DEF Publish
  <2>2. CASE MayMeasure(p)
    <3>1. reading' = p.run /\ health' = Observed(p, p.answer)
      BY <1>6, <2>2 DEF Publish
    <3>2. p.run = session.run /\ session.status = "connected"
      BY <2>2 DEF MayMeasure, IsCurrent
    <3> QED BY <2>1, <3>1, <3>2, ObservedIsOwn DEF ShownIsOwn
  <2>3. CASE ~MayMeasure(p)
    BY <1>6, <2>1, <2>3 DEF Publish, ShownIsOwn
  <2> QED BY <2>2, <2>3
<1>7. CASE Note
  <2>1. UNCHANGED <<session, generation, reading>>
        /\ (health' = health \/ health' = Observed(check, check.answer))
    BY <1>7 DEF Note
  <2> QED BY <2>1, ObservedIsOwn DEF ShownIsOwn
<1>8. CASE \/ PruneLooks \/ SetWatchdog \/ Enqueue \/ Forget \/ Watch \/ Ask \/ Answer
           \/ \E p \in probes : Capture(p) \/ Measure(p)
           \/ UNCHANGED vars
  <2>1. UNCHANGED <<session, generation, reading, health>>
    BY <1>8 DEF PruneLooks, SetWatchdog, Enqueue, Forget, Watch, Ask, Answer, Capture,
                Measure, vars
  <2> QED BY <2>1 DEF ShownIsOwn
<1> QED BY <1>1, <1>2, <1>3, <1>5, <1>6, <1>7, <1>8 DEF Next, Round, ShownIsOwn

\* No reading and no health of a core that is gone is shown of a working connection,
\* however late the measurements come.
THEOREM ShownIsAlwaysOwn ==
    ASSUME Constants
    PROVE  Spec => []ShownIsOwn
<1>1. Init => ShownIsOwn
  BY DEF Init, NoSession, ShownIsOwn
<1>2. Inv /\ ShownIsOwn /\ [Next]_vars => ShownIsOwn'
  BY ShownStep DEF Inv
<1> QED BY <1>1, <1>2, InvAlways, PTL DEF Spec

-----------------------------------------------------------------------------
(***************************************************************************)
(* The journal of diagnostics, for any processes and any size of its files *)
(* and pages.                                                              *)
(***************************************************************************)

\* A part of a line, a file, and where a process may be.
Parts == [record : Nat, part : {1, 2}]
Generation == [inode : Inodes, file : Nat, bytes : Seq(Parts)]
Stages == {"absent", "idle", "locked", "open", "whole", "renamed", "fresh", "partly", "written"}

JournalTypes ==
    /\ lock \in Writers \cup {Nothing}
    /\ current \in Generation \cup {Nothing}
    /\ backup \in Generation \cup {Nothing}
    /\ writer \in [Writers -> [step : Stages, record : Nat, file : Nat, length : Nat]]
    /\ records \in 0 .. MaxRecords
    /\ files \in Nat
    /\ acked \subseteq 1 .. records

\* Every file is a file of its own.
FilesDiffer ==
    /\ current # Nothing => current.file <= files
    /\ backup # Nothing => backup.file <= files
    /\ current # Nothing /\ backup # Nothing => current.file # backup.file

\* Where a process that holds the lock is, the current generation is as it left it: the
\* record it writes is after all it found, and is nobody's success yet.
WritesAlone(w) ==
    LET bytes == current.bytes
        at == writer[w].length IN
    /\ writer[w].step \notin {"absent", "idle"} =>
        lock = w /\ writer[w].record \in 0 .. records /\ writer[w].record \notin acked
    /\ writer[w].step \in {"open", "whole", "fresh", "partly", "written"} =>
        current # Nothing /\ current.file = writer[w].file
    /\ writer[w].step = "renamed" => current = Nothing
    /\ writer[w].step \in {"whole", "fresh"} => at = Len(bytes)
    /\ writer[w].step \in {"whole", "renamed", "fresh", "partly", "written"} => writer[w].record # 0
    /\ writer[w].step = "partly" =>
        Len(bytes) = at + 1 /\ bytes[at + 1] = Part(writer[w].record, 1)
    /\ writer[w].step = "written" =>
        /\ Len(bytes) = at + 2
        /\ bytes[at + 1] = Part(writer[w].record, 1)
        /\ bytes[at + 2] = Part(writer[w].record, 2)

JournalInv == JournalTypes /\ FilesDiffer /\ \A w \in Writers : WritesAlone(w)

\* A bounded, non-empty set of naturals has a greatest element.
LEMMA GreatestIs ==
    ASSUME NEW N \in Nat, NEW S \in SUBSET (0 .. N), S # {}
    PROVE  Max(S) \in S /\ \A i \in S : i <= Max(S)
<1> DEFINE D == {N - r : r \in S}
<1>1. D \subseteq Nat /\ D # {}
  <2>1. ASSUME NEW r \in S PROVE N - r \in Nat
    <3>1. r \in 0 .. N
      OBVIOUS
    <3> QED
      BY <3>1
  <2>2. PICK r \in S : TRUE
    OBVIOUS
  <2>3. N - r \in D
    OBVIOUS
  <2> QED
    BY <2>1, <2>3
<1>2. PICK d \in D : \A e \in D : ~(<<e, d>> \in OpToRel(<, Nat))
  BY <1>1, NatLessThanWellFounded, WFMin
<1>3. PICK r \in S : d = N - r
  BY <1>2
<1>4. ASSUME NEW q \in S, r < q PROVE FALSE
  <2>1. /\ N - q \in D /\ N - q \in Nat /\ d \in Nat /\ N - q < d
    BY <1>3, <1>4
  <2>2. <<N - q, d>> \in OpToRel(<, Nat)
    BY <2>1 DEF OpToRel
  <2> QED
    BY <1>2, <2>1, <2>2
<1>5. \A q \in S : r >= q
  BY <1>4
<1>6. Max(S) \in S /\ \A q \in S : Max(S) >= q
  BY <1>5 DEF Max
<1> QED
  BY <1>6

-----------------------------------------------------------------------------
\* Lines and the parts they are made of

\* What the assumption says of the constants: Nothing is no process and no file.
LEMMA FactsOfJournal ==
    /\ FileCapacity \in Nat /\ MaxRecords \in Nat
    /\ Nothing \notin Writers /\ Nothing \notin Generation
  BY JournalAssumption DEF Generation, Parts

\* Record r is a line of these parts, and its first part is at i.
LineAt(bytes, r, i) == bytes[i] = Part(r, 1) /\ bytes[i + 1] = Part(r, 2)

\* Parts that begin like others have their lines.
LEMMA LinesOfPrefix ==
    ASSUME NEW old, NEW new, Nothing # old, Nothing # new, NEW r \in Whole(old),
           Len(old.bytes) \in Nat, Len(new.bytes) \in Nat,
           \A i \in 1 .. Len(old.bytes) - 1 : LineAt(old.bytes, r, i) =>
                /\ i + 1 <= Len(new.bytes)
                /\ new.bytes[i] = old.bytes[i] /\ new.bytes[i + 1] = old.bytes[i + 1]
    PROVE  r \in Whole(new)
<1>1. r \in 1 .. MaxRecords
  BY DEF Whole
<1>2. PICK i \in 1 .. Len(old.bytes) - 1 : LineAt(old.bytes, r, i)
  BY DEF Whole, LineAt
<1>3. i \in 1 .. Len(new.bytes) - 1 /\ LineAt(new.bytes, r, i)
  BY <1>2 DEF LineAt
<1> QED
  BY <1>1, <1>3 DEF Whole, LineAt

\* What a repair keeps: the parts up to the last that ends a line.
LEMMA RepairKeeps ==
    ASSUME NEW bytes \in Seq(Parts)
    PROVE  /\ Repaired(bytes) \in Seq(Parts)
           /\ Len(Repaired(bytes)) <= Len(bytes)
           /\ \A i \in 1 .. Len(Repaired(bytes)) : Repaired(bytes)[i] = bytes[i]
           /\ \A i \in 1 .. Len(bytes) : EndsLine(bytes[i]) => i <= Len(Repaired(bytes))
<1> DEFINE S == {0} \cup {i \in DOMAIN bytes : EndsLine(bytes[i])}
           n == Max(S)
<1>1. Len(bytes) \in Nat /\ DOMAIN bytes = 1 .. Len(bytes)
  OBVIOUS
<1>2. S \in SUBSET (0 .. Len(bytes)) /\ S # {}
  BY <1>1
<1>3. n \in S /\ \A i \in S : i <= n
  <2> HIDE DEF S
  <2> QED
    BY <1>1, <1>2, GreatestIs
<1>4. n \in 0 .. Len(bytes)
  BY <1>2, <1>3
<1>5. Repaired(bytes) = SubSeq(bytes, 1, n)
  BY DEF Repaired
<1>6. \A i \in 1 .. Len(bytes) : EndsLine(bytes[i]) => i <= n
  BY <1>1, <1>3
<1> HIDE DEF n, S
<1>7. /\ SubSeq(bytes, 1, n) \in Seq(Parts) /\ Len(SubSeq(bytes, 1, n)) = n
      /\ \A i \in 1 .. n : SubSeq(bytes, 1, n)[i] = bytes[i]
  BY <1>1, <1>4
<1> QED
  BY <1>4, <1>5, <1>6, <1>7

-----------------------------------------------------------------------------
\* One process writes at a time

\* The step AcknowledgedStands speaks of.
StandsStep ==
    /\ acked' \ acked \subseteq Whole(current')
    /\ \A r \in acked : r \in Whole(current) \cup Whole(backup) =>
         \/ r \in Whole(current') \cup Whole(backup')
         \/ r \in Whole(backup) /\ current # Nothing /\ backup'.file = current.file

\* Who does not hold the lock writes nothing.
LEMMA OthersRest ==
    ASSUME JournalInv, NEW w \in Writers, lock \in {w, Nothing}, NEW v \in Writers, v # w
    PROVE  writer[v].step \in {"absent", "idle"}
  BY FactsOfJournal DEF JournalInv, JournalTypes, WritesAlone

\* A process between two records has nothing to say of the journal.
LEMMA RestIsAlone ==
    ASSUME NEW v, writer[v].step \in {"absent", "idle"}
    PROVE  WritesAlone(v)
  BY DEF WritesAlone

\* What a step of the process that holds the lock leaves of the others.
LEMMA OthersStay ==
    ASSUME JournalInv, NEW w \in Writers, lock \in {w, Nothing},
           \A v \in Writers : v # w => writer'[v] = writer[v]
    PROVE  \A v \in Writers : v # w => WritesAlone(v)'
<1> TAKE v \in Writers
<1> HAVE v # w
<1>1. writer'[v].step \in {"absent", "idle"}
  BY OthersRest
<1> QED
  BY <1>1 DEF WritesAlone

\* The record of a process, its fields and its exits.
LEMMA WriterIs ==
    ASSUME JournalTypes, NEW w \in Writers
    PROVE  writer[w] \in [step : Stages, record : Nat, file : Nat, length : Nat]
  BY DEF JournalTypes

\* The process returns: the lock is free, and it rests.
LEMMA ReturnRests ==
    ASSUME JournalInv, NEW w \in Writers, NEW opened \in BOOLEAN, Return(w, opened),
           lock = w
    PROVE  /\ lock' = Nothing
           /\ writer' \in [Writers -> [step : Stages, record : Nat, file : Nat, length : Nat]]
           /\ writer'[w].step \in {"absent", "idle"}
           /\ \A v \in Writers : v # w => writer'[v] = writer[v]
<1>1. writer \in [Writers -> [step : Stages, record : Nat, file : Nat, length : Nat]]
  BY DEF JournalInv, JournalTypes
<1>2. /\ Absent \in [step : Stages, record : Nat, file : Nat, length : Nat]
      /\ [Absent EXCEPT !.step = "idle"] \in [step : Stages, record : Nat, file : Nat, length : Nat]
      /\ Absent.step = "absent" /\ [Absent EXCEPT !.step = "idle"].step = "idle"
  BY DEF Absent, Stages
<1> QED
  BY <1>1, <1>2 DEF Return

-----------------------------------------------------------------------------
\* Every step keeps the invariant, and what was acknowledged

\* A process that starts to write has the lock, and writes a record of its own.
LEMMA LockKeeps ==
    ASSUME JournalInv, NEW w \in Writers, Lock(w)
    PROVE  JournalInv' /\ StandsStep
<1>1. JournalTypes'
  <2>1. (lock \in Writers \cup {Nothing})' /\ (current \in Generation \cup {Nothing})'
        /\ (backup \in Generation \cup {Nothing})' /\ (files \in Nat)'
    BY DEF Lock, journalGhosts, JournalInv, JournalTypes
  <2>2. records' \in 0 .. MaxRecords /\ records <= records'
    <3>1. records \in 0 .. MaxRecords /\ MaxRecords \in Nat
      BY FactsOfJournal DEF JournalInv, JournalTypes
    <3>2. records' = records \/ (records' = records + 1 /\ records < MaxRecords)
      BY DEF Lock, AtStep
    <3> QED
      BY <3>1, <3>2
  <2>3. (acked \subseteq 1 .. records)'
    BY <2>2 DEF Lock, journalGhosts, JournalInv, JournalTypes
  <2>4. (writer \in [Writers -> [step : Stages, record : Nat, file : Nat, length : Nat]])'
    <3>1. PICK begun \in Nat : writer' = [writer EXCEPT ![w] =
                [Absent EXCEPT !.step = "locked", !.record = begun]]
      <4> DEFINE begun == IF AtStep(w, "idle") THEN records + 1 ELSE 0
      <4>1. records \in Nat
        BY FactsOfJournal DEF JournalInv, JournalTypes
      <4>2. begun \in Nat
        BY <4>1
      <4>3. writer' = [writer EXCEPT ![w] = [Absent EXCEPT !.step = "locked", !.record = begun]]
        BY DEF Lock
      <4> HIDE DEF begun
      <4> QED
        BY <4>2, <4>3
    <3>2. [Absent EXCEPT !.step = "locked", !.record = begun]
            \in [step : Stages, record : Nat, file : Nat, length : Nat]
      BY DEF Absent, Stages
    <3> QED
      BY <3>1, <3>2 DEF JournalInv, JournalTypes
  <2> QED
    BY <2>1, <2>2, <2>3, <2>4 DEF JournalTypes
<1>2. FilesDiffer'
  BY DEF Lock, JournalInv, FilesDiffer
<1>3. \A v \in Writers : WritesAlone(v)'
  <2>1. \A v \in Writers : v # w => writer'[v] = writer[v]
    BY DEF Lock, JournalInv, JournalTypes
  <2>2. \A v \in Writers : v # w => WritesAlone(v)'
    BY <2>1, OthersStay DEF Lock
  <2>3. WritesAlone(w)'
    <3>1. writer'[w].step = "locked"
      BY DEF Lock, JournalInv, JournalTypes, Absent
    <3>2. writer'[w].record \in {0, records + 1} /\ writer'[w].record \in 0 .. records'
      BY <1>1 DEF Lock, JournalInv, JournalTypes, Absent
    <3>3. writer'[w].record \notin acked'
      BY <3>2 DEF Lock, journalGhosts, JournalInv, JournalTypes
    <3> QED
      BY <3>1, <3>2, <3>3 DEF WritesAlone, Lock
  <2> QED
    BY <2>2, <2>3
<1>4. StandsStep
  BY DEF Lock, journalGhosts, StandsStep
<1> QED
  BY <1>1, <1>2, <1>3, <1>4 DEF JournalInv

\* A file that is created is none of the others, and is empty.
LEMMA CreatedIs ==
    ASSUME JournalInv, CreateCurrent, backup' = backup
    PROVE  /\ current' \in Generation /\ current'.file = files' /\ current'.bytes = <<>>
           /\ files' = files + 1 /\ FilesDiffer' /\ current = Nothing
<1>1. files \in Nat
  BY DEF JournalInv, JournalTypes
<1>2. current' \in Generation /\ current'.file = files + 1 /\ current'.bytes = <<>>
  BY <1>1 DEF CreateCurrent, Generation, Parts
<1>3. backup # Nothing => backup \in Generation /\ backup.file \in Nat /\ backup.file <= files
  BY DEF JournalInv, JournalTypes, FilesDiffer, Generation
<1> QED
  BY <1>1, <1>2, <1>3 DEF CreateCurrent, FilesDiffer

\* A process that opens the journal finds the current generation, or makes it.
LEMMA OpenKeeps ==
    ASSUME JournalInv, NEW w \in Writers, OpenCurrent(w)
    PROVE  JournalInv' /\ StandsStep
<1>1. /\ current' \in Generation /\ files' \in Nat /\ FilesDiffer'
      /\ \/ current' = current
         \/ current = Nothing
  <2>1. CASE current = Nothing
    BY <2>1, CreatedIs DEF OpenCurrent, JournalInv, JournalTypes
  <2>2. CASE current # Nothing
    BY <2>2 DEF OpenCurrent, JournalInv, JournalTypes, FilesDiffer
  <2> QED
    BY <2>1, <2>2
<1>2. current' # Nothing /\ current'.file \in Nat
  BY <1>1, FactsOfJournal DEF Generation
<1>3. /\ writer' = [writer EXCEPT ![w].step = "open", ![w].file = current'.file]
      /\ writer[w].step = "locked" /\ lock' = lock /\ records' = records /\ acked' = acked
      /\ backup' = backup
  BY DEF OpenCurrent, AtStep, journalGhosts
<1>4. /\ writer' \in [Writers -> [step : Stages, record : Nat, file : Nat, length : Nat]]
      /\ writer'[w].step = "open" /\ writer'[w].file = current'.file
      /\ writer'[w].record = writer[w].record
      /\ \A v \in Writers : v # w => writer'[v] = writer[v]
  BY <1>2, <1>3 DEF JournalInv, JournalTypes, Stages
<1>5. lock = w /\ writer[w].record \in 0 .. records /\ writer[w].record \notin acked
  BY <1>3 DEF JournalInv, WritesAlone
<1>6. JournalTypes'
  BY <1>1, <1>3, <1>4 DEF JournalInv, JournalTypes
<1>7. WritesAlone(w)'
  BY <1>2, <1>3, <1>4, <1>5 DEF WritesAlone
<1>8. \A v \in Writers : v # w => WritesAlone(v)'
  BY <1>4, <1>5, OthersStay
<1>9. StandsStep
  BY <1>1, <1>3 DEF StandsStep, Whole
<1> QED
  BY <1>1, <1>6, <1>7, <1>8, <1>9 DEF JournalInv

\* A process that repairs the tail keeps every complete line.
LEMMA RepairTailKeeps ==
    ASSUME JournalInv, NEW w \in Writers, RepairTail(w)
    PROVE  JournalInv' /\ StandsStep
<1> DEFINE bytes == Repaired(current.bytes)
<1>1. /\ writer[w].step = "open" /\ lock = w /\ current # Nothing
      /\ current \in Generation /\ current.file = writer[w].file
      /\ writer[w].record \in 0 .. records /\ writer[w].record \notin acked
  BY DEF RepairTail, AtStep, JournalInv, JournalTypes, WritesAlone
<1>2. /\ bytes \in Seq(Parts) /\ Len(bytes) \in Nat
      /\ Len(bytes) <= Len(current.bytes)
      /\ \A i \in 1 .. Len(bytes) : bytes[i] = current.bytes[i]
      /\ \A i \in 1 .. Len(current.bytes) : EndsLine(current.bytes[i]) => i <= Len(bytes)
  <2>1. current.bytes \in Seq(Parts)
    BY <1>1 DEF Generation
  <2> QED
    BY <2>1, RepairKeeps
<1>3. /\ current' = [current EXCEPT !.bytes = bytes]
      /\ backup' = backup /\ records' = records /\ files' = files /\ acked' = acked
  BY DEF RepairTail, journalGhosts
<1> HIDE DEF bytes
<1>4. /\ current' \in Generation /\ current'.file = current.file /\ current'.bytes = bytes
      /\ current' # Nothing
  BY <1>1, <1>2, <1>3, FactsOfJournal DEF Generation
<1>5. /\ writer' \in [Writers -> [step : Stages, record : Nat, file : Nat, length : Nat]]
      /\ \A v \in Writers : v # w => writer'[v] = writer[v]
      /\ lock' \in {lock, Nothing}
      /\ WritesAlone(w)'
  <2>1. CASE writer[w].record = 0
    <3>1. Return(w, TRUE)
      BY <2>1 DEF RepairTail
    <3>2. /\ lock' = Nothing
          /\ writer' \in [Writers -> [step : Stages, record : Nat, file : Nat, length : Nat]]
          /\ writer'[w].step \in {"absent", "idle"}
          /\ \A v \in Writers : v # w => writer'[v] = writer[v]
      BY <1>1, <3>1, ReturnRests
    <3> QED
      BY <3>2 DEF WritesAlone
  <2>2. CASE writer[w].record # 0
    <3>1. writer' = [writer EXCEPT ![w].step = "whole", ![w].length = Len(bytes)] /\ lock' = lock
      BY <2>2 DEF RepairTail, bytes
    <3>2. /\ writer' \in [Writers -> [step : Stages, record : Nat, file : Nat, length : Nat]]
          /\ writer'[w].step = "whole" /\ writer'[w].length = Len(bytes)
          /\ writer'[w].record = writer[w].record /\ writer'[w].file = writer[w].file
          /\ \A v \in Writers : v # w => writer'[v] = writer[v]
      BY <1>2, <3>1 DEF JournalInv, JournalTypes, Stages
    <3> QED
      BY <1>1, <1>3, <1>4, <2>2, <3>1, <3>2 DEF WritesAlone
  <2> QED
    BY <2>1, <2>2
<1>6. \A v \in Writers : v # w => WritesAlone(v)'
  BY <1>1, <1>5, OthersStay
<1>7. JournalTypes'
  BY <1>1, <1>3, <1>4, <1>5 DEF JournalInv, JournalTypes
<1>8. FilesDiffer'
  BY <1>1, <1>3, <1>4 DEF JournalInv, FilesDiffer
<1>9. ASSUME NEW r \in Whole(current) PROVE r \in Whole(current')
  <2>1. Len(current.bytes) \in Nat
    BY <1>1 DEF Generation
  <2>2. ASSUME NEW i \in 1 .. Len(current.bytes) - 1, LineAt(current.bytes, r, i)
        PROVE  i + 1 <= Len(bytes) /\ bytes[i] = current.bytes[i] /\ bytes[i + 1] = current.bytes[i + 1]
    <3>1. EndsLine(current.bytes[i + 1])
      BY <2>2 DEF LineAt, EndsLine, Part
    <3>2. PICK j \in 1 .. Len(current.bytes) : j = i + 1
      BY <2>1
    <3>3. j <= Len(bytes)
      BY <1>2, <3>1, <3>2
    <3>4. i \in 1 .. Len(bytes) /\ j \in 1 .. Len(bytes)
      BY ONLY <1>2, <2>1, <3>2, <3>3, i \in 1 .. Len(current.bytes) - 1
    <3> QED
      BY <1>2, <3>2, <3>3, <3>4
  <2> QED
    BY <1>1, <1>2, <1>4, <2>1, <2>2, LinesOfPrefix
<1>10. StandsStep
  BY <1>3, <1>9 DEF StandsStep
<1> QED
  BY <1>5, <1>6, <1>7, <1>8, <1>10 DEF JournalInv

\* A process that rotates the file makes it the backup; what goes is the backup of before.
LEMMA RotateKeeps ==
    ASSUME JournalInv, NEW w \in Writers, Rotate(w)
    PROVE  JournalInv' /\ StandsStep
<1>1. /\ writer[w].step = "whole" /\ lock = w
      /\ writer[w].record \in 0 .. records /\ writer[w].record \notin acked
      /\ writer[w].record # 0
  BY DEF Rotate, AtStep, JournalInv, WritesAlone
<1>2. /\ backup' = current /\ current # Nothing /\ current' = Nothing
      /\ writer' = [writer EXCEPT ![w].step = "renamed"]
      /\ lock' = lock /\ records' = records /\ files' = files /\ acked' = acked
  BY DEF Rotate, Go, journalGhosts
<1>3. /\ writer' \in [Writers -> [step : Stages, record : Nat, file : Nat, length : Nat]]
      /\ writer'[w].step = "renamed" /\ writer'[w].record = writer[w].record
      /\ \A v \in Writers : v # w => writer'[v] = writer[v]
  BY <1>2 DEF JournalInv, JournalTypes, Stages
<1>4. JournalTypes' /\ FilesDiffer'
  BY <1>2, <1>3 DEF JournalInv, JournalTypes, FilesDiffer
<1>5. WritesAlone(w)'
  BY <1>1, <1>2, <1>3 DEF WritesAlone
<1>6. \A v \in Writers : v # w => WritesAlone(v)'
  BY <1>1, <1>3, OthersStay
<1>7. StandsStep
  BY <1>2 DEF StandsStep
<1> QED
  BY <1>4, <1>5, <1>6, <1>7 DEF JournalInv

\* The file that follows is new and empty.
LEMMA RenewKeeps ==
    ASSUME JournalInv, NEW w \in Writers, Renew(w)
    PROVE  JournalInv' /\ StandsStep
<1>1. /\ writer[w].step = "renamed" /\ lock = w
      /\ writer[w].record \in 0 .. records /\ writer[w].record \notin acked
      /\ writer[w].record # 0
  BY DEF Renew, AtStep, JournalInv, WritesAlone
<1>2. /\ backup' = backup /\ lock' = lock /\ records' = records /\ acked' = acked
      /\ writer' = [writer EXCEPT ![w].step = "fresh", ![w].file = current'.file, ![w].length = 0]
  BY DEF Renew, journalGhosts
<1>3. /\ current' \in Generation /\ current'.file \in Nat /\ current'.bytes = <<>>
      /\ current' # Nothing /\ files' \in Nat /\ FilesDiffer' /\ current = Nothing
  BY <1>2, CreatedIs, FactsOfJournal DEF Renew, JournalInv, JournalTypes, Generation
<1>4. /\ writer' \in [Writers -> [step : Stages, record : Nat, file : Nat, length : Nat]]
      /\ writer'[w].step = "fresh" /\ writer'[w].record = writer[w].record
      /\ writer'[w].file = current'.file /\ writer'[w].length = 0
      /\ \A v \in Writers : v # w => writer'[v] = writer[v]
  BY <1>2, <1>3 DEF JournalInv, JournalTypes, Stages
<1>5. JournalTypes'
  BY <1>2, <1>3, <1>4 DEF JournalInv, JournalTypes
<1>6. WritesAlone(w)'
  BY <1>1, <1>2, <1>3, <1>4 DEF WritesAlone
<1>7. \A v \in Writers : v # w => WritesAlone(v)'
  BY <1>1, <1>4, OthersStay
<1>8. StandsStep
  BY <1>2, <1>3 DEF StandsStep, Whole
<1> QED
  BY <1>3, <1>5, <1>6, <1>7, <1>8 DEF JournalInv

\* A part is written after all there is, and the backup is left alone.
LEMMA AppendedIs ==
    ASSUME JournalInv, NEW w \in Writers, NEW i \in {1, 2}, Append1(w, i),
           current # Nothing, current.file = writer[w].file
    PROVE  /\ current' = [current EXCEPT !.bytes = Append(current.bytes, Part(writer[w].record, i))]
           /\ backup' = backup
           /\ current' \in Generation /\ current'.file = current.file /\ current' # Nothing
           /\ Len(current.bytes) \in Nat
           /\ Len(current'.bytes) = Len(current.bytes) + 1
           /\ current'.bytes[Len(current.bytes) + 1] = Part(writer[w].record, i)
           /\ \A j \in 1 .. Len(current.bytes) : current'.bytes[j] = current.bytes[j]
           /\ FilesDiffer /\ (files' = files => FilesDiffer')
           /\ \A r \in Whole(current) : r \in Whole(current')
<1>1. current \in Generation
  BY DEF JournalInv, JournalTypes
<1>2. backup # Nothing => backup.file # writer[w].file
  BY DEF JournalInv, FilesDiffer
<1>3. current' = [current EXCEPT !.bytes = Append(current.bytes, Part(writer[w].record, i))]
  BY <1>1 DEF Append1, Change, Generation
<1>4. backup' = backup
  BY <1>2 DEF Append1, Change
<1>5. /\ Part(writer[w].record, i) \in Parts
      /\ current.bytes \in Seq(Parts) /\ Len(current.bytes) \in Nat
  BY <1>1, WriterIs DEF Part, Parts, Generation, JournalInv
<1> DEFINE new == Append(current.bytes, Part(writer[w].record, i))
<1>6. /\ new \in Seq(Parts) /\ Len(new) = Len(current.bytes) + 1
      /\ new[Len(current.bytes) + 1] = Part(writer[w].record, i)
      /\ \A j \in 1 .. Len(current.bytes) : new[j] = current.bytes[j]
  BY <1>5
<1> HIDE DEF new
<1>7. /\ current' \in Generation /\ current'.file = current.file /\ current'.bytes = new
      /\ current' # Nothing
  BY <1>1, <1>3, <1>6, FactsOfJournal DEF Generation, new
<1>8. FilesDiffer /\ (files' = files => FilesDiffer')
  BY <1>4, <1>7 DEF JournalInv, FilesDiffer
<1>9. ASSUME NEW r \in Whole(current) PROVE r \in Whole(current')
  <2>1. \A j \in 1 .. Len(current.bytes) - 1 : LineAt(current.bytes, r, j) =>
            j + 1 <= Len(new) /\ new[j] = current.bytes[j] /\ new[j + 1] = current.bytes[j + 1]
    <3> SUFFICES ASSUME NEW j \in 1 .. Len(current.bytes) - 1
                 PROVE  j + 1 <= Len(new) /\ new[j] = current.bytes[j]
                        /\ new[j + 1] = current.bytes[j + 1]
      OBVIOUS
    <3>1. j \in 1 .. Len(current.bytes) /\ j + 1 \in 1 .. Len(current.bytes)
      BY <1>5
    <3>2. j + 1 <= Len(new)
      BY <1>5, <1>6, <3>1
    <3> QED
      BY <1>6, <3>1, <3>2
  <2> QED
    BY <1>5, <1>6, <1>7, <2>1, LinesOfPrefix
<1> QED
  BY <1>3, <1>4, <1>5, <1>6, <1>7, <1>8, <1>9 DEF new

\* The first part of a record follows what the process found.
LEMMA WriteFirstKeeps ==
    ASSUME JournalInv, NEW w \in Writers, WriteFirst(w)
    PROVE  JournalInv' /\ StandsStep
<1>1. /\ writer[w].step \in {"whole", "fresh"} /\ lock = w
      /\ writer[w].record \in 0 .. records /\ writer[w].record \notin acked
      /\ writer[w].record # 0 /\ current # Nothing /\ current.file = writer[w].file
      /\ writer[w].length = Len(current.bytes)
  BY DEF WriteFirst, AtStep, JournalInv, WritesAlone
<1>2. /\ writer' = [writer EXCEPT ![w].step = "partly"]
      /\ lock' = lock /\ records' = records /\ files' = files /\ acked' = acked
      /\ Append1(w, 1)
  BY DEF WriteFirst, Go, journalGhosts
<1>3. /\ writer' \in [Writers -> [step : Stages, record : Nat, file : Nat, length : Nat]]
      /\ writer'[w].step = "partly" /\ writer'[w].record = writer[w].record
      /\ writer'[w].file = writer[w].file /\ writer'[w].length = writer[w].length
      /\ \A v \in Writers : v # w => writer'[v] = writer[v]
  BY <1>2 DEF JournalInv, JournalTypes, Stages
<1>4. /\ backup' = backup /\ current' \in Generation /\ current'.file = current.file
      /\ current' # Nothing /\ Len(current'.bytes) = Len(current.bytes) + 1
      /\ current'.bytes[Len(current.bytes) + 1] = Part(writer[w].record, 1)
      /\ FilesDiffer' /\ \A r \in Whole(current) : r \in Whole(current')
  BY <1>1, <1>2, AppendedIs
<1>5. JournalTypes'
  BY <1>2, <1>3, <1>4 DEF JournalInv, JournalTypes
<1>6. WritesAlone(w)'
  BY <1>1, <1>2, <1>3, <1>4 DEF WritesAlone
<1>7. \A v \in Writers : v # w => WritesAlone(v)'
  BY <1>1, <1>3, OthersStay
<1>8. StandsStep
  BY <1>2, <1>4 DEF StandsStep
<1> QED
  BY <1>4, <1>5, <1>6, <1>7, <1>8 DEF JournalInv

\* The second part ends the line.
LEMMA WriteRestKeeps ==
    ASSUME JournalInv, NEW w \in Writers, WriteRest(w)
    PROVE  JournalInv' /\ StandsStep
<1>1. /\ writer[w].step = "partly" /\ lock = w
      /\ writer[w].record \in 0 .. records /\ writer[w].record \notin acked
      /\ writer[w].record # 0 /\ current # Nothing /\ current.file = writer[w].file
      /\ Len(current.bytes) = writer[w].length + 1
      /\ current.bytes[writer[w].length + 1] = Part(writer[w].record, 1)
  BY DEF WriteRest, AtStep, JournalInv, WritesAlone
<1>2. /\ writer' = [writer EXCEPT ![w].step = "written"]
      /\ lock' = lock /\ records' = records /\ files' = files /\ acked' = acked
      /\ Append1(w, 2)
  BY DEF WriteRest, Go
<1>3. /\ writer' \in [Writers -> [step : Stages, record : Nat, file : Nat, length : Nat]]
      /\ writer'[w].step = "written" /\ writer'[w].record = writer[w].record
      /\ writer'[w].file = writer[w].file /\ writer'[w].length = writer[w].length
      /\ \A v \in Writers : v # w => writer'[v] = writer[v]
  BY <1>2 DEF JournalInv, JournalTypes, Stages
<1>4. /\ backup' = backup /\ current' \in Generation /\ current'.file = current.file
      /\ current' # Nothing /\ Len(current'.bytes) = Len(current.bytes) + 1
      /\ current'.bytes[Len(current.bytes) + 1] = Part(writer[w].record, 2)
      /\ \A j \in 1 .. Len(current.bytes) : current'.bytes[j] = current.bytes[j]
      /\ FilesDiffer' /\ \A r \in Whole(current) : r \in Whole(current')
  BY <1>1, <1>2, AppendedIs
<1>5. JournalTypes'
  BY <1>2, <1>3, <1>4 DEF JournalInv, JournalTypes
<1>6. WritesAlone(w)'
  <2>1. writer[w].length \in Nat
    BY WriterIs DEF JournalInv
  <2>3. Len(current.bytes) = writer[w].length + 1 /\ writer[w].length + 1 \in 1 .. Len(current.bytes)
    BY <1>1, <2>1
  <2>4. current'.bytes[writer[w].length + 1] = current.bytes[writer[w].length + 1]
    BY <1>4, <2>3
  <2>2. /\ Len(current'.bytes) = writer[w].length + 2
        /\ current'.bytes[writer[w].length + 1] = Part(writer[w].record, 1)
        /\ current'.bytes[writer[w].length + 2] = Part(writer[w].record, 2)
    BY <1>1, <1>4, <2>1, <2>3, <2>4
  <2> QED
    BY <1>1, <1>2, <1>3, <1>4, <2>2 DEF WritesAlone
<1>7. \A v \in Writers : v # w => WritesAlone(v)'
  BY <1>1, <1>3, OthersStay
<1>8. StandsStep
  BY <1>2, <1>4 DEF StandsStep
<1> QED
  BY <1>4, <1>5, <1>6, <1>7, <1>8 DEF JournalInv

\* What a process reports to have written is a line of the current generation.
LEMMA SucceedKeeps ==
    ASSUME JournalInv, NEW w \in Writers, Succeed(w)
    PROVE  JournalInv' /\ StandsStep
<1>1. /\ writer[w].step = "written" /\ lock = w
      /\ writer[w].record \in 0 .. records /\ writer[w].record # 0
      /\ current # Nothing /\ Len(current.bytes) = writer[w].length + 2
      /\ current.bytes[writer[w].length + 1] = Part(writer[w].record, 1)
      /\ current.bytes[writer[w].length + 2] = Part(writer[w].record, 2)
  BY DEF Succeed, AtStep, JournalInv, WritesAlone
<1>2. /\ current' = current /\ backup' = backup /\ records' = records /\ files' = files
      /\ acked' = acked \cup {writer[w].record} /\ Return(w, TRUE)
  BY DEF Succeed
<1>3. /\ lock' = Nothing
      /\ writer' \in [Writers -> [step : Stages, record : Nat, file : Nat, length : Nat]]
      /\ writer'[w].step \in {"absent", "idle"}
      /\ \A v \in Writers : v # w => writer'[v] = writer[v]
  BY <1>1, <1>2, ReturnRests
<1>4. writer[w].record \in 1 .. records /\ records \in 0 .. MaxRecords /\ MaxRecords \in Nat
  BY <1>1, FactsOfJournal DEF JournalInv, JournalTypes
<1>5. JournalTypes' /\ FilesDiffer'
  BY <1>2, <1>3, <1>4 DEF JournalInv, JournalTypes, FilesDiffer
<1>6. WritesAlone(w)'
  BY <1>3 DEF WritesAlone
<1>7. ASSUME NEW v \in Writers, v # w PROVE WritesAlone(v)'
  <2>1. writer'[v].step \in {"absent", "idle"}
    BY <1>1, <1>3, <1>7, OthersRest
  <2> QED
    BY <2>1 DEF WritesAlone
<1>8. writer[w].record \in Whole(current')
  <2>1. writer[w].length \in Nat
    BY WriterIs DEF JournalInv
  <2>2. writer[w].length + 1 \in 1 .. Len(current.bytes) - 1
    BY <1>1, <2>1
  <2>3. writer[w].record \in 1 .. MaxRecords
    BY <1>4
  <2>4. writer[w].length + 1 + 1 = writer[w].length + 2
    BY <2>1
  <2> QED
    BY <1>1, <1>2, <2>2, <2>3, <2>4 DEF Whole
<1>9. StandsStep
  BY <1>2, <1>8 DEF StandsStep
<1> QED
  BY <1>5, <1>6, <1>7, <1>9 DEF JournalInv

\* A process that gives up leaves the generations as they are.
LEMMA GiveUpKeeps ==
    ASSUME JournalInv, NEW w \in Writers, GiveUp(w)
    PROVE  JournalInv' /\ StandsStep
<1>1. writer[w].step \notin {"absent", "idle"} /\ lock = w
  BY DEF GiveUp, JournalInv, WritesAlone
<1>2. /\ current' = current /\ backup' = backup /\ records' = records /\ files' = files
      /\ acked' = acked /\ Return(w, FALSE)
  BY DEF GiveUp, journalGhosts
<1>3. /\ lock' = Nothing
      /\ writer' \in [Writers -> [step : Stages, record : Nat, file : Nat, length : Nat]]
      /\ writer'[w].step \in {"absent", "idle"}
      /\ \A v \in Writers : v # w => writer'[v] = writer[v]
  BY <1>1, <1>2, ReturnRests
<1>4. JournalTypes' /\ FilesDiffer'
  BY <1>2, <1>3 DEF JournalInv, JournalTypes, FilesDiffer
<1>5. WritesAlone(w)'
  BY <1>3 DEF WritesAlone
<1>6. \A v \in Writers : v # w => WritesAlone(v)'
  BY <1>1, <1>3, OthersStay
<1>7. StandsStep
  BY <1>2 DEF StandsStep
<1> QED
  BY <1>4, <1>5, <1>6, <1>7 DEF JournalInv

\* The file is cut back to what it was before the record of the process.
LEMMA CutIs ==
    ASSUME JournalInv, NEW w \in Writers, writer[w].step \in {"partly", "written"}
    PROVE  LET cut == SubSeq(current.bytes, 1, Min({writer[w].length, Len(current.bytes)})) IN
           /\ cut \in Seq(Parts) /\ Len(cut) = writer[w].length
           /\ \A i \in 1 .. Len(cut) : cut[i] = current.bytes[i]
           /\ \A r \in acked : \A i \in 1 .. Len(current.bytes) - 1 :
                LineAt(current.bytes, r, i) => i + 1 <= Len(cut)
<1> DEFINE at == writer[w].length
           bytes == current.bytes
<1>1. /\ current # Nothing /\ writer[w].record \notin acked
      /\ bytes[at + 1] = Part(writer[w].record, 1)
      /\ Len(bytes) \in {at + 1, at + 2}
  BY DEF JournalInv, WritesAlone
<1>2. bytes \in Seq(Parts) /\ Len(bytes) \in Nat /\ at \in Nat
  BY <1>1, WriterIs DEF JournalInv, JournalTypes, Generation
<1>3. Min({at, Len(bytes)}) = at
  <2>1. at <= Len(bytes)
    BY <1>1, <1>2
  <2>2. \A x \in {at, Len(bytes)} : at <= x
    BY <1>2, <2>1
  <2> DEFINE S == {at, Len(bytes)}
  <2>3. at \in S /\ \A y \in S : at <= y
    BY <2>2
  <2>4. Len(bytes) \in S /\ S = {at, Len(bytes)}
    OBVIOUS
  <2> HIDE DEF S
  <2>5. Min(S) \in S /\ \A y \in S : y >= Min(S)
    <3>1. \E x \in S : \A y \in S : y >= x
      BY <1>2, <2>3, <2>4
    <3> QED
      BY <3>1 DEF Min
  <2> QED
    BY <1>2, <2>1, <2>3, <2>4, <2>5
<1>4. ASSUME NEW r \in acked, NEW i \in 1 .. Len(bytes) - 1, LineAt(bytes, r, i)
      PROVE  i + 1 <= at
  <2>1. i # at
    BY <1>1, <1>4 DEF LineAt, Part
  <2>2. i # at + 1
    BY <1>1, <1>4 DEF LineAt, Part
  <2>3. i \in Nat /\ i + 1 <= Len(bytes)
    BY <1>2
  <2>4. PICK n \in Nat, l \in Nat : n = Len(bytes) /\ l = at
    BY <1>2
  <2> HIDE DEF at, bytes
  <2> QED
    BY <1>1, <2>1, <2>2, <2>3, <2>4
<1>5. /\ SubSeq(bytes, 1, at) \in Seq(Parts) /\ Len(SubSeq(bytes, 1, at)) = at
      /\ \A i \in 1 .. at : SubSeq(bytes, 1, at)[i] = bytes[i]
  BY <1>1, <1>2
<1> QED
  BY <1>3, <1>4, <1>5

\* A roll back takes away what its process wrote, and nothing that was acknowledged.
LEMMA RollBackKeeps ==
    ASSUME JournalInv, NEW w \in Writers, RollBack(w)
    PROVE  JournalInv' /\ StandsStep
<1>1. /\ writer[w].step \in {"partly", "written"} /\ lock = w
      /\ current # Nothing /\ current.file = writer[w].file /\ current \in Generation
  BY FactsOfJournal DEF RollBack, JournalInv, JournalTypes, WritesAlone
<1>2. records' = records /\ files' = files /\ acked' = acked /\ Return(w, FALSE)
  BY DEF RollBack
<1>3. /\ lock' = Nothing
      /\ writer' \in [Writers -> [step : Stages, record : Nat, file : Nat, length : Nat]]
      /\ writer'[w].step \in {"absent", "idle"}
      /\ \A v \in Writers : v # w => writer'[v] = writer[v]
  BY <1>1, <1>2, ReturnRests
<1> DEFINE cut == SubSeq(current.bytes, 1, Min({writer[w].length, Len(current.bytes)}))
<1>4. /\ cut \in Seq(Parts) /\ Len(cut) \in Nat
      /\ \A i \in 1 .. Len(cut) : cut[i] = current.bytes[i]
      /\ \A r \in acked : \A i \in 1 .. Len(current.bytes) - 1 :
            LineAt(current.bytes, r, i) => i + 1 <= Len(cut)
  BY <1>1, CutIs, WriterIs DEF JournalInv
<1>5. backup' = backup /\ (current' = current \/ current' = [current EXCEPT !.bytes = cut])
  <2>1. backup # Nothing => backup.file # writer[w].file
    BY <1>1 DEF JournalInv, FilesDiffer
  <2> QED
    BY <1>1, <2>1 DEF RollBack, Change, Generation
<1> HIDE DEF cut
<1>6. /\ current' \in Generation /\ current'.file = current.file /\ current' # Nothing
      /\ current' = current \/ current'.bytes = cut
  BY <1>1, <1>4, <1>5, FactsOfJournal DEF Generation
<1>7. JournalTypes' /\ FilesDiffer'
  BY <1>1, <1>2, <1>3, <1>5, <1>6 DEF JournalInv, JournalTypes, FilesDiffer
<1>8. WritesAlone(w)'
  BY <1>3 DEF WritesAlone
<1>9. \A v \in Writers : v # w => WritesAlone(v)'
  BY <1>1, <1>3, OthersStay
<1>10. ASSUME NEW r \in acked, r \in Whole(current) PROVE r \in Whole(current')
  <2>1. CASE current' = current
    BY <1>10, <2>1
  <2>2. CASE current'.bytes = cut
    <3>1. Len(current.bytes) \in Nat
      BY <1>1 DEF Generation
    <3>2. \A i \in 1 .. Len(current.bytes) - 1 : LineAt(current.bytes, r, i) =>
            i + 1 <= Len(cut) /\ cut[i] = current.bytes[i] /\ cut[i + 1] = current.bytes[i + 1]
      BY <1>4, <3>1
    <3> QED
      BY <1>1, <1>4, <1>6, <1>10, <2>2, <3>1, <3>2, LinesOfPrefix
  <2> QED
    BY <1>6, <2>1, <2>2
<1>11. StandsStep
  BY <1>2, <1>5, <1>10 DEF StandsStep
<1> QED
  BY <1>7, <1>8, <1>9, <1>11 DEF JournalInv

\* A process that dies lets go of the lock; what it has written stays.
LEMMA ExitKeeps ==
    ASSUME JournalInv, NEW w \in Writers, Exit(w)
    PROVE  JournalInv' /\ StandsStep
<1>1. /\ current' = current /\ backup' = backup /\ records' = records /\ files' = files
      /\ acked' = acked /\ writer' = [writer EXCEPT ![w] = Absent]
      /\ lock' = IF lock = w THEN Nothing ELSE lock
  BY DEF Exit, journalGhosts
<1>2. /\ writer' \in [Writers -> [step : Stages, record : Nat, file : Nat, length : Nat]]
      /\ writer'[w].step = "absent"
      /\ \A v \in Writers : v # w => writer'[v] = writer[v]
  <2>1. /\ Absent \in [step : Stages, record : Nat, file : Nat, length : Nat]
        /\ Absent.step = "absent"
    BY DEF Absent, Stages
  <2> QED
    BY <1>1, <2>1 DEF JournalInv, JournalTypes
<1>3. JournalTypes' /\ FilesDiffer'
  BY <1>1, <1>2 DEF JournalInv, JournalTypes, FilesDiffer
<1>4. WritesAlone(w)'
  BY <1>2 DEF WritesAlone
<1>5. ASSUME NEW v \in Writers, v # w PROVE WritesAlone(v)'
  <2>1. CASE lock = w
    BY <1>2, <1>5, <2>1, OthersStay
  <2>2. CASE lock # w
    BY <1>1, <1>2, <1>5, <2>2 DEF JournalInv, WritesAlone
  <2> QED
    BY <2>1, <2>2
<1>6. StandsStep
  BY <1>1 DEF StandsStep
<1> QED
  BY <1>3, <1>4, <1>5, <1>6 DEF JournalInv

\* A reader changes nothing that is written.
LEMMA ReadKeeps ==
    ASSUME JournalInv, NEW limit \in Limits, Read(limit)
    PROVE  JournalInv' /\ StandsStep
<1>1. UNCHANGED <<lock, current, backup, writer, records, files, acked>>
  BY DEF Read
<1>2. JournalInv'
  BY <1>1 DEF JournalInv, JournalTypes, FilesDiffer, WritesAlone
<1> QED
  BY <1>1, <1>2 DEF StandsStep

\* At first there is nothing.
LEMMA JournalInvInit ==
    ASSUME JournalInit
    PROVE  JournalInv
<1>1. Absent \in [step : Stages, record : Nat, file : Nat, length : Nat] /\ Absent.step = "absent"
  BY DEF Absent, Stages
<1>2. JournalTypes
  BY <1>1, FactsOfJournal DEF JournalInit, JournalTypes
<1>3. FilesDiffer
  BY DEF JournalInit, FilesDiffer
<1>4. \A w \in Writers : WritesAlone(w)
  BY <1>1 DEF JournalInit, WritesAlone
<1> QED
  BY <1>2, <1>3, <1>4 DEF JournalInv

\* Every step keeps the invariant and does what AcknowledgedStands says.
LEMMA JournalInvStep ==
    ASSUME JournalInv, [JournalNext]_journalVars
    PROVE  JournalInv' /\ (JournalNext => StandsStep)
<1>1. CASE UNCHANGED journalVars
  <2>1. UNCHANGED <<lock, current, backup, writer, records, files, acked>>
    BY <1>1 DEF journalVars, journalGhosts
  <2>2. JournalInv'
    BY <2>1 DEF JournalInv, JournalTypes, FilesDiffer, WritesAlone
  <2>3. StandsStep
    BY <2>1 DEF StandsStep
  <2> QED
    BY <2>2, <2>3
<1>2. CASE JournalNext
  <2>1. CASE \E w \in Writers : Write(w) \/ GiveUp(w) \/ RollBack(w) \/ Exit(w)
    <3>1. PICK w \in Writers : Write(w) \/ GiveUp(w) \/ RollBack(w) \/ Exit(w)
      BY <2>1
    <3>2. CASE Write(w)
      BY <3>2, LockKeeps, OpenKeeps, RepairTailKeeps, RotateKeeps, RenewKeeps,
         WriteFirstKeeps, WriteRestKeeps, SucceedKeeps DEF Write
    <3> QED
      BY <3>1, <3>2, GiveUpKeeps, RollBackKeeps, ExitKeeps
  <2>2. CASE \E limit \in Limits : Read(limit)
    BY <2>2, ReadKeeps
  <2> QED
    BY <1>2, <2>1, <2>2 DEF JournalNext
<1> QED
  BY <1>1, <1>2

\* What stands of the acknowledged records in every step. diagnostics.rs reports a record
\* as written only when its line is in the file, and no repair, rotation, roll back, death or
\* second process takes a reported record away, but for the backup a rotation replaces:
\* for any processes, sizes and numbers of files.
THEOREM AcknowledgedAlwaysStands == JournalSpec => AcknowledgedStands
<1> DEFINE A == /\ acked' \ acked \subseteq Whole(current')
                /\ \A r \in acked : r \in Whole(current) \cup Whole(backup) =>
                     \/ r \in Whole(current') \cup Whole(backup')
                     \/ r \in Whole(backup) /\ current # Nothing /\ backup'.file = current.file
<1>1. JournalInit => JournalInv
  BY JournalInvInit
<1>2. JournalInv /\ [JournalNext]_journalVars => JournalInv'
  BY JournalInvStep
<1>3. JournalInv /\ [JournalNext]_journalVars => [A]_journalVars
  BY JournalInvStep DEF StandsStep
<1> HIDE DEF A
<1>4. JournalSpec => [][A]_journalVars
  BY <1>1, <1>2, <1>3, PTL DEF JournalSpec
<1> QED
  BY <1>4 DEF AcknowledgedStands, A

-----------------------------------------------------------------------------
\* Pages and the history

LinesOf(held) == IF held = Nothing THEN 0 ELSE Lines(held.bytes)

\* The parts are n complete lines, and at most the first part of one more.
Paired(bytes, n) ==
    /\ n \in Nat /\ Len(bytes) \in {n + n, n + n + 1}
    /\ \A k \in 1 .. n :
        /\ bytes[k + k - 1].part = 1 /\ bytes[k + k].part = 2
        /\ bytes[k + k - 1].record = bytes[k + k].record
    /\ Len(bytes) = n + n + 1 => bytes[n + n + 1].part = 1

\* The complete lines of these parts are those of the history h after the first s.
Tells(h, bytes, s) ==
    /\ s \in Nat /\ s + Lines(bytes) <= Len(h)
    /\ Paired(bytes, Lines(bytes))
    /\ \A k \in 1 .. Lines(bytes) : bytes[k + k].record = h[s + k]

\* The history goes forth.
Rises(h, last) ==
    /\ h \in Seq(Nat)
    /\ \A i, j \in 1 .. Len(h) : i < j => h[i] < h[j]
    /\ \A i \in 1 .. Len(h) : h[i] <= last

\* The history ends with what the generations hold.
GenerationsTold ==
    /\ LinesOf(current) \in Nat /\ LinesOf(backup) \in Nat
    /\ LinesOf(backup) + LinesOf(current) <= Len(history)
    /\ current # Nothing => Tells(history, current.bytes, Len(history) - LinesOf(current))
    /\ backup # Nothing =>
        /\ Tells(history, backup.bytes, Len(history) - LinesOf(current) - LinesOf(backup))
        /\ Len(backup.bytes) = LinesOf(backup) + LinesOf(backup)

\* The record a process has begun is later than the history, until its line is there,
\* which nobody has read; it is written after complete lines.
HistoryGoesOn(w) ==
    /\ (writer[w].record # 0 /\ writer[w].step \notin {"absent", "idle", "written"}) =>
        \A i \in 1 .. Len(history) : history[i] < writer[w].record
    /\ writer[w].step \in {"whole", "fresh"} =>
        Len(current.bytes) = LinesOf(current) + LinesOf(current)
    /\ writer[w].step = "written" =>
        /\ Len(history) > seen
        /\ history[Len(history)] = writer[w].record

\* The cursor stands for the first lines of the history: by the last of those it consumed
\* or, when it consumed none, by its file.
CursorTold ==
    /\ seen \in 0 .. Len(history)
    /\ cursor # Nothing =>
        /\ cursor.offset \in Nat /\ cursor.file \in 0 .. files
        /\ cursor.hash \in Seq(Parts) /\ Len(cursor.hash) = cursor.offset
        /\ cursor.offset # 0 => \E k \in 1 .. cursor.offset :
            /\ cursor.offset = k + k
            /\ seen # 0 /\ cursor.hash[cursor.offset].record = history[seen]
        /\ cursor.offset = 0 =>
            /\ (current # Nothing /\ current.file = cursor.file) =>
                    seen = Len(history) - LinesOf(current)
            /\ (backup # Nothing /\ backup.file = cursor.file) =>
                    seen = Len(history) - LinesOf(current) - LinesOf(backup)

PageTold ==
    page # Nothing =>
        /\ page.rejected = 0 /\ page.from \in Nat /\ page.to = seen
        /\ page.reused \/ page.records = SubSeq(history, page.from + 1, page.to)

\* What the proof about pages adds to JournalInv.
PagesTold ==
    /\ Rises(history, records) /\ GenerationsTold
    /\ \A w \in Writers : HistoryGoesOn(w)
    /\ CursorTold /\ PageTold

\* Every number is twice another, or one more.
LEMMA Halves ==
    ASSUME NEW i \in Nat
    PROVE  \E k \in Nat : i = k + k \/ i = k + k + 1
<1> DEFINE S == {n \in Nat : \E k \in Nat : n = k + k \/ n = k + k + 1}
<1>1. 0 \in S
  <2>1. 0 = 0 + 0
    OBVIOUS
  <2> QED
    BY <2>1
<1>2. ASSUME NEW n \in Nat, n \in S PROVE n + 1 \in S
  <2>1. PICK k \in Nat : n = k + k \/ n = k + k + 1
    BY <1>2
  <2>2. CASE n = k + k
    <3>1. \E j \in Nat : n + 1 = j + j \/ n + 1 = j + j + 1
      BY <2>2
    <3> QED
      BY <3>1
  <2>3. CASE n = k + k + 1
    <3>1. PICK j \in Nat : j = k + 1
      OBVIOUS
    <3>2. n + 1 = j + j
      BY <2>3, <3>1
    <3> QED
      BY <3>2
  <2> QED
    BY <2>1, <2>2, <2>3
<1> HIDE DEF S
<1>3. i \in S
  BY <1>1, <1>2, NaturalSteps
<1> QED
  BY <1>3 DEF S

\* How a number and its half compare.
LEMMA HalfCompares ==
    ASSUME NEW k \in Nat, NEW n \in Nat, NEW l \in Nat, l \in {n + n, n + n + 1}
    PROVE  /\ k + k <= l => k <= n
           /\ k + k + 1 <= l => k < n \/ (k = n /\ l = n + n + 1)
           /\ k <= n => k + k <= l
           /\ k >= 1 => k + k - 1 >= 1 /\ k + k - 1 \in Nat
           /\ (k + 1) + (k + 1) - 1 = k + k + 1
           /\ (k + 1) + (k + 1) = k + k + 2
  OBVIOUS

\* The ends of the lines of paired parts: every second part, and no other.
LEMMA EndsOfPaired ==
    ASSUME NEW bytes \in Seq(Parts), NEW n \in Nat, Paired(bytes, n)
    PROVE  /\ n \in Nat
           /\ {i \in DOMAIN bytes : EndsLine(bytes[i])} = {k + k : k \in 1 .. n}
<1>1. /\ n \in Nat /\ Len(bytes) \in {n + n, n + n + 1} /\ Len(bytes) \in Nat
  BY DEF Paired
<1>2. /\ \A k \in 1 .. n : bytes[k + k - 1].part = 1 /\ bytes[k + k].part = 2
      /\ Len(bytes) = n + n + 1 => bytes[n + n + 1].part = 1
  BY DEF Paired
<1>3. ASSUME NEW i \in 1 .. Len(bytes), bytes[i].part = 2 PROVE \E k \in 1 .. n : i = k + k
  <2>1. PICK k \in Nat : i = k + k \/ i = k + k + 1
    <3>1. i \in Nat
      BY <1>1
    <3> QED
      BY <3>1, Halves
  <2>2. CASE i = k + k
    <3>1. k <= n
      BY <1>1, <2>2, HalfCompares
    <3>2. k >= 1
      BY <2>2
    <3> QED
      BY <1>1, <2>2, <3>1, <3>2
  <2>3. CASE i = k + k + 1
    <3>1. k < n \/ (k = n /\ Len(bytes) = n + n + 1)
      BY <1>1, <2>3, HalfCompares
    <3>2. k # n
      BY <1>2, <1>3, <2>3, <3>1
    <3>3. k + 1 \in 1 .. n
      BY <1>1, <3>1, <3>2
    <3>4. (k + 1) + (k + 1) - 1 = i
      BY <1>1, <2>3, HalfCompares
    <3>5. PICK j \in 1 .. n : j = k + 1
      BY <3>3
    <3>6. bytes[j + j - 1].part = 1 /\ j + j - 1 = i
      BY <1>2, <3>4, <3>5
    <3> QED
      BY <1>3, <3>6
  <2> QED
    BY <2>1, <2>2, <2>3
<1>4. ASSUME NEW k \in 1 .. n PROVE k + k \in 1 .. Len(bytes) /\ bytes[k + k].part = 2
  <2>1. k + k <= Len(bytes)
    BY <1>1, HalfCompares
  <2> QED
    BY <1>1, <1>2, <2>1
<1> DEFINE E == {k + k : k \in 1 .. n}
<1>5. \A i \in 1 .. Len(bytes) : EndsLine(bytes[i]) => i \in E
  BY <1>3 DEF EndsLine
<1>6. \A e \in E : e \in 1 .. Len(bytes) /\ EndsLine(bytes[e])
  BY <1>4 DEF EndsLine
<1> HIDE DEF E
<1>7. {i \in 1 .. Len(bytes) : EndsLine(bytes[i])} = E
  BY <1>5, <1>6
<1>8. DOMAIN bytes = 1 .. Len(bytes)
  OBVIOUS
<1>9. {i \in DOMAIN bytes : EndsLine(bytes[i])} = {i \in 1 .. Len(bytes) : EndsLine(bytes[i])}
  BY <1>8
<1> QED
  BY <1>7, <1>9 DEF E

\* There are as many lines as there are pairs.
LEMMA LinesOfPaired ==
    ASSUME NEW bytes \in Seq(Parts), NEW n \in Nat, Paired(bytes, n)
    PROVE  Lines(bytes) = n /\ n \in Nat
<1> DEFINE E == {k + k : k \in 1 .. n}
           f == [k \in 1 .. n |-> k + k]
<1>1. n \in Nat /\ {i \in DOMAIN bytes : EndsLine(bytes[i])} = E
  BY EndsOfPaired
<1>2. f \in Bijection(1 .. n, E)
  <2>1. f \in [1 .. n -> E]
    OBVIOUS
  <2>2. \A k, m \in 1 .. n : k + k = m + m => k = m
    BY <1>1
  <2>3. \A k \in 1 .. n : f[k] = k + k
    OBVIOUS
  <2>4. \A e \in E : \E k \in 1 .. n : f[k] = e
    BY <2>3
  <2> HIDE DEF f, E
  <2>5. DOMAIN f = 1 .. n
    BY <2>1
  <2> QED
    BY <2>1, <2>2, <2>3, <2>4, <2>5 DEF Bijection, Injection, Surjection, IsInjective
<1>3. ExistsBijection(1 .. n, E)
  BY <1>2 DEF ExistsBijection
<1> HIDE DEF E, f
<1>4. Cardinality(E) = n
  BY <1>1, <1>3, FS_CountingElements, FS_NatBijection
<1> QED
  BY <1>1, <1>4 DEF Lines

\* No parts are no lines.
LEMMA NoLines ==
    Paired(<<>>, 0) /\ Lines(<<>>) = 0
<1>1. <<>> \in Seq(Parts) /\ Len(<<>>) = 0 /\ 1 .. 0 = {}
  OBVIOUS
<1>2. Paired(<<>>, 0)
  BY <1>1 DEF Paired
<1> QED
  BY <1>1, <1>2, LinesOfPaired

\* What a repair makes of paired parts: its lines, and nothing after.
LEMMA RepairedPaired ==
    ASSUME NEW bytes \in Seq(Parts), NEW n \in Nat, Paired(bytes, n)
    PROVE  /\ Repaired(bytes) \in Seq(Parts) /\ Len(Repaired(bytes)) = n + n
           /\ \A i \in 1 .. n + n : Repaired(bytes)[i] = bytes[i]
<1>1. n \in Nat /\ Len(bytes) \in {n + n, n + n + 1}
  BY DEF Paired
<1>2. {i \in DOMAIN bytes : EndsLine(bytes[i])} = {k + k : k \in 1 .. n}
  BY EndsOfPaired
<1> DEFINE S == {0} \cup {k + k : k \in 1 .. n}
<1>3. S \in SUBSET (0 .. n + n) /\ S # {} /\ n + n \in S
  <2>1. \A k \in 1 .. n : k + k \in 0 .. n + n
    BY <1>1
  <2>2. n + n \in S
    BY <1>1
  <2>3. 0 \in 0 .. n + n
    BY <1>1
  <2> QED
    BY <2>1, <2>2, <2>3
<1>4. Repaired(bytes) = SubSeq(bytes, 1, Max(S))
  BY <1>2 DEF Repaired
<1> HIDE DEF S
<1>5. Max(S) \in S /\ \A i \in S : i <= Max(S)
  <2>1. n + n \in Nat
    BY <1>1
  <2> QED
    BY <1>3, <2>1, GreatestIs
<1>6. Max(S) = n + n
  <2>1. Max(S) \in 0 .. n + n /\ n + n <= Max(S)
    BY <1>3, <1>5
  <2>2. PICK m \in Nat : m = n + n
    BY <1>1
  <2> QED
    BY <2>1, <2>2
<1>7. /\ SubSeq(bytes, 1, n + n) \in Seq(Parts) /\ Len(SubSeq(bytes, 1, n + n)) = n + n
      /\ \A i \in 1 .. n + n : SubSeq(bytes, 1, n + n)[i] = bytes[i]
  <2>1. PICK m \in Nat : m = n + n /\ m <= Len(bytes)
    BY <1>1
  <2>2. /\ SubSeq(bytes, 1, m) \in Seq(Parts) /\ Len(SubSeq(bytes, 1, m)) = m
        /\ \A i \in 1 .. m : SubSeq(bytes, 1, m)[i] = bytes[i]
    BY <2>1
  <2> QED
    BY <2>1, <2>2
<1> QED
  BY <1>4, <1>6, <1>7

\* Parts that are the first lines of others.
LEMMA PairedCut ==
    ASSUME NEW b \in Seq(Parts), NEW c \in Seq(Parts), NEW n \in Nat, NEW m \in Nat, m <= n,
           Paired(b, n), Len(c) = m + m, \A i \in 1 .. m + m : c[i] = b[i]
    PROVE  Paired(c, m)
<1>1. \A k \in 1 .. n : /\ b[k + k - 1].part = 1 /\ b[k + k].part = 2
                        /\ b[k + k - 1].record = b[k + k].record
  BY DEF Paired
<1>2. ASSUME NEW k \in 1 .. m
      PROVE  k \in 1 .. n /\ c[k + k - 1] = b[k + k - 1] /\ c[k + k] = b[k + k]
  <2>1. k + k - 1 \in 1 .. m + m /\ k + k \in 1 .. m + m /\ k \in 1 .. n
    OBVIOUS
  <2> QED
    BY <2>1
<1>3. Len(c) # m + m + 1
  OBVIOUS
<1> QED
  BY <1>1, <1>2, <1>3 DEF Paired

\* Parts after which one more line begins.
LEMMA PairedBegun ==
    ASSUME NEW b \in Seq(Parts), NEW c \in Seq(Parts), NEW n \in Nat,
           Paired(b, n), Len(b) = n + n, Len(c) = n + n + 1, c[n + n + 1].part = 1,
           \A i \in 1 .. n + n : c[i] = b[i]
    PROVE  Paired(c, n)
<1>1. \A k \in 1 .. n : /\ b[k + k - 1].part = 1 /\ b[k + k].part = 2
                        /\ b[k + k - 1].record = b[k + k].record
  BY DEF Paired
<1>2. ASSUME NEW k \in 1 .. n
      PROVE  c[k + k - 1] = b[k + k - 1] /\ c[k + k] = b[k + k]
  <2>1. k + k - 1 \in 1 .. n + n /\ k + k \in 1 .. n + n
    OBVIOUS
  <2> QED
    BY <2>1
<1> QED
  BY <1>1, <1>2 DEF Paired

\* Parts after which the line that has begun ends.
LEMMA PairedEnded ==
    ASSUME NEW b \in Seq(Parts), NEW c \in Seq(Parts), NEW n \in Nat, NEW r,
           Paired(b, n), Len(b) = n + n + 1, Len(c) = n + n + 2,
           c[n + n + 1] = Part(r, 1), c[n + n + 2] = Part(r, 2),
           \A i \in 1 .. n + n + 1 : c[i] = b[i]
    PROVE  Paired(c, n + 1)
<1>1. \A k \in 1 .. n : /\ b[k + k - 1].part = 1 /\ b[k + k].part = 2
                        /\ b[k + k - 1].record = b[k + k].record
  BY DEF Paired
<1>2. ASSUME NEW k \in 1 .. n
      PROVE  c[k + k - 1] = b[k + k - 1] /\ c[k + k] = b[k + k]
  <2>1. k + k - 1 \in 1 .. n + n + 1 /\ k + k \in 1 .. n + n + 1
    OBVIOUS
  <2> QED
    BY <2>1
<1>3. ASSUME NEW k \in 1 .. n + 1
      PROVE  /\ c[k + k - 1].part = 1 /\ c[k + k].part = 2
             /\ c[k + k - 1].record = c[k + k].record
  <2>1. CASE k \in 1 .. n
    BY <1>1, <1>2, <2>1
  <2>2. CASE k = n + 1
    <3>1. k + k - 1 = n + n + 1 /\ k + k = n + n + 2
      BY <2>2
    <3>2. /\ c[n + n + 1].part = 1 /\ c[n + n + 2].part = 2
          /\ c[n + n + 1].record = c[n + n + 2].record
      BY DEF Part
    <3> QED
      BY <3>1, <3>2
  <2> QED
    BY <2>1, <2>2
<1>4. n + 1 \in Nat /\ Len(c) = (n + 1) + (n + 1) /\ Len(c) # (n + 1) + (n + 1) + 1
  OBVIOUS
<1> QED
  BY <1>3, <1>4 DEF Paired

\* Another history with the same lines tells of the same parts.
LEMMA TellsSame ==
    ASSUME NEW h, NEW g, NEW b, NEW s, NEW n \in Nat, Tells(h, b, s), n = Lines(b),
           Len(g) \in Nat, s + n <= Len(g), \A i \in 1 .. s + n : g[i] = h[i]
    PROVE  Tells(g, b, s)
<1>1. s \in Nat
  BY DEF Tells
<1>2. \A k \in 1 .. n : s + k \in 1 .. s + n
  BY <1>1
<1> QED
  BY <1>1, <1>2 DEF Tells

\* Parts with the first lines of others tell of the first records.
LEMMA TellsCut ==
    ASSUME NEW h, NEW b \in Seq(Parts), NEW c \in Seq(Parts), NEW s, NEW m \in Nat,
           Tells(h, b, s), Lines(b) \in Nat, m <= Lines(b), Len(h) \in Nat,
           Len(c) = m + m, \A i \in 1 .. m + m : c[i] = b[i]
    PROVE  Tells(h, c, s) /\ Lines(c) = m
<1>1. PICK n \in Nat : n = Lines(b)
  OBVIOUS
<1>2. /\ s \in Nat /\ s + n <= Len(h) /\ Paired(b, n)
      /\ \A k \in 1 .. n : b[k + k].record = h[s + k]
  BY <1>1 DEF Tells
<1>3. Paired(c, m)
  BY <1>1, <1>2, PairedCut
<1>4. Lines(c) = m
  BY <1>3, LinesOfPaired
<1>5. ASSUME NEW k \in 1 .. m PROVE c[k + k].record = h[s + k]
  <2>1. k + k \in 1 .. m + m /\ k \in 1 .. n
    BY <1>1
  <2> QED
    BY <1>2, <2>1
<1>6. s + m <= Len(h)
  BY <1>1, <1>2
<1> QED
  BY <1>2, <1>3, <1>4, <1>5, <1>6 DEF Tells

\* Where two sequences agree, so do their parts.
LEMMA SubSeqSame ==
    ASSUME NEW s \in Seq(Nat), NEW t \in Seq(Nat), NEW a \in Nat, NEW b \in Nat,
           b <= Len(s), b <= Len(t), \A i \in 1 .. b : s[i] = t[i]
    PROVE  SubSeq(s, a + 1, b) = SubSeq(t, a + 1, b)
<1>1. \A i \in a + 1 .. b : s[i] \in Nat /\ t[i] \in Nat /\ s[i] = t[i]
  <2>1. \A i \in a + 1 .. b : i \in 1 .. b /\ i \in 1 .. Len(s)
    OBVIOUS
  <2> QED
    BY <2>1
<1>2. /\ SubSeq(s, a + 1, b) \in Seq(Nat)
      /\ Len(SubSeq(s, a + 1, b)) = IF a + 1 <= b THEN b - (a + 1) + 1 ELSE 0
      /\ \A i \in 1 .. b - (a + 1) + 1 : SubSeq(s, a + 1, b)[i] = s[a + 1 + i - 1]
  BY <1>1, SubSeqProperties
<1>3. /\ SubSeq(t, a + 1, b) \in Seq(Nat)
      /\ Len(SubSeq(t, a + 1, b)) = IF a + 1 <= b THEN b - (a + 1) + 1 ELSE 0
      /\ \A i \in 1 .. b - (a + 1) + 1 : SubSeq(t, a + 1, b)[i] = t[a + 1 + i - 1]
  BY <1>1, SubSeqProperties
<1>4. ASSUME NEW i \in 1 .. Len(SubSeq(s, a + 1, b))
      PROVE  SubSeq(s, a + 1, b)[i] = SubSeq(t, a + 1, b)[i]
  <2>1. i \in 1 .. b - (a + 1) + 1 /\ a + 1 + i - 1 \in a + 1 .. b
    BY <1>2
  <2> QED
    BY <1>1, <1>2, <1>3, <2>1
<1> QED
  BY <1>2, <1>3, <1>4, SeqEqual

\* Where each generation begins in the history stays, but for a file that is new.
BeginsAlike ==
    /\ (current' # Nothing /\ current'.file <= files) =>
        /\ current # Nothing /\ current.file = current'.file
        /\ Len(history') - LinesOf(current') = Len(history) - LinesOf(current)
    /\ backup' # Nothing =>
        \/ /\ backup # Nothing /\ backup.file = backup'.file
           /\ Len(history') - LinesOf(current') - LinesOf(backup')
                = Len(history) - LinesOf(current) - LinesOf(backup)
        \/ /\ current # Nothing /\ current.file = backup'.file
           /\ Len(history') - LinesOf(current') - LinesOf(backup')
                = Len(history) - LinesOf(current)

\* What the reader has is as true as it was when the history it has seen is the same.
LEMMA ReaderStays ==
    ASSUME JournalInv, PagesTold, UNCHANGED <<cursor, page, seen>>, files' \in Nat, files <= files',
           history' \in Seq(Nat), seen <= Len(history'),
           \A i \in 1 .. seen : history'[i] = history[i], BeginsAlike
    PROVE  CursorTold' /\ PageTold'
<1>1. /\ cursor' = cursor /\ page' = page /\ seen' = seen
      /\ seen \in Nat /\ history \in Seq(Nat) /\ seen <= Len(history)
      /\ files \in Nat /\ Len(history') \in Nat
  BY DEF PagesTold, CursorTold, Rises, JournalInv, JournalTypes
<1>2. CursorTold'
  <2>1. seen' \in 0 .. Len(history')
    BY <1>1
  <2>2. ASSUME cursor # Nothing
        PROVE  /\ cursor.offset \in Nat /\ cursor.file \in 0 .. files'
               /\ cursor.hash \in Seq(Parts) /\ Len(cursor.hash) = cursor.offset
    BY <1>1, <2>2 DEF PagesTold, CursorTold
  <2>3. ASSUME cursor # Nothing, cursor.offset # 0
        PROVE  \E k \in 1 .. cursor.offset :
                /\ cursor.offset = k + k
                /\ seen # 0 /\ cursor.hash[cursor.offset].record = history'[seen]
    <3>1. PICK k \in 1 .. cursor.offset :
            /\ cursor.offset = k + k
            /\ seen # 0 /\ cursor.hash[cursor.offset].record = history[seen]
      BY <2>3 DEF PagesTold, CursorTold
    <3>2. seen \in 1 .. seen
      BY <1>1, <3>1
    <3>3. history'[seen] = history[seen]
      BY <3>2
    <3>4. seen # 0 /\ cursor.hash[cursor.offset].record = history'[seen]
      BY <3>1, <3>3
    <3> QED
      BY <3>1, <3>4
  <2>4. ASSUME cursor # Nothing, cursor.offset = 0
        PROVE  /\ (current' # Nothing /\ current'.file = cursor.file) =>
                    seen = Len(history') - LinesOf(current')
               /\ (backup' # Nothing /\ backup'.file = cursor.file) =>
                    seen = Len(history') - LinesOf(current') - LinesOf(backup')
    <3>1. /\ (current # Nothing /\ current.file = cursor.file) =>
                    seen = Len(history) - LinesOf(current)
          /\ (backup # Nothing /\ backup.file = cursor.file) =>
                    seen = Len(history) - LinesOf(current) - LinesOf(backup)
          /\ cursor.file <= files
      BY <2>4 DEF PagesTold, CursorTold
    <3> QED
      BY <3>1 DEF BeginsAlike
  <2> QED
    BY <1>1, <2>1, <2>2, <2>3, <2>4 DEF CursorTold
<1>3. PageTold'
  <2> SUFFICES ASSUME page # Nothing
               PROVE  /\ page.rejected = 0 /\ page.from \in Nat /\ page.to = seen
                      /\ page.reused \/ page.records = SubSeq(history', page.from + 1, page.to)
    BY <1>1 DEF PageTold
  <2>1. /\ page.rejected = 0 /\ page.from \in Nat /\ page.to = seen
        /\ page.reused \/ page.records = SubSeq(history, page.from + 1, page.to)
    BY DEF PagesTold, PageTold
  <2>2. SubSeq(history, page.from + 1, seen) = SubSeq(history', page.from + 1, seen)
    <3>1. PICK a \in Nat : a = page.from
      BY <2>1
    <3>2. PICK b \in Nat : b = seen
      BY <1>1
    <3>3. \A i \in 1 .. b : history[i] = history'[i]
      BY <3>2
    <3>4. /\ history \in Seq(Nat) /\ history' \in Seq(Nat)
          /\ b <= Len(history) /\ b <= Len(history')
      BY <1>1, <3>2
    <3>5. SubSeq(history, a + 1, b) = SubSeq(history', a + 1, b)
      BY ONLY <3>3, <3>4, SubSeqSame
    <3> QED
      BY <3>1, <3>2, <3>5
  <2> QED
    BY <2>1, <2>2
<1> QED
  BY <1>2, <1>3

\* When the generations and the history stay, so does what they tell.
LEMMA TalesStay ==
    ASSUME JournalInv, PagesTold, UNCHANGED <<current, backup, history, cursor, page, seen>>,
           files' \in Nat, files <= files', records' \in Nat, records <= records'
    PROVE  Rises(history', records') /\ GenerationsTold' /\ CursorTold' /\ PageTold'
<1>1. /\ history \in Seq(Nat) /\ seen <= Len(history) /\ records \in Nat
      /\ current # Nothing => current.file <= files
  BY FactsOfJournal DEF PagesTold, CursorTold, Rises, JournalInv, JournalTypes, FilesDiffer
<1>2. BeginsAlike
  BY <1>1 DEF BeginsAlike
<1>3. CursorTold' /\ PageTold'
  BY <1>1, <1>2, ReaderStays
<1>4. GenerationsTold'
  BY DEF PagesTold, GenerationsTold
<1>5. Rises(history', records')
  <2>1. \A i \in 1 .. Len(history) : history[i] \in Nat /\ history[i] <= records
    BY <1>1 DEF PagesTold, Rises
  <2>2. \A i \in 1 .. Len(history) : history[i] <= records'
    BY <1>1, <2>1
  <2> QED
    BY <1>1, <2>2 DEF PagesTold, Rises
<1> QED
  BY <1>3, <1>4, <1>5

\* A process at rest says nothing of the history.
LEMMA OthersTellNothing ==
    ASSUME JournalInv, NEW w \in Writers, lock \in {w, Nothing},
           \A v \in Writers : v # w => writer'[v] = writer[v]
    PROVE  \A v \in Writers : v # w => HistoryGoesOn(v)'
<1> TAKE v \in Writers
<1> HAVE v # w
<1>1. writer'[v].step \in {"absent", "idle"}
  BY OthersRest
<1> QED
  BY <1>1 DEF HistoryGoesOn

\* A process that begins a record begins one later than the history.
LEMMA LockTells ==
    ASSUME JournalInv, PagesTold, NEW w \in Writers, Lock(w), JournalInv'
    PROVE  PagesTold'
<1>1. /\ UNCHANGED <<current, backup, history, cursor, page, seen>> /\ files' = files
      /\ lock = Nothing /\ lock' = w /\ records' \in {records, records + 1}
      /\ \A v \in Writers : v # w => writer'[v] = writer[v]
  BY DEF Lock, journalGhosts, JournalInv, JournalTypes
<1>2. records \in Nat /\ records' \in Nat /\ records <= records' /\ files \in Nat
  BY <1>1, FactsOfJournal DEF JournalInv, JournalTypes
<1>3. Rises(history', records') /\ GenerationsTold' /\ CursorTold' /\ PageTold'
  BY <1>1, <1>2, TalesStay
<1>4. \A v \in Writers : v # w => HistoryGoesOn(v)'
  BY <1>1, OthersTellNothing
<1>5. HistoryGoesOn(w)'
  <2>1. writer'[w].step = "locked" /\ (writer'[w].record = 0 \/ writer'[w].record = records + 1)
    BY DEF Lock, JournalInv, JournalTypes, Absent
  <2>2. \A i \in 1 .. Len(history') : history'[i] < records + 1
    <3>1. \A i \in 1 .. Len(history) : history[i] \in Nat /\ history[i] <= records
      BY DEF PagesTold, Rises
    <3> QED
      BY <1>1, <1>2, <3>1
  <2> QED
    BY <2>1, <2>2 DEF HistoryGoesOn
<1> QED
  BY <1>3, <1>4, <1>5 DEF PagesTold

\* A process that comes to rest, or dies, and leaves the files alone.
LEMMA RestTells ==
    ASSUME JournalInv, PagesTold, NEW w \in Writers,
           UNCHANGED <<current, backup, history, cursor, page, seen, records, files>>,
           writer'[w].step \in {"absent", "idle"},
           \A v \in Writers : v # w => writer'[v] = writer[v]
    PROVE  PagesTold'
<1>1. records \in Nat /\ files \in Nat
  BY FactsOfJournal DEF JournalInv, JournalTypes
<1>2. Rises(history', records') /\ GenerationsTold' /\ CursorTold' /\ PageTold'
  BY <1>1, TalesStay
<1>3. HistoryGoesOn(w)'
  BY DEF HistoryGoesOn
<1>4. \A v \in Writers : v # w => HistoryGoesOn(v)'
  BY DEF PagesTold, HistoryGoesOn
<1> QED
  BY <1>2, <1>3, <1>4 DEF PagesTold

\* An empty file tells of no record.
LEMMA CreatedTells ==
    ASSUME JournalInv, PagesTold, CreateCurrent,
           UNCHANGED <<backup, history, cursor, page, seen, records>>
    PROVE  /\ Rises(history', records') /\ GenerationsTold' /\ CursorTold' /\ PageTold'
           /\ LinesOf(current') = 0 /\ Len(current'.bytes) = 0 /\ current' # Nothing
<1>1. /\ current' \in Generation /\ current'.file = files' /\ current'.bytes = <<>>
      /\ files' = files + 1 /\ current = Nothing
  BY CreatedIs
<1>2. /\ files \in Nat /\ files' \in Nat /\ files <= files' /\ ~(files' <= files)
      /\ records \in Nat
  BY <1>1, FactsOfJournal DEF JournalInv, JournalTypes
<1>3. current' # Nothing /\ LinesOf(current') = 0 /\ LinesOf(current) = 0
  BY <1>1, NoLines, FactsOfJournal DEF LinesOf
<1>4. /\ history \in Seq(Nat) /\ seen <= Len(history) /\ Len(history) \in Nat
  BY DEF PagesTold, CursorTold, Rises
<1>5. BeginsAlike
  BY <1>1, <1>2, <1>3 DEF BeginsAlike
<1>6. CursorTold' /\ PageTold'
  BY <1>2, <1>4, <1>5, ReaderStays
<1>7. Tells(history, <<>>, Len(history))
  BY <1>4, NoLines DEF Tells
<1>8. GenerationsTold'
  <2>1. LinesOf(backup) \in Nat /\ LinesOf(backup) <= Len(history)
    BY <1>3, <1>4 DEF PagesTold, GenerationsTold
  <2>2. Len(history) - LinesOf(current') = Len(history)
    BY <1>3, <1>4
  <2>3. Tells(history', current'.bytes, Len(history') - LinesOf(current'))
    BY <1>1, <1>7, <2>2
  <2> QED
    BY <1>3, <1>4, <2>1, <2>3 DEF PagesTold, GenerationsTold
<1>9. Rises(history', records')
  BY DEF PagesTold
<1> QED
  BY <1>1, <1>3, <1>6, <1>8, <1>9

\* A process that opens the journal changes nothing of what it tells.
LEMMA OpenTells ==
    ASSUME JournalInv, PagesTold, NEW w \in Writers, OpenCurrent(w), JournalInv'
    PROVE  PagesTold'
<1>1. /\ UNCHANGED <<backup, history, cursor, page, seen, records, lock>>
      /\ writer[w].step = "locked" /\ lock = w
      /\ writer' = [writer EXCEPT ![w].step = "open", ![w].file = current'.file]
  BY DEF OpenCurrent, AtStep, journalGhosts, JournalInv, WritesAlone
<1>2. /\ writer'[w].step = "open" /\ writer'[w].record = writer[w].record
      /\ \A v \in Writers : v # w => writer'[v] = writer[v]
  BY <1>1 DEF JournalInv, JournalTypes
<1>3. Rises(history', records') /\ GenerationsTold' /\ CursorTold' /\ PageTold'
  <2>1. CASE current = Nothing
    BY <1>1, <2>1, CreatedTells DEF OpenCurrent
  <2>2. CASE current # Nothing
    <3>1. UNCHANGED <<current, files>>
      BY <2>2 DEF OpenCurrent
    <3>2. records \in Nat /\ files \in Nat
      BY FactsOfJournal DEF JournalInv, JournalTypes
    <3> QED
      BY <1>1, <3>1, <3>2, TalesStay
  <2> QED
    BY <2>1, <2>2
<1>4. HistoryGoesOn(w)'
  BY <1>1, <1>2 DEF PagesTold, HistoryGoesOn
<1>5. \A v \in Writers : v # w => HistoryGoesOn(v)'
  BY <1>1, <1>2, OthersTellNothing
<1> QED
  BY <1>3, <1>4, <1>5 DEF PagesTold

\* What the generations tell when the current one loses what follows its first m lines,
\* and the history what follows them.
LEMMA CutTells ==
    ASSUME JournalInv, PagesTold, UNCHANGED <<backup, cursor, page, seen, records, files>>,
           current # Nothing, current' # Nothing, current'.file = current.file,
           current.bytes \in Seq(Parts), current'.bytes \in Seq(Parts),
           NEW m \in Nat, m <= LinesOf(current),
           Len(current'.bytes) = m + m,
           \A i \in 1 .. m + m : current'.bytes[i] = current.bytes[i],
           history' = SubSeq(history, 1, Len(history) - (LinesOf(current) - m)),
           seen <= Len(history) - (LinesOf(current) - m)
    PROVE  /\ Rises(history', records') /\ GenerationsTold' /\ CursorTold' /\ PageTold'
           /\ LinesOf(current') = m
<1>1. PICK n \in Nat : n = LinesOf(current) /\ n = Lines(current.bytes)
  BY DEF PagesTold, GenerationsTold, LinesOf
<1>2. PICK b \in Nat : b = LinesOf(backup)
  BY DEF PagesTold, GenerationsTold
<1>3. PICK H \in Nat : H = Len(history)
  BY DEF PagesTold, Rises
<1>4. /\ history \in Seq(Nat) /\ b + n <= H /\ m <= n
      /\ Tells(history, current.bytes, H - n)
      /\ backup # Nothing => Tells(history, backup.bytes, H - n - b)
      /\ backup # Nothing => Len(backup.bytes) = b + b
  BY <1>1, <1>2, <1>3 DEF PagesTold, GenerationsTold, Rises
<1>15. PICK K \in Nat : K = H - (n - m)
  BY <1>4
<1>5. /\ K <= H /\ b + m <= K /\ K - m = H - n /\ K - m - b = H - n - b
      /\ H - n \in Nat /\ H - n - b \in Nat
  BY <1>4, <1>15
<1>6. history' = SubSeq(history, 1, K)
  BY <1>1, <1>3, <1>15
<1>7. history' \in Seq(Nat) /\ Len(history') = K /\ \A i \in 1 .. K : history'[i] = history[i]
  <2>1. history \in Seq(Nat) /\ K <= Len(history)
    BY <1>3, <1>4, <1>5
  <2> QED
    BY ONLY <1>6, <2>1
<1>8. Tells(history, current'.bytes, H - n) /\ Lines(current'.bytes) = m
  <2>1. PICK s : s = H - n
    OBVIOUS
  <2>2. Tells(history, current.bytes, s) /\ m <= Lines(current.bytes)
        /\ Lines(current.bytes) \in Nat /\ Len(history) \in Nat
    BY <1>1, <1>3, <1>4, <2>1
  <2>3. Tells(history, current'.bytes, s) /\ Lines(current'.bytes) = m
    BY <2>2, TellsCut
  <2> QED
    BY <2>1, <2>3
<1>9. LinesOf(current') = m /\ LinesOf(backup') = b
  BY <1>2, <1>8 DEF LinesOf
<1>10. Tells(history', current'.bytes, H - n)
  <2>1. H - n + m <= K /\ \A i \in 1 .. H - n + m : i \in 1 .. K
    BY <1>4, <1>5
  <2>2. PICK s : s = H - n
    OBVIOUS
  <2>3. /\ Tells(history, current'.bytes, s) /\ m = Lines(current'.bytes)
        /\ Len(history') \in Nat /\ s + m <= Len(history')
        /\ \A i \in 1 .. s + m : history'[i] = history[i]
    BY <1>7, <1>8, <2>1, <2>2
  <2>4. Tells(history', current'.bytes, s)
    BY ONLY <2>3, TellsSame
  <2> QED
    BY <2>2, <2>4
<1>11. backup # Nothing => Tells(history', backup.bytes, H - n - b)
  <2>1. H - n - b + b <= K /\ \A i \in 1 .. H - n - b + b : i \in 1 .. K
    BY <1>4, <1>5
  <2> SUFFICES ASSUME backup # Nothing PROVE Tells(history', backup.bytes, H - n - b)
    OBVIOUS
  <2>2. PICK s : s = H - n - b
    OBVIOUS
  <2>3. /\ Tells(history, backup.bytes, s) /\ b = Lines(backup.bytes)
        /\ Len(history') \in Nat /\ s + b <= Len(history')
        /\ \A i \in 1 .. s + b : history'[i] = history[i]
    BY <1>2, <1>4, <1>7, <2>1, <2>2 DEF LinesOf
  <2>4. Tells(history', backup.bytes, s)
    BY ONLY <2>3, TellsSame
  <2> QED
    BY <2>2, <2>4
<1>12. GenerationsTold'
  BY <1>4, <1>5, <1>7, <1>9, <1>10, <1>11 DEF GenerationsTold
<1>13. CursorTold' /\ PageTold'
  <2>1. BeginsAlike
    BY <1>1, <1>2, <1>3, <1>5, <1>7, <1>9 DEF BeginsAlike
  <2>2. seen \in Nat /\ seen <= K /\ files \in Nat
    <3>5. files \in Nat
      BY DEF JournalInv, JournalTypes
    <3>1. seen \in 0 .. Len(history)
      BY DEF PagesTold, CursorTold, JournalInv, JournalTypes
    <3>2. Len(history) - (LinesOf(current) - m) = K
      BY <1>1, <1>3, <1>15
    <3>3. seen <= K
      BY <3>2
    <3>4. seen \in 0 .. H
      BY <1>3, <3>1
    <3> QED
      BY <3>3, <3>4, <3>5
  <2>3. \A i \in 1 .. seen : history'[i] = history[i]
    <3>1. \A i \in 1 .. seen : i \in 1 .. K
      BY <2>2
    <3> QED
      BY <1>7, <3>1
  <2> QED
    BY <1>7, <2>1, <2>2, <2>3, ReaderStays
<1>14. Rises(history', records')
  <2>1. /\ \A i, j \in 1 .. H : i < j => history[i] < history[j]
        /\ \A i \in 1 .. H : history[i] <= records
    BY <1>3 DEF PagesTold, Rises
  <2>2. \A i \in 1 .. K : i \in 1 .. H
    BY <1>5
  <2> QED
    BY <1>7, <2>1, <2>2 DEF Rises
<1> QED
  BY <1>9, <1>12, <1>13, <1>14

\* Where the last part is a first one, or a second.
LEMMA LastPart ==
    ASSUME NEW b \in Seq(Parts), NEW n \in Nat, Paired(b, n), NEW l \in Nat, Len(b) = l, l # 0
    PROVE  /\ b[l].part = 1 => l = n + n + 1
           /\ b[l].part = 2 => n # 0 /\ l = n + n
<1>1. l \in {n + n, n + n + 1} /\ (l = n + n + 1 => b[n + n + 1].part = 1)
  BY DEF Paired
<1>2. CASE l = n + n
  <2>1. n \in 1 .. n
    BY <1>2
  <2>2. b[n + n].part = 2
    BY <2>1 DEF Paired
  <2> QED
    BY <1>2, <2>1, <2>2
<1>3. CASE l = n + n + 1
  BY <1>1, <1>3
<1> QED
  BY <1>1, <1>2, <1>3

\* Facts about the current generation.
LEMMA CurrentTold ==
    ASSUME JournalInv, PagesTold, current # Nothing
    PROVE  /\ current \in Generation /\ current.bytes \in Seq(Parts)
           /\ Len(current.bytes) \in Nat
           /\ LinesOf(current) \in Nat /\ LinesOf(current) = Lines(current.bytes)
           /\ Paired(current.bytes, LinesOf(current))
           /\ Len(history) \in Nat /\ history \in Seq(Nat)
           /\ LinesOf(current) <= Len(history)
           /\ seen \in Nat /\ seen <= Len(history)
<1>1. current \in Generation
  BY DEF JournalInv, JournalTypes
<1>2. current.bytes \in Seq(Parts) /\ Len(current.bytes) \in Nat
  BY <1>1 DEF Generation
<1>3. LinesOf(current) = Lines(current.bytes) /\ LinesOf(current) \in Nat /\ LinesOf(backup) \in Nat
  BY DEF LinesOf, PagesTold, GenerationsTold
<1>4. Paired(current.bytes, LinesOf(current))
  BY <1>3 DEF PagesTold, GenerationsTold, Tells
<1>5. Len(history) \in Nat /\ history \in Seq(Nat)
  BY DEF PagesTold, Rises
<1>6. LinesOf(current) <= Len(history)
  <2>1. LinesOf(backup) + LinesOf(current) <= Len(history)
    BY DEF PagesTold, GenerationsTold
  <2> QED
    BY <1>3, <1>5, <2>1
<1>7. seen \in 0 .. Len(history)
  BY DEF PagesTold, CursorTold
<1> QED
  BY <1>1, <1>2, <1>3, <1>4, <1>5, <1>6, <1>7

\* A repair cuts off what is no line.
LEMMA RepairTells ==
    ASSUME JournalInv, PagesTold, NEW w \in Writers, RepairTail(w), JournalInv'
    PROVE  PagesTold'
<1>1. /\ UNCHANGED <<backup, history, cursor, page, seen, records, files>>
      /\ writer[w].step = "open" /\ lock = w /\ current # Nothing
      /\ current' = [current EXCEPT !.bytes = Repaired(current.bytes)]
  BY DEF RepairTail, AtStep, journalGhosts, JournalInv, WritesAlone
<1>2. PICK n \in Nat : n = LinesOf(current)
  BY <1>1, CurrentTold
<1>3. /\ current \in Generation /\ current.bytes \in Seq(Parts) /\ Paired(current.bytes, n)
      /\ Len(history) \in Nat /\ history \in Seq(Nat) /\ seen <= Len(history)
  BY <1>1, <1>2, CurrentTold
<1>4. /\ current'.bytes = Repaired(current.bytes) /\ current'.file = current.file
      /\ current' # Nothing
  BY <1>1, <1>3, RepairKeeps, FactsOfJournal DEF Generation
<1>5. /\ current'.bytes \in Seq(Parts) /\ Len(current'.bytes) = n + n
      /\ \A i \in 1 .. n + n : current'.bytes[i] = current.bytes[i]
  BY <1>3, <1>4, RepairedPaired
<1>6. /\ Rises(history', records') /\ GenerationsTold' /\ CursorTold' /\ PageTold'
      /\ LinesOf(current') = n
  <2>1. Len(history) - (LinesOf(current) - n) = Len(history)
    BY <1>2, <1>3
  <2>2. history' = SubSeq(history, 1, Len(history) - (LinesOf(current) - n))
    BY <1>1, <1>3, <2>1, SubSeqFull
  <2>3. seen <= Len(history) - (LinesOf(current) - n) /\ n <= LinesOf(current)
    BY <1>2, <1>3, <2>1
  <2> QED
    BY <1>1, <1>3, <1>4, <1>5, <2>2, <2>3, CutTells
<1>7. /\ HistoryGoesOn(w)'
      /\ \A v \in Writers : v # w => writer'[v] = writer[v]
  <2>1. CASE writer[w].record = 0
    <3>1. Return(w, TRUE)
      BY <2>1 DEF RepairTail
    <3>2. /\ writer'[w].step \in {"absent", "idle"}
          /\ \A v \in Writers : v # w => writer'[v] = writer[v]
      BY <1>1, <3>1, ReturnRests
    <3> QED
      BY <3>2 DEF HistoryGoesOn
  <2>2. CASE writer[w].record # 0
    <3>1. writer' = [writer EXCEPT ![w].step = "whole", ![w].length = Len(Repaired(current.bytes))]
      BY <2>2 DEF RepairTail
    <3>2. /\ writer'[w].step = "whole" /\ writer'[w].record = writer[w].record
          /\ \A v \in Writers : v # w => writer'[v] = writer[v]
      BY <3>1 DEF JournalInv, JournalTypes
    <3>3. \A i \in 1 .. Len(history) : history[i] < writer[w].record
      BY <1>1, <2>2 DEF PagesTold, HistoryGoesOn
    <3> QED
      BY <1>1, <1>5, <1>6, <3>2, <3>3 DEF HistoryGoesOn
  <2> QED
    BY <2>1, <2>2
<1>8. \A v \in Writers : v # w => HistoryGoesOn(v)'
  BY <1>1, <1>7, OthersTellNothing
<1> QED
  BY <1>6, <1>7, <1>8 DEF PagesTold

\* The backup a rotation makes tells what the current generation told.
LEMMA RotateTells ==
    ASSUME JournalInv, PagesTold, NEW w \in Writers, Rotate(w), JournalInv'
    PROVE  PagesTold'
<1>1. /\ UNCHANGED <<history, cursor, page, seen, records, files, lock>>
      /\ writer[w].step = "whole" /\ lock = w /\ current # Nothing
      /\ backup' = current /\ current' = Nothing
      /\ writer' = [writer EXCEPT ![w].step = "renamed"]
  BY DEF Rotate, Go, AtStep, journalGhosts, JournalInv, WritesAlone
<1>2. /\ writer'[w].step = "renamed" /\ writer'[w].record = writer[w].record
      /\ \A v \in Writers : v # w => writer'[v] = writer[v]
  BY <1>1 DEF JournalInv, JournalTypes
<1>3. PICK n \in Nat : n = LinesOf(current)
  BY <1>1, CurrentTold
<1>4. PICK H \in Nat : H = Len(history)
  BY <1>1, CurrentTold
<1>5. /\ n <= H /\ history \in Seq(Nat) /\ seen <= H /\ seen \in Nat /\ files \in Nat
      /\ Len(current.bytes) = n + n
      /\ Tells(history, current.bytes, H - n)
  <2>1. Len(current.bytes) = n + n /\ Tells(history, current.bytes, H - n)
    BY <1>1, <1>3, <1>4 DEF PagesTold, HistoryGoesOn, GenerationsTold
  <2>2. files \in Nat
    BY DEF JournalInv, JournalTypes
  <2> QED
    BY <1>1, <1>3, <1>4, <2>1, <2>2, CurrentTold
<1>6. LinesOf(current') = 0 /\ LinesOf(backup') = n /\ H - 0 - n = H - n /\ n + 0 = n
  BY <1>1, <1>3, <1>4 DEF LinesOf
<1>7. GenerationsTold'
  <2>1. /\ Len(history') - LinesOf(current') - LinesOf(backup') = H - n
        /\ LinesOf(backup') + LinesOf(current') = n
    BY <1>1, <1>4, <1>6
  <2> QED
    BY <1>1, <1>4, <1>5, <1>6, <2>1 DEF GenerationsTold
<1>8. BeginsAlike
  <2>1. Len(history') - LinesOf(current') - LinesOf(backup') = Len(history) - LinesOf(current)
    BY <1>1, <1>3, <1>4, <1>6
  <2> QED
    BY <1>1, <2>1 DEF BeginsAlike
<1>9. CursorTold' /\ PageTold'
  <2>1. files <= files' /\ files' \in Nat /\ history' \in Seq(Nat) /\ seen <= Len(history')
        /\ \A i \in 1 .. seen : history'[i] = history[i]
    BY <1>1, <1>4, <1>5
  <2> QED
    BY <1>1, <1>8, <2>1, ReaderStays
<1>10. Rises(history', records')
  BY <1>1 DEF PagesTold
<1>11. HistoryGoesOn(w)'
  BY <1>1, <1>2 DEF PagesTold, HistoryGoesOn
<1>12. \A v \in Writers : v # w => HistoryGoesOn(v)'
  BY <1>1, <1>2, OthersTellNothing
<1> QED
  BY <1>7, <1>9, <1>10, <1>11, <1>12 DEF PagesTold

\* The new file tells of nothing yet.
LEMMA RenewTells ==
    ASSUME JournalInv, PagesTold, NEW w \in Writers, Renew(w), JournalInv'
    PROVE  PagesTold'
<1>1. /\ UNCHANGED <<backup, history, cursor, page, seen, records, lock>>
      /\ writer[w].step = "renamed" /\ lock = w /\ CreateCurrent
      /\ writer' = [writer EXCEPT ![w].step = "fresh", ![w].file = current'.file, ![w].length = 0]
  BY DEF Renew, AtStep, journalGhosts, JournalInv, WritesAlone
<1>2. /\ writer'[w].step = "fresh" /\ writer'[w].record = writer[w].record
      /\ \A v \in Writers : v # w => writer'[v] = writer[v]
  BY <1>1 DEF JournalInv, JournalTypes
<1>3. /\ Rises(history', records') /\ GenerationsTold' /\ CursorTold' /\ PageTold'
      /\ LinesOf(current') = 0 /\ Len(current'.bytes) = 0
  BY <1>1, CreatedTells
<1>4. HistoryGoesOn(w)'
  <2>1. Len(current'.bytes) = LinesOf(current') + LinesOf(current')
    BY <1>3
  <2>2. writer[w].record # 0 => \A i \in 1 .. Len(history) : history[i] < writer[w].record
    BY <1>1 DEF PagesTold, HistoryGoesOn
  <2> QED
    BY <1>1, <1>2, <2>1, <2>2 DEF HistoryGoesOn
<1>5. \A v \in Writers : v # w => HistoryGoesOn(v)'
  BY <1>1, <1>2, OthersTellNothing
<1> QED
  BY <1>3, <1>4, <1>5 DEF PagesTold

\* What the generations tell when the current one begins a line.
LEMMA WriteFirstTells ==
    ASSUME JournalInv, PagesTold, NEW w \in Writers, WriteFirst(w), JournalInv'
    PROVE  PagesTold'
<1>1. /\ UNCHANGED <<history, cursor, page, seen, records, files, lock>>
      /\ writer[w].step \in {"whole", "fresh"} /\ lock = w /\ Append1(w, 1)
      /\ current # Nothing /\ current.file = writer[w].file /\ writer[w].record # 0
      /\ writer' = [writer EXCEPT ![w].step = "partly"]
  BY DEF WriteFirst, Go, AtStep, journalGhosts, JournalInv, WritesAlone
<1>2. /\ writer'[w].step = "partly" /\ writer'[w].record = writer[w].record
      /\ \A v \in Writers : v # w => writer'[v] = writer[v]
  BY <1>1 DEF JournalInv, JournalTypes
<1>3. PICK n \in Nat : n = LinesOf(current)
  BY <1>1, CurrentTold
<1>4. PICK H \in Nat : H = Len(history)
  BY <1>1, CurrentTold
<1>5. /\ n <= H /\ history \in Seq(Nat) /\ seen <= H /\ seen \in Nat /\ files \in Nat
      /\ Len(current.bytes) = n + n /\ current.bytes \in Seq(Parts)
      /\ Tells(history, current.bytes, H - n) /\ n = Lines(current.bytes)
  <2>1. Len(current.bytes) = n + n /\ Tells(history, current.bytes, H - n)
    BY <1>1, <1>3, <1>4 DEF PagesTold, HistoryGoesOn, GenerationsTold
  <2>2. files \in Nat
    BY DEF JournalInv, JournalTypes
  <2> QED
    BY <1>1, <1>3, <1>4, <2>1, <2>2, CurrentTold
<1>6. /\ backup' = backup /\ current' \in Generation /\ current'.file = current.file
      /\ current' # Nothing /\ Len(current'.bytes) = n + n + 1
      /\ current'.bytes[n + n + 1] = Part(writer[w].record, 1)
      /\ \A j \in 1 .. n + n : current'.bytes[j] = current.bytes[j]
  BY <1>1, <1>5, AppendedIs
<1>7. /\ current'.bytes \in Seq(Parts) /\ Paired(current'.bytes, n)
      /\ Lines(current'.bytes) = n /\ LinesOf(current') = n
  <2>1. current'.bytes \in Seq(Parts)
    BY <1>6 DEF Generation
  <2>2. Paired(current.bytes, n) /\ current'.bytes[n + n + 1].part = 1
    BY <1>5, <1>6 DEF Tells, Part
  <2>3. Paired(current'.bytes, n)
    BY <1>5, <1>6, <2>1, <2>2, PairedBegun
  <2> QED
    BY <1>6, <2>1, <2>3, LinesOfPaired DEF LinesOf
<1>8. Tells(history, current'.bytes, H - n)
  <2>1. /\ H - n \in Nat /\ H - n + n <= Len(history)
        /\ \A k \in 1 .. n : current.bytes[k + k].record = history[H - n + k]
    BY <1>5 DEF Tells
  <2>2. \A k \in 1 .. n : k + k \in 1 .. n + n
    OBVIOUS
  <2> QED
    BY <1>6, <1>7, <2>1, <2>2 DEF Tells
<1>9. GenerationsTold'
  BY <1>1, <1>3, <1>4, <1>6, <1>7, <1>8 DEF PagesTold, GenerationsTold
<1>10. BeginsAlike
  BY <1>1, <1>3, <1>4, <1>6, <1>7 DEF BeginsAlike
<1>11. CursorTold' /\ PageTold'
  <2>1. files <= files' /\ files' \in Nat /\ history' \in Seq(Nat) /\ seen <= Len(history')
        /\ \A i \in 1 .. seen : history'[i] = history[i]
    BY <1>1, <1>4, <1>5
  <2> QED
    BY <1>1, <1>10, <2>1, ReaderStays
<1>12. Rises(history', records')
  BY <1>1 DEF PagesTold
<1>13. HistoryGoesOn(w)'
  BY <1>1, <1>2 DEF PagesTold, HistoryGoesOn
<1>14. \A v \in Writers : v # w => HistoryGoesOn(v)'
  BY <1>1, <1>2, OthersTellNothing
<1> QED
  BY <1>9, <1>11, <1>12, <1>13, <1>14 DEF PagesTold

\* A history that goes on with a later record.
LEMMA RisesOn ==
    ASSUME NEW h, NEW last \in Nat, NEW r \in Nat, Rises(h, last), r <= last,
           \A i \in 1 .. Len(h) : h[i] < r
    PROVE  /\ Rises(Append(h, r), last)
           /\ Len(Append(h, r)) = Len(h) + 1 /\ Append(h, r)[Len(h) + 1] = r
           /\ \A i \in 1 .. Len(h) : Append(h, r)[i] = h[i]
<1>1. /\ h \in Seq(Nat) /\ Len(h) \in Nat
      /\ \A i, j \in 1 .. Len(h) : i < j => h[i] < h[j]
      /\ \A i \in 1 .. Len(h) : h[i] <= last
  BY DEF Rises
<1> DEFINE g == Append(h, r)
<1>2. /\ g \in Seq(Nat) /\ Len(g) = Len(h) + 1 /\ g[Len(h) + 1] = r
      /\ \A i \in 1 .. Len(h) : g[i] = h[i]
  BY <1>1
<1>3. \A i \in 1 .. Len(g) : i \in 1 .. Len(h) \/ i = Len(h) + 1
  BY <1>1, <1>2
<1> HIDE DEF g
<1>4. ASSUME NEW i \in 1 .. Len(g), NEW j \in 1 .. Len(g), i < j PROVE g[i] < g[j]
  <2>1. i \in 1 .. Len(h)
    BY <1>1, <1>2, <1>4
  <2> QED
    BY <1>1, <1>2, <1>3, <1>4, <2>1
<1>5. ASSUME NEW i \in 1 .. Len(g) PROVE g[i] <= last
  BY <1>1, <1>2, <1>3
<1>6. Rises(g, last)
  BY <1>2, <1>4, <1>5 DEF Rises
<1> QED
  BY <1>2, <1>6 DEF g

\* The line that ends is the last of the history.
LEMMA WriteRestTells ==
    ASSUME JournalInv, PagesTold, NEW w \in Writers, WriteRest(w), JournalInv'
    PROVE  PagesTold'
<1>1. /\ UNCHANGED <<cursor, page, seen, records, files, lock>>
      /\ writer[w].step = "partly" /\ lock = w /\ Append1(w, 2)
      /\ current # Nothing /\ current.file = writer[w].file /\ writer[w].record # 0
      /\ writer[w].record \in 0 .. records
      /\ Len(current.bytes) = writer[w].length + 1
      /\ current.bytes[writer[w].length + 1] = Part(writer[w].record, 1)
      /\ writer' = [writer EXCEPT ![w].step = "written"]
      /\ history' = Append(history, writer[w].record)
  BY DEF WriteRest, Go, AtStep, journalGhosts, JournalInv, WritesAlone
<1>2. /\ writer'[w].step = "written" /\ writer'[w].record = writer[w].record
      /\ \A v \in Writers : v # w => writer'[v] = writer[v]
  BY <1>1 DEF JournalInv, JournalTypes
<1>3. PICK n \in Nat : n = LinesOf(current)
  BY <1>1, CurrentTold
<1>4. PICK H \in Nat : H = Len(history)
  BY <1>1, CurrentTold
<1>5. PICK r \in Nat : r = writer[w].record
  BY WriterIs DEF JournalInv
<1>6. PICK l \in Nat : l = writer[w].length + 1
  <2>1. writer[w].length \in Nat
    BY WriterIs DEF JournalInv
  <2> QED
    BY <2>1
<1>7. /\ n <= H /\ history \in Seq(Nat) /\ seen <= H /\ seen \in Nat /\ files \in Nat
      /\ current.bytes \in Seq(Parts) /\ Paired(current.bytes, n)
      /\ Tells(history, current.bytes, H - n) /\ n = Lines(current.bytes)
  <2>1. Tells(history, current.bytes, H - n)
    BY <1>1, <1>3, <1>4 DEF PagesTold, GenerationsTold
  <2>2. files \in Nat
    BY DEF JournalInv, JournalTypes
  <2> QED
    BY <1>1, <1>3, <1>4, <2>1, <2>2, CurrentTold
<1>8. Len(current.bytes) = n + n + 1 /\ current.bytes[n + n + 1] = Part(r, 1)
  <2>1. Len(current.bytes) = l /\ current.bytes[l] = Part(r, 1) /\ current.bytes[l].part = 1
    BY <1>1, <1>5, <1>6 DEF Part
  <2>2. l # 0
    <3>1. writer[w].length \in Nat
      BY WriterIs DEF JournalInv
    <3> QED
      BY <1>6, <3>1
  <2>3. l = n + n + 1
    BY <1>7, <2>1, <2>2, LastPart
  <2> QED
    BY <2>1, <2>3
<1>9. /\ backup' = backup /\ current' \in Generation /\ current'.file = current.file
      /\ current' # Nothing /\ Len(current'.bytes) = n + n + 2
      /\ current'.bytes[n + n + 2] = Part(r, 2)
      /\ \A j \in 1 .. n + n + 1 : current'.bytes[j] = current.bytes[j]
  <2>1. n + n + 1 + 1 = n + n + 2
    OBVIOUS
  <2> QED
    BY <1>1, <1>5, <1>8, <2>1, AppendedIs
<1>10. /\ current'.bytes \in Seq(Parts) /\ Paired(current'.bytes, n + 1)
       /\ Lines(current'.bytes) = n + 1 /\ LinesOf(current') = n + 1
  <2>1. current'.bytes \in Seq(Parts)
    BY <1>9 DEF Generation
  <2>2. current'.bytes[n + n + 1] = Part(r, 1)
    <3>1. n + n + 1 \in 1 .. n + n + 1
      OBVIOUS
    <3> QED
      BY <1>8, <1>9, <3>1
  <2>3. Paired(current'.bytes, n + 1)
    BY <1>7, <1>8, <1>9, <2>1, <2>2, PairedEnded
  <2> QED
    BY <1>9, <2>1, <2>3, LinesOfPaired DEF LinesOf
<1>11. /\ Rises(history', records') /\ Len(history') = H + 1 /\ history'[H + 1] = r
       /\ \A i \in 1 .. H : history'[i] = history[i]
  <2>1. records \in Nat /\ r <= records
    BY <1>1, <1>5, FactsOfJournal DEF JournalInv, JournalTypes
  <2>2. Rises(history, records) /\ \A i \in 1 .. Len(history) : history[i] < r
    BY <1>1, <1>5 DEF PagesTold, HistoryGoesOn
  <2> QED
    BY <1>1, <1>4, <1>5, <2>1, <2>2, RisesOn
<1>12. Tells(history', current'.bytes, H - n)
  <2>1. /\ H - n \in Nat /\ \A k \in 1 .. n : current.bytes[k + k].record = history[H - n + k]
    BY <1>7 DEF Tells
  <2>2. \A k \in 1 .. n : k + k \in 1 .. n + n + 1 /\ H - n + k \in 1 .. H
    <3>1. n \in Nat /\ H \in Nat /\ n <= H
      BY <1>7
    <3> QED
      BY ONLY <3>1, n \in Nat, H \in Nat
  <2>3. \A k \in 1 .. n : current'.bytes[k + k].record = history'[H - n + k]
    BY <1>9, <1>11, <2>1, <2>2
  <2>4. /\ H - n + (n + 1) = H + 1 /\ (n + 1) + (n + 1) = n + n + 2
        /\ \A k \in 1 .. n + 1 : k \in 1 .. n \/ k = n + 1
    <3>1. n \in Nat /\ H \in Nat /\ n <= H
      BY <1>7
    <3> QED
      BY ONLY <3>1, n \in Nat, H \in Nat
  <2>5. current'.bytes[(n + 1) + (n + 1)].record = history'[H - n + (n + 1)]
    BY <1>9, <1>11, <2>4 DEF Part
  <2>6. \A k \in 1 .. n + 1 : current'.bytes[k + k].record = history'[H - n + k]
    BY <2>3, <2>4, <2>5
  <2> QED
    BY <1>10, <1>11, <2>1, <2>4, <2>6 DEF Tells
<1>13. GenerationsTold'
  <2>1. PICK b \in Nat : b = LinesOf(backup)
    BY DEF PagesTold, GenerationsTold
  <2>2. b + n <= H /\ H + 1 - (n + 1) = H - n /\ H + 1 - (n + 1) - b = H - n - b
    BY <1>3, <1>4, <2>1 DEF PagesTold, GenerationsTold
  <2>3. ASSUME backup # Nothing PROVE Tells(history', backup.bytes, H - n - b)
    <3>1. PICK s : s = H - n - b
      OBVIOUS
    <3>2. Tells(history, backup.bytes, s) /\ b = Lines(backup.bytes)
      BY <1>3, <1>4, <2>1, <2>3, <3>1 DEF PagesTold, GenerationsTold, LinesOf
    <3>3. /\ Len(history') \in Nat /\ s + b <= Len(history')
          /\ \A i \in 1 .. s + b : history'[i] = history[i]
      <4>1. s + b <= H /\ \A i \in 1 .. s + b : i \in 1 .. H
        BY <2>2, <3>1
      <4> QED
        BY <1>11, <2>2, <3>1, <4>1
    <3>4. Tells(history', backup.bytes, s)
      BY ONLY <3>2, <3>3, TellsSame
    <3> QED
      BY <3>1, <3>4
  <2>4. b + (n + 1) <= H + 1 /\ n + 1 \in Nat
    BY <2>2
  <2>5. backup # Nothing => Len(backup.bytes) = b + b
    BY <2>1 DEF PagesTold, GenerationsTold
  <2>6. LinesOf(backup') = b
    BY <1>9, <2>1
  <2> QED
    BY <1>9, <1>10, <1>11, <1>12, <2>2, <2>3, <2>4, <2>5, <2>6 DEF GenerationsTold
<1>14. BeginsAlike
  <2>1. PICK b \in Nat : b = LinesOf(backup)
    BY DEF PagesTold, GenerationsTold
  <2>2. H + 1 - (n + 1) = H - n /\ H + 1 - (n + 1) - b = H - n - b
    OBVIOUS
  <2>3. Len(history') - LinesOf(current') = Len(history) - LinesOf(current)
    BY <1>3, <1>4, <1>10, <1>11, <2>2
  <2>4. Len(history') - LinesOf(current') - LinesOf(backup')
            = Len(history) - LinesOf(current) - LinesOf(backup)
    BY <1>9, <2>3
  <2> QED
    BY <1>1, <1>9, <2>3, <2>4 DEF BeginsAlike
<1>15. CursorTold' /\ PageTold'
  <2>1. files <= files' /\ files' \in Nat /\ history' \in Seq(Nat) /\ seen <= Len(history')
    BY <1>1, <1>7, <1>11 DEF Rises
  <2>2. \A i \in 1 .. seen : history'[i] = history[i]
    <3>1. \A i \in 1 .. seen : i \in 1 .. H
      BY <1>7
    <3> QED
      BY <1>11, <3>1
  <2> QED
    BY <1>1, <1>14, <2>1, <2>2, ReaderStays
<1>16. HistoryGoesOn(w)'
  <2>1. H + 1 > seen
    BY <1>7
  <2> QED
    BY <1>1, <1>2, <1>5, <1>11, <2>1 DEF HistoryGoesOn
<1>17. \A v \in Writers : v # w => HistoryGoesOn(v)'
  BY <1>1, <1>2, OthersTellNothing
<1> QED
  BY <1>11, <1>13, <1>15, <1>16, <1>17 DEF PagesTold

\* A roll back takes the line and its record from the history together.
LEMMA RollBackTells ==
    ASSUME JournalInv, PagesTold, NEW w \in Writers, RollBack(w), JournalInv'
    PROVE  PagesTold'
<1>1. /\ UNCHANGED <<cursor, page, seen, records, files>>
      /\ writer[w].step \in {"partly", "written"} /\ lock = w /\ Return(w, FALSE)
      /\ current # Nothing /\ current.file = writer[w].file
      /\ writer[w].step = "partly" =>
            /\ Len(current.bytes) = writer[w].length + 1
            /\ current.bytes[writer[w].length + 1] = Part(writer[w].record, 1)
      /\ writer[w].step = "written" =>
            /\ Len(current.bytes) = writer[w].length + 2
            /\ current.bytes[writer[w].length + 2] = Part(writer[w].record, 2)
  BY DEF RollBack, JournalInv, WritesAlone
<1>2. /\ writer'[w].step \in {"absent", "idle"}
      /\ \A v \in Writers : v # w => writer'[v] = writer[v]
  BY <1>1, ReturnRests
<1> DEFINE cut == SubSeq(current.bytes, 1, Min({writer[w].length, Len(current.bytes)}))
           cutBack == /\ current' = [current EXCEPT !.bytes = cut] /\ backup' = backup
                      /\ history' = IF AtStep(w, "written")
                                    THEN SubSeq(history, 1, Len(history) - 1) ELSE history
<1>3. UNCHANGED <<current, backup, history>> \/ cutBack
  <2>1. current \in Generation /\ (backup # Nothing => backup.file # writer[w].file)
    BY <1>1 DEF JournalInv, JournalTypes, FilesDiffer
  <2> QED
    BY <1>1, <2>1 DEF RollBack, Change, Generation
<1>4. CASE UNCHANGED <<current, backup, history>>
  BY <1>1, <1>2, <1>4, RestTells
<1>5. CASE cutBack
  <2>1. PICK n \in Nat : n = LinesOf(current)
    BY <1>1, CurrentTold
  <2>2. PICK at \in Nat : at = writer[w].length
    BY WriterIs DEF JournalInv
  <2>3. /\ current \in Generation /\ current.bytes \in Seq(Parts) /\ Paired(current.bytes, n)
        /\ Len(history) \in Nat /\ history \in Seq(Nat) /\ seen <= Len(history)
        /\ n <= Len(history) /\ seen \in Nat
    BY <1>1, <2>1, CurrentTold
  <2>4. /\ cut \in Seq(Parts) /\ Len(cut) = at
        /\ \A i \in 1 .. at : cut[i] = current.bytes[i]
    BY <1>1, <2>2, CutIs
  <2>5. /\ current'.bytes = cut /\ current'.file = current.file /\ current' # Nothing
        /\ backup' = backup
    <3> HIDE DEF cut
    <3>1. current' \in Generation /\ current'.bytes = cut /\ current'.file = current.file
      BY <1>5, <2>3, <2>4 DEF Generation
    <3> QED
      BY <1>5, <3>1, FactsOfJournal
  <2> HIDE DEF cut
  <2>6. CASE writer[w].step = "partly"
    <3>1. at = n + n
      <4>1. PICK l \in Nat : l = at + 1
        OBVIOUS
      <4>2. Len(current.bytes) = l /\ current.bytes[l].part = 1 /\ l # 0
        BY <1>1, <2>2, <2>6, <4>1 DEF Part
      <4>3. l = n + n + 1
        BY <2>3, <4>2, LastPart
      <4> QED
        BY <4>1, <4>3
    <3>2. Len(history) - (LinesOf(current) - n) = Len(history)
      BY <2>1, <2>3
    <3>3. history' = SubSeq(history, 1, Len(history) - (LinesOf(current) - n))
      BY <1>5, <2>3, <2>6, <3>2, SubSeqFull DEF AtStep
    <3>4. seen <= Len(history) - (LinesOf(current) - n) /\ n <= LinesOf(current)
      BY <2>1, <2>3, <3>2
    <3>5. Rises(history', records') /\ GenerationsTold' /\ CursorTold' /\ PageTold'
      BY <1>1, <2>3, <2>4, <2>5, <3>1, <3>3, <3>4, CutTells
    <3> QED
      BY <1>1, <1>2, <3>5, OthersTellNothing DEF PagesTold, HistoryGoesOn
  <2>7. CASE writer[w].step = "written"
    <3>1. n # 0 /\ at = (n - 1) + (n - 1)
      <4>1. PICK l \in Nat : l = at + 2
        OBVIOUS
      <4>2. Len(current.bytes) = l /\ current.bytes[l].part = 2 /\ l # 0
        BY <1>1, <2>2, <2>7, <4>1 DEF Part
      <4>3. n # 0 /\ l = n + n
        BY <2>3, <4>2, LastPart
      <4> QED
        BY <4>1, <4>3
    <3>2. PICK m \in Nat : m = n - 1
      BY <3>1
    <3>3. Len(history) - (LinesOf(current) - m) = Len(history) - 1
      BY <2>1, <2>3, <3>2
    <3>4. history' = SubSeq(history, 1, Len(history) - (LinesOf(current) - m))
      BY <1>5, <2>7, <3>3 DEF AtStep
    <3>5. seen <= Len(history) - (LinesOf(current) - m) /\ m <= LinesOf(current)
      <4>1. Len(history) > seen
        BY <2>7 DEF PagesTold, HistoryGoesOn
      <4>2. seen <= Len(history) - 1 /\ m <= n
        BY <2>3, <3>2, <4>1
      <4> QED
        BY <2>1, <3>3, <4>2
    <3>6. Rises(history', records') /\ GenerationsTold' /\ CursorTold' /\ PageTold'
      <4>1. at = m + m
        BY <3>1, <3>2
      <4> QED
        BY <1>1, <2>3, <2>4, <2>5, <3>4, <3>5, <4>1, CutTells
    <3> QED
      BY <1>1, <1>2, <3>6, OthersTellNothing DEF PagesTold, HistoryGoesOn
  <2> QED
    BY <1>1, <2>6, <2>7
<1> QED
  BY <1>3, <1>4, <1>5

\* A process that succeeds, gives up or dies tells nothing.
LEMMA EndTells ==
    ASSUME JournalInv, PagesTold, NEW w \in Writers, Succeed(w) \/ GiveUp(w) \/ Exit(w)
    PROVE  PagesTold'
<1>1. CASE Succeed(w)
  <2>1. lock = w /\ Return(w, TRUE)
        /\ UNCHANGED <<current, backup, history, cursor, page, seen, records, files>>
    BY <1>1 DEF Succeed, AtStep, JournalInv, WritesAlone
  <2> QED
    BY <2>1, ReturnRests, RestTells
<1>2. CASE GiveUp(w)
  <2>1. lock = w /\ Return(w, FALSE)
        /\ UNCHANGED <<current, backup, history, cursor, page, seen, records, files>>
    BY <1>2 DEF GiveUp, journalGhosts, JournalInv, WritesAlone
  <2> QED
    BY <2>1, ReturnRests, RestTells
<1>3. CASE Exit(w)
  <2>1. /\ UNCHANGED <<current, backup, history, cursor, page, seen, records, files>>
        /\ writer'[w].step = "absent" /\ \A v \in Writers : v # w => writer'[v] = writer[v]
    BY <1>3 DEF Exit, journalGhosts, JournalInv, JournalTypes, Absent
  <2> QED
    BY <2>1, RestTells
<1> QED
  BY <1>1, <1>2, <1>3

-----------------------------------------------------------------------------
\* What a page is made of

\* What follows the first k lines.
LEMMA PairedRest ==
    ASSUME NEW b \in Seq(Parts), NEW n \in Nat, Paired(b, n), NEW k \in Nat, k <= n
    PROVE  LET rest == SubSeq(b, k + k + 1, Len(b)) IN
           /\ rest \in Seq(Parts) /\ Len(rest) = Len(b) - (k + k)
           /\ \A i \in 1 .. Len(rest) : rest[i] = b[k + k + i]
           /\ Paired(rest, n - k)
<1> DEFINE rest == SubSeq(b, k + k + 1, Len(b))
<1>1. PICK l \in Nat : l = Len(b)
  OBVIOUS
<1>2. PICK m \in Nat : m = k + k
  OBVIOUS
<1>3. l \in {n + n, n + n + 1} /\ (l = n + n + 1 => b[n + n + 1].part = 1) /\ m <= l
  BY <1>1, <1>2 DEF Paired
<1>4. \A i \in m + 1 .. l : b[i] \in Parts
  BY <1>1
<1>5. /\ SubSeq(b, m + 1, l) \in Seq(Parts)
      /\ Len(SubSeq(b, m + 1, l)) = IF m + 1 <= l THEN l - (m + 1) + 1 ELSE 0
      /\ \A i \in 1 .. l - (m + 1) + 1 : SubSeq(b, m + 1, l)[i] = b[m + 1 + i - 1]
  BY <1>4, SubSeqProperties
<1>6. rest = SubSeq(b, m + 1, l)
  BY <1>1, <1>2
<1> HIDE DEF rest
<1>7. rest \in Seq(Parts) /\ Len(rest) = l - m
  BY <1>3, <1>5, <1>6
<1>8. ASSUME NEW i \in 1 .. l - m PROVE rest[i] = b[m + i]
  <2>1. i \in 1 .. l - (m + 1) + 1 /\ m + 1 + i - 1 = m + i
    BY <1>3
  <2> QED
    BY <1>5, <1>6, <2>1
<1>9. PICK j \in Nat : j = n - k /\ j + k = n
  OBVIOUS
<1>10. l - m \in {j + j, j + j + 1} /\ m + j + j = n + n
  BY <1>2, <1>3, <1>9
<1>11. ASSUME NEW i \in 1 .. j
       PROVE  /\ rest[i + i - 1].part = 1 /\ rest[i + i].part = 2
              /\ rest[i + i - 1].record = rest[i + i].record
  <2>1. i + i - 1 \in 1 .. l - m /\ i + i \in 1 .. l - m
    BY <1>10
  <2>2. PICK q \in 1 .. n : q = k + i
    BY <1>9
  <2>3. m + (i + i - 1) = q + q - 1 /\ m + (i + i) = q + q
    BY <1>2, <2>2
  <2>4. rest[i + i - 1] = b[q + q - 1] /\ rest[i + i] = b[q + q]
    BY <1>8, <2>1, <2>3
  <2>5. /\ b[q + q - 1].part = 1 /\ b[q + q].part = 2
        /\ b[q + q - 1].record = b[q + q].record
    BY DEF Paired
  <2> QED
    BY <2>4, <2>5
<1>12. l - m = j + j + 1 => rest[j + j + 1].part = 1
  <2> SUFFICES ASSUME l - m = j + j + 1 PROVE rest[j + j + 1].part = 1
    OBVIOUS
  <2>1. l = n + n + 1 /\ j + j + 1 \in 1 .. l - m /\ m + (j + j + 1) = n + n + 1
    BY <1>3, <1>10
  <2> QED
    BY <1>3, <1>8, <2>1
<1>13. Paired(rest, j)
  BY <1>7, <1>10, <1>11, <1>12 DEF Paired
<1>14. Len(b) - (k + k) = l - m
  BY <1>1, <1>2
<1>15. \A i \in 1 .. Len(rest) : rest[i] = b[k + k + i]
  BY <1>2, <1>7, <1>8
<1> QED
  BY <1>7, <1>9, <1>13, <1>14, <1>15 DEF rest

\* The generations there are.
LEMMA GenerationsAre ==
    /\ backup = Nothing /\ current = Nothing => Generations = <<>> /\ Len(Generations) = 0
    /\ backup # Nothing /\ current = Nothing => Len(Generations) = 1 /\ Generations[1] = backup
    /\ backup = Nothing /\ current # Nothing => Len(Generations) = 1 /\ Generations[1] = current
    /\ backup # Nothing /\ current # Nothing =>
        Len(Generations) = 2 /\ Generations[1] = backup /\ Generations[2] = current
<1>1. CASE backup = Nothing
  BY <1>1 DEF Generations
<1>2. CASE backup # Nothing
  BY <1>2 DEF Generations
<1> QED
  BY <1>1, <1>2

\* Where in the history the lines of a generation begin.
StartsAt(i) ==
    IF Generations[i] = current THEN Len(history) - LinesOf(current)
    ELSE Len(history) - LinesOf(current) - LinesOf(backup)

\* What the generation at a place of the list tells.
LEMMA GenerationTold ==
    ASSUME JournalInv, PagesTold, NEW i \in 1 .. Len(Generations)
    PROVE  /\ Generations[i] \in Generation /\ Generations[i].bytes \in Seq(Parts)
           /\ Generations[i] \in {current, backup}
           /\ Lines(Generations[i].bytes) \in Nat /\ StartsAt(i) \in Nat
           /\ Tells(history, Generations[i].bytes, StartsAt(i))
           /\ Len(Generations) \in {1, 2}
           /\ Generations[i] # current =>
                Len(Generations[i].bytes)
                    = Lines(Generations[i].bytes) + Lines(Generations[i].bytes)
           /\ i < Len(Generations) =>
                /\ i + 1 = 2 /\ Len(Generations) = 2 /\ Generations[i] # current
                /\ StartsAt(2) = StartsAt(i) + Lines(Generations[i].bytes)
           /\ i = Len(Generations) => StartsAt(i) + Lines(Generations[i].bytes) = Len(history)
<1>1. PICK n \in Nat : n = LinesOf(current)
  BY DEF PagesTold, GenerationsTold
<1>2. PICK b \in Nat : b = LinesOf(backup)
  BY DEF PagesTold, GenerationsTold
<1>3. PICK H \in Nat : H = Len(history)
  BY DEF PagesTold, Rises
<1>4. /\ b + n <= H
      /\ current # Nothing => Tells(history, current.bytes, H - n)
      /\ backup # Nothing => Tells(history, backup.bytes, H - n - b) /\ Len(backup.bytes) = b + b
      /\ current # Nothing => n = Lines(current.bytes)
      /\ current = Nothing => n = 0
      /\ backup # Nothing => b = Lines(backup.bytes)
  BY <1>1, <1>2, <1>3 DEF PagesTold, GenerationsTold, LinesOf
<1>5. /\ current # Nothing => current \in Generation /\ current.bytes \in Seq(Parts)
      /\ backup # Nothing => backup \in Generation /\ backup.bytes \in Seq(Parts)
      /\ current # Nothing /\ backup # Nothing => current # backup
  BY DEF JournalInv, JournalTypes, FilesDiffer, Generation
<1>6. H - n \in Nat /\ H - n - b \in Nat /\ H - n - b + b = H - n /\ H - n + n = H
  BY <1>4
<1>7. CASE backup = Nothing /\ current = Nothing
  BY <1>7, GenerationsAre
<1>8. CASE backup # Nothing /\ current = Nothing
  <2>1. i = 1 /\ Len(Generations) = 1 /\ Generations[i] = backup
    <3>1. Len(Generations) = 1 /\ Generations[1] = backup
      BY <1>8, GenerationsAre
    <3>2. i \in 1 .. 1
      BY <3>1
    <3> QED
      BY <3>1, <3>2
  <2>2. StartsAt(i) = H - n - b
    BY <1>1, <1>2, <1>3, <1>8, <2>1 DEF StartsAt
  <2>3. H - n - b + b = H
    BY <1>4, <1>8
  <2>4. Lines(Generations[i].bytes) = b /\ Len(Generations[i].bytes) = b + b
    BY <1>4, <1>8, <2>1
  <2>5. Tells(history, Generations[i].bytes, StartsAt(i)) /\ StartsAt(i) \in Nat
    BY <1>4, <1>6, <1>8, <2>1, <2>2
  <2>6. StartsAt(i) + Lines(Generations[i].bytes) = Len(history)
    BY <1>3, <2>2, <2>3, <2>4
  <2>7. Generations[i] \in Generation /\ Generations[i].bytes \in Seq(Parts)
    BY <1>5, <1>8, <2>1
  <2> QED
    BY <2>1, <2>4, <2>5, <2>6, <2>7
<1>9. CASE backup = Nothing /\ current # Nothing
  <2>1. i = 1 /\ Len(Generations) = 1 /\ Generations[i] = current
    <3>1. Len(Generations) = 1 /\ Generations[1] = current
      BY <1>9, GenerationsAre
    <3>2. i \in 1 .. 1
      BY <3>1
    <3> QED
      BY <3>1, <3>2
  <2>2. StartsAt(i) = H - n
    BY <1>1, <1>2, <1>3, <2>1 DEF StartsAt
  <2>4. Lines(Generations[i].bytes) = n
    BY <1>4, <1>9, <2>1
  <2>5. Tells(history, Generations[i].bytes, StartsAt(i)) /\ StartsAt(i) \in Nat
    BY <1>4, <1>6, <1>9, <2>1, <2>2
  <2>6. StartsAt(i) + Lines(Generations[i].bytes) = Len(history)
    BY <1>3, <1>6, <2>2, <2>4
  <2>7. Generations[i] \in Generation /\ Generations[i].bytes \in Seq(Parts)
    BY <1>5, <1>9, <2>1
  <2> QED
    BY <2>1, <2>4, <2>5, <2>6, <2>7
<1>10. CASE backup # Nothing /\ current # Nothing
  <2>1. /\ i \in {1, 2} /\ Len(Generations) = 2
        /\ Generations[1] = backup /\ Generations[2] = current
    <3>1. Len(Generations) = 2 /\ Generations[1] = backup /\ Generations[2] = current
      BY <1>10, GenerationsAre
    <3>2. i \in 1 .. 2
      BY <3>1
    <3> QED
      BY <3>1, <3>2
  <2>2. StartsAt(2) = H - n /\ StartsAt(1) = H - n - b
    BY <1>1, <1>2, <1>3, <1>5, <1>10, <2>1 DEF StartsAt
  <2>3. CASE i = 1
    <3>1. Lines(Generations[i].bytes) = b /\ Len(Generations[i].bytes) = b + b
      BY <1>4, <1>10, <2>1, <2>3
    <3>2. Tells(history, Generations[i].bytes, StartsAt(i)) /\ StartsAt(i) \in Nat
      BY <1>4, <1>6, <1>10, <2>1, <2>2, <2>3
    <3>3. StartsAt(2) = StartsAt(i) + Lines(Generations[i].bytes)
      BY <1>6, <2>2, <2>3, <3>1
    <3>4. /\ Generations[i] \in Generation /\ Generations[i].bytes \in Seq(Parts)
          /\ Generations[i] # current
      BY <1>5, <1>10, <2>1, <2>3
    <3> QED
      BY <2>1, <2>3, <3>1, <3>2, <3>3, <3>4
  <2>4. CASE i = 2
    <3>1. Lines(Generations[i].bytes) = n
      BY <1>4, <1>10, <2>1, <2>4
    <3>2. Tells(history, Generations[i].bytes, StartsAt(i)) /\ StartsAt(i) \in Nat
      BY <1>4, <1>6, <1>10, <2>1, <2>2, <2>4
    <3>3. StartsAt(i) + Lines(Generations[i].bytes) = Len(history)
      BY <1>3, <1>6, <2>2, <2>4, <3>1
    <3>4. /\ Generations[i] \in Generation /\ Generations[i].bytes \in Seq(Parts)
      BY <1>5, <1>10, <2>1, <2>4
    <3> QED
      BY <2>1, <2>4, <3>1, <3>2, <3>3, <3>4
  <2> QED
    BY <2>1, <2>3, <2>4
<1> QED
  BY <1>7, <1>8, <1>9, <1>10

\* How many lines there are from a place on.
LEMMA LinesFromIs ==
    ASSUME JournalInv, PagesTold, NEW i \in 1 .. Len(Generations),
           NEW k \in 0 .. Lines(Generations[i].bytes)
    PROVE  /\ LinesFrom(i, k + k) = Len(history) - (StartsAt(i) + k)
           /\ StartsAt(i) + k <= Len(history)
<1> DEFINE g == Generations[i]
<1>1. PICK n \in Nat : n = Lines(g.bytes)
  BY GenerationTold
<1>2. PICK s \in Nat : s = StartsAt(i)
  BY GenerationTold
<1>3. PICK H \in Nat : H = Len(history)
  BY DEF PagesTold, Rises
<1>4. g.bytes \in Seq(Parts) /\ Paired(g.bytes, n) /\ k \in Nat /\ k <= n /\ s + n <= H
  BY <1>1, <1>2, <1>3, GenerationTold DEF Tells
<1>5. Lines(SubSeq(g.bytes, k + k + 1, Len(g.bytes))) = n - k
  <2>1. n - k \in Nat
    BY <1>4
  <2> QED
    BY <1>4, <2>1, PairedRest, LinesOfPaired
<1>6. CASE i < Len(Generations)
  <2>1. i + 1 = 2 /\ Len(Generations) = 2 /\ StartsAt(2) = s + n
    BY <1>1, <1>2, <1>6, GenerationTold
  <2>2. PICK m \in Nat : m = Lines(Generations[2].bytes)
    BY <2>1, GenerationTold
  <2>3. s + n + m = H
    BY <1>3, <2>1, <2>2, GenerationTold
  <2>4. LinesFrom(i, k + k) = m + (n - k)
    BY <1>5, <1>6, <2>1, <2>2 DEF LinesFrom
  <2> QED
    BY <1>2, <1>3, <1>4, <2>3, <2>4
<1>7. CASE i = Len(Generations)
  <2>1. s + n = H
    BY <1>1, <1>2, <1>3, <1>7, GenerationTold
  <2>2. LinesFrom(i, k + k) = 0 + (n - k)
    BY <1>5, <1>7 DEF LinesFrom
  <2> QED
    BY <1>2, <1>3, <1>4, <2>1, <2>2
<1>8. i < Len(Generations) \/ i = Len(Generations)
  <2>1. Len(Generations) \in {1, 2}
    BY GenerationTold
  <2> QED
    BY <2>1
<1> QED
  BY <1>6, <1>7, <1>8

\* A place of the reader: after whole lines, with the records of the history from base on.
Places == [index : Nat, offset : Nat, records : Seq(Nat), rejected : {0}]

Reads(base, p) ==
    /\ p \in Places /\ p.index \in 1 .. Len(Generations)
    /\ \E k \in 0 .. Lines(Generations[p.index].bytes) :
        /\ p.offset = k + k
        /\ base <= StartsAt(p.index) + k
        /\ p.records = SubSeq(history, base + 1, StartsAt(p.index) + k)

\* One round of the reader goes to such a place: to the next generation at the end of the
\* backup, or past one more line.
LEMMA AdvancedReads ==
    ASSUME JournalInv, PagesTold, NEW base \in Nat, NEW p, Reads(base, p), NEW limit
    PROVE  Reads(base, Advanced(p, limit))
<1>1. PICK i \in 1 .. Len(Generations) : i = p.index
  BY DEF Reads
<1>2. PICK n \in Nat : n = Lines(Generations[i].bytes)
  BY GenerationTold
<1>3. PICK k \in 0 .. n :
        /\ p.offset = k + k
        /\ base <= StartsAt(i) + k
        /\ p.records = SubSeq(history, base + 1, StartsAt(i) + k)
  BY <1>1, <1>2 DEF Reads
<1>4. PICK s \in Nat : s = StartsAt(i)
  BY GenerationTold
<1>5. PICK b \in Seq(Parts) : b = Generations[i].bytes
  BY GenerationTold
<1>6. PICK L : L = Len(b)
  OBVIOUS
<1>7. /\ p \in Places /\ Paired(b, n) /\ k \in Nat /\ k <= n /\ s + n <= Len(history)
      /\ \A j \in 1 .. n : b[j + j].record = history[s + j]
      /\ history \in Seq(Nat) /\ Len(history) \in Nat
      /\ L \in Nat /\ L \in {n + n, n + n + 1}
  <2>1. p \in Places
    BY DEF Reads
  <2>2. history \in Seq(Nat) /\ Len(history) \in Nat
    BY DEF PagesTold, Rises
  <2>3. Tells(history, b, s)
    BY <1>4, <1>5, GenerationTold
  <2>4. n = Lines(b)
    BY <1>2, <1>5
  <2>5. /\ Paired(b, n) /\ s + n <= Len(history)
        /\ \A j \in 1 .. n : b[j + j].record = history[s + j]
    BY <2>3, <2>4 DEF Tells
  <2>6. L \in Nat /\ L \in {n + n, n + n + 1}
    BY <1>6, <2>5 DEF Paired
  <2> QED
    BY <2>1, <2>2, <2>5, <2>6
<1> DEFINE rest == SubSeq(b, k + k + 1, Len(b))
           ends == {j \in DOMAIN rest : EndsLine(rest[j])}
           line == SubSeq(rest, 1, Min(ends))
<1>8. /\ rest \in Seq(Parts) /\ Len(rest) = L - (k + k)
      /\ \A j \in 1 .. Len(rest) : rest[j] = b[k + k + j]
      /\ Paired(rest, n - k)
  BY <1>6, <1>7, PairedRest
<1>9. ends = {j + j : j \in 1 .. n - k}
  <2>1. n - k \in Nat
    BY <1>7
  <2> HIDE DEF rest
  <2> QED
    BY <1>8, <2>1, EndsOfPaired
<1>10. Advanced(p, limit) =
        IF rest = <<>> /\ i < Len(Generations)
        THEN [p EXCEPT !.index = i + 1, !.offset = 0]
        ELSE IF Len(p.records) = limit THEN p
        ELSE IF ends = {}
        THEN IF rest = <<>> \/ Generations[i] = current THEN p
             ELSE [p EXCEPT !.rejected = p.rejected + 1, !.offset = Len(b)]
        ELSE IF Len(line) = 2 /\ line[1] = Part(line[2].record, 1)
        THEN [p EXCEPT !.records = Append(p.records, line[1].record), !.offset = k + k + Len(line)]
        ELSE [p EXCEPT !.rejected = p.rejected + 1, !.offset = k + k + Len(line)]
  BY <1>1, <1>3, <1>5, <1>7 DEF Advanced, Places
<1> HIDE DEF rest
<1>11. CASE rest = <<>> /\ i < Len(Generations)
  <2>1. L - (k + k) = 0
    BY <1>8, <1>11
  <2>2. i + 1 = 2 /\ Len(Generations) = 2 /\ StartsAt(2) = s + n /\ Len(b) = n + n
    BY <1>2, <1>4, <1>5, <1>11, GenerationTold
  <2>3. k = n
    BY <1>6, <1>7, <2>1, <2>2
  <2>4. PICK q \in Places : q = [p EXCEPT !.index = i + 1, !.offset = 0]
    <3>1. PICK u \in Nat : u = i + 1
      BY <2>2
    <3>2. [p EXCEPT !.index = u, !.offset = 0] \in Places
      BY <1>7 DEF Places
    <3> QED
      BY <3>1, <3>2
  <2>5. /\ q.index = 2 /\ q.offset = 0 /\ q.records = p.records
    BY <1>7, <2>2, <2>4 DEF Places
  <2>6. 2 \in 1 .. Len(Generations) /\ Lines(Generations[2].bytes) \in Nat
    BY <2>2, GenerationTold
  <2>7. /\ 0 \in 0 .. Lines(Generations[2].bytes) /\ 0 = 0 + 0
        /\ StartsAt(2) + 0 = StartsAt(i) + k
    BY <1>4, <2>2, <2>3, <2>6
  <2>8. base <= StartsAt(2) + 0 /\ p.records = SubSeq(history, base + 1, StartsAt(2) + 0)
    BY <1>3, <2>7
  <2>9. Reads(base, q)
    BY <2>5, <2>6, <2>7, <2>8 DEF Reads
  <2> QED
    BY <1>10, <1>11, <2>4, <2>9
<1>12. CASE ~(rest = <<>> /\ i < Len(Generations)) /\ ends = {}
  <2>1. rest = <<>> \/ Generations[i] = current
    <3> SUFFICES ASSUME Generations[i] # current PROVE rest = <<>>
      OBVIOUS
    <3>1. n - k \in Nat /\ ~(1 \in 1 .. n - k)
      <4>1. PICK m \in Nat : m = n - k
        BY <1>7
      <4>2. ends = {j + j : j \in 1 .. m}
        BY <1>9, <4>1
      <4> HIDE DEF ends
      <4>3. ~(1 \in 1 .. m)
        BY <1>12, <4>2
      <4> QED
        BY <4>1, <4>3
    <3>2. n - k = 0
      BY <3>1
    <3>3. L = n + n
      BY <1>2, <1>5, <1>6, GenerationTold
    <3>4. Len(rest) = 0
      BY <1>7, <1>8, <3>2, <3>3
    <3> QED
      BY <1>8, <3>4
  <2>2. Advanced(p, limit) = p
    BY <1>10, <1>12, <2>1
  <2> QED
    BY <2>2
<1>13. CASE ~(rest = <<>> /\ i < Len(Generations)) /\ ends # {}
  <2>1. CASE Len(p.records) = limit
    BY <1>10, <1>13, <2>1
  <2>2. CASE Len(p.records) # limit
    <3>1. 1 \in 1 .. n - k /\ k + 1 \in 0 .. n /\ k + 1 \in 1 .. n
      <4>1. PICK j \in 1 .. n - k : TRUE
        BY <1>9, <1>13
      <4> QED
        BY <1>7, <4>1
    <3>2. Min(ends) = 2
      <4>1. 2 \in ends
        <5>1. 1 + 1 = 2
          OBVIOUS
        <5> QED
          BY <1>9, <3>1, <5>1
      <4>2. \A e \in ends : e \in Nat /\ 2 <= e
        BY <1>9
      <4> HIDE DEF ends
      <4>3. \A y \in ends : 2 <= y
        BY <4>2
      <4>4. Min(ends) \in ends /\ \A y \in ends : Min(ends) <= y
        BY <4>1, <4>3 DEF Min
      <4> QED
        BY <4>1, <4>2, <4>4
    <3>3. /\ Len(rest) >= 2 /\ 1 \in 1 .. Len(rest) /\ 2 \in 1 .. Len(rest)
      BY <1>6, <1>7, <1>8, <3>1
    <3>4. rest[1] = b[k + k + 1] /\ rest[2] = b[k + k + 2]
      BY <1>8, <3>3
    <3>5. /\ b[k + k + 1].part = 1 /\ b[k + k + 2].part = 2
          /\ b[k + k + 1].record = b[k + k + 2].record
          /\ b[k + k + 2].record = history[s + k + 1]
      <4>1. PICK j \in 1 .. n : j = k + 1
        BY <3>1
      <4>2. j + j - 1 = k + k + 1 /\ j + j = k + k + 2 /\ s + j = s + k + 1
        BY <4>1
      <4>3. /\ b[j + j - 1].part = 1 /\ b[j + j].part = 2
            /\ b[j + j - 1].record = b[j + j].record
        BY <1>7 DEF Paired
      <4>4. b[j + j].record = history[s + j]
        BY <1>7
      <4> QED
        BY <4>2, <4>3, <4>4
    <3>6. /\ Len(line) = 2 /\ line[1] = rest[1] /\ line[2] = rest[2]
      BY <1>8, <3>2, <3>3
    <3>7. rest[1] = Part(history[s + k + 1], 1) /\ rest[2].record = history[s + k + 1]
      <4>1. rest[1] \in Parts
        BY <1>8, <3>3
      <4> QED
        BY <3>4, <3>5, <4>1 DEF Parts, Part
    <3>8. rest[1].record = history[s + k + 1]
      BY <3>4, <3>5
    <3> HIDE DEF line, ends
    <3>9. Advanced(p, limit) =
            [p EXCEPT !.records = Append(p.records, history[s + k + 1]), !.offset = k + k + 2]
      BY <1>10, <1>13, <2>2, <3>6, <3>7, <3>8
    <3>10. /\ s + k + 1 \in 1 .. Len(history) /\ history[s + k + 1] \in Nat
           /\ s + k + 1 = StartsAt(i) + (k + 1)
      <4>1. PICK m \in Nat : m = Len(history)
        BY <1>7
      <4>2. s + k + 1 \in 1 .. m
        BY ONLY <1>7, <3>1, <4>1, s \in Nat, k \in Nat, n \in Nat, m \in Nat
      <4>3. s + k + 1 \in 1 .. Len(history)
        BY <4>1, <4>2
      <4>4. s + k + 1 = StartsAt(i) + (k + 1)
        BY <1>4
      <4>5. history[s + k + 1] \in Nat
        BY <1>7, <4>3
      <4> QED
        BY <4>3, <4>4, <4>5
    <3>11. Append(p.records, history[s + k + 1]) = SubSeq(history, base + 1, s + k + 1)
      <4>1. PICK e \in 1 .. Len(history) : e = s + k + 1
        BY <3>10
      <4>7. base <= s + k
        BY <1>3, <1>4
      <4>2. base + 1 \in 1 .. Len(history) /\ e \in base + 1 .. Len(history) /\ e - 1 = s + k
        BY <1>7, <4>1, <4>7
      <4>3. SubSeq(history, base + 1, e) = SubSeq(history, base + 1, e - 1) \o <<history[e]>>
        BY <1>7, <4>2, SubSeqRecursiveSecond
      <4>4. p.records = SubSeq(history, base + 1, e - 1)
        BY <1>3, <1>4, <4>2
      <4>5. p.records \in Seq(Nat)
        BY <1>7 DEF Places
      <4>6. Append(p.records, history[e]) = p.records \o <<history[e]>>
        <5>1. PICK r \in Seq(Nat) : r = p.records
          BY <4>5
        <5>2. PICK x \in Nat : x = history[e]
          BY <3>10, <4>1
        <5>3. Append(r, x) = r \o <<x>>
          BY AppendIsConcat
        <5> QED
          BY ONLY <5>1, <5>2, <5>3
      <4> QED
        BY ONLY <4>1, <4>3, <4>4, <4>6
    <3>12. PICK q \in Places :
            q = [p EXCEPT !.records = Append(p.records, history[s + k + 1]), !.offset = k + k + 2]
      <4>1. PICK r \in Seq(Nat) : r = Append(p.records, history[s + k + 1])
        <5>1. PICK r \in Seq(Nat) : r = p.records
          BY <1>7 DEF Places
        <5>2. PICK x \in Nat : x = history[s + k + 1]
          BY <3>10
        <5>3. Append(r, x) \in Seq(Nat)
          OBVIOUS
        <5> QED
          BY ONLY <5>1, <5>2, <5>3
      <4>2. PICK o \in Nat : o = k + k + 2
        BY <1>7
      <4>3. [p EXCEPT !.records = r, !.offset = o] \in Places
        BY <1>7 DEF Places
      <4> QED
        BY <4>1, <4>2, <4>3
    <3>13. /\ q.index = i /\ q.offset = k + k + 2
           /\ q.records = Append(p.records, history[s + k + 1])
      BY <1>1, <1>7, <3>12 DEF Places
    <3>14. /\ q.offset = (k + 1) + (k + 1) /\ base <= StartsAt(i) + (k + 1)
           /\ q.records = SubSeq(history, base + 1, StartsAt(i) + (k + 1))
      <4>1. q.records = SubSeq(history, base + 1, StartsAt(i) + (k + 1))
        BY <3>10, <3>11, <3>13
      <4>2. q.offset = (k + 1) + (k + 1)
        BY <1>7, <3>13
      <4>3. base <= s + k
        BY <1>3, <1>4
      <4>4. base <= s + (k + 1)
        BY <1>7, <4>3
      <4> QED
        BY <1>4, <4>1, <4>2, <4>4
    <3>15. Reads(base, q)
      BY <1>2, <3>1, <3>13, <3>14 DEF Reads
    <3> QED
      BY <3>9, <3>12, <3>15
  <2> QED
    BY <2>1, <2>2
<1> QED
  BY <1>11, <1>12, <1>13

\* The loop of the reader, from the place it starts at.
Begun(start) == [index |-> start.index, offset |-> start.offset, records |-> <<>>, rejected |-> 0]

WalkEnd(start, limit) ==
    LET rounds == 2 * FileCapacity + 2
        walk[n \in 0 .. rounds] == IF n = 0 THEN Begun(start) ELSE Advanced(walk[n - 1], limit)
    IN  walk[rounds]

\* Where the loop ends, the page holds the records from where it began.
LEMMA WalkReads ==
    ASSUME JournalInv, PagesTold, NEW base \in Nat, NEW start, NEW limit, Reads(base, Begun(start))
    PROVE  Reads(base, WalkEnd(start, limit))
<1> DEFINE V == {p \in Places : Reads(base, p)}
           a == Begun(start)
           walk == CHOOSE f : f = [n \in 0 .. 2 * FileCapacity + 2 |->
                        IF n = 0 THEN Begun(start) ELSE Advanced(f[n - 1], limit)]
<1>1. PICK N \in Nat : N = 2 * FileCapacity + 2
  BY JournalAssumption
<1> DEFINE G == [p \in V \X (1 .. N) |-> Advanced(p[1], limit)]
<1>2. WalkEnd(start, limit) = walk[N]
  BY <1>1 DEF WalkEnd
<1>3. Builds(V, a, N, G)
  <2>1. a \in V
    BY DEF Reads
  <2>2. \A p \in V : Advanced(p, limit) \in V
    <3>1. ASSUME NEW p \in V PROVE Advanced(p, limit) \in V
      <4>1. Reads(base, Advanced(p, limit))
        BY AdvancedReads
      <4> QED
        BY <4>1 DEF Reads
    <3> QED
      BY <3>1
  <2> HIDE DEF V, a
  <2> QED
    BY <2>1, <2>2 DEF Builds
<1>4. PICK f : Built(f, V, a, N, G)
  BY <1>3, RecursionBuilds
<1> HIDE DEF V
<1>5. f = [n \in 0 .. N |-> IF n = 0 THEN Begun(start) ELSE Advanced(f[n - 1], limit)]
  <2>1. \A i \in 0 .. N : i # 0 => i \in 1 .. N /\ i - 1 \in 0 .. N
    OBVIOUS
  <2>2. /\ f \in [0 .. N -> V] /\ f[0] = a
        /\ \A i \in 1 .. N : f[i] = G[<<f[i - 1], i>>]
    BY <1>4 DEF Built
  <2>3. \A i \in 1 .. N : f[i - 1] \in V
    BY <2>1, <2>2
  <2>4. \A i \in 1 .. N : G[<<f[i - 1], i>>] = Advanced(f[i - 1], limit)
    BY <2>3
  <2> HIDE DEF G
  <2>5. \A i \in 0 .. N : f[i] = IF i = 0 THEN Begun(start) ELSE Advanced(f[i - 1], limit)
    BY <2>1, <2>2, <2>4
  <2> QED
    BY <2>2, <2>5
<1>6. walk = [n \in 0 .. N |-> IF n = 0 THEN Begun(start) ELSE Advanced(walk[n - 1], limit)]
  <2>1. \E h : h = [n \in 0 .. 2 * FileCapacity + 2 |->
                        IF n = 0 THEN Begun(start) ELSE Advanced(h[n - 1], limit)]
    BY <1>1, <1>5
  <2> HIDE DEF a, V, G
  <2> QED
    BY <1>1, <2>1
<1> HIDE DEF walk
<1> DEFINE S == {n \in Nat : n <= N => walk[n] \in V}
<1>7. 0 \in S
  BY <1>3, <1>6 DEF Builds
<1>8. ASSUME NEW n \in Nat, n \in S PROVE n + 1 \in S
  <2> SUFFICES ASSUME n + 1 <= N PROVE walk[n + 1] \in V
    OBVIOUS
  <2>1. walk[n] \in V
    BY <1>8
  <2>2. n + 1 \in 0 .. N /\ n + 1 - 1 = n /\ n + 1 # 0
    OBVIOUS
  <2>3. walk[n + 1] = Advanced(walk[n], limit)
    BY <1>6, <2>2
  <2>4. Reads(base, Advanced(walk[n], limit))
    BY <2>1, AdvancedReads DEF V
  <2> QED
    BY <2>3, <2>4 DEF V, Reads
<1> HIDE DEF S
<1>9. N \in S
  BY <1>7, <1>8, NaturalSteps
<1> QED
  BY <1>2, <1>9 DEF S, V

\* A cursor that matches a generation is after whole lines of it; unless it has consumed
\* nothing and its file is another, it stands for the history up to there.
LEMMA MatchTells ==
    ASSUME JournalInv, PagesTold, NEW i \in 1 .. Len(Generations),
           cursor # Nothing, Matches(cursor, Generations[i])
    PROVE  \E k \in 0 .. Lines(Generations[i].bytes) :
            /\ cursor.offset = k + k
            /\ cursor.offset # 0 \/ cursor.file = Generations[i].file => seen = StartsAt(i) + k
<1>1. PICK n \in Nat : n = Lines(Generations[i].bytes)
  BY GenerationTold
<1>2. PICK s \in Nat : s = StartsAt(i)
  BY GenerationTold
<1>3. PICK b \in Seq(Parts) : b = Generations[i].bytes
  BY GenerationTold
<1>4. PICK o \in Nat : o = cursor.offset
  BY DEF PagesTold, CursorTold
<1>5. PICK H \in Nat : H = Len(history)
  BY DEF PagesTold, Rises
<1>6. Tells(history, b, s) /\ Paired(b, n) /\ s + n <= H
  BY <1>1, <1>2, <1>3, <1>5, GenerationTold DEF Tells
<1>7. CASE o = 0
  <2>1. 0 \in 0 .. n /\ 0 = 0 + 0 /\ s + 0 = s
    BY <1>1
  <2>2. ASSUME cursor.file = Generations[i].file PROVE seen = s
    <3>1. Generations[i] \in {current, backup} /\ Generations[i] # Nothing
      BY GenerationTold, JournalAssumption DEF Generation, Parts
    <3>2. CASE Generations[i] = current
      BY <1>2, <1>4, <1>7, <2>2, <3>1, <3>2 DEF PagesTold, CursorTold, StartsAt
    <3>3. CASE Generations[i] = backup /\ Generations[i] # current
      BY <1>2, <1>4, <1>7, <2>2, <3>1, <3>3 DEF PagesTold, CursorTold, StartsAt
    <3> QED
      BY <3>1, <3>2, <3>3
  <2> QED
    BY <1>1, <1>2, <1>4, <1>7, <2>1, <2>2
<1>8. CASE o # 0
  <2>1. PICK k \in 1 .. o :
          /\ o = k + k /\ seen # 0 /\ cursor.hash[o].record = history[seen]
    BY <1>4, <1>8 DEF PagesTold, CursorTold
  <2>2. o <= Len(b) /\ cursor.hash = SubSeq(b, 1, o)
    BY <1>3, <1>4 DEF Matches, Prefix
  <2>3. k \in 1 .. n
    BY <1>6, <2>1, <2>2 DEF Paired
  <2>4. cursor.hash[o] = b[o]
    <3>1. o \in 1 .. o /\ o \in 1 .. Len(b)
      BY <1>8, <2>2
    <3> QED
      BY <2>2, <3>1
  <2>5. b[k + k].record = history[s + k]
    BY <1>1, <1>3, <1>6, <2>3 DEF Tells
  <2>6. history[s + k] = history[seen]
    BY <2>1, <2>4, <2>5
  <2>7. seen \in 1 .. H /\ s + k \in 1 .. H
    <3>1. seen \in 0 .. H /\ seen # 0
      BY <1>5, <2>1 DEF PagesTold, CursorTold
    <3> QED
      BY <1>6, <2>3, <3>1
  <2>8. seen = s + k
    <3>1. history \in Seq(Nat) /\ \A x, y \in 1 .. H : x < y => history[x] < history[y]
      BY <1>5 DEF PagesTold, Rises
    <3>2. PICK x \in 1 .. H : x = seen
      BY <2>7
    <3>3. PICK y \in 1 .. H : y = s + k
      BY <2>7
    <3>4. history[x] = history[y] /\ history[x] \in Nat
      BY <1>5, <2>6, <3>1, <3>2, <3>3
    <3>5. x = y
      BY <3>1, <3>4
    <3> QED
      BY <3>2, <3>3, <3>5
  <2> QED
    BY <1>1, <1>2, <1>4, <2>1, <2>3, <2>8
<1> QED
  BY <1>7, <1>8

\* The generations a cursor matches, of which the reader takes the first.
Found == IF cursor = Nothing THEN {} ELSE {i \in DOMAIN Generations : Matches(cursor, Generations[i])}

Beginning ==
    IF Found = {} THEN [index |-> 1, offset |-> 0] ELSE [index |-> Min(Found), offset |-> cursor.offset]

\* A page, the cursor after it and what that stands for, from where the loop ends.
PageOf(end) ==
    [records |-> end.records, rejected |-> end.rejected,
     gap |-> cursor # Nothing /\ Found = {},
     reused |-> Found # {} /\ cursor.offset = 0 /\ cursor.file # Generations[Beginning.index].file,
     from |-> IF Found = {} THEN Len(history) - LinesFrom(1, 0) ELSE seen,
     to |-> Len(history) - LinesFrom(end.index, end.offset)]

CursorOf(end) ==
    IF cursor # Nothing \/ end.index # 1 \/ end.offset # 0 \/ Generations[end.index].bytes # <<>>
    THEN [inode |-> Generations[end.index].inode, file |-> Generations[end.index].file,
          offset |-> end.offset, hash |-> Prefix(Generations[end.index], end.offset)]
    ELSE Nothing

\* Reading, in these words.
LEMMA ReadIs ==
    ASSUME NEW limit, Read(limit)
    PROVE  /\ lock = Nothing /\ Generations # <<>>
           /\ page' = PageOf(WalkEnd(Beginning, limit))
           /\ cursor' = CursorOf(WalkEnd(Beginning, limit))
           /\ seen' = Len(history)
                        - LinesFrom(WalkEnd(Beginning, limit).index, WalkEnd(Beginning, limit).offset)
           /\ UNCHANGED <<lock, current, backup, writer, records, files, history, acked>>
BY DEF Read, PageOf, CursorOf, WalkEnd, Beginning, Found, Begun

\* The first of those matched is one of them.
LEMMA FoundIs ==
    ASSUME JournalInv, PagesTold, Found # {}
    PROVE  /\ Beginning.index \in 1 .. Len(Generations) /\ Beginning.offset = cursor.offset
           /\ cursor # Nothing /\ Matches(cursor, Generations[Beginning.index])
<1>1. \A i \in Found : i \in 1 .. Len(Generations) /\ cursor # Nothing /\ Matches(cursor, Generations[i])
  <2>1. DOMAIN Generations = 1 .. Len(Generations)
    BY GenerationsAre DEF Generations
  <2> QED
    BY <2>1 DEF Found
<1>2. \A i \in Found : i \in {1, 2}
  <2>1. ASSUME NEW i \in 1 .. Len(Generations) PROVE i \in {1, 2}
    <3>1. PICK n \in {1, 2} : n = Len(Generations)
      BY GenerationTold
    <3>2. i \in 1 .. n
      BY <3>1
    <3> QED
      BY ONLY <3>1, <3>2
  <2> QED
    BY <1>1, <2>1
<1>3. Min(Found) \in Found
  <2>1. CASE 1 \in Found
    <3>1. \A i \in Found : 1 <= i
      BY <1>2
    <3> QED
      BY <2>1, <3>1 DEF Min
  <2>2. CASE 1 \notin Found
    <3>1. 2 \in Found /\ \A i \in Found : 2 <= i
      BY <1>2, <2>2
    <3> QED
      BY <3>1 DEF Min
  <2> QED
    BY <2>1, <2>2
<1> QED
  BY <1>1, <1>3 DEF Beginning

\* The reader begins where the history is that the page is said to begin with.
LEMMA ReaderBegins ==
    ASSUME JournalInv, PagesTold, Generations # <<>>, NEW end
    PROVE  \E base \in Nat :
            /\ Reads(base, Begun(Beginning))
            /\ PageOf(end).from \in Nat
            /\ PageOf(end).reused \/ PageOf(end).from = base
<1>1. CASE Found = {}
  <2>1. Beginning.index = 1 /\ Beginning.offset = 0
    BY <1>1 DEF Beginning
  <2>2. 1 \in 1 .. Len(Generations)
    BY GenerationsAre
  <2>3. PICK s \in Nat : s = StartsAt(1)
    BY <2>2, GenerationTold
  <2>4. 0 \in 0 .. Lines(Generations[1].bytes) /\ 0 = 0 + 0
    BY <2>2, GenerationTold
  <2>5. LinesFrom(1, 0) = Len(history) - (s + 0) /\ s + 0 <= Len(history)
    BY <2>2, <2>3, <2>4, LinesFromIs
  <2>6. Len(history) \in Nat
    BY DEF PagesTold, Rises
  <2>7. Len(history) - LinesFrom(1, 0) = s
    BY <2>5, <2>6
  <2>8. PageOf(end).from = s
    BY <1>1, <2>7 DEF PageOf
  <2>9. Reads(s, Begun(Beginning))
    <3>1. Begun(Beginning) \in Places
      BY <2>1 DEF Begun, Places
    <3>2. SubSeq(history, s + 1, s + 0) = <<>>
      <4>1. history \in Seq(Nat) /\ s + 0 < s + 1
        BY <2>3 DEF PagesTold, Rises
      <4> QED
        BY <4>1, SubSeqEmpty
    <3>3. s <= s + 0
      OBVIOUS
    <3> QED
      BY <2>1, <2>2, <2>3, <2>4, <3>1, <3>2, <3>3 DEF Reads, Begun
  <2> QED
    BY <2>8, <2>9
<1>2. CASE Found # {}
  <2>1. PICK i \in 1 .. Len(Generations) : i = Beginning.index
    BY <1>2, FoundIs
  <2>2. cursor # Nothing /\ Matches(cursor, Generations[i]) /\ Beginning.offset = cursor.offset
    BY <1>2, <2>1, FoundIs
  <2>3. PICK s \in Nat : s = StartsAt(i)
    BY GenerationTold
  <2>4. PICK n \in Nat : n = Lines(Generations[i].bytes)
    BY GenerationTold
  <2>5. PICK k \in 0 .. n :
            /\ cursor.offset = k + k
            /\ cursor.offset # 0 \/ cursor.file = Generations[i].file => seen = StartsAt(i) + k
    BY <2>2, <2>4, MatchTells
  <2>6. PICK base \in Nat : base = s + k
    BY <2>4
  <2>7. PageOf(end).reused \/ seen = base
    BY <1>2, <2>1, <2>3, <2>5, <2>6 DEF PageOf
  <2>8. PageOf(end).from = seen /\ seen \in Nat
    BY <1>2 DEF PageOf, PagesTold, CursorTold, Rises
  <2>9. Reads(base, Begun(Beginning))
    <3>1. PICK o \in Nat : o = k + k
      BY <2>4
    <3>2. Beginning.offset = o /\ Beginning.index = i
      BY <2>1, <2>2, <2>5, <3>1
    <3>3. Begun(Beginning) \in Places
      BY <3>2 DEF Begun, Places
    <3>4. SubSeq(history, base + 1, s + k) = <<>> /\ base <= s + k
      BY <2>6 DEF PagesTold, Rises
    <3> QED
      BY <2>3, <2>4, <3>1, <3>2, <3>3, <3>4 DEF Reads, Begun
  <2> QED
    BY <2>7, <2>8, <2>9
<1> QED
  BY <1>1, <1>2

\* A page, and the cursor after it, say what they claim.
LEMMA ReadTells ==
    ASSUME JournalInv, PagesTold, NEW limit \in Limits, Read(limit)
    PROVE  PagesTold'
<1> DEFINE end == WalkEnd(Beginning, limit)
<1>1. /\ lock = Nothing /\ Generations # <<>>
      /\ page' = PageOf(end) /\ cursor' = CursorOf(end)
      /\ seen' = Len(history) - LinesFrom(end.index, end.offset)
      /\ UNCHANGED <<lock, current, backup, writer, records, files, history, acked>>
  BY ReadIs
<1>2. PICK base \in Nat :
        /\ Reads(base, Begun(Beginning))
        /\ PageOf(end).from \in Nat
        /\ PageOf(end).reused \/ PageOf(end).from = base
  BY <1>1, ReaderBegins
<1>3. Reads(base, end)
  BY <1>2, WalkReads
<1> HIDE DEF end
<1>4. PICK i \in 1 .. Len(Generations) : i = end.index
  BY <1>3 DEF Reads
<1>5. PICK s \in Nat : s = StartsAt(i)
  BY GenerationTold
<1>6. PICK n \in Nat : n = Lines(Generations[i].bytes)
  BY GenerationTold
<1>7. PICK k \in 0 .. n :
        end.offset = k + k /\ base <= s + k /\ end.records = SubSeq(history, base + 1, s + k)
  BY <1>3, <1>4, <1>5, <1>6 DEF Reads
<1>8. PICK H \in Nat : H = Len(history)
  BY DEF PagesTold, Rises
<1>9. LinesFrom(i, k + k) = H - (s + k) /\ s + k <= H
  BY <1>5, <1>6, <1>8, LinesFromIs
<1>10. PICK t \in Nat : t = s + k
  BY <1>6
<1>11. seen' = t /\ t \in 0 .. H /\ PageOf(end).to = t
  <2>1. H - LinesFrom(end.index, end.offset) = t
    BY <1>4, <1>7, <1>8, <1>9, <1>10
  <2> QED
    BY <1>1, <1>8, <1>9, <1>10, <2>1 DEF PageOf
<1>12. PageTold'
  <2>1. page'.rejected = 0
    BY <1>1, <1>3 DEF PageOf, Reads, Places
  <2>2. page'.from \in Nat /\ page'.to = seen'
    BY <1>1, <1>2, <1>11
  <2>3. page'.reused \/ page'.records = SubSeq(history', page'.from + 1, page'.to)
    <3>1. CASE PageOf(end).reused
      BY <1>1, <3>1
    <3>2. CASE PageOf(end).from = base
      <4>1. PageOf(end).records = SubSeq(history, base + 1, t)
        BY <1>7, <1>10 DEF PageOf
      <4> QED
        BY <1>1, <1>11, <3>2, <4>1
    <3> QED
      BY <1>2, <3>1, <3>2
  <2> QED
    BY <2>1, <2>2, <2>3 DEF PageTold
<1>13. CursorTold'
  <2>1. seen' \in 0 .. Len(history')
    BY <1>1, <1>8, <1>11
  <2> SUFFICES ASSUME cursor' # Nothing
               PROVE  CursorTold'
    BY <2>1 DEF CursorTold
  <2>2. PICK b \in Seq(Parts) : b = Generations[i].bytes
    BY GenerationTold
  <2>3. PICK o \in Nat : o = k + k
    BY <1>6
  <2>4. cursor'.offset = o /\ cursor'.file = Generations[i].file /\ cursor'.hash = SubSeq(b, 1, o)
    BY <1>1, <1>4, <1>7, <2>2, <2>3 DEF CursorOf, Prefix
  <2>5. Generations[i] \in {current, backup} /\ Generations[i] \in Generation
    BY GenerationTold
  <2>6. cursor'.file \in 0 .. files'
    <3>1. Generations[i].file \in Nat /\ Generations[i].file <= files
      <4>1. Generations[i] # Nothing
        BY <2>5, JournalAssumption DEF Generation, Parts
      <4> QED
        BY <2>5, <4>1 DEF JournalInv, FilesDiffer, Generation
    <3> QED
      BY <1>1, <2>4, <3>1 DEF JournalInv, JournalTypes
  <2>7. Paired(b, n) /\ \A j \in 1 .. n : b[j + j].record = history[s + j]
    BY <1>5, <1>6, <2>2, GenerationTold DEF Tells
  <2>8. o <= Len(b)
    BY <1>6, <2>3, <2>7 DEF Paired
  <2>9. SubSeq(b, 1, o) \in Seq(Parts) /\ Len(SubSeq(b, 1, o)) = o
    BY <2>8
  <2>10. cursor'.hash \in Seq(Parts) /\ Len(cursor'.hash) = o
    BY <2>4, <2>9
  <2>11. ASSUME o # 0
         PROVE  \E j \in 1 .. o : o = j + j /\ seen' # 0 /\ cursor'.hash[o].record = history'[seen']
    <3>1. k \in 1 .. n /\ k \in 1 .. o /\ t # 0
      BY <1>6, <1>10, <2>3, <2>11
    <3>2. o \in 1 .. o /\ SubSeq(b, 1, o)[o] = b[o]
      BY <2>8, <2>11
    <3>3. b[k + k].record = history[s + k]
      BY <2>7, <3>1
    <3>4. cursor'.hash[o].record = history[t]
      BY <1>10, <2>3, <2>4, <3>2, <3>3
    <3> QED
      BY <1>1, <1>11, <2>3, <3>1, <3>4
  <2>12. ASSUME o = 0
         PROVE  /\ (current # Nothing /\ current.file = cursor'.file) =>
                        t = H - LinesOf(current)
                /\ (backup # Nothing /\ backup.file = cursor'.file) =>
                        t = H - LinesOf(current) - LinesOf(backup)
    <3>1. t = s
      BY <1>6, <1>10, <2>3, <2>12
    <3>2. ASSUME current # Nothing, current.file = cursor'.file PROVE t = H - LinesOf(current)
      <4>1. Generations[i] # Nothing
        BY <2>5, JournalAssumption DEF Generation, Parts
      <4>2. Generations[i] = current
        BY <2>4, <2>5, <3>2, <4>1 DEF JournalInv, FilesDiffer
      <4> QED
        BY <1>5, <1>8, <3>1, <4>2 DEF StartsAt
    <3>3. ASSUME backup # Nothing, backup.file = cursor'.file
          PROVE  t = H - LinesOf(current) - LinesOf(backup)
      <4>1. Generations[i] # Nothing
        BY <2>5, JournalAssumption DEF Generation, Parts
      <4>2. Generations[i] # current
        BY <2>4, <3>3, <4>1 DEF JournalInv, FilesDiffer
      <4> QED
        BY <1>5, <1>8, <3>1, <4>2 DEF StartsAt
    <3> QED
      BY <3>2, <3>3
  <2>13. /\ (cursor.offset # 0 => \E j \in 1 .. cursor.offset :
                /\ cursor.offset = j + j
                /\ seen # 0 /\ cursor.hash[cursor.offset].record = history[seen])'
         /\ (cursor.offset = 0 =>
                /\ (current # Nothing /\ current.file = cursor.file) =>
                        seen = Len(history) - LinesOf(current)
                /\ (backup # Nothing /\ backup.file = cursor.file) =>
                        seen = Len(history) - LinesOf(current) - LinesOf(backup))'
    BY <1>1, <1>8, <1>11, <2>4, <2>11, <2>12 DEF LinesOf
  <2>14. cursor'.offset \in Nat /\ Len(cursor'.hash) = cursor'.offset /\ cursor'.hash \in Seq(Parts)
    BY <2>4, <2>10
  <2> QED
    BY <2>1, <2>6, <2>13, <2>14 DEF CursorTold
<1>14. \A w \in Writers : HistoryGoesOn(w)'
  <2>1. ASSUME NEW w \in Writers PROVE writer'[w].step \in {"absent", "idle"}
    BY <1>1, JournalAssumption DEF JournalInv, WritesAlone
  <2> QED
    BY <2>1 DEF HistoryGoesOn
<1>15. Rises(history', records') /\ GenerationsTold'
  BY <1>1 DEF PagesTold, GenerationsTold, LinesOf
<1> QED
  BY <1>12, <1>13, <1>14, <1>15 DEF PagesTold

-----------------------------------------------------------------------------
\* In the beginning nothing is told.
LEMMA PagesToldInit ==
    ASSUME JournalInit
    PROVE  PagesTold
<1>1. history = <<>> /\ Len(history) = 0 /\ LinesOf(current) = 0 /\ LinesOf(backup) = 0
  BY DEF JournalInit, LinesOf
<1>2. Rises(history, records)
  BY <1>1 DEF Rises, JournalInit
<1>3. GenerationsTold
  BY <1>1 DEF GenerationsTold, JournalInit
<1>4. \A w \in Writers : HistoryGoesOn(w)
  BY DEF HistoryGoesOn, JournalInit, Absent
<1>5. CursorTold /\ PageTold
  BY <1>1 DEF CursorTold, PageTold, JournalInit
<1> QED
  BY <1>2, <1>3, <1>4, <1>5 DEF PagesTold

\* Every step keeps what pages say.
LEMMA PagesToldStep ==
    ASSUME JournalInv, PagesTold, [JournalNext]_journalVars
    PROVE  PagesTold'
<1>1. JournalInv'
  BY JournalInvStep
<1>2. CASE UNCHANGED journalVars
  BY <1>2 DEF journalVars, journalGhosts, PagesTold, Rises, GenerationsTold, HistoryGoesOn,
     CursorTold, PageTold, LinesOf
<1>3. ASSUME NEW w \in Writers, Write(w) \/ GiveUp(w) \/ RollBack(w) \/ Exit(w)
      PROVE  PagesTold'
  <2>1. CASE Write(w)
    BY <1>1, <2>1, LockTells, OpenTells, RepairTells, RotateTells, RenewTells,
       WriteFirstTells, WriteRestTells, EndTells DEF Write
  <2> QED
    BY <1>1, <1>3, <2>1, RollBackTells, EndTells
<1>4. ASSUME NEW limit \in Limits, Read(limit)
      PROVE  PagesTold'
  BY <1>4, ReadTells
<1> QED
  BY <1>2, <1>3, <1>4 DEF JournalNext

\* Pages continue one another. In every state of the journal the page reader.rs answered
\* last holds exactly the records of the history between where it began, which is where the
\* page before ended or, after a gap, the oldest record there is, and where the cursor it
\* returned stands: for any processes, sizes of files and of pages, rotations, roll backs
\* and deaths between them.
THEOREM PagesAlwaysContinue == JournalSpec => []PagesAreContinuous
<1>1. JournalInit => JournalInv /\ PagesTold
  BY JournalInvInit, PagesToldInit
<1>2. JournalInv /\ PagesTold /\ [JournalNext]_journalVars => JournalInv' /\ PagesTold'
  BY JournalInvStep, PagesToldStep
<1>3. PagesTold => PagesAreContinuous
  BY DEF PagesTold, PageTold, PagesAreContinuous
<1> QED
  BY <1>1, <1>2, <1>3, PTL DEF JournalSpec

-----------------------------------------------------------------------------
(***************************************************************************)
(* The catalog of servers, for any providers and what they send, any       *)
(* drafts and handles, and any number of edits and updates.                *)
(***************************************************************************)

-----------------------------------------------------------------------------
\* Servers and subscriptions as they can be

Aliases == Handles \cup (Names \X Nat) \cup {Unset}
Server ==
    {s \in [id : Entries, name : Names, host : Hosts, field : Fields, alias : Aliases,
            pin : BOOLEAN, override : Fields \cup {Unset}, base : Fields \cup {Unset}] :
        s.override = Unset <=> s.base = Unset}
Subscription == [id : Ids, hwid : BOOLEAN, agent : {Unset, "own"}, servers : Seq(Server)]
Cats == Seq(Subscription)

\* What a parser makes of an entry.
LEMMA ParsedIs ==
    ASSUME NEW entry \in Entries
    PROVE  /\ entry.name \in Names /\ entry.host \in Hosts /\ entry.field \in Fields
           /\ Parsed(entry) \in Server
<1>1. entry.name \in Names /\ entry.host \in Hosts /\ entry.field \in Fields
  BY DEF Names, Hosts, Fields
<1>2. Unset \in Aliases
  BY DEF Aliases
<1> QED
  BY <1>1, <1>2 DEF Parsed, Server

\* The rows of a catalog.
LEMMA RowsAre ==
    ASSUME NEW cat \in Cats
    PROVE  /\ Len(cat) \in Nat
           /\ \A i \in 1 .. Len(cat) :
                /\ cat[i] \in Subscription
                /\ cat[i].servers \in Seq(Server) /\ Len(cat[i].servers) \in Nat
<1>1. Len(cat) \in Nat /\ \A i \in 1 .. Len(cat) : cat[i] \in Subscription
  BY DEF Cats
<1>2. ASSUME NEW row \in Subscription PROVE row.servers \in Seq(Server) /\ Len(row.servers) \in Nat
  BY <1>2 DEF Subscription
<1> QED
  BY <1>1, <1>2

\* A row with other servers, with another consent, with another User-Agent.
LEMMA RowWith ==
    ASSUME NEW row \in Subscription
    PROVE  /\ \A servers \in Seq(Server) :
                /\ [row EXCEPT !.servers = servers] \in Subscription
                /\ [row EXCEPT !.servers = servers].servers = servers
                /\ [row EXCEPT !.servers = servers].id = row.id
           /\ \A hwid \in BOOLEAN :
                /\ [row EXCEPT !.hwid = hwid] \in Subscription
                /\ [row EXCEPT !.hwid = hwid].servers = row.servers
                /\ [row EXCEPT !.hwid = hwid].id = row.id
           /\ \A own \in {Unset, "own"} :
                /\ [row EXCEPT !.agent = own] \in Subscription
                /\ [row EXCEPT !.agent = own].servers = row.servers
                /\ [row EXCEPT !.agent = own].id = row.id
BY DEF Subscription

\* A server with another handle.
LEMMA ServerWith ==
    ASSUME NEW server \in Server, NEW handle \in Aliases
    PROVE  /\ [server EXCEPT !.alias = handle] \in Server
           /\ [server EXCEPT !.alias = handle].alias = handle
           /\ [server EXCEPT !.alias = handle].id = server.id
BY DEF Server

\* A sequence in which one place holds something else.
LEMMA SeqWith ==
    ASSUME NEW S, NEW s \in Seq(S), NEW i \in 1 .. Len(s), NEW x \in S
    PROVE  /\ [s EXCEPT ![i] = x] \in Seq(S)
           /\ Len([s EXCEPT ![i] = x]) = Len(s)
           /\ [s EXCEPT ![i] = x][i] = x
           /\ \A k \in 1 .. Len(s) : k # i => [s EXCEPT ![i] = x][k] = s[k]
OBVIOUS

\* A function on an interval is a sequence.
LEMMA SeqOf ==
    ASSUME NEW S, NEW n \in Nat, NEW f \in [1 .. n -> S]
    PROVE  f \in Seq(S) /\ Len(f) = n
OBVIOUS

\* An interval is finite.
LEMMA IntervalIsFinite ==
    ASSUME NEW n \in Nat
    PROVE  IsFiniteSet(1 .. n) /\ Cardinality(1 .. n) = n
<1>1. 1 \in Int /\ n \in Int
  OBVIOUS
<1>2. n < 1 => n = 0
  OBVIOUS
<1> QED
  BY <1>1, <1>2, FS_Interval

\* A position is a subscription and a server of it.
LEMMA PositionIs ==
    ASSUME NEW cat \in Cats
    PROVE  /\ \A p \in Positions(cat) :
                /\ p[1] \in 1 .. Len(cat) /\ p[2] \in 1 .. Len(cat[p[1]].servers)
                /\ p = <<p[1], p[2]>> /\ p \in Nat \X Nat
                /\ ServerAt(cat, p) = cat[p[1]].servers[p[2]]
                /\ ServerAt(cat, p) \in Server
           /\ \A i \in 1 .. Len(cat) : \A j \in 1 .. Len(cat[i].servers) : <<i, j>> \in Positions(cat)
<1>1. \A i \in 1 .. Len(cat) : cat[i] \in Subscription
  BY DEF Cats
<1>2. ASSUME NEW p \in Positions(cat)
      PROVE  /\ p[1] \in 1 .. Len(cat) /\ p[2] \in 1 .. Len(cat[p[1]].servers)
             /\ p = <<p[1], p[2]>> /\ p \in Nat \X Nat
             /\ ServerAt(cat, p) = cat[p[1]].servers[p[2]]
             /\ ServerAt(cat, p) \in Server
  <2>1. PICK i \in 1 .. Len(cat) : p \in {i} \X (1 .. Len(cat[i].servers))
    BY DEF Positions
  <2>2. PICK j \in 1 .. Len(cat[i].servers) : p = <<i, j>>
    BY <2>1
  <2>3. cat[i].servers \in Seq(Server)
    BY <1>1 DEF Subscription
  <2>4. cat[i].servers[j] \in Server
    BY <2>3
  <2>5. p[1] = i /\ p[2] = j /\ i \in Nat /\ j \in Nat
    BY <2>2
  <2> QED
    BY <2>2, <2>4, <2>5 DEF ServerAt
<1>3. ASSUME NEW i \in 1 .. Len(cat), NEW j \in 1 .. Len(cat[i].servers)
      PROVE  <<i, j>> \in Positions(cat)
  <2>1. <<i, j>> \in {i} \X (1 .. Len(cat[i].servers))
    OBVIOUS
  <2> QED
    BY <2>1 DEF Positions
<1> QED
  BY <1>2, <1>3

\* Catalogs whose subscriptions have as many servers have the same positions.
LEMMA SamePositions ==
    ASSUME NEW cat \in Cats, NEW new \in Cats, Len(new) = Len(cat),
           \A k \in 1 .. Len(cat) : Len(new[k].servers) = Len(cat[k].servers)
    PROVE  Positions(new) = Positions(cat)
<1>1. ASSUME NEW p \in Positions(new) PROVE p \in Positions(cat)
  <2>1. PICK i \in 1 .. Len(cat) : \E j \in 1 .. Len(new[i].servers) : p = <<i, j>>
    BY PositionIs
  <2>2. PICK j \in 1 .. Len(new[i].servers) : p = <<i, j>>
    BY <2>1
  <2>3. j \in 1 .. Len(cat[i].servers)
    OBVIOUS
  <2> QED
    BY <2>2, <2>3, PositionIs
<1>2. ASSUME NEW p \in Positions(cat) PROVE p \in Positions(new)
  <2>1. PICK i \in 1 .. Len(cat) : \E j \in 1 .. Len(cat[i].servers) : p = <<i, j>>
    BY PositionIs
  <2>2. PICK j \in 1 .. Len(cat[i].servers) : p = <<i, j>>
    BY <2>1
  <2>3. j \in 1 .. Len(new[i].servers) /\ i \in 1 .. Len(new)
    OBVIOUS
  <2> QED
    BY <2>2, <2>3, PositionIs
<1> QED
  BY <1>1, <1>2

\* A set of numbers that is not empty has a least.
LEMMA LeastIs ==
    ASSUME NEW S \in SUBSET Nat, S # {}
    PROVE  /\ \E x \in S : \A y \in S : x <= y
           /\ Min(S) \in S /\ \A y \in S : Min(S) <= y
<1>1. PICK x \in S : \A y \in S : ~(<<y, x>> \in OpToRel(<, Nat))
  BY NatLessThanWellFounded, WFMin
<1>2. \A y \in S : x <= y
  <2> SUFFICES ASSUME NEW y \in S, ~(x <= y) PROVE FALSE
    OBVIOUS
  <2>1. y < x /\ y \in Nat /\ x \in Nat
    OBVIOUS
  <2>2. <<y, x>> \in OpToRel(<, Nat)
    BY <2>1 DEF OpToRel
  <2> QED
    BY <1>1, <2>2
<1> QED
  BY <1>2 DEF Min

\* Of positions there is a first, and only one is not before and not after another.
LEMMA FirstIs ==
    ASSUME NEW P \in SUBSET (Nat \X Nat), P # {}
    PROVE  First(P) \in P
<1> DEFINE A == {p[1] : p \in P}
<1>1. A \in SUBSET Nat /\ A # {}
  OBVIOUS
<1>2. PICK a \in A : \A b \in A : a <= b
  BY <1>1, LeastIs
<1> DEFINE B == {p[2] : p \in {q \in P : q[1] = a}}
<1>3. B \in SUBSET Nat /\ B # {}
  OBVIOUS
<1>4. PICK c \in B : \A d \in B : c <= d
  BY <1>3, LeastIs
<1>5. PICK p \in P : p[1] = a /\ p[2] = c
  OBVIOUS
<1>6. ASSUME NEW q \in P PROVE ~Before(q, p)
  <2>1. q[1] \in Nat /\ q[2] \in Nat /\ q[1] \in A /\ a \in Nat /\ c \in Nat
    BY <1>1, <1>3
  <2>2. q[1] = a => q[2] \in B
    OBVIOUS
  <2> HIDE DEF A, B
  <2> QED
    BY <1>2, <1>4, <1>5, <2>1, <2>2 DEF Before
<1> QED
  BY <1>6 DEF First

\* Of two places one comes before the other.
LEMMA BeforeIsTotal ==
    ASSUME NEW p \in Nat \X Nat, NEW q \in Nat \X Nat
    PROVE  Before(p, q) \/ Before(q, p) \/ p = q
<1>1. PICK a \in Nat, b \in Nat : p = <<a, b>>
  OBVIOUS
<1>2. PICK c \in Nat, d \in Nat : q = <<c, d>>
  OBVIOUS
<1> QED
  BY <1>1, <1>2 DEF Before

\* A catalog in which one server is another.
LEMMA WithServerIs ==
    ASSUME NEW cat \in Cats, NEW p \in Positions(cat), NEW server \in Server
    PROVE  /\ WithServer(cat, p, server) \in Cats
           /\ Len(WithServer(cat, p, server)) = Len(cat)
           /\ \A i \in 1 .. Len(cat) :
                /\ WithServer(cat, p, server)[i].id = cat[i].id
                /\ Len(WithServer(cat, p, server)[i].servers) = Len(cat[i].servers)
           /\ Positions(WithServer(cat, p, server)) = Positions(cat)
           /\ \A q \in Positions(cat) :
                ServerAt(WithServer(cat, p, server), q) = IF q = p THEN server ELSE ServerAt(cat, q)
<1> DEFINE i == p[1]
           j == p[2]
<1>1. i \in 1 .. Len(cat) /\ j \in 1 .. Len(cat[i].servers) /\ p = <<i, j>>
  BY PositionIs
<1> HIDE DEF i, j
<1>2. cat[i] \in Subscription /\ cat[i].servers \in Seq(Server)
  BY <1>1, RowsAre
<1>3. PICK servers \in Seq(Server) :
        /\ servers = [cat[i].servers EXCEPT ![j] = server]
        /\ Len(servers) = Len(cat[i].servers)
        /\ servers[j] = server
        /\ \A k \in 1 .. Len(servers) : k # j => servers[k] = cat[i].servers[k]
  <2> DEFINE with == [cat[i].servers EXCEPT ![j] = server]
  <2>1. /\ with \in Seq(Server) /\ Len(with) = Len(cat[i].servers) /\ with[j] = server
        /\ \A k \in 1 .. Len(cat[i].servers) : k # j => with[k] = cat[i].servers[k]
    BY <1>1, <1>2, SeqWith
  <2>2. with = [cat[i].servers EXCEPT ![j] = server]
    OBVIOUS
  <2> HIDE DEF with
  <2> QED
    BY <2>1, <2>2
<1>4. PICK sub \in Subscription :
        /\ sub = [cat[i] EXCEPT !.servers = servers]
        /\ sub.servers = servers /\ sub.id = cat[i].id
  <2> DEFINE row == [cat[i] EXCEPT !.servers = servers]
  <2>1. row \in Subscription /\ row.servers = servers /\ row.id = cat[i].id
    BY <1>2, RowWith
  <2>2. row = [cat[i] EXCEPT !.servers = servers]
    OBVIOUS
  <2> HIDE DEF row
  <2> QED
    BY <2>1, <2>2
<1>5. WithServer(cat, p, server) = [cat EXCEPT ![i] = sub]
  <2>1. p[1] = i /\ p[2] = j
    BY <1>1
  <2> QED
    BY <1>3, <1>4, <2>1 DEF WithServer
<1>6. PICK new \in Cats :
        /\ new = WithServer(cat, p, server)
        /\ Len(new) = Len(cat)
        /\ new[i] = sub
        /\ \A k \in 1 .. Len(cat) : k # i => new[k] = cat[k]
  <2> DEFINE with == [cat EXCEPT ![i] = sub]
  <2>1. /\ with \in Cats /\ Len(with) = Len(cat) /\ with[i] = sub
        /\ \A k \in 1 .. Len(cat) : k # i => with[k] = cat[k]
    BY <1>1, SeqWith DEF Cats
  <2>2. with = WithServer(cat, p, server)
    BY <1>5
  <2> HIDE DEF with
  <2> QED
    BY <2>1, <2>2
<1>7. \A k \in 1 .. Len(cat) : new[k].id = cat[k].id /\ Len(new[k].servers) = Len(cat[k].servers)
  BY <1>3, <1>4, <1>6
<1>8. Positions(new) = Positions(cat)
  BY <1>6, <1>7, SamePositions
<1>9. ASSUME NEW q \in Positions(cat)
      PROVE  ServerAt(new, q) = IF q = p THEN server ELSE ServerAt(cat, q)
  <2> DEFINE k == q[1]
             l == q[2]
  <2>1. k \in 1 .. Len(cat) /\ l \in 1 .. Len(cat[k].servers) /\ q = <<k, l>>
    BY PositionIs
  <2> HIDE DEF k, l
  <2>2. ServerAt(new, q) = new[k].servers[l] /\ ServerAt(cat, q) = cat[k].servers[l]
    BY <2>1 DEF ServerAt
  <2>3. CASE k = i
    <3>1. new[k].servers = servers /\ l \in 1 .. Len(servers)
      BY <1>3, <1>4, <1>6, <2>1, <2>3
    <3>2. q = p <=> l = j
      BY <1>1, <2>1, <2>3
    <3>3. servers[l] = IF l = j THEN server ELSE cat[k].servers[l]
      BY <1>3, <2>3, <3>1
    <3> QED
      BY <2>2, <3>1, <3>2, <3>3
  <2>4. CASE k # i
    <3>1. new[k] = cat[k] /\ q # p
      BY <1>1, <1>6, <2>1, <2>4
    <3> QED
      BY <2>2, <3>1
  <2> QED
    BY <2>3, <2>4
<1> QED
  BY <1>6, <1>7, <1>8, <1>9

\* There are finitely many positions.
LEMMA PositionsAreFinite ==
    ASSUME NEW cat \in Cats
    PROVE  IsFiniteSet(Positions(cat))
<1> DEFINE Row(i) == {i} \X (1 .. Len(cat[i].servers))
           Rows == {Row(i) : i \in 1 .. Len(cat)}
           row == [i \in 1 .. Len(cat) |-> Row(i)]
<1>1. row \in Surjection(1 .. Len(cat), Rows)
  BY DEF Surjection
<1>2. Len(cat) \in Nat /\ IsFiniteSet(1 .. Len(cat))
  BY FS_Interval DEF Cats
<1>3. IsFiniteSet(Rows)
  BY <1>1, <1>2, FS_Surjection
<1>4. ASSUME NEW i \in 1 .. Len(cat) PROVE IsFiniteSet(Row(i))
  <2>1. Len(cat[i].servers) \in Nat
    BY RowsAre
  <2>2. IsFiniteSet(1 .. Len(cat[i].servers)) /\ IsFiniteSet({i})
    BY <2>1, IntervalIsFinite, FS_Singleton
  <2> QED
    BY <2>2, FS_Product
<1>5. IsFiniteSet(UNION Rows)
  <2>1. \A T \in Rows : IsFiniteSet(T)
    BY <1>4
  <2> HIDE DEF Rows
  <2> QED
    BY <1>3, <2>1, FS_UNION
<1> QED
  BY <1>5 DEF Positions

\* The handles in use are finitely many, and are no absence of one.
LEMMA UsedIsFinite ==
    ASSUME NEW cat \in Cats
    PROVE  IsFiniteSet(Used(cat)) /\ Unset \notin Used(cat)
<1> DEFINE A == {ServerAt(cat, p).alias : p \in Positions(cat)}
           alias == [p \in Positions(cat) |-> ServerAt(cat, p).alias]
<1>1. alias \in Surjection(Positions(cat), A)
  BY DEF Surjection
<1>2. IsFiniteSet(A)
  BY <1>1, PositionsAreFinite, FS_Surjection
<1>3. Used(cat) \in SUBSET A /\ Unset \notin Used(cat)
  BY DEF Used
<1> QED
  BY <1>2, <1>3, FS_Subset

\* A suggested handle is one that nobody has: of more numbers than there are handles one
\* is free.
LEMMA SuggestedIs ==
    ASSUME NEW name \in Names, NEW used, IsFiniteSet(used)
    PROVE  Suggested(name, used) \in Names \X Nat /\ Suggested(name, used) \notin used
<1> DEFINE N == Cardinality(used) + 1
           free == {n \in 1 .. N : <<name, n>> \notin used}
           f == [n \in 1 .. N |-> <<name, n>>]
<1>1. Cardinality(used) \in Nat /\ N \in Nat
  BY FS_CardinalityType
<1>2. free # {}
  <2> SUFFICES ASSUME free = {} PROVE FALSE
    OBVIOUS
  <2>1. f \in [1 .. N -> used]
    OBVIOUS
  <2>2. IsFiniteSet(1 .. N) /\ Cardinality(1 .. N) = N
    BY <1>1, IntervalIsFinite
  <2>3. Cardinality(used) < Cardinality(1 .. N)
    BY <1>1, <2>2
  <2> DEFINE S == 1 .. N
  <2>4. f \in [S -> used] /\ IsFiniteSet(S) /\ Cardinality(used) < Cardinality(S)
    BY <2>1, <2>2, <2>3
  <2>5. \A n \in S : f[n] = <<name, n>>
    OBVIOUS
  <2> HIDE DEF f, S, free, N
  <2>6. \E x, y \in S : x # y /\ f[x] = f[y]
    BY ONLY IsFiniteSet(used), <2>4, FS_PigeonHole
  <2> QED
    BY <2>5, <2>6
<1>3. free \in SUBSET Nat
  BY <1>1
<1>4. Min(free) \in free
  BY <1>2, <1>3, LeastIs
<1>5. Suggested(name, used) = <<name, Min(free)>>
  BY DEF Suggested
<1> HIDE DEF free
<1>6. Min(free) \in Nat /\ <<name, Min(free)>> \notin used
  BY <1>3, <1>4 DEF free
<1> QED
  BY <1>5, <1>6

-----------------------------------------------------------------------------
\* Handles

\* Two catalogs with the same subscriptions, as many servers in each, of the same ids.
Alike(cat, other) ==
    /\ cat \in Cats /\ other \in Cats
    /\ Len(cat) = Len(other)
    /\ \A i \in 1 .. Len(cat) : cat[i].id = other[i].id
    /\ Positions(cat) = Positions(other)
    /\ \A p \in Positions(cat) : ServerAt(cat, p).id = ServerAt(other, p).id

\* Nobody has the handle of another.
Apart(cat) ==
    \A p, q \in Positions(cat) :
        ServerAt(cat, p).alias # Unset /\ ServerAt(cat, p).alias = ServerAt(cat, q).alias => p = q

\* Who keeps its handle is the only one that does.
LEMMA ClearedIs ==
    ASSUME NEW cat \in Cats
    PROVE  Alike(Cleared(cat), cat) /\ Apart(Cleared(cat))
<1> DEFINE new == Cleared(cat)
           Left(i, j) == IF Keeps(cat, <<i, j>>) THEN cat[i].servers[j]
                         ELSE [cat[i].servers[j] EXCEPT !.alias = Unset]
<1>1. \A i \in 1 .. Len(cat) : cat[i] \in Subscription /\ cat[i].servers \in Seq(Server)
  BY RowsAre
<1>2. ASSUME NEW i \in 1 .. Len(cat), NEW j \in 1 .. Len(cat[i].servers)
      PROVE  /\ Left(i, j) \in Server /\ Left(i, j).id = cat[i].servers[j].id
             /\ Left(i, j).alias = IF Keeps(cat, <<i, j>>) THEN cat[i].servers[j].alias ELSE Unset
  <2>1. cat[i].servers[j] \in Server
    BY <1>1
  <2>2. Unset \in Aliases
    BY DEF Aliases
  <2> QED
    BY <2>1, <2>2 DEF Server
<1> DEFINE Servers(i) == [j \in 1 .. Len(cat[i].servers) |-> Left(i, j)]
           Row(i) == [cat[i] EXCEPT !.servers = Servers(i)]
<1>3. new = [i \in 1 .. Len(cat) |-> Row(i)]
  BY DEF Cleared
<1> HIDE DEF Left
<1>4. ASSUME NEW i \in 1 .. Len(cat)
      PROVE  /\ Row(i) \in Subscription /\ Row(i).id = cat[i].id
             /\ Row(i).servers = Servers(i)
             /\ Len(Servers(i)) = Len(cat[i].servers)
  <2>1. Len(cat[i].servers) \in Nat
    BY <1>1
  <2>2. Servers(i) \in [1 .. Len(cat[i].servers) -> Server]
    BY <1>2, <2>1
  <2> HIDE DEF Servers
  <2>3. Servers(i) \in Seq(Server) /\ Len(Servers(i)) = Len(cat[i].servers)
    BY <2>1, <2>2, SeqOf
  <2> QED
    BY <1>1, <2>3, RowWith
<1> HIDE DEF Row
<1>5. /\ new \in Cats /\ Len(new) = Len(cat)
      /\ \A i \in 1 .. Len(cat) : new[i] = Row(i)
  <2>1. Len(cat) \in Nat
    BY RowsAre
  <2> HIDE DEF new
  <2>2. new \in [1 .. Len(cat) -> Subscription] /\ \A i \in 1 .. Len(cat) : new[i] = Row(i)
    BY <1>3, <1>4
  <2> QED
    BY <2>1, <2>2, SeqOf DEF Cats
<1> HIDE DEF new
<1>6. Positions(new) = Positions(cat)
  <2>1. \A i \in 1 .. Len(cat) : Len(new[i].servers) = Len(cat[i].servers)
    BY <1>4, <1>5
  <2> QED
    BY <1>5, <2>1, SamePositions
<1>7. ASSUME NEW p \in Positions(cat)
      PROVE  /\ ServerAt(new, p).id = ServerAt(cat, p).id
             /\ ServerAt(new, p).alias =
                    IF Keeps(cat, p) THEN ServerAt(cat, p).alias ELSE Unset
  <2> DEFINE i == p[1]
             j == p[2]
  <2>1. i \in 1 .. Len(cat) /\ j \in 1 .. Len(cat[i].servers) /\ p = <<i, j>>
    BY PositionIs
  <2> HIDE DEF i, j
  <2>2. ServerAt(new, p) = new[i].servers[j] /\ ServerAt(cat, p) = cat[i].servers[j]
    BY <2>1 DEF ServerAt
  <2>3. new[i].servers[j] = Left(i, j)
    <3>1. new[i].servers = Servers(i)
      BY <1>4, <1>5, <2>1
    <3>2. Servers(i)[j] = Left(i, j)
      BY <2>1
    <3> QED
      BY <3>1, <3>2
  <2> QED
    BY <1>2, <2>1, <2>2, <2>3
<1>8. Alike(new, cat)
  BY <1>4, <1>5, <1>6, <1>7 DEF Alike
<1>9. ASSUME NEW p \in Positions(cat), NEW q \in Positions(cat),
             ServerAt(new, p).alias # Unset, ServerAt(new, p).alias = ServerAt(new, q).alias
      PROVE  p = q
  <2>1. Keeps(cat, p) /\ Keeps(cat, q) /\ ServerAt(cat, p).alias = ServerAt(cat, q).alias
    BY <1>7, <1>9
  <2>2. ~Before(p, q) /\ ~Before(q, p)
    BY <2>1 DEF Keeps
  <2>3. p \in Nat \X Nat /\ q \in Nat \X Nat
    BY PositionIs
  <2> QED
    BY <2>2, <2>3, BeforeIsTotal
<1>10. Apart(new)
  BY <1>6, <1>9 DEF Apart
<1> QED
  BY <1>8, <1>10 DEF new

\* Being alike is transitive.
LEMMA AlikeFollows ==
    ASSUME NEW a, NEW b, NEW c, Alike(a, b), Alike(b, c)
    PROVE  Alike(a, c)
<1>1. /\ a \in Cats /\ c \in Cats /\ Len(a) = Len(c) /\ Positions(a) = Positions(c)
      /\ \A i \in 1 .. Len(a) : a[i].id = c[i].id
  BY DEF Alike
<1>2. \A p \in Positions(a) : ServerAt(a, p).id = ServerAt(c, p).id
  BY DEF Alike
<1> QED
  BY <1>1, <1>2 DEF Alike

\* The first server without a handle gets one that nobody has.
LEMMA NamedIs ==
    ASSUME NEW cat \in Cats, Apart(cat), Nameless(cat) # {}
    PROVE  /\ Alike(Named(cat), cat) /\ Apart(Named(cat))
           /\ \E p \in Nameless(cat) : Nameless(Named(cat)) = Nameless(cat) \ {p}
<1> DEFINE p == First(Nameless(cat))
           server == ServerAt(cat, p)
           handle == Suggested(server.name, Used(cat))
           new == Named(cat)
<1>1. Nameless(cat) \subseteq Positions(cat)
  BY DEF Nameless
<1>2. Nameless(cat) \in SUBSET (Nat \X Nat)
  BY <1>1, PositionIs
<1>3. p \in Nameless(cat)
  BY <1>2, FirstIs
<1> HIDE DEF p
<1>4. p \in Positions(cat) /\ server \in Server
  BY <1>1, <1>3, PositionIs
<1>5. server.name \in Names
  BY <1>4 DEF Server
<1>6. handle \in Names \X Nat /\ handle \notin Used(cat)
  BY <1>5, UsedIsFinite, SuggestedIs
<1>7. handle # Unset /\ handle \in Aliases
  BY <1>6, CatalogAssumption DEF Aliases
<1>8. new = WithServer(cat, p, [server EXCEPT !.alias = handle])
  BY DEF Named, p
<1> HIDE DEF handle
<1> HIDE DEF new, server
<1>9. PICK named \in Server :
        /\ named = [server EXCEPT !.alias = handle]
        /\ named.alias = handle /\ named.id = server.id
  BY <1>4, <1>7, ServerWith
<1>10. /\ new \in Cats /\ Len(new) = Len(cat)
       /\ \A i \in 1 .. Len(cat) : new[i].id = cat[i].id
       /\ Positions(new) = Positions(cat)
       /\ \A q \in Positions(cat) : ServerAt(new, q) = IF q = p THEN named ELSE ServerAt(cat, q)
  <2>1. new = WithServer(cat, p, named)
    BY <1>8, <1>9
  <2> QED
    BY <1>4, <2>1, WithServerIs
<1>11. Alike(new, cat)
  BY <1>4, <1>9, <1>10 DEF Alike, server
<1>12. \A q \in Positions(cat) : ServerAt(cat, q).alias # handle
  BY <1>6, <1>7 DEF Used
<1>13. Apart(new)
  <2> SUFFICES ASSUME NEW q \in Positions(cat), NEW r \in Positions(cat),
                      ServerAt(new, q).alias # Unset,
                      ServerAt(new, q).alias = ServerAt(new, r).alias
               PROVE  q = r
    BY <1>10 DEF Apart
  <2>1. CASE q # p /\ r # p
    BY <1>10, <2>1 DEF Apart
  <2>2. CASE q = p \/ r = p
    BY <1>9, <1>10, <1>12, <2>2
  <2> QED
    BY <2>1, <2>2
<1>14. Nameless(new) = Nameless(cat) \ {p}
  <2>1. ASSUME NEW q \in Positions(cat)
        PROVE  ServerAt(new, q).alias = Unset <=> q # p /\ ServerAt(cat, q).alias = Unset
    BY <1>7, <1>9, <1>10
  <2> QED
    BY <1>10, <2>1 DEF Nameless
<1> QED
  BY <1>3, <1>11, <1>13, <1>14 DEF new

\* How the assignment goes on: as long as somebody has no handle, one more gets one.
Assigning(f, cat, n) ==
    /\ f[0] = Cleared(cat)
    /\ \A i \in 1 .. n : Nameless(f[i - 1]) # {} => f[i] = Named(f[i - 1])

\* With each step one server less has no handle, and nobody gets the handle of another.
LEMMA AssigningIs ==
    ASSUME NEW cat \in Cats, NEW f, NEW n \in Nat, n = Cardinality(Nameless(Cleared(cat))),
           Assigning(f, cat, n)
    PROVE  \A i \in 0 .. n :
                /\ Alike(f[i], cat) /\ Apart(f[i])
                /\ IsFiniteSet(Nameless(f[i])) /\ Cardinality(Nameless(f[i])) = n - i
<1> DEFINE Good(i) == /\ Alike(f[i], cat) /\ Apart(f[i])
                      /\ IsFiniteSet(Nameless(f[i])) /\ Cardinality(Nameless(f[i])) = n - i
           S == {i \in Nat : i <= n => Good(i)}
<1>1. 0 \in S
  <2>1. f[0] = Cleared(cat) /\ Alike(f[0], cat) /\ Apart(f[0])
    BY ClearedIs DEF Assigning
  <2>2. Positions(f[0]) = Positions(cat)
    BY <2>1 DEF Alike
  <2>3. Nameless(f[0]) \in SUBSET Positions(cat)
    BY <2>2 DEF Nameless
  <2>4. IsFiniteSet(Nameless(f[0]))
    BY <2>3, PositionsAreFinite, FS_Subset
  <2> QED
    BY <2>1, <2>4
<1>2. ASSUME NEW i \in Nat, i \in S PROVE i + 1 \in S
  <2> SUFFICES ASSUME i + 1 <= n PROVE Good(i + 1)
    OBVIOUS
  <2>1. Good(i)
    BY <1>2
  <2>2. f[i] \in Cats /\ Nameless(f[i]) # {}
    <3>1. f[i] \in Cats
      BY <2>1 DEF Alike
    <3>2. Cardinality(Nameless(f[i])) = n - i /\ n - i # 0
      BY <2>1
    <3>3. Nameless(f[i]) # {}
      BY <3>2, FS_EmptySet
    <3> QED
      BY <3>1, <3>3
  <2>3. f[i + 1] = Named(f[i])
    <3>1. i + 1 \in 1 .. n /\ i + 1 - 1 = i
      OBVIOUS
    <3> QED
      BY <2>2, <3>1 DEF Assigning
  <2>4. /\ Alike(f[i + 1], f[i]) /\ Apart(f[i + 1])
        /\ \E p \in Nameless(f[i]) : Nameless(f[i + 1]) = Nameless(f[i]) \ {p}
    BY <2>1, <2>2, <2>3, NamedIs
  <2>5. Alike(f[i + 1], cat)
    BY <2>1, <2>4, AlikeFollows
  <2>6. PICK p \in Nameless(f[i]) : Nameless(f[i + 1]) = Nameless(f[i]) \ {p}
    BY <2>4
  <2>7. /\ IsFiniteSet(Nameless(f[i + 1]))
        /\ Cardinality(Nameless(f[i + 1])) = Cardinality(Nameless(f[i])) - 1
    BY <2>1, <2>6, FS_RemoveElement
  <2>8. Cardinality(Nameless(f[i + 1])) = n - (i + 1)
    BY <2>1, <2>7
  <2> QED
    BY <2>4, <2>5, <2>7, <2>8
<1> HIDE DEF S
<1>3. \A i \in Nat : i \in S
  BY <1>1, <1>2, NaturalSteps
<1> QED
  BY <1>3 DEF S

\* Every server has a handle, and nobody that of another.
Unique(cat) ==
    \A p, q \in Positions(cat) :
        /\ ServerAt(cat, p).alias # Unset
        /\ ServerAt(cat, p).alias = ServerAt(cat, q).alias => p = q

\* alias::assign gives everybody a handle of its own and leaves the rest as it is.
LEMMA AssignedIs ==
    ASSUME NEW cat \in Cats
    PROVE  Alike(AssignAliases(cat), cat) /\ Unique(AssignAliases(cat))
<1> DEFINE N == Cardinality(Nameless(Cleared(cat)))
           G == [p \in Cats \X (1 .. N) |->
                    IF Nameless(p[1]) # {} /\ Apart(p[1]) THEN Named(p[1]) ELSE p[1]]
           assigned == CHOOSE f : f = [n \in 0 .. N |->
                IF n = 0 THEN Cleared(cat) ELSE Named(f[n - 1])]
<1>1. AssignAliases(cat) = assigned[N]
  BY DEF AssignAliases
<1>2. Alike(Cleared(cat), cat) /\ Apart(Cleared(cat))
  BY ClearedIs
<1>3. N \in Nat
  <2>1. Positions(Cleared(cat)) = Positions(cat)
    BY <1>2 DEF Alike
  <2>2. Nameless(Cleared(cat)) \in SUBSET Positions(cat)
    BY <2>1 DEF Nameless
  <2> QED
    BY <2>2, PositionsAreFinite, FS_Subset, FS_CardinalityType
<1> HIDE DEF N
<1>4. Builds(Cats, Cleared(cat), N, G)
  <2>1. \A c \in Cats : Nameless(c) # {} /\ Apart(c) => Named(c) \in Cats
    BY NamedIs DEF Alike
  <2>2. G \in [Cats \X (1 .. N) -> Cats]
    <3>1. \A p \in Cats \X (1 .. N) : p[1] \in Cats
      OBVIOUS
    <3> QED
      BY <2>1, <3>1
  <2> QED
    BY <1>2, <1>3, <2>2 DEF Builds, Alike
<1>5. PICK f : Built(f, Cats, Cleared(cat), N, G)
  BY <1>4, RecursionBuilds
<1>6. /\ f \in [0 .. N -> Cats] /\ f[0] = Cleared(cat)
      /\ \A i \in 1 .. N : f[i] = IF Nameless(f[i - 1]) # {} /\ Apart(f[i - 1])
                                  THEN Named(f[i - 1]) ELSE f[i - 1]
  <2>1. f \in [0 .. N -> Cats] /\ f[0] = Cleared(cat) /\ \A i \in 1 .. N : f[i] = G[<<f[i - 1], i>>]
    BY <1>5 DEF Built
  <2>2. ASSUME NEW i \in 1 .. N PROVE <<f[i - 1], i>> \in Cats \X (1 .. N)
    <3>1. i - 1 \in 0 .. N
      BY <1>3
    <3> QED
      BY <2>1, <3>1
  <2>3. ASSUME NEW i \in 1 .. N
        PROVE  G[<<f[i - 1], i>>] = IF Nameless(f[i - 1]) # {} /\ Apart(f[i - 1])
                                    THEN Named(f[i - 1]) ELSE f[i - 1]
    BY <2>2
  <2> HIDE DEF G
  <2> QED
    BY <2>1, <2>3
<1> HIDE DEF G
<1>7. ASSUME NEW n \in Nat, n <= N
      PROVE  Alike(f[n], cat) /\ Apart(f[n])
  <2> DEFINE S == {i \in Nat : i <= N => Alike(f[i], cat) /\ Apart(f[i])}
  <2>1. 0 \in S
    BY <1>2, <1>6
  <2>2. ASSUME NEW i \in Nat, i \in S PROVE i + 1 \in S
    <3> SUFFICES ASSUME i + 1 <= N PROVE Alike(f[i + 1], cat) /\ Apart(f[i + 1])
      OBVIOUS
    <3>1. Alike(f[i], cat) /\ Apart(f[i]) /\ f[i] \in Cats
      BY <1>3, <2>2 DEF Alike
    <3>2. i + 1 \in 1 .. N /\ i + 1 - 1 = i
      BY <1>3
    <3>3. f[i + 1] = IF Nameless(f[i]) # {} THEN Named(f[i]) ELSE f[i]
      <4> DEFINE k == i + 1
      <4>1. k \in 1 .. N /\ k - 1 = i
        BY <3>2
      <4> HIDE DEF k
      <4>2. f[k] = IF Nameless(f[k - 1]) # {} /\ Apart(f[k - 1]) THEN Named(f[k - 1]) ELSE f[k - 1]
        BY <1>6, <4>1
      <4>3. f[k] = IF Nameless(f[i]) # {} THEN Named(f[i]) ELSE f[i]
        BY <3>1, <4>1, <4>2
      <4> QED
        BY <4>3 DEF k
    <3>4. CASE Nameless(f[i]) # {}
      <4>1. Alike(Named(f[i]), f[i]) /\ Apart(Named(f[i]))
        BY <3>1, <3>4, NamedIs
      <4> QED
        BY <3>1, <3>3, <3>4, <4>1, AlikeFollows
    <3>5. CASE Nameless(f[i]) = {}
      BY <3>1, <3>3, <3>5
    <3> QED
      BY <3>4, <3>5
  <2> HIDE DEF S
  <2>3. n \in S
    BY <2>1, <2>2, NaturalSteps
  <2> QED
    BY <1>7, <2>3 DEF S
<1>8. Assigning(f, cat, N)
  <2>1. ASSUME NEW i \in 1 .. N, Nameless(f[i - 1]) # {} PROVE f[i] = Named(f[i - 1])
    <3>1. i - 1 \in Nat /\ i - 1 <= N
      BY <1>3
    <3> QED
      BY <1>6, <1>7, <2>1, <3>1
  <2> QED
    BY <1>6, <2>1 DEF Assigning
<1>9. \A i \in 0 .. N : IsFiniteSet(Nameless(f[i])) /\ Cardinality(Nameless(f[i])) = N - i
  BY <1>3, <1>8, AssigningIs DEF N
<1>10. f = [n \in 0 .. N |-> IF n = 0 THEN Cleared(cat) ELSE Named(f[n - 1])]
  <2>1. ASSUME NEW i \in 1 .. N PROVE f[i] = Named(f[i - 1])
    <3>1. i - 1 \in 0 .. N /\ N - (i - 1) # 0
      BY <1>3
    <3>2. Nameless(f[i - 1]) # {}
      BY <1>9, <3>1, FS_EmptySet
    <3> QED
      BY <1>8, <3>2 DEF Assigning
  <2>2. \A i \in 0 .. N : f[i] = IF i = 0 THEN Cleared(cat) ELSE Named(f[i - 1])
    <3>1. \A i \in 0 .. N : i = 0 \/ i \in 1 .. N
      BY <1>3
    <3> QED
      BY <1>6, <2>1, <3>1
  <2> QED
    BY <1>6, <2>2
<1>11. assigned = [n \in 0 .. N |-> IF n = 0 THEN Cleared(cat) ELSE Named(assigned[n - 1])]
  BY <1>10
<1> HIDE DEF assigned
<1>12. Assigning(assigned, cat, N)
  <2>1. 0 \in 0 .. N /\ \A i \in 1 .. N : i \in 0 .. N /\ i # 0
    BY <1>3
  <2>2. \A i \in 0 .. N : assigned[i] = IF i = 0 THEN Cleared(cat) ELSE Named(assigned[i - 1])
    BY <1>11
  <2> QED
    BY <2>1, <2>2 DEF Assigning
<1>13. /\ Alike(assigned[N], cat) /\ Apart(assigned[N])
       /\ IsFiniteSet(Nameless(assigned[N])) /\ Cardinality(Nameless(assigned[N])) = 0
  <2>1. N \in 0 .. N /\ N - N = 0
    BY <1>3
  <2>2. Cardinality(Nameless(assigned[N])) = N - N
    BY <1>3, <1>12, <2>1, AssigningIs DEF N
  <2> QED
    BY <1>3, <1>12, <2>1, <2>2, AssigningIs DEF N
<1>14. Nameless(assigned[N]) = {}
  BY <1>13, FS_EmptySet
<1>15. Unique(assigned[N])
  <2>1. \A p \in Positions(assigned[N]) : ServerAt(assigned[N], p).alias # Unset
    BY <1>14 DEF Nameless
  <2> QED
    BY <1>13, <2>1 DEF Apart, Unique
<1> QED
  BY <1>1, <1>13, <1>15

-----------------------------------------------------------------------------
\* What is retained of a list

Different(items) == \A i, j \in 1 .. Len(items) : items[i] = items[j] => i = j

\* r is what is left of the first n items when some go.
Left(r, items, n, gone, V) ==
    /\ r \in Seq(V)
    /\ \A i \in 1 .. Len(r) : \E j \in 1 .. n : r[i] = items[j] /\ items[j] \notin gone
    /\ \A j \in 1 .. n : items[j] \notin gone => \E i \in 1 .. Len(r) : r[i] = items[j]
    /\ Different(items) => Different(r)

\* One more item is looked at.
LEMMA LeftNext ==
    ASSUME NEW V, NEW items \in Seq(V), NEW gone, NEW r, NEW n \in Nat, n + 1 <= Len(items),
           Left(r, items, n, gone, V)
    PROVE  Left(IF items[n + 1] \in gone THEN r ELSE Append(r, items[n + 1]),
                items, n + 1, gone, V)
<1>1. /\ n + 1 \in 1 .. Len(items) /\ n + 1 \in 1 .. n + 1
      /\ items[n + 1] \in V
      /\ \A j \in 1 .. n : j \in 1 .. n + 1 /\ j \in 1 .. Len(items) /\ j # n + 1
      /\ \A j \in 1 .. n + 1 : j = n + 1 \/ j \in 1 .. n
  OBVIOUS
<1>2. /\ r \in Seq(V) /\ Len(r) \in Nat
      /\ \A i \in 1 .. Len(r) : \E j \in 1 .. n : r[i] = items[j] /\ items[j] \notin gone
      /\ \A j \in 1 .. n : items[j] \notin gone => \E i \in 1 .. Len(r) : r[i] = items[j]
      /\ Different(items) => Different(r)
  BY DEF Left
<1>3. CASE items[n + 1] \in gone
  BY <1>1, <1>2, <1>3 DEF Left
<1>4. CASE items[n + 1] \notin gone
  <2> DEFINE s == Append(r, items[n + 1])
  <2>1. /\ s \in Seq(V) /\ Len(s) = Len(r) + 1
        /\ s[Len(r) + 1] = items[n + 1]
        /\ \A i \in 1 .. Len(r) : s[i] = r[i]
    BY <1>1, <1>2
  <2>2. /\ \A i \in 1 .. Len(s) : i = Len(r) + 1 \/ i \in 1 .. Len(r)
        /\ Len(r) + 1 \in 1 .. Len(s)
        /\ \A i \in 1 .. Len(r) : i \in 1 .. Len(s)
    BY <1>2, <2>1
  <2> HIDE DEF s
  <2>3. \A i \in 1 .. Len(s) : \E j \in 1 .. n + 1 : s[i] = items[j] /\ items[j] \notin gone
    <3>1. ASSUME NEW i \in 1 .. Len(r)
          PROVE  \E j \in 1 .. n + 1 : s[i] = items[j] /\ items[j] \notin gone
      <4>1. PICK j \in 1 .. n : r[i] = items[j] /\ items[j] \notin gone
        BY <1>2
      <4> QED
        BY <1>1, <2>1, <4>1
    <3> QED
      BY <1>1, <1>4, <2>1, <2>2, <3>1
  <2>4. \A j \in 1 .. n + 1 : items[j] \notin gone => \E i \in 1 .. Len(s) : s[i] = items[j]
    BY <1>1, <1>2, <2>1, <2>2
  <2>5. ASSUME Different(items) PROVE Different(s)
    <3>1. ASSUME NEW i \in 1 .. Len(r), r[i] = items[n + 1] PROVE FALSE
      <4>1. PICK j \in 1 .. n : r[i] = items[j]
        BY <1>2
      <4> QED
        BY <1>1, <2>5, <3>1, <4>1 DEF Different
    <3>2. \A i, j \in 1 .. Len(r) : r[i] = r[j] => i = j
      BY <1>2, <2>5 DEF Different
    <3>3. ASSUME NEW i \in 1 .. Len(s), NEW j \in 1 .. Len(s), s[i] = s[j]
          PROVE  i = j
      BY <2>1, <2>2, <3>1, <3>2, <3>3
    <3> QED
      BY <3>3 DEF Different
  <2>6. Left(s, items, n + 1, gone, V)
    BY <2>1, <2>3, <2>4, <2>5 DEF Left
  <2> QED
    BY <1>4, <2>6 DEF s
<1> QED
  BY <1>3, <1>4

\* Retained is the recursive function its definition writes.
LEMMA RetainedBuilt ==
    ASSUME NEW V, NEW items \in Seq(V), NEW gone
    PROVE  \E kept :
             /\ kept[0] = <<>>
             /\ \A i \in 1 .. Len(items) :
                    kept[i] = IF items[i] \in gone THEN kept[i - 1]
                              ELSE Append(kept[i - 1], items[i])
             /\ Retained(items, gone) = kept[Len(items)]
<1> DEFINE N == Len(items)
           W == Seq(V)
           G == [p \in W \X (1 .. N) |->
                    IF items[p[2]] \in gone THEN p[1] ELSE Append(p[1], items[p[2]])]
           kept == CHOOSE f : f = [n \in 0 .. N |->
                IF n = 0 THEN <<>>
                ELSE IF items[n] \in gone THEN f[n - 1]
                ELSE Append(f[n - 1], items[n])]
<1>1. Retained(items, gone) = kept[N]
  BY DEF Retained
<1>2. Builds(W, <<>>, N, G)
  BY DEF Builds
<1>3. PICK f : Built(f, W, <<>>, N, G)
  BY <1>2, RecursionBuilds
<1>4. f = [n \in 0 .. N |->
                IF n = 0 THEN <<>>
                ELSE IF items[n] \in gone THEN f[n - 1]
                ELSE Append(f[n - 1], items[n])]
  <2>1. N \in Nat /\ \A i \in 0 .. N : i # 0 => i \in 1 .. N /\ i - 1 \in 0 .. N
    OBVIOUS
  <2>2. /\ f \in [0 .. N -> W] /\ f[0] = <<>>
        /\ \A i \in 1 .. N : f[i] = G[<<f[i - 1], i>>]
    BY <1>3 DEF Built
  <2>3. \A i \in 1 .. N : f[i - 1] \in W
    BY <2>1, <2>2
  <2>4. \A i \in 1 .. N :
            G[<<f[i - 1], i>>] = IF items[i] \in gone THEN f[i - 1]
                                 ELSE Append(f[i - 1], items[i])
    BY <2>3
  <2> HIDE DEF G
  <2>5. \A i \in 0 .. N :
            f[i] = IF i = 0 THEN <<>>
                   ELSE IF items[i] \in gone THEN f[i - 1]
                   ELSE Append(f[i - 1], items[i])
    BY <2>1, <2>2, <2>4
  <2> QED
    BY <2>2, <2>5
<1>5. kept = [n \in 0 .. N |->
                IF n = 0 THEN <<>>
                ELSE IF items[n] \in gone THEN kept[n - 1]
                ELSE Append(kept[n - 1], items[n])]
  BY <1>4
<1>6. N \in Nat
  OBVIOUS
<1>7. /\ kept[0] = <<>>
      /\ \A i \in 1 .. N :
            kept[i] = IF items[i] \in gone THEN kept[i - 1] ELSE Append(kept[i - 1], items[i])
  <2> HIDE DEF kept, N
  <2>1. \A i \in 0 .. N :
            kept[i] = IF i = 0 THEN <<>>
                      ELSE IF items[i] \in gone THEN kept[i - 1]
                      ELSE Append(kept[i - 1], items[i])
    BY <1>5
  <2> QED
    BY <1>6, <2>1
<1> HIDE DEF kept
<1> QED
  BY <1>1, <1>7

\* What stays: exactly the items that are none of those that go, none more often than before.
LEMMA RetainedIs ==
    ASSUME NEW V, NEW items \in Seq(V), NEW gone
    PROVE  Left(Retained(items, gone), items, Len(items), gone, V)
<1>1. PICK kept :
        /\ kept[0] = <<>>
        /\ \A i \in 1 .. Len(items) :
               kept[i] = IF items[i] \in gone THEN kept[i - 1] ELSE Append(kept[i - 1], items[i])
        /\ Retained(items, gone) = kept[Len(items)]
  BY RetainedBuilt
<1> DEFINE S == {n \in Nat : n <= Len(items) => Left(kept[n], items, n, gone, V)}
<1>2. 0 \in S
  <2>1. <<>> \in Seq(V) /\ Len(<<>>) = 0 /\ \A i \in 1 .. 0 : FALSE
    OBVIOUS
  <2>2. Left(<<>>, items, 0, gone, V)
    BY <2>1 DEF Left, Different
  <2> QED
    BY <1>1, <2>2
<1>3. ASSUME NEW n \in Nat, n \in S PROVE n + 1 \in S
  <2> SUFFICES ASSUME n + 1 <= Len(items) PROVE Left(kept[n + 1], items, n + 1, gone, V)
    OBVIOUS
  <2>1. Left(kept[n], items, n, gone, V)
    BY <1>3
  <2>2. n + 1 \in 1 .. Len(items) /\ n + 1 - 1 = n
    OBVIOUS
  <2>3. kept[n + 1] = IF items[n + 1] \in gone THEN kept[n] ELSE Append(kept[n], items[n + 1])
    BY <1>1, <2>2
  <2> QED
    BY <2>1, <2>3, LeftNext
<1> HIDE DEF S
<1>4. Len(items) \in S
  BY <1>2, <1>3, NaturalSteps
<1> QED
  BY <1>1, <1>4 DEF S

-----------------------------------------------------------------------------
\* A refresh

\* A fresh entry matches a server that is still free, or none.
LEMMA MatchIs ==
    ASSUME NEW old \in Seq(Server), NEW used, NEW entry \in Entries
    PROVE  Match(old, used, entry) \in 0 .. Len(old)
<1> DEFINE free == (1 .. Len(old)) \ used
           byId == {i \in free : old[i].id = entry}
           byConnection == {i \in free : SameConnection(old[i], entry)}
           byDrift == {i \in free : OnlyOverridesDrifted(old[i], entry)}
<1>1. Match(old, used, entry) =
        CASE byId # {} -> Min(byId)
          [] byId = {} /\ byConnection # {} -> Min(byConnection)
          [] byId \cup byConnection = {} /\ byDrift # {} -> Min(byDrift)
          [] OTHER -> 0
  BY DEF Match
<1>2. byId \subseteq 1 .. Len(old) /\ byConnection \subseteq 1 .. Len(old)
      /\ byDrift \subseteq 1 .. Len(old)
  OBVIOUS
<1>3. Len(old) \in Nat
  OBVIOUS
<1> HIDE DEF byId, byConnection, byDrift
<1>4. /\ byId # {} => Min(byId) \in 1 .. Len(old)
      /\ byConnection # {} => Min(byConnection) \in 1 .. Len(old)
      /\ byDrift # {} => Min(byDrift) \in 1 .. Len(old)
  <2>1. 1 .. Len(old) \subseteq Nat
    BY <1>3
  <2> QED
    BY <1>2, <2>1, LeastIs
<1>5. CASE byId # {}
  BY <1>1, <1>3, <1>4, <1>5
<1>6. CASE byId = {} /\ byConnection # {}
  BY <1>1, <1>3, <1>4, <1>6
<1>7. CASE byId \cup byConnection = {} /\ byDrift # {}
  BY <1>1, <1>3, <1>4, <1>7
<1>8. CASE byId \cup byConnection \cup byDrift = {}
  BY <1>1, <1>3, <1>8
<1> QED
  BY <1>5, <1>6, <1>7, <1>8

\* What an entry becomes that carries on a server.
LEMMA CarriedOverIs ==
    ASSUME NEW old \in Server, NEW entry \in Entries
    PROVE  CarriedOver(old, entry) \in Server
<1>1. entry.name \in Names /\ entry.host \in Hosts /\ entry.field \in Fields
  BY ParsedIs
<1>2. entry.field # Unset
  BY <1>1, CatalogAssumption
<1>3. CarriedOver(old, entry) =
        [id |-> old.id, name |-> entry.name, host |-> entry.host,
         field |-> IF old.override = Unset THEN entry.field ELSE old.override,
         alias |-> old.alias, pin |-> old.pin, override |-> old.override,
         base |-> IF old.override = Unset THEN Unset ELSE entry.field]
  <2> DEFINE parsed == Parsed(entry)
  <2>1. parsed = [id |-> entry, name |-> entry.name, host |-> entry.host, field |-> entry.field,
                  alias |-> Unset, pin |-> FALSE, override |-> Unset, base |-> Unset]
    BY DEF Parsed
  <2>2. CarriedOver(old, entry) =
            [parsed EXCEPT !.id = old.id, !.alias = old.alias, !.pin = old.pin,
                           !.field = IF old.override = Unset THEN @ ELSE old.override,
                           !.override = old.override,
                           !.base = IF old.override = Unset THEN Unset ELSE entry.field]
    BY DEF CarriedOver
  <2> HIDE DEF parsed
  <2> QED
    BY ONLY <2>1, <2>2
<1>4. /\ old.id \in Entries /\ old.alias \in Aliases /\ old.pin \in BOOLEAN
      /\ old.override \in Fields \cup {Unset} /\ old.base \in Fields \cup {Unset}
      /\ old.override = Unset <=> old.base = Unset
  BY DEF Server
<1> QED
  BY <1>1, <1>2, <1>3, <1>4 DEF Server

\* A refresh gives well-formed servers, whatever it matches.
LEMMA RefreshedIs ==
    ASSUME NEW old \in Seq(Server), NEW entries \in Seq(Entries)
    PROVE  Refreshed(old, entries) \in Seq(Server)
<1> DEFINE N == Len(entries)
           V == [used : SUBSET Nat, servers : Seq(Server)]
           take(acc, entry) ==
             LET i == Match(old, acc.used, entry)
             IN  [used |-> acc.used \cup ({i} \ {0}),
                  servers |-> Append(acc.servers,
                     IF i = 0 THEN Parsed(entry) ELSE CarriedOver(old[i], entry))]
           none == [used |-> {}, servers |-> <<>>]
           G == [p \in V \X (1 .. N) |-> take(p[1], entries[p[2]])]
           taken == CHOOSE f : f = [n \in 0 .. N |->
                IF n = 0 THEN none ELSE take(f[n - 1], entries[n])]
<1>1. Refreshed(old, entries) = taken[N].servers
  BY DEF Refreshed
<1>2. ASSUME NEW acc \in V, NEW entry \in Entries PROVE take(acc, entry) \in V
  <2>1. PICK i \in 0 .. Len(old) : i = Match(old, acc.used, entry)
    BY MatchIs
  <2>2. i # 0 => old[i] \in Server
    BY <2>1
  <2>3. (IF i = 0 THEN Parsed(entry) ELSE CarriedOver(old[i], entry)) \in Server
    BY <2>2, ParsedIs, CarriedOverIs
  <2>4. Append(acc.servers, IF i = 0 THEN Parsed(entry) ELSE CarriedOver(old[i], entry))
            \in Seq(Server)
    BY <2>3
  <2>5. i \in Nat
    BY <2>1
  <2>6. acc.used \cup ({i} \ {0}) \in SUBSET Nat
    BY <2>5
  <2> QED
    BY <2>1, <2>4, <2>6
<1> HIDE DEF take
<1>3. N \in Nat /\ \A i \in 1 .. N : entries[i] \in Entries
  OBVIOUS
<1>4. Builds(V, none, N, G)
  <2>1. none \in V
    OBVIOUS
  <2>2. G \in [V \X (1 .. N) -> V]
    BY <1>2, <1>3
  <2> QED
    BY <1>3, <2>1, <2>2 DEF Builds
<1>5. PICK f : Built(f, V, none, N, G)
  BY <1>4, RecursionBuilds
<1>6. f = [n \in 0 .. N |-> IF n = 0 THEN none ELSE take(f[n - 1], entries[n])]
  <2>1. \A i \in 0 .. N : i # 0 => i \in 1 .. N /\ i - 1 \in 0 .. N
    BY <1>3
  <2>2. /\ f \in [0 .. N -> V] /\ f[0] = none
        /\ \A i \in 1 .. N : f[i] = G[<<f[i - 1], i>>]
    BY <1>5 DEF Built
  <2>3. \A i \in 1 .. N : <<f[i - 1], i>> \in V \X (1 .. N)
    <3> HIDE DEF V, G
    <3>1. ASSUME NEW i \in 1 .. N PROVE i - 1 \in 0 .. N
      BY <1>3
    <3> QED
      BY <2>2, <3>1
  <2>4. \A i \in 1 .. N : G[<<f[i - 1], i>>] = take(f[i - 1], entries[i])
    BY <2>3
  <2> HIDE DEF G
  <2>5. \A i \in 0 .. N : f[i] = IF i = 0 THEN none ELSE take(f[i - 1], entries[i])
    BY <2>1, <2>2, <2>4
  <2> QED
    BY <2>2, <2>5
<1>7. taken = [n \in 0 .. N |-> IF n = 0 THEN none ELSE take(taken[n - 1], entries[n])]
  BY <1>6
<1> HIDE DEF taken
<1> DEFINE S == {n \in Nat : n <= N => taken[n] \in V}
<1>8. 0 \in S
  <2>1. taken[0] = none
    BY <1>3, <1>7
  <2>2. none \in V
    OBVIOUS
  <2> QED
    BY <2>1, <2>2
<1>9. ASSUME NEW n \in Nat, n \in S PROVE n + 1 \in S
  <2> SUFFICES ASSUME n + 1 <= N PROVE taken[n + 1] \in V
    OBVIOUS
  <2>1. n + 1 \in 0 .. N /\ n + 1 # 0 /\ n + 1 - 1 = n /\ n + 1 \in 1 .. N
    BY <1>3
  <2>2. taken[n + 1] = take(taken[n], entries[n + 1])
    <3> DEFINE k == n + 1
    <3>1. k \in 0 .. N /\ k # 0 /\ k - 1 = n
      BY <2>1
    <3> HIDE DEF k, N
    <3>2. taken[k] = take(taken[k - 1], entries[k])
      BY <1>7, <3>1
    <3> QED
      BY <3>1, <3>2 DEF k
  <2>3. taken[n] \in V
    BY <1>9, <1>3
  <2> QED
    BY <1>2, <1>3, <2>1, <2>2, <2>3
<1> HIDE DEF S
<1>10. N \in S
  BY <1>3, <1>8, <1>9, NaturalSteps
<1>11. taken[N] \in V
  BY <1>3, <1>10 DEF S
<1> QED
  BY <1>1, <1>11

-----------------------------------------------------------------------------
\* Ids of subscriptions and of servers

UniqueIds(cat) == \A i, j \in 1 .. Len(cat) : cat[i].id = cat[j].id => i = j

\* An id that is listed has its place.
LEMMA IndexIs ==
    ASSUME NEW cat, NEW i \in 1 .. Len(cat)
    PROVE  IndexOf(cat, cat[i].id) \in 1 .. Len(cat) /\ cat[IndexOf(cat, cat[i].id)].id = cat[i].id
BY DEF IndexOf

\* The servers of a catalog are those at its positions.
LEMMA ServerIdsAre ==
    ASSUME NEW cat \in Cats
    PROVE  /\ ServerIds(cat) = {ServerAt(cat, p).id : p \in Positions(cat)}
           /\ ServerIds(cat) \subseteq Entries
<1>1. ASSUME NEW i \in 1 .. Len(cat)
      PROVE  Range(cat[i].servers) = {cat[i].servers[j] : j \in 1 .. Len(cat[i].servers)}
  <2>1. cat[i].servers \in Seq(Server)
    BY RowsAre
  <2> QED
    BY <2>1 DEF Range
<1>2. ASSUME NEW x \in ServerIds(cat) PROVE \E p \in Positions(cat) : x = ServerAt(cat, p).id
  <2>1. PICK i \in 1 .. Len(cat) : x \in {s.id : s \in Range(cat[i].servers)}
    BY DEF ServerIds
  <2>2. PICK j \in 1 .. Len(cat[i].servers) : x = cat[i].servers[j].id
    <3>1. PICK s \in Range(cat[i].servers) : x = s.id
      BY <2>1
    <3>2. s \in {cat[i].servers[j] : j \in 1 .. Len(cat[i].servers)}
      BY <1>1
    <3> QED
      BY <3>1, <3>2
  <2>3. <<i, j>> \in Positions(cat)
    BY PositionIs
  <2>4. ServerAt(cat, <<i, j>>) = cat[i].servers[j]
    BY DEF ServerAt
  <2> QED
    BY <2>2, <2>3, <2>4
<1>3. ASSUME NEW p \in Positions(cat)
      PROVE  ServerAt(cat, p).id \in ServerIds(cat) /\ ServerAt(cat, p).id \in Entries
  <2> DEFINE i == p[1]
             j == p[2]
  <2>1. /\ i \in 1 .. Len(cat) /\ j \in 1 .. Len(cat[i].servers)
        /\ ServerAt(cat, p) = cat[i].servers[j] /\ ServerAt(cat, p) \in Server
    BY PositionIs
  <2> HIDE DEF i, j
  <2>2. cat[i].servers[j] \in Range(cat[i].servers)
    BY <1>1, <2>1
  <2>3. cat[i].servers[j].id \in {s.id : s \in Range(cat[i].servers)}
    BY <2>2
  <2> QED
    BY <2>1, <2>3 DEF ServerIds, Server
<1> QED
  BY <1>2, <1>3

\* Alike catalogs list the same.
LEMMA AlikeLists ==
    ASSUME NEW a, NEW b, Alike(a, b)
    PROVE  ServerIds(a) = ServerIds(b) /\ (UniqueIds(b) => UniqueIds(a))
<1>1. ServerIds(a) = {ServerAt(a, p).id : p \in Positions(a)}
  BY ServerIdsAre DEF Alike
<1>2. ServerIds(b) = {ServerAt(b, p).id : p \in Positions(b)}
  BY ServerIdsAre DEF Alike
<1>3. ServerIds(a) = ServerIds(b)
  BY <1>1, <1>2 DEF Alike
<1> QED
  BY <1>3 DEF Alike, UniqueIds

\* Servers that were apart stay so, if none of them comes twice.
LEMMA StaysUnique ==
    ASSUME NEW cat \in Cats, NEW new \in Cats, Unique(cat),
           \A p \in Positions(new) : \E q \in Positions(cat) : ServerAt(new, p) = ServerAt(cat, q),
           \A p, q \in Positions(new) : ServerAt(new, p) = ServerAt(new, q) => p = q
    PROVE  Unique(new)
<1> SUFFICES ASSUME NEW p \in Positions(new), NEW q \in Positions(new)
             PROVE  /\ ServerAt(new, p).alias # Unset
                    /\ ServerAt(new, p).alias = ServerAt(new, q).alias => p = q
  BY DEF Unique
<1>1. PICK r \in Positions(cat) : ServerAt(new, p) = ServerAt(cat, r)
  OBVIOUS
<1>2. PICK s \in Positions(cat) : ServerAt(new, q) = ServerAt(cat, s)
  OBVIOUS
<1>3. ServerAt(cat, r).alias = ServerAt(cat, s).alias => r = s
  BY DEF Unique
<1> QED
  BY <1>1, <1>2, <1>3 DEF Unique

\* A catalog without some of its subscriptions.
LEMMA FewerSubscriptions ==
    ASSUME NEW cat \in Cats, UniqueIds(cat), Unique(cat), NEW gone
    PROVE  /\ Retained(cat, gone) \in Cats
           /\ UniqueIds(Retained(cat, gone)) /\ Unique(Retained(cat, gone))
           /\ \A i \in 1 .. Len(cat) : cat[i] \notin gone =>
                {s.id : s \in Range(cat[i].servers)} \subseteq ServerIds(Retained(cat, gone))
<1> DEFINE new == Retained(cat, gone)
<1>1. cat \in Seq(Subscription) /\ Left(new, cat, Len(cat), gone, Subscription)
  BY RetainedIs DEF Cats
<1> HIDE DEF new
<1>2. /\ new \in Cats
      /\ \A i \in 1 .. Len(new) : \E j \in 1 .. Len(cat) : new[i] = cat[j]
      /\ \A j \in 1 .. Len(cat) : cat[j] \notin gone => \E i \in 1 .. Len(new) : new[i] = cat[j]
      /\ Different(cat) => Different(new)
  BY <1>1 DEF Left, Cats
<1>3. Different(new)
  BY <1>2 DEF Different, UniqueIds
<1>4. UniqueIds(new)
  <2> SUFFICES ASSUME NEW i \in 1 .. Len(new), NEW j \in 1 .. Len(new), new[i].id = new[j].id
               PROVE  i = j
    BY DEF UniqueIds
  <2>1. PICK k \in 1 .. Len(cat) : new[i] = cat[k]
    BY <1>2
  <2>2. PICK l \in 1 .. Len(cat) : new[j] = cat[l]
    BY <1>2
  <2>3. k = l
    BY <2>1, <2>2 DEF UniqueIds
  <2> QED
    BY <1>3, <2>1, <2>2, <2>3 DEF Different
<1>5. ASSUME NEW p \in Positions(new)
      PROVE  \E k \in 1 .. Len(cat) :
                /\ new[p[1]] = cat[k] /\ <<k, p[2]>> \in Positions(cat)
                /\ ServerAt(new, p) = ServerAt(cat, <<k, p[2]>>)
  <2>1. p[1] \in 1 .. Len(new) /\ p[2] \in 1 .. Len(new[p[1]].servers)
    BY <1>2, PositionIs
  <2>2. PICK k \in 1 .. Len(cat) : new[p[1]] = cat[k]
    BY <1>2, <2>1
  <2>3. <<k, p[2]>> \in Positions(cat)
    BY <2>1, <2>2, PositionIs
  <2>4. ServerAt(new, p) = ServerAt(cat, <<k, p[2]>>)
    BY <2>2 DEF ServerAt
  <2> QED
    BY <2>2, <2>3, <2>4
<1>6. ASSUME NEW p \in Positions(new), NEW q \in Positions(new), ServerAt(new, p) = ServerAt(new, q)
      PROVE  p = q
  <2>1. PICK k \in 1 .. Len(cat) :
            /\ new[p[1]] = cat[k] /\ <<k, p[2]>> \in Positions(cat)
            /\ ServerAt(new, p) = ServerAt(cat, <<k, p[2]>>)
    BY <1>5
  <2>2. PICK l \in 1 .. Len(cat) :
            /\ new[q[1]] = cat[l] /\ <<l, q[2]>> \in Positions(cat)
            /\ ServerAt(new, q) = ServerAt(cat, <<l, q[2]>>)
    BY <1>5
  <2>3. <<k, p[2]>> = <<l, q[2]>>
    BY <1>6, <2>1, <2>2 DEF Unique
  <2>4. k = l /\ p[2] = q[2]
    BY <2>3
  <2>5. /\ p[1] \in 1 .. Len(new) /\ q[1] \in 1 .. Len(new)
        /\ p = <<p[1], p[2]>> /\ q = <<q[1], q[2]>>
    BY <1>2, PositionIs
  <2>6. p[1] = q[1]
    BY <1>3, <2>1, <2>2, <2>4, <2>5 DEF Different
  <2> QED
    BY <2>4, <2>5, <2>6
<1>7. Unique(new)
  <2>1. \A p \in Positions(new) : \E q \in Positions(cat) : ServerAt(new, p) = ServerAt(cat, q)
    BY <1>5
  <2> QED
    BY <1>2, <1>6, <2>1, StaysUnique
<1>8. ASSUME NEW i \in 1 .. Len(cat), cat[i] \notin gone
      PROVE  {s.id : s \in Range(cat[i].servers)} \subseteq ServerIds(new)
  <2>1. PICK k \in 1 .. Len(new) : new[k] = cat[i]
    BY <1>2, <1>8
  <2> QED
    BY <2>1 DEF ServerIds
<1> QED
  BY <1>2, <1>4, <1>7, <1>8 DEF new

\* The local group without some of its servers.
Fewer(cat, id) ==
    [i \in 1 .. Len(cat) |->
        IF cat[i].id # Local THEN cat[i]
        ELSE [cat[i] EXCEPT !.servers = Retained(@, {s \in Range(@) : s.id = id})]]

\* A catalog without a hand-made server keeps all else.
LEMMA FewerServers ==
    ASSUME NEW cat \in Cats, UniqueIds(cat), Unique(cat), NEW id
    PROVE  /\ Fewer(cat, id) \in Cats /\ UniqueIds(Fewer(cat, id)) /\ Unique(Fewer(cat, id))
           /\ ServerIds(cat) \ {id} \subseteq ServerIds(Fewer(cat, id))
<1> DEFINE new == Fewer(cat, id)
<1>0. new = [i \in 1 .. Len(cat) |->
                IF cat[i].id # Local THEN cat[i]
                ELSE [cat[i] EXCEPT !.servers = Retained(@, {s \in Range(@) : s.id = id})]]
  BY DEF Fewer
<1> HIDE DEF new
<1> DEFINE servers(i) == IF cat[i].id # Local THEN cat[i].servers
                         ELSE Retained(cat[i].servers, {s \in Range(cat[i].servers) : s.id = id})
<1>1. \A i \in 1 .. Len(cat) : cat[i] \in Subscription /\ cat[i].servers \in Seq(Server)
  BY RowsAre
<1>2. ASSUME NEW i \in 1 .. Len(cat)
      PROVE  /\ servers(i) \in Seq(Server) /\ Different(servers(i))
             /\ \A j \in 1 .. Len(servers(i)) :
                    \E k \in 1 .. Len(cat[i].servers) : servers(i)[j] = cat[i].servers[k]
             /\ \A k \in 1 .. Len(cat[i].servers) :
                    cat[i].servers[k].id # id =>
                        \E j \in 1 .. Len(servers(i)) : servers(i)[j] = cat[i].servers[k]
  <2>1. Different(cat[i].servers)
    <3> SUFFICES ASSUME NEW j \in 1 .. Len(cat[i].servers), NEW k \in 1 .. Len(cat[i].servers),
                        cat[i].servers[j] = cat[i].servers[k]
                 PROVE  j = k
      BY DEF Different
    <3>1. <<i, j>> \in Positions(cat) /\ <<i, k>> \in Positions(cat)
      BY PositionIs
    <3>2. ServerAt(cat, <<i, j>>) = ServerAt(cat, <<i, k>>)
      BY DEF ServerAt
    <3>3. <<i, j>> = <<i, k>>
      BY <3>1, <3>2 DEF Unique
    <3> QED
      BY <3>3
  <2>2. CASE cat[i].id # Local
    BY <1>1, <2>1, <2>2
  <2>3. CASE cat[i].id = Local
    <3> DEFINE out == {s \in Range(cat[i].servers) : s.id = id}
    <3>1. servers(i) = Retained(cat[i].servers, out)
      BY <2>3
    <3>2. \A k \in 1 .. Len(cat[i].servers) :
            cat[i].servers[k].id # id => cat[i].servers[k] \notin out
      OBVIOUS
    <3> HIDE DEF out, servers
    <3>3. Left(servers(i), cat[i].servers, Len(cat[i].servers), out, Server)
      BY <1>1, <3>1, RetainedIs
    <3> QED
      BY <2>1, <3>2, <3>3 DEF Left
  <2> QED
    BY <2>2, <2>3
<1>3. \A i \in 1 .. Len(cat) : new[i] = [cat[i] EXCEPT !.servers = servers(i)]
  <2>1. ASSUME NEW i \in 1 .. Len(cat) PROVE new[i] = [cat[i] EXCEPT !.servers = servers(i)]
    <3>1. cat[i] \in Subscription
      BY <1>1
    <3> QED
      BY <1>0, <3>1 DEF Subscription
  <2> QED
    BY <2>1
<1> HIDE DEF servers
<1>4. ASSUME NEW i \in 1 .. Len(cat)
      PROVE  new[i] \in Subscription /\ new[i].id = cat[i].id /\ new[i].servers = servers(i)
  BY <1>1, <1>2, <1>3 DEF Subscription
<1>5. new \in Cats /\ Len(new) = Len(cat)
  <2>1. Len(cat) \in Nat
    BY DEF Cats
  <2>2. new \in [1 .. Len(cat) -> Subscription]
    BY <1>0, <1>4
  <2> QED
    BY <2>1, <2>2, SeqOf DEF Cats
<1>6. UniqueIds(new)
  BY <1>4, <1>5 DEF UniqueIds
<1>7. ASSUME NEW p \in Positions(new)
      PROVE  /\ p[1] \in 1 .. Len(cat) /\ p[2] \in 1 .. Len(servers(p[1])) /\ p = <<p[1], p[2]>>
             /\ ServerAt(new, p) = servers(p[1])[p[2]]
             /\ \E k \in 1 .. Len(cat[p[1]].servers) :
                    /\ <<p[1], k>> \in Positions(cat)
                    /\ ServerAt(new, p) = ServerAt(cat, <<p[1], k>>)
  <2>1. /\ p[1] \in 1 .. Len(cat) /\ p[2] \in 1 .. Len(servers(p[1])) /\ p = <<p[1], p[2]>>
        /\ ServerAt(new, p) = servers(p[1])[p[2]]
    BY <1>4, <1>5, PositionIs
  <2>2. PICK k \in 1 .. Len(cat[p[1]].servers) : servers(p[1])[p[2]] = cat[p[1]].servers[k]
    BY <1>2, <2>1
  <2>3. <<p[1], k>> \in Positions(cat)
    BY <2>1, PositionIs
  <2>4. ServerAt(cat, <<p[1], k>>) = cat[p[1]].servers[k]
    BY DEF ServerAt
  <2> QED
    BY <2>1, <2>2, <2>3, <2>4
<1>8. ASSUME NEW p \in Positions(new), NEW q \in Positions(new), ServerAt(new, p) = ServerAt(new, q)
      PROVE  p = q
  <2>1. PICK k : <<p[1], k>> \in Positions(cat) /\ ServerAt(new, p) = ServerAt(cat, <<p[1], k>>)
    BY <1>7
  <2>2. PICK l : <<q[1], l>> \in Positions(cat) /\ ServerAt(new, q) = ServerAt(cat, <<q[1], l>>)
    BY <1>7
  <2>3. <<p[1], k>> = <<q[1], l>>
    BY <1>8, <2>1, <2>2 DEF Unique
  <2>4. p[1] = q[1]
    BY <2>3
  <2>5. /\ p[1] \in 1 .. Len(cat) /\ p[2] \in 1 .. Len(servers(p[1]))
        /\ q[2] \in 1 .. Len(servers(p[1])) /\ servers(p[1])[p[2]] = servers(p[1])[q[2]]
    BY <1>7, <1>8, <2>4
  <2>6. p[2] = q[2]
    <3> DEFINE row == servers(p[1])
    <3>1. Different(row)
      BY <1>2, <2>5
    <3> HIDE DEF row
    <3> QED
      BY <2>5, <3>1 DEF Different, row
  <2> QED
    BY <1>7, <2>4, <2>6
<1>9. Unique(new)
  <2>1. \A p \in Positions(new) : \E q \in Positions(cat) : ServerAt(new, p) = ServerAt(cat, q)
    BY <1>7
  <2> QED
    BY <1>5, <1>8, <2>1, StaysUnique
<1>10. ASSUME NEW x \in ServerIds(cat), x # id PROVE x \in ServerIds(new)
  <2>1. PICK p \in Positions(cat) : x = ServerAt(cat, p).id
    BY ServerIdsAre
  <2> DEFINE i == p[1]
             k == p[2]
  <2>2. i \in 1 .. Len(cat) /\ k \in 1 .. Len(cat[i].servers) /\ x = cat[i].servers[k].id
    BY <2>1, PositionIs
  <2> HIDE DEF i, k
  <2>3. PICK j \in 1 .. Len(servers(i)) : servers(i)[j] = cat[i].servers[k]
    BY <1>2, <1>10, <2>2
  <2>4. <<i, j>> \in Positions(new)
    BY <1>4, <1>5, <2>2, PositionIs
  <2>5. ServerAt(new, <<i, j>>) = servers(i)[j]
    BY <1>4, <2>2 DEF ServerAt
  <2> QED
    BY <1>5, <2>2, <2>3, <2>4, <2>5, ServerIdsAre
<1> QED
  BY <1>5, <1>6, <1>9, <1>10 DEF new

-----------------------------------------------------------------------------
\* The merge of an update

UpdateStates == {"waits", "fetches", "fetched", "failed"}
Agents == {"global", "other", "own"}
Baselines ==
    [add : {TRUE}, existing : Subscription \cup {Unset}] \cup [add : {FALSE}, servers : SUBSET Entries]
Targets ==
    [id : Urls, epoch : Nat, hwid : BOOLEAN, agent : Agents, baseline : Baselines,
     removed : BOOLEAN, state : UpdateStates, response : Seq(Entries)]

\* What the invariant says of the catalog, and of an update: only what asks for one new
\* subscription may add one.
CatalogKept == catalog \in Cats /\ UniqueIds(catalog) /\ Unique(catalog)
UpdateIs(u) ==
    /\ u \in [all : BOOLEAN, targets : Seq(Targets)]
    /\ \A i \in 1 .. Len(u.targets) : u.targets[i].baseline.add => Len(u.targets) = 1

\* A catalog with the subscriptions that are listed.
SameRows(cat) == cat \in Cats /\ Len(cat) = Len(catalog) /\ \A i \in 1 .. Len(cat) : cat[i].id = catalog[i].id

\* A subscription with other servers.
LEMMA WithServersIs ==
    ASSUME NEW cat \in Cats, NEW i \in 1 .. Len(cat), NEW servers \in Seq(Server)
    PROVE  /\ [cat EXCEPT ![i].servers = servers] \in Cats
           /\ Len([cat EXCEPT ![i].servers = servers]) = Len(cat)
           /\ [cat EXCEPT ![i].servers = servers][i].servers = servers
           /\ \A k \in 1 .. Len(cat) : [cat EXCEPT ![i].servers = servers][k].id = cat[k].id
           /\ \A k \in 1 .. Len(cat) : k # i => [cat EXCEPT ![i].servers = servers][k] = cat[k]
<1>1. PICK sub \in Subscription :
        /\ sub = [cat[i] EXCEPT !.servers = servers]
        /\ sub.servers = servers /\ sub.id = cat[i].id
  <2> DEFINE row == [cat[i] EXCEPT !.servers = servers]
  <2>1. cat[i] \in Subscription
    BY RowsAre
  <2>2. row \in Subscription /\ row.servers = servers /\ row.id = cat[i].id
    BY <2>1, RowWith
  <2>3. row = [cat[i] EXCEPT !.servers = servers]
    OBVIOUS
  <2> HIDE DEF row
  <2> QED
    BY <2>2, <2>3
<1>2. [cat EXCEPT ![i].servers = servers] = [cat EXCEPT ![i] = sub]
  BY <1>1
<1> DEFINE new == [cat EXCEPT ![i] = sub]
<1>3. /\ new \in Cats /\ Len(new) = Len(cat) /\ new[i] = sub
      /\ \A k \in 1 .. Len(cat) : k # i => new[k] = cat[k]
  BY SeqWith DEF Cats
<1> HIDE DEF new
<1>4. [cat EXCEPT ![i].servers = servers] = new
  BY <1>2 DEF new
<1>5. \A k \in 1 .. Len(cat) : new[k].id = cat[k].id
  BY <1>1, <1>3
<1> QED
  BY <1>1, <1>3, <1>4, <1>5

\* A refresh of what is listed leaves the ids alone.
LEMMA RefreshKeepsRows ==
    ASSUME CatalogKept, NEW cat, SameRows(cat), NEW target \in Targets, ~target.baseline.add
    PROVE  SameRows(Merged(cat, target))
<1>1. CASE target.state # "fetched" \/ ~Valid(target)
  BY <1>1 DEF Merged
<1>2. CASE target.state = "fetched" /\ Valid(target)
  <2> DEFINE i == IndexOf(cat, target.id)
             servers == Refreshed(cat[i].servers, target.response)
  <2>1. target.id \in Listed
    BY <1>2 DEF Valid
  <2>2. PICK k \in 1 .. Len(catalog) : catalog[k].id = target.id
    BY <2>1 DEF Listed
  <2>3. k \in 1 .. Len(cat) /\ cat[k].id = target.id /\ cat \in Cats
    BY <2>2 DEF SameRows
  <2>4. i \in 1 .. Len(cat)
    BY <2>3, IndexIs
  <2> HIDE DEF i
  <2>5. cat[i].servers \in Seq(Server)
    BY <2>3, <2>4, RowsAre
  <2>6. servers \in Seq(Server)
    BY <2>5, RefreshedIs DEF Targets
  <2>7. Merged(cat, target) = [cat EXCEPT ![i].servers = servers]
    BY <1>2 DEF Merged, i
  <2> HIDE DEF servers
  <2> DEFINE new == [cat EXCEPT ![i].servers = servers]
  <2>8. new \in Cats /\ Len(new) = Len(cat) /\ \A l \in 1 .. Len(cat) : new[l].id = cat[l].id
    BY <2>3, <2>4, <2>6, WithServersIs
  <2> HIDE DEF new
  <2>9. Merged(cat, target) = new
    BY <2>7 DEF new
  <2>10. SameRows(new)
    BY <2>8 DEF SameRows
  <2> QED
    BY <2>9, <2>10
<1> QED
  BY <1>1, <1>2

\* A new subscription replaces that of its id, or comes last.
LEMMA AddKeepsIds ==
    ASSUME CatalogKept, NEW target \in Targets, target.baseline.add
    PROVE  Merged(catalog, target) \in Cats /\ UniqueIds(Merged(catalog, target))
<1> USE DEF CatalogKept
<1>1. CASE target.state # "fetched" \/ ~Valid(target)
  BY <1>1 DEF Merged
<1>2. CASE target.state = "fetched" /\ Valid(target)
  <2> DEFINE fresh == [NewSubscription(target.id, target.hwid)
                        EXCEPT !.servers = Refreshed(<<>>, target.response)]
             i == IndexOf(catalog, target.id)
             new == Merged(catalog, target)
  <2>1. <<>> \in Seq(Server) /\ target.response \in Seq(Entries) /\ target.id \in Ids
        /\ target.hwid \in BOOLEAN
    BY DEF Targets, Ids
  <2>2. Refreshed(<<>>, target.response) \in Seq(Server)
    BY <2>1, RefreshedIs
  <2>3. fresh \in Subscription /\ fresh.id = target.id
    BY <2>1, <2>2 DEF NewSubscription, Subscription
  <2>4. new = IF target.id \in Listed THEN [catalog EXCEPT ![i] = fresh] ELSE Append(catalog, fresh)
    BY <1>2 DEF Merged
  <2> HIDE DEF fresh, new
  <2>5. CASE target.id \in Listed
    <3>1. PICK k \in 1 .. Len(catalog) : catalog[k].id = target.id
      BY <2>5 DEF Listed
    <3>2. i \in 1 .. Len(catalog) /\ catalog[i].id = target.id
      BY <3>1, IndexIs
    <3> HIDE DEF i
    <3>3. /\ new \in Cats /\ Len(new) = Len(catalog)
          /\ new[i] = fresh /\ \A l \in 1 .. Len(catalog) : l # i => new[l] = catalog[l]
      BY <2>3, <2>4, <2>5, <3>2 DEF Cats
    <3>4. \A l \in 1 .. Len(catalog) : new[l].id = catalog[l].id
      BY <2>3, <3>2, <3>3
    <3> QED
      BY <3>3, <3>4 DEF UniqueIds, new
  <2>6. CASE target.id \notin Listed
    <3>1. /\ new \in Cats /\ Len(new) = Len(catalog) + 1
          /\ new[Len(catalog) + 1] = fresh
          /\ \A l \in 1 .. Len(catalog) : new[l] = catalog[l]
      BY <2>3, <2>4, <2>6 DEF Cats
    <3>2. \A l \in 1 .. Len(catalog) : catalog[l].id # target.id
      BY <2>6 DEF Listed
    <3>3. \A l \in 1 .. Len(new) : l = Len(catalog) + 1 \/ l \in 1 .. Len(catalog)
      BY <3>1 DEF Cats
    <3>4. UniqueIds(new)
      BY <2>3, <3>1, <3>2, <3>3 DEF UniqueIds
    <3> QED
      BY <3>1, <3>4 DEF new
  <2> QED
    BY <2>5, <2>6
<1> QED
  BY <1>1, <1>2

\* Merged is of the kind of what it merges into, whatever that is.
LEMMA MergedIs ==
    ASSUME CatalogKept, NEW cat \in Cats, NEW target \in Targets
    PROVE  Merged(cat, target) \in Cats
<1>1. CASE target.state # "fetched" \/ ~Valid(target)
  BY <1>1 DEF Merged
<1>2. CASE target.state = "fetched" /\ Valid(target)
  <2> DEFINE fresh == [NewSubscription(target.id, target.hwid)
                        EXCEPT !.servers = Refreshed(<<>>, target.response)]
             i == IndexOf(cat, target.id)
  <2>1. <<>> \in Seq(Server) /\ target.response \in Seq(Entries) /\ target.id \in Ids
        /\ target.hwid \in BOOLEAN
    BY DEF Targets, Ids
  <2>2. Refreshed(<<>>, target.response) \in Seq(Server)
    BY <2>1, RefreshedIs
  <2>3. fresh \in Subscription
    BY <2>1, <2>2 DEF NewSubscription, Subscription
  <2>4. Merged(cat, target) =
            IF target.baseline.add
            THEN IF target.id \in Listed THEN [cat EXCEPT ![i] = fresh] ELSE Append(cat, fresh)
            ELSE [cat EXCEPT ![i].servers = Refreshed(cat[i].servers, target.response)]
    BY <1>2 DEF Merged
  <2> HIDE DEF fresh, i
  <2>5. [cat EXCEPT ![i] = fresh] \in Cats /\ Append(cat, fresh) \in Cats
    <3>0. Append(cat, fresh) \in Cats
      BY <2>3 DEF Cats
    <3>1. CASE i \in 1 .. Len(cat)
      BY <2>3, <3>0, <3>1, SeqWith DEF Cats
    <3>2. CASE i \notin 1 .. Len(cat)
      <4>1. DOMAIN cat = 1 .. Len(cat) /\ cat = [x \in 1 .. Len(cat) |-> cat[x]]
        BY DEF Cats
      <4>2. [cat EXCEPT ![i] = fresh] = cat
        BY <3>2, <4>1
      <4> QED
        BY <3>0, <4>2
    <3> QED
      BY <3>1, <3>2
  <2>6. [cat EXCEPT ![i].servers = Refreshed(cat[i].servers, target.response)] \in Cats
    <3>1. CASE i \in 1 .. Len(cat)
      <4>1. cat[i].servers \in Seq(Server)
        BY <3>1, RowsAre
      <4>2. Refreshed(cat[i].servers, target.response) \in Seq(Server)
        BY <2>1, <4>1, RefreshedIs
      <4> QED
        BY <3>1, <4>2, WithServersIs
    <3>2. CASE i \notin 1 .. Len(cat)
      <4>1. DOMAIN cat = 1 .. Len(cat) /\ cat = [x \in 1 .. Len(cat) |-> cat[x]]
        BY DEF Cats
      <4>2. [cat EXCEPT ![i].servers = Refreshed(cat[i].servers, target.response)] = cat
        BY <3>2, <4>1
      <4> QED
        BY <4>2
    <3> QED
      BY <3>1, <3>2
  <2> QED
    BY <2>4, <2>5, <2>6
<1> QED
  BY <1>1, <1>2

\* The targets are merged one after the other.
LEMMA MergedAllBuilt ==
    ASSUME CatalogKept, NEW targets \in Seq(Targets)
    PROVE  \E merged :
             /\ merged[0] = catalog
             /\ \A i \in 1 .. Len(targets) : merged[i] = Merged(merged[i - 1], targets[i])
             /\ MergedAll(targets) = merged[Len(targets)]
<1> DEFINE N == Len(targets)
           G == [p \in Cats \X (1 .. N) |-> Merged(p[1], targets[p[2]])]
           merged == CHOOSE f : f = [n \in 0 .. N |->
                IF n = 0 THEN catalog ELSE Merged(f[n - 1], targets[n])]
<1>1. MergedAll(targets) = merged[N]
  BY DEF MergedAll
<1>2. N \in Nat /\ \A i \in 1 .. N : targets[i] \in Targets
  OBVIOUS
<1>3. Builds(Cats, catalog, N, G)
  <2>1. catalog \in Cats
    BY DEF CatalogKept
  <2>2. G \in [Cats \X (1 .. N) -> Cats]
    BY <1>2, MergedIs
  <2> QED
    BY <1>2, <2>1, <2>2 DEF Builds
<1>4. PICK f : Built(f, Cats, catalog, N, G)
  BY <1>3, RecursionBuilds
<1>5. f = [n \in 0 .. N |-> IF n = 0 THEN catalog ELSE Merged(f[n - 1], targets[n])]
  <2>1. \A i \in 0 .. N : i # 0 => i \in 1 .. N /\ i - 1 \in 0 .. N
    BY <1>2
  <2>2. /\ f \in [0 .. N -> Cats] /\ f[0] = catalog
        /\ \A i \in 1 .. N : f[i] = G[<<f[i - 1], i>>]
    BY <1>4 DEF Built
  <2>3. \A i \in 1 .. N : <<f[i - 1], i>> \in Cats \X (1 .. N)
    BY <1>2, <2>2
  <2>4. \A i \in 1 .. N : G[<<f[i - 1], i>>] = Merged(f[i - 1], targets[i])
    BY <2>3
  <2> HIDE DEF G
  <2>5. \A i \in 0 .. N : f[i] = IF i = 0 THEN catalog ELSE Merged(f[i - 1], targets[i])
    BY <2>1, <2>2, <2>4
  <2> QED
    BY <2>2, <2>5
<1>6. merged = [n \in 0 .. N |-> IF n = 0 THEN catalog ELSE Merged(merged[n - 1], targets[n])]
  BY <1>5
<1>7. /\ merged[0] = catalog
      /\ \A i \in 1 .. N : merged[i] = Merged(merged[i - 1], targets[i])
  <2> HIDE DEF merged, N
  <2>1. \A i \in 0 .. N :
            merged[i] = IF i = 0 THEN catalog ELSE Merged(merged[i - 1], targets[i])
    BY <1>6
  <2> QED
    BY <1>2, <2>1
<1> HIDE DEF merged
<1> QED
  BY <1>1, <1>7

\* The merge of an update keeps the ids of the subscriptions apart.
LEMMA MergedAllIs ==
    ASSUME CatalogKept, NEW u, UpdateIs(u)
    PROVE  MergedAll(u.targets) \in Cats /\ UniqueIds(MergedAll(u.targets))
<1> DEFINE targets == u.targets
           N == Len(targets)
<1>1. /\ targets \in Seq(Targets) /\ N \in Nat
      /\ \A i \in 1 .. N : targets[i] \in Targets /\ (targets[i].baseline.add => N = 1)
  BY DEF UpdateIs
<1> HIDE DEF targets
<1>2. PICK merged :
        /\ merged[0] = catalog
        /\ \A i \in 1 .. N : merged[i] = Merged(merged[i - 1], targets[i])
        /\ MergedAll(targets) = merged[N]
  BY <1>1, MergedAllBuilt
<1>3. CASE \E i \in 1 .. N : targets[i].baseline.add
  <2>1. N = 1 /\ targets[1].baseline.add /\ targets[1] \in Targets
    BY <1>1, <1>3
  <2>2. 1 \in 1 .. N /\ 1 - 1 = 0
    BY <2>1
  <2>3. MergedAll(targets) = Merged(catalog, targets[1])
    BY <1>2, <2>1, <2>2
  <2> QED
    BY <2>1, <2>3, AddKeepsIds DEF targets
<1>4. CASE \A i \in 1 .. N : ~targets[i].baseline.add
  <2> DEFINE S == {n \in Nat : n <= N => SameRows(merged[n])}
  <2>1. 0 \in S
    BY <1>2 DEF SameRows, CatalogKept
  <2>2. ASSUME NEW n \in Nat, n \in S PROVE n + 1 \in S
    <3> SUFFICES ASSUME n + 1 <= N PROVE SameRows(merged[n + 1])
      OBVIOUS
    <3>1. SameRows(merged[n]) /\ n + 1 \in 1 .. N /\ n + 1 - 1 = n
      BY <1>1, <2>2
    <3>2. merged[n + 1] = Merged(merged[n], targets[n + 1])
      BY <1>2, <3>1
    <3> HIDE DEF N
    <3> QED
      BY <1>1, <1>4, <3>1, <3>2, RefreshKeepsRows
  <2> HIDE DEF S
  <2>3. N \in S
    BY <1>1, <2>1, <2>2, NaturalSteps
  <2>4. SameRows(MergedAll(targets))
    BY <1>1, <1>2, <2>3 DEF S
  <2> QED
    BY <2>4 DEF SameRows, CatalogKept, UniqueIds, targets
<1> QED
  BY <1>3, <1>4

-----------------------------------------------------------------------------
\* The invariant

CatalogInv ==
    /\ CatalogKept
    /\ removals \in [Ids -> 0 .. edits] /\ agent \in {"global", "other"}
    /\ edits \in 0 .. MaxEdits /\ updates \in 0 .. MaxUpdates
    /\ update # Unset => UpdateIs(update)
    /\ tunnel # Unset => tunnel \in [servers : SUBSET Entries, runs : BOOLEAN]
    /\ RunningIsListed

\* A listed subscription.
LEMMA SubIs ==
    ASSUME CatalogKept, NEW id \in Listed
    PROVE  /\ IndexOf(catalog, id) \in 1 .. Len(catalog)
           /\ Sub(id) = catalog[IndexOf(catalog, id)]
           /\ Sub(id) \in Subscription /\ Sub(id).id = id
           /\ \A i \in 1 .. Len(catalog) : catalog[i].id = id => i = IndexOf(catalog, id)
           /\ SubIds(id) \subseteq Entries
<1>1. PICK i \in 1 .. Len(catalog) : catalog[i].id = id
  BY DEF Listed
<1>2. /\ IndexOf(catalog, id) \in 1 .. Len(catalog)
      /\ catalog[IndexOf(catalog, id)].id = id
  BY <1>1, IndexIs
<1>3. Sub(id) = catalog[IndexOf(catalog, id)] /\ Sub(id) \in Subscription
  BY <1>2 DEF Sub, CatalogKept, Cats
<1>4. \A k \in 1 .. Len(catalog) : catalog[k].id = id => k = IndexOf(catalog, id)
  BY <1>2 DEF CatalogKept, UniqueIds
<1>5. SubIds(id) \subseteq ServerIds(catalog)
  BY <1>2, <1>3 DEF SubIds, ServerIds
<1>6. SubIds(id) \subseteq Entries
  BY <1>5, ServerIdsAre DEF CatalogKept
<1> QED
  BY <1>2, <1>3, <1>4, <1>6

\* What an update begins with.
LEMMA TargetsAre ==
    ASSUME CatalogInv
    PROVE  /\ \A u \in Urls, hwid \in BOOLEAN : AddTarget(u, hwid) \in Targets
           /\ \A u \in Urls \cap Listed : RefreshTarget(u) \in Targets /\ ~RefreshTarget(u).baseline.add
<1>1. CatalogKept /\ agent \in {"global", "other"} /\ removals \in [Ids -> Nat]
  BY DEF CatalogInv
<1>2. /\ agent \in Agents /\ \A u \in Urls : removals[u] \in Nat
      /\ "waits" \in UpdateStates /\ <<>> \in Seq(Entries)
  BY <1>1 DEF Agents, Ids, UpdateStates
<1>3. ASSUME NEW u \in Urls, NEW hwid \in BOOLEAN PROVE AddTarget(u, hwid) \in Targets
  <2>1. (IF u \in Listed THEN Sub(u) ELSE Unset) \in Subscription \cup {Unset}
    BY <1>1, SubIs
  <2>2. [add |-> TRUE, existing |-> IF u \in Listed THEN Sub(u) ELSE Unset] \in Baselines
    BY <2>1 DEF Baselines
  <2> QED
    BY <1>2, <2>2 DEF AddTarget, Target, Targets
<1>4. ASSUME NEW u \in Urls \cap Listed
      PROVE  RefreshTarget(u) \in Targets /\ ~RefreshTarget(u).baseline.add
  <2>1. Sub(u) \in Subscription /\ SubIds(u) \subseteq Entries
    BY <1>1, SubIs
  <2>2. Sub(u).hwid \in BOOLEAN /\ EffectiveAgent(Sub(u)) \in Agents
    BY <1>2, <2>1 DEF Subscription, EffectiveAgent, Agents
  <2>3. [add |-> FALSE, servers |-> SubIds(u)] \in Baselines
    BY <2>1 DEF Baselines
  <2> QED
    BY <1>2, <2>2, <2>3 DEF RefreshTarget, Target, Targets
<1> QED
  BY <1>3, <1>4

\* An update is prepared.
LEMMA PrepareKeeps ==
    ASSUME CatalogInv, NEW all \in BOOLEAN, NEW targets \in Seq(Targets),
           \A i \in 1 .. Len(targets) : targets[i].baseline.add => Len(targets) = 1,
           Prepare(all, targets)
    PROVE  CatalogInv'
<1>1. /\ update' = [all |-> all, targets |-> targets] /\ updates < MaxUpdates /\ updates' = updates + 1
      /\ UNCHANGED <<catalog, removals, agent, tunnel, edits>>
  BY DEF Prepare
<1>2. UpdateIs(update')
  BY <1>1 DEF UpdateIs
<1>3. updates' \in 0 .. MaxUpdates
  BY <1>1, CatalogAssumption DEF CatalogInv
<1>4. CatalogKept' /\ RunningIsListed'
  BY <1>1 DEF CatalogInv, CatalogKept, RunningIsListed, ServerIds
<1> QED
  BY <1>1, <1>2, <1>3, <1>4 DEF CatalogInv, UpdateIs

\* What starts an update keeps the invariant.
LEMMA PreparesKeep ==
    ASSUME CatalogInv, AddSubscription \/ Refresh \/ RefreshAll
    PROVE  CatalogInv'
<1>1. CASE AddSubscription
  <2>1. PICK u \in Urls, hwid \in BOOLEAN : Prepare(FALSE, <<AddTarget(u, hwid)>>)
    BY <1>1 DEF AddSubscription
  <2>2. AddTarget(u, hwid) \in Targets
    BY TargetsAre
  <2> DEFINE targets == <<AddTarget(u, hwid)>>
  <2>3. targets \in Seq(Targets) /\ Len(targets) = 1
    BY <2>2
  <2> HIDE DEF targets
  <2>4. Prepare(FALSE, targets)
    BY <2>1 DEF targets
  <2> QED
    BY <2>3, <2>4, PrepareKeeps
<1>2. CASE Refresh
  <2>1. PICK u \in Urls \cap Listed : Prepare(FALSE, <<RefreshTarget(u)>>)
    BY <1>2 DEF Refresh
  <2>2. RefreshTarget(u) \in Targets
    BY TargetsAre
  <2> DEFINE targets == <<RefreshTarget(u)>>
  <2>3. targets \in Seq(Targets) /\ Len(targets) = 1
    BY <2>2
  <2> HIDE DEF targets
  <2>4. Prepare(FALSE, targets)
    BY <2>1 DEF targets
  <2> QED
    BY <2>3, <2>4, PrepareKeeps
<1>3. CASE RefreshAll
  <2> DEFINE gone == {sub \in Range(catalog) : sub.id \notin Urls}
             remote == Retained(catalog, gone)
             targets == [i \in 1 .. Len(remote) |-> RefreshTarget(remote[i].id)]
  <2>1. Prepare(TRUE, targets)
    BY <1>3 DEF RefreshAll
  <2>2. catalog \in Seq(Subscription)
    BY DEF CatalogInv, CatalogKept, Cats
  <2>3. \A i \in 1 .. Len(catalog) :
            /\ catalog[i].id \in Listed
            /\ catalog[i] \notin gone => catalog[i].id \in Urls
    <3>1. \A i \in 1 .. Len(catalog) : catalog[i] \in Range(catalog)
      BY <2>2 DEF Range
    <3> QED
      BY <3>1 DEF Listed
  <2> HIDE DEF gone
  <2>4. Left(remote, catalog, Len(catalog), gone, Subscription)
    BY <2>2, RetainedIs
  <2> HIDE DEF remote
  <2>5. /\ Len(remote) \in Nat
        /\ \A i \in 1 .. Len(remote) : remote[i].id \in Urls \cap Listed
    BY <2>3, <2>4 DEF Left
  <2>6. /\ targets \in Seq(Targets) /\ Len(targets) = Len(remote)
        /\ \A i \in 1 .. Len(targets) : ~targets[i].baseline.add
    BY <2>5, TargetsAre
  <2> HIDE DEF targets
  <2> QED
    BY <2>1, <2>6, PrepareKeeps
<1> QED
  BY <1>1, <1>2, <1>3

\* A target that goes on.
After(target, state, response) == [target EXCEPT !.state = state, !.response = response]

\* It is a target still, of the same subscription.
LEMMA TargetWith ==
    ASSUME NEW target \in Targets, NEW state \in UpdateStates, NEW response \in Seq(Entries)
    PROVE  /\ After(target, state, response) \in Targets
           /\ After(target, state, response).state = state
           /\ After(target, state, response).id = target.id
           /\ After(target, state, response).baseline = target.baseline
BY DEF Targets, After

\* Of the targets of an update only one goes on.
LEMMA ResolveKeeps ==
    ASSUME CatalogInv, update # Unset, NEW i \in 1 .. Len(update.targets),
           NEW state \in UpdateStates, NEW response \in Seq(Entries), Resolve(i, state, response)
    PROVE  CatalogInv' /\ update'.targets[i].state = state
           /\ Len(update'.targets) = Len(update.targets)
           /\ \A k \in 1 .. Len(update.targets) :
                /\ k # i => update'.targets[k] = update.targets[k]
                /\ update'.targets[k].id = update.targets[k].id
<1>1. UpdateIs(update)
  BY DEF CatalogInv
<1>2. update.targets \in Seq(Targets) /\ update.targets[i] \in Targets
  BY <1>1 DEF UpdateIs
<1> DEFINE old == update.targets[i]
           list == update.targets
           target == After(old, state, response)
           targets == [list EXCEPT ![i] = target]
<1>3. /\ target \in Targets
      /\ target.state = state /\ target.id = update.targets[i].id
      /\ target.baseline = update.targets[i].baseline
  <2>1. old \in Targets
    BY <1>2
  <2> HIDE DEF old
  <2>2. /\ target \in Targets
        /\ target.state = state /\ target.id = old.id /\ target.baseline = old.baseline
    BY <2>1, TargetWith
  <2> QED
    BY <2>2 DEF old
<1> HIDE DEF target
<1>4. /\ targets \in Seq(Targets)
      /\ Len(targets) = Len(update.targets)
      /\ targets[i] = target
      /\ \A k \in 1 .. Len(update.targets) : k # i => targets[k] = update.targets[k]
  <2>1. list \in Seq(Targets) /\ i \in 1 .. Len(list)
    BY <1>2
  <2> HIDE DEF list
  <2>2. /\ targets \in Seq(Targets)
        /\ Len(targets) = Len(list)
        /\ targets[i] = target
        /\ \A k \in 1 .. Len(list) : k # i => targets[k] = list[k]
    BY <1>3, <2>1, SeqWith
  <2> QED
    BY <2>2 DEF list
<1>5. update' = [update EXCEPT !.targets = targets]
  <2>1. update \in [all : BOOLEAN, targets : Seq(Targets)]
    BY <1>1 DEF UpdateIs
  <2>2. update' = [update EXCEPT !.targets[i].state = state, !.targets[i].response = response]
    BY DEF Resolve
  <2>3. update' = [update EXCEPT !.targets[i] =
                        [update.targets[i] EXCEPT !.state = state, !.response = response]]
    BY <1>2, <2>1, <2>2 DEF Targets
  <2>4. update' = [update EXCEPT !.targets[i] = target]
    BY <2>3 DEF target, After
  <2>5. update' = [update EXCEPT !.targets = [update.targets EXCEPT ![i] = target]]
    BY <2>1, <2>4
  <2> QED
    BY <2>5
<1> HIDE DEF targets
<1>6. update' \in [all : BOOLEAN, targets : Seq(Targets)] /\ update'.targets = targets
  BY <1>1, <1>4, <1>5 DEF UpdateIs
<1>7. UpdateIs(update')
  <2>1. \A k \in 1 .. Len(targets) : targets[k].baseline.add => Len(targets) = 1
    BY <1>1, <1>3, <1>4 DEF UpdateIs
  <2> QED
    BY <1>6, <2>1 DEF UpdateIs
<1>8. UNCHANGED <<catalog, removals, agent, tunnel, edits, updates>>
  BY DEF Resolve
<1>9. CatalogKept' /\ RunningIsListed'
  BY <1>8 DEF CatalogInv, CatalogKept, RunningIsListed, ServerIds
<1>10. CatalogInv'
  BY <1>7, <1>8, <1>9 DEF CatalogInv, UpdateIs
<1> QED
  BY <1>3, <1>4, <1>6, <1>10

\* The target that a request or a response is about.
LEMMA CurrentIs ==
    ASSUME CatalogInv, update # Unset, Pending # {}
    PROVE  Current \in 1 .. Len(update.targets) /\ update.targets[Current] \in Targets
<1>1. update.targets \in Seq(Targets) /\ Len(update.targets) \in Nat
  BY DEF CatalogInv, UpdateIs
<1>2. Pending \in SUBSET Nat /\ Pending \subseteq 1 .. Len(update.targets)
  BY <1>1 DEF Pending
<1>3. Current \in Pending
  BY <1>2, LeastIs DEF Current
<1> QED
  BY <1>1, <1>2, <1>3

\* A request leaves, and is answered.
LEMMA RequestKeeps ==
    ASSUME CatalogInv, Request \/ Respond
    PROVE  /\ CatalogInv'
           /\ update # Unset /\ Len(update'.targets) = Len(update.targets)
           /\ \A k \in 1 .. Len(update.targets) :
                update.targets[k].state = "waits" /\ update'.targets[k].state = "fetches" =>
                    Valid(update.targets[k])
<1>1. CASE Request
  <2> DEFINE state == IF Valid(update.targets[Current]) THEN "fetches" ELSE "failed"
  <2>1. update # Unset /\ Pending # {} /\ Resolve(Current, state, <<>>)
    BY <1>1 DEF Request
  <2>2. state \in UpdateStates /\ <<>> \in Seq(Entries)
    BY DEF UpdateStates
  <2>3. Current \in 1 .. Len(update.targets)
    BY <2>1, CurrentIs
  <2>4. state = "fetches" => Valid(update.targets[Current])
    OBVIOUS
  <2> HIDE DEF state
  <2>5. /\ CatalogInv' /\ update'.targets[Current].state = state
        /\ Len(update'.targets) = Len(update.targets)
        /\ \A k \in 1 .. Len(update.targets) :
                k # Current => update'.targets[k] = update.targets[k]
    BY <2>1, <2>2, <2>3, ResolveKeeps
  <2> QED
    BY <2>1, <2>4, <2>5
<1>2. CASE Respond
  <2>1. /\ update # Unset /\ Pending # {} /\ update.targets[Current].state = "fetches"
        /\ Current \in 1 .. Len(update.targets) /\ update.targets[Current] \in Targets
    BY <1>2, CurrentIs DEF Respond
  <2>2. PICK state \in UpdateStates, response \in Seq(Entries) : Resolve(Current, state, response)
    <3>1. CASE \E entries \in Feed[update.targets[Current].id] : Resolve(Current, "fetched", entries)
      <4>1. PICK entries \in Feed[update.targets[Current].id] : Resolve(Current, "fetched", entries)
        BY <3>1
      <4>2. update.targets[Current].id \in Urls
        BY <2>1 DEF Targets
      <4>3. entries \in Seq(Entries) /\ "fetched" \in UpdateStates
        BY <4>2, CatalogAssumption DEF UpdateStates
      <4> QED
        BY <4>1, <4>3
    <3>2. CASE Resolve(Current, "failed", <<>>)
      <4>1. <<>> \in Seq(Entries) /\ "failed" \in UpdateStates
        BY DEF UpdateStates
      <4> QED
        BY <3>2, <4>1
    <3> QED
      BY <1>2, <3>1, <3>2 DEF Respond
  <2>3. /\ CatalogInv' /\ Len(update'.targets) = Len(update.targets)
        /\ \A k \in 1 .. Len(update.targets) :
                k # Current => update'.targets[k] = update.targets[k]
    BY <2>1, <2>2, ResolveKeeps
  <2> QED
    BY <2>1, <2>3
<1> QED
  BY <1>1, <1>2

\* An update is merged, and the sessions that lost a server end.
LEMMA ApplyKeeps ==
    ASSUME CatalogInv, Apply
    PROVE  CatalogInv'
<1> DEFINE merged == MergedAll(update.targets)
<1>1. update # Unset /\ UpdateIs(update)
  BY DEF Apply, CatalogInv
<1>2. merged \in Cats /\ UniqueIds(merged)
  BY <1>1, MergedAllIs DEF CatalogInv
<1> DEFINE new == AssignAliases(merged)
<1>3. \/ /\ catalog' = new
         /\ tunnel' = IF tunnel = Unset THEN Unset ELSE Reconciled(merged)
      \/ UNCHANGED <<catalog, tunnel>>
  BY DEF Apply
<1>4. update' = Unset /\ UNCHANGED <<removals, agent, edits, updates>>
  BY DEF Apply
<1> HIDE DEF merged
<1>5. /\ new \in Cats /\ UniqueIds(new) /\ Unique(new) /\ ServerIds(new) = ServerIds(merged)
  <2>1. Alike(new, merged) /\ Unique(new)
    BY <1>2, AssignedIs
  <2> HIDE DEF new
  <2> QED
    BY <1>2, <2>1, AlikeLists DEF Alike
<1> HIDE DEF new
<1>6. CASE UNCHANGED <<catalog, tunnel>>
  <2>1. CatalogKept' /\ RunningIsListed'
    BY <1>6 DEF CatalogInv, CatalogKept, RunningIsListed, ServerIds
  <2> QED
    BY <1>4, <1>6, <2>1 DEF CatalogInv
<1>7. CASE /\ catalog' = new
           /\ tunnel' = IF tunnel = Unset THEN Unset ELSE Reconciled(merged)
  <2>1. CatalogKept'
    BY <1>5, <1>7 DEF CatalogKept
  <2>2. tunnel' # Unset =>
            /\ tunnel # Unset /\ tunnel' = tunnel
            /\ tunnel.runs => tunnel.servers \cap (tunnel.servers \ ServerIds(merged)) = {}
    BY <1>7 DEF Reconciled, Without
  <2>3. RunningIsListed'
    BY <1>5, <1>7, <2>2 DEF RunningIsListed
  <2>4. tunnel' # Unset => tunnel' \in [servers : SUBSET Entries, runs : BOOLEAN]
    BY <2>2 DEF CatalogInv
  <2> QED
    BY <1>4, <2>1, <2>3, <2>4 DEF CatalogInv
<1> QED
  BY <1>3, <1>6, <1>7

-----------------------------------------------------------------------------
\* Edits

\* An edit of the catalog that loses no server.
LEMMA EditKeeps ==
    ASSUME CatalogInv, Edit, UNCHANGED <<removals, agent, update, tunnel>>,
           catalog' \in Cats, UniqueIds(catalog'), Unique(catalog'),
           ServerIds(catalog) \subseteq ServerIds(catalog')
    PROVE  CatalogInv'
<1>1. CatalogKept' /\ RunningIsListed'
  BY DEF CatalogInv, CatalogKept, RunningIsListed
<1>2. edits' \in 0 .. MaxEdits /\ removals' \in [Ids -> 0 .. edits'] /\ updates' = updates
  <2>1. edits \in Nat /\ edits < MaxEdits /\ edits' = edits + 1 /\ updates' = updates
    BY DEF CatalogInv, Edit
  <2>2. edits' \in 0 .. MaxEdits /\ 0 .. edits \subseteq 0 .. edits'
    BY <2>1, CatalogAssumption
  <2>3. removals \in [Ids -> 0 .. edits] /\ removals' = removals
    BY DEF CatalogInv
  <2> QED
    BY <2>1, <2>2, <2>3
<1> QED
  BY <1>1, <1>2 DEF CatalogInv, UpdateIs

\* One that changes nothing.
LEMMA NoEditKeeps ==
    ASSUME CatalogInv, Edit, UNCHANGED <<catalog, removals, agent, update, tunnel>>
    PROVE  CatalogInv'
<1>1. catalog' \in Cats /\ UniqueIds(catalog') /\ Unique(catalog')
      /\ ServerIds(catalog) \subseteq ServerIds(catalog')
  BY DEF CatalogInv, CatalogKept
<1> QED
  BY <1>1, EditKeeps

\* One that puts a server in the place of one with the same id, under a handle that
\* nobody else has.
LEMMA OneServerChanges ==
    ASSUME CatalogInv, Edit, UNCHANGED <<removals, agent, update, tunnel>>,
           NEW p \in Positions(catalog), NEW server \in Server,
           server.id = ServerAt(catalog, p).id, server.alias # Unset,
           \A q \in Positions(catalog) \ {p} : ServerAt(catalog, q).alias # server.alias,
           catalog' = WithServer(catalog, p, server)
    PROVE  CatalogInv'
<1> DEFINE new == WithServer(catalog, p, server)
<1>1. catalog \in Cats /\ UniqueIds(catalog) /\ Unique(catalog)
  BY DEF CatalogInv, CatalogKept
<1>2. /\ new \in Cats /\ Len(new) = Len(catalog)
      /\ \A i \in 1 .. Len(catalog) : new[i].id = catalog[i].id
      /\ Positions(new) = Positions(catalog)
      /\ \A q \in Positions(catalog) :
            ServerAt(new, q) = IF q = p THEN server ELSE ServerAt(catalog, q)
  BY <1>1, WithServerIs
<1>3. catalog' = new
  OBVIOUS
<1> HIDE DEF new
<1>4. UniqueIds(new)
  BY <1>1, <1>2 DEF UniqueIds
<1>5. Unique(new)
  <2> SUFFICES ASSUME NEW q \in Positions(catalog), NEW r \in Positions(catalog)
               PROVE  /\ ServerAt(new, q).alias # Unset
                      /\ ServerAt(new, q).alias = ServerAt(new, r).alias => q = r
    BY <1>2 DEF Unique
  <2>1. CASE q # p /\ r # p
    BY <1>1, <1>2, <2>1 DEF Unique
  <2>2. CASE q = p /\ r = p
    BY <1>2, <2>2
  <2>3. CASE q = p /\ r # p
    BY <1>2, <2>3
  <2>4. CASE q # p /\ r = p
    BY <1>1, <1>2, <2>4 DEF Unique
  <2> QED
    BY <2>1, <2>2, <2>3, <2>4
<1>6. ServerIds(new) = ServerIds(catalog)
  <2>1. \A q \in Positions(catalog) : ServerAt(new, q).id = ServerAt(catalog, q).id
    BY <1>2
  <2>2. ServerIds(catalog) = {ServerAt(catalog, q).id : q \in Positions(catalog)}
    BY <1>1, ServerIdsAre
  <2>3. ServerIds(new) = {ServerAt(new, q).id : q \in Positions(catalog)}
    BY <1>2, ServerIdsAre
  <2> QED
    BY <2>1, <2>2, <2>3
<1> QED
  BY <1>2, <1>3, <1>4, <1>5, <1>6, EditKeeps

\* Where a server of an id is.
LEMMA FindIs ==
    ASSUME CatalogInv, NEW id \in ServerIds(catalog)
    PROVE  /\ Find(catalog, id) \in Positions(catalog)
           /\ ServerAt(catalog, Find(catalog, id)).id = id
           /\ ServerAt(catalog, Find(catalog, id)) \in Server
           /\ ServerAt(catalog, Find(catalog, id)).alias # Unset
           /\ \A q \in Positions(catalog) \ {Find(catalog, id)} :
                ServerAt(catalog, q).alias # ServerAt(catalog, Find(catalog, id)).alias
<1> DEFINE P == {p \in Positions(catalog) : ServerAt(catalog, p).id = id}
<1>1. catalog \in Cats /\ Unique(catalog)
  BY DEF CatalogInv, CatalogKept
<1>2. P # {} /\ P \in SUBSET (Nat \X Nat)
  BY <1>1, ServerIdsAre, PositionIs
<1>3. Find(catalog, id) \in P
  BY <1>2, FirstIs DEF Find
<1>4. Find(catalog, id) \in Positions(catalog) /\ ServerAt(catalog, Find(catalog, id)).id = id
  BY <1>3
<1> QED
  BY <1>1, <1>4, PositionIs DEF Unique

\* What an edit makes of a server.
LEMMA EditedIs ==
    ASSUME NEW server \in Server, NEW isLocal \in BOOLEAN, NEW value \in Fields
    PROVE  /\ Edited(server, isLocal, value) \in Server
           /\ Edited(server, isLocal, value).id = server.id
           /\ Edited(server, isLocal, value).alias = server.alias
<1>1. value # Unset /\ server.field # Unset
  BY CatalogAssumption DEF Server
<1>2. CASE isLocal \/ value = server.field
  BY <1>2 DEF Edited, Server
<1>3. CASE ~(isLocal \/ value = server.field)
  <2> DEFINE base == IF server.override = Unset THEN server.field ELSE server.base
             settled == value = base
  <2>1. base \in Fields /\ base # Unset
    BY <1>1 DEF Server
  <2>2. Edited(server, isLocal, value) =
            [server EXCEPT !.field = value,
                           !.override = IF settled THEN Unset ELSE value,
                           !.base = IF settled THEN Unset ELSE base]
    BY <1>3 DEF Edited
  <2> HIDE DEF base
  <2> QED
    BY <1>1, <2>1, <2>2 DEF Server
<1> QED
  BY <1>2, <1>3

\* Edits of one server.
LEMMA ServerEditsKeep ==
    ASSUME CatalogInv, UpdateServer \/ DropOverride \/ TrustCertificate \/ SetServerAlias
    PROVE  CatalogInv'
<1>1. Edit /\ UNCHANGED <<removals, agent, update, tunnel>>
  BY DEF UpdateServer, DropOverride, TrustCertificate, SetServerAlias
<1>2. CASE UpdateServer
  <2>1. PICK id \in ServerIds(catalog), entry \in Drafts :
            LET p == Find(catalog, id)
            IN  \/ catalog' = catalog
                \/ catalog' = WithServer(catalog, p,
                    Edited(ServerAt(catalog, p), catalog[p[1]].id = Local, entry.field))
    BY <1>2 DEF UpdateServer
  <2> DEFINE p == Find(catalog, id)
             new == Edited(ServerAt(catalog, p), catalog[p[1]].id = Local, entry.field)
  <2>2. /\ p \in Positions(catalog) /\ ServerAt(catalog, p) \in Server
        /\ ServerAt(catalog, p).alias # Unset
        /\ \A q \in Positions(catalog) \ {p} : ServerAt(catalog, q).alias # ServerAt(catalog, p).alias
    BY FindIs
  <2>3. entry.field \in Fields
    BY DEF Fields, Entries
  <2>4. new \in Server /\ new.id = ServerAt(catalog, p).id /\ new.alias = ServerAt(catalog, p).alias
    BY <2>2, <2>3, EditedIs
  <2>5. CASE catalog' = catalog
    BY <1>1, <2>5, NoEditKeeps
  <2>6. CASE catalog' = WithServer(catalog, p, new)
    <3> HIDE DEF p, new
    <3> QED
      BY <1>1, <2>2, <2>4, <2>6, OneServerChanges
  <2> QED
    BY <2>1, <2>5, <2>6
<1>3. CASE DropOverride
  <2>1. PICK id \in ServerIds(catalog) :
            LET p == Find(catalog, id)
                server == ServerAt(catalog, p)
            IN  /\ server.override # Unset
                /\ catalog' = WithServer(catalog, p,
                    [server EXCEPT !.field = server.base, !.override = Unset, !.base = Unset])
    BY <1>3 DEF DropOverride
  <2> DEFINE p == Find(catalog, id)
             server == ServerAt(catalog, p)
             new == [server EXCEPT !.field = server.base, !.override = Unset, !.base = Unset]
  <2>2. /\ p \in Positions(catalog) /\ server \in Server /\ server.alias # Unset
        /\ \A q \in Positions(catalog) \ {p} : ServerAt(catalog, q).alias # server.alias
    BY FindIs
  <2>3. server.override # Unset /\ catalog' = WithServer(catalog, p, new)
    BY <2>1
  <2>4. new \in Server /\ new.id = server.id /\ new.alias = server.alias
    <3> HIDE DEF server
    <3> QED
      BY <2>2, <2>3 DEF Server
  <2> HIDE DEF p, new
  <2> QED
    BY <1>1, <2>2, <2>3, <2>4, OneServerChanges
<1>4. CASE TrustCertificate
  <2>1. PICK id \in ServerIds(catalog) :
            LET p == Find(catalog, id)
            IN  catalog' = WithServer(catalog, p, [ServerAt(catalog, p) EXCEPT !.pin = TRUE])
    BY <1>4 DEF TrustCertificate
  <2> DEFINE p == Find(catalog, id)
             server == ServerAt(catalog, p)
             new == [server EXCEPT !.pin = TRUE]
  <2>2. /\ p \in Positions(catalog) /\ server \in Server /\ server.alias # Unset
        /\ \A q \in Positions(catalog) \ {p} : ServerAt(catalog, q).alias # server.alias
    BY FindIs
  <2>3. catalog' = WithServer(catalog, p, new)
    BY <2>1
  <2>4. new \in Server /\ new.id = server.id /\ new.alias = server.alias
    <3> HIDE DEF server
    <3> QED
      BY <2>2 DEF Server
  <2> HIDE DEF p, new
  <2> QED
    BY <1>1, <2>2, <2>3, <2>4, OneServerChanges
<1>5. CASE SetServerAlias
  <2>1. PICK id \in ServerIds(catalog), handle \in Handles :
            LET p == Find(catalog, id)
            IN  /\ \A q \in Positions(catalog) \ {p} : ServerAt(catalog, q).alias # handle
                /\ catalog' = WithServer(catalog, p, [ServerAt(catalog, p) EXCEPT !.alias = handle])
    BY <1>5 DEF SetServerAlias
  <2> DEFINE p == Find(catalog, id)
             server == ServerAt(catalog, p)
             new == [server EXCEPT !.alias = handle]
  <2>2. p \in Positions(catalog) /\ server \in Server
    BY FindIs
  <2>3. /\ \A q \in Positions(catalog) \ {p} : ServerAt(catalog, q).alias # handle
        /\ catalog' = WithServer(catalog, p, new)
    BY <2>1
  <2>4. handle \in Aliases /\ handle # Unset
    BY CatalogAssumption DEF Aliases
  <2>5. new \in Server /\ new.id = server.id /\ new.alias = handle
    <3> HIDE DEF server
    <3> QED
      BY <2>2, <2>4 DEF Server
  <2> HIDE DEF p, new
  <2> QED
    BY <1>1, <2>2, <2>3, <2>4, <2>5, OneServerChanges
<1> QED
  BY <1>2, <1>3, <1>4, <1>5

\* Edits of a subscription leave its servers alone.
LEMMA SubscriptionEditsKeep ==
    ASSUME CatalogInv, SetHwid \/ SetSubscriptionUserAgent
    PROVE  CatalogInv'
<1>1. Edit /\ UNCHANGED <<removals, agent, update, tunnel>>
  BY DEF SetHwid, SetSubscriptionUserAgent
<1>2. catalog \in Cats /\ UniqueIds(catalog) /\ Unique(catalog)
  BY DEF CatalogInv, CatalogKept
<1>3. \E k \in 1 .. Len(catalog), sub \in Subscription :
        /\ sub.id = catalog[k].id /\ sub.servers = catalog[k].servers
        /\ catalog' = [catalog EXCEPT ![k] = sub]
  <2>1. CASE SetHwid
    <3>1. PICK id \in Listed, enabled \in BOOLEAN :
            catalog' = [catalog EXCEPT ![IndexOf(catalog, id)].hwid = enabled]
      BY <2>1 DEF SetHwid
    <3>2. PICK k \in 1 .. Len(catalog) : k = IndexOf(catalog, id)
      BY SubIs DEF CatalogInv
    <3>3. PICK sub \in Subscription :
            /\ sub = [catalog[k] EXCEPT !.hwid = enabled]
            /\ sub.id = catalog[k].id /\ sub.servers = catalog[k].servers
      BY <1>2, RowsAre, RowWith
    <3> QED
      BY <3>1, <3>2, <3>3
  <2>2. CASE SetSubscriptionUserAgent
    <3>1. PICK id \in Listed, own \in {Unset, "own"} :
            catalog' = [catalog EXCEPT ![IndexOf(catalog, id)].agent = own]
      BY <2>2 DEF SetSubscriptionUserAgent
    <3>2. PICK k \in 1 .. Len(catalog) : k = IndexOf(catalog, id)
      BY SubIs DEF CatalogInv
    <3>3. PICK sub \in Subscription :
            /\ sub = [catalog[k] EXCEPT !.agent = own]
            /\ sub.id = catalog[k].id /\ sub.servers = catalog[k].servers
      BY <1>2, RowsAre, RowWith
    <3> QED
      BY <3>1, <3>2, <3>3
  <2> QED
    BY <2>1, <2>2
<1>4. PICK k \in 1 .. Len(catalog), sub \in Subscription :
        /\ sub.id = catalog[k].id /\ sub.servers = catalog[k].servers
        /\ catalog' = [catalog EXCEPT ![k] = sub]
  BY <1>3
<1>5. /\ catalog' \in Cats /\ Len(catalog') = Len(catalog)
      /\ \A i \in 1 .. Len(catalog) :
            catalog'[i].id = catalog[i].id /\ catalog'[i].servers = catalog[i].servers
  BY <1>2, <1>4 DEF Cats
<1> DEFINE new == catalog'
<1>6. new \in Cats /\ Len(new) = Len(catalog)
      /\ \A i \in 1 .. Len(catalog) : new[i].id = catalog[i].id /\ new[i].servers = catalog[i].servers
  BY <1>5
<1> HIDE DEF new
<1>7. UniqueIds(new)
  BY <1>2, <1>6 DEF UniqueIds
<1>8. Positions(new) = Positions(catalog)
  BY <1>6 DEF Positions
<1>9. \A p \in Positions(catalog) : ServerAt(new, p) = ServerAt(catalog, p)
  BY <1>2, <1>6, PositionIs DEF ServerAt
<1>10. Unique(new)
  BY <1>2, <1>8, <1>9 DEF Unique
<1>11. ServerIds(new) = ServerIds(catalog)
  <2>1. ServerIds(catalog) = {ServerAt(catalog, q).id : q \in Positions(catalog)}
    BY <1>2, ServerIdsAre
  <2>2. ServerIds(new) = {ServerAt(new, q).id : q \in Positions(catalog)}
    BY <1>6, <1>8, ServerIdsAre
  <2> QED
    BY <1>9, <2>1, <2>2
<1> QED
  BY <1>1, <1>6, <1>7, <1>10, <1>11, EditKeeps DEF new

\* A subscription that is new has no servers.
LEMMA NewIs ==
    ASSUME NEW id \in Ids, NEW hwid \in BOOLEAN
    PROVE  /\ NewSubscription(id, hwid) \in Subscription
           /\ NewSubscription(id, hwid).id = id /\ NewSubscription(id, hwid).servers = <<>>
<1>1. <<>> \in Seq(Server)
  OBVIOUS
<1> HIDE DEF Server
<1> QED
  BY <1>1 DEF NewSubscription, Subscription

\* A sequence with one more in front.
LEMMA SeqFront ==
    ASSUME NEW S, NEW s \in Seq(S), NEW x \in S
    PROVE  /\ <<x>> \o s \in Seq(S) /\ Len(<<x>> \o s) = Len(s) + 1
           /\ (<<x>> \o s)[1] = x
           /\ \A i \in 1 .. Len(s) : (<<x>> \o s)[i + 1] = s[i]
<1>1. <<x>> \in Seq(S) /\ Len(<<x>>) = 1 /\ <<x>>[1] = x /\ Len(s) \in Nat
  OBVIOUS
<1> DEFINE h == <<x>>
<1>2. h \in Seq(S) /\ Len(h) = 1 /\ h[1] = x
  BY <1>1
<1> HIDE DEF h
<1>3. /\ h \o s \in Seq(S) /\ Len(h \o s) = Len(s) + 1 /\ (h \o s)[1] = x
      /\ \A i \in 1 .. Len(s) : (h \o s)[i + 1] = s[i]
  <2>1. /\ h \o s \in Seq(S) /\ Len(h \o s) = Len(h) + Len(s)
        /\ \A i \in 1 .. Len(h) + Len(s) :
              (h \o s)[i] = IF i <= Len(h) THEN h[i] ELSE s[i - Len(h)]
    BY <1>2, ConcatProperties
  <2> DEFINE c == h \o s
  <2>2. /\ c \in Seq(S) /\ Len(c) = 1 + Len(s)
        /\ \A i \in 1 .. 1 + Len(s) : c[i] = IF i <= 1 THEN h[i] ELSE s[i - 1]
    BY <1>2, <2>1
  <2> HIDE DEF c
  <2>3. c[1] = x
    BY <1>1, <1>2, <2>2
  <2>4. ASSUME NEW i \in 1 .. Len(s) PROVE c[i + 1] = s[i]
    <3>1. i + 1 \in 1 .. 1 + Len(s) /\ ~(i + 1 <= 1) /\ i + 1 - 1 = i
      BY <1>1
    <3> QED
      BY <2>2, <3>1
  <2>5. Len(c) = Len(s) + 1
    BY <1>1, <2>2
  <2>6. /\ c \in Seq(S) /\ Len(c) = Len(s) + 1 /\ c[1] = x
        /\ \A i \in 1 .. Len(s) : c[i + 1] = s[i]
    BY <2>2, <2>3, <2>4, <2>5
  <2> QED
    BY <2>6 DEF c
<1> QED
  BY <1>3 DEF h

\* The local group comes first when it is new.
LEMMA WithLocalIs ==
    ASSUME CatalogInv
    PROVE  /\ WithLocal(catalog) \in Cats /\ UniqueIds(WithLocal(catalog))
           /\ ServerIds(catalog) \subseteq ServerIds(WithLocal(catalog))
           /\ IndexOf(WithLocal(catalog), Local) \in 1 .. Len(WithLocal(catalog))
           /\ WithLocal(catalog)[IndexOf(WithLocal(catalog), Local)].id = Local
           /\ Local \notin Listed =>
                WithLocal(catalog)[IndexOf(WithLocal(catalog), Local)].servers = <<>>
<1>1. catalog \in Cats /\ UniqueIds(catalog)
  BY DEF CatalogInv, CatalogKept
<1>2. CASE Local \in Listed
  <2>1. PICK i \in 1 .. Len(catalog) : catalog[i].id = Local
    BY <1>2 DEF Listed
  <2>2. WithLocal(catalog) = catalog
    BY <1>2 DEF WithLocal
  <2> QED
    BY <1>1, <1>2, <2>1, <2>2, IndexIs
<1>3. CASE Local \notin Listed
  <2>1. PICK sub \in Subscription : sub = NewSubscription(Local, FALSE) /\ sub.id = Local /\ sub.servers = <<>>
    <3>1. <<>> \in Seq(Server) /\ Local \in Ids
      BY DEF Ids
    <3> QED
      BY <3>1, NewIs
  <2> DEFINE new == <<sub>> \o catalog
  <2>2. /\ new \in Cats /\ Len(new) = Len(catalog) + 1
        /\ new[1] = sub
        /\ \A i \in 1 .. Len(catalog) : new[i + 1] = catalog[i]
    BY <1>1, SeqFront DEF Cats
  <2> HIDE DEF new
  <2>3. WithLocal(catalog) = new
    BY <1>3, <2>1 DEF WithLocal, new
  <2>4. Len(catalog) \in Nat /\ \A i \in 1 .. Len(catalog) : catalog[i].id # Local
    BY <1>1, <1>3 DEF Listed, Cats
  <2>5. \A i \in 1 .. Len(new) : i = 1 \/ \E j \in 1 .. Len(catalog) : i = j + 1
    <3>1. ASSUME NEW i \in 1 .. Len(new), i # 1 PROVE \E j \in 1 .. Len(catalog) : i = j + 1
      <4>1. i - 1 \in 1 .. Len(catalog) /\ i = (i - 1) + 1
        BY <2>2, <2>4, <3>1
      <4> QED
        BY <4>1
    <3> QED
      BY <3>1
  <2>6. 1 \in 1 .. Len(new) /\ new[1].id = Local
    <3>1. Len(new) \in Nat /\ 1 <= Len(new)
      BY <2>2, <2>4
    <3>2. new[1].id = Local
      BY <2>1, <2>2
    <3>3. 1 \in 1 .. Len(new)
      BY <3>1
    <3> QED
      BY <3>2, <3>3
  <2>7. \A i \in 1 .. Len(new) : i # 1 => new[i].id # Local
    BY <2>2, <2>4, <2>5
  <2>8. UniqueIds(new)
    <3> SUFFICES ASSUME NEW i \in 1 .. Len(new), NEW j \in 1 .. Len(new), new[i].id = new[j].id
                 PROVE  i = j
      BY DEF UniqueIds
    <3>1. CASE i = 1 \/ j = 1
      BY <2>6, <2>7, <3>1
    <3>2. CASE i # 1 /\ j # 1
      <4>1. PICK k \in 1 .. Len(catalog) : i = k + 1
        BY <2>5, <3>2
      <4>2. PICK l \in 1 .. Len(catalog) : j = l + 1
        BY <2>5, <3>2
      <4>3. catalog[k].id = catalog[l].id
        BY <2>2, <4>1, <4>2
      <4> QED
        BY <1>1, <4>1, <4>2, <4>3 DEF UniqueIds
    <3> QED
      BY <3>1, <3>2
  <2>9. ServerIds(catalog) \subseteq ServerIds(new)
    <3>1. \A i \in 1 .. Len(catalog) : i + 1 \in 1 .. Len(new) /\ new[i + 1] = catalog[i]
      BY <2>2, <2>4
    <3> QED
      BY <3>1 DEF ServerIds
  <2>10. IndexOf(new, Local) \in 1 .. Len(new) /\ new[IndexOf(new, Local)].id = Local
    BY <2>6, IndexIs
  <2>11. IndexOf(new, Local) = 1
    BY <2>7, <2>10
  <2> QED
    BY <2>1, <2>2, <2>3, <2>8, <2>9, <2>10, <2>11
<1> QED
  BY <1>2, <1>3

\* A sequence with one more at the end.
LEMMA SeqBack ==
    ASSUME NEW S, NEW s \in Seq(S), NEW x \in S
    PROVE  /\ Append(s, x) \in Seq(S) /\ Len(Append(s, x)) = Len(s) + 1
           /\ Append(s, x)[Len(s) + 1] = x
           /\ \A i \in 1 .. Len(s) : Append(s, x)[i] = s[i]
OBVIOUS

\* A new server comes last in the local group, and gets a handle of its own.
LEMMA CreateServerKeeps ==
    ASSUME CatalogInv, CreateServer
    PROVE  CatalogInv'
<1> DEFINE cat == WithLocal(catalog)
           i == IndexOf(cat, Local)
<1>1. Edit /\ UNCHANGED <<removals, agent, update, tunnel>>
  BY DEF CreateServer
<1>2. PICK draft \in Drafts :
        catalog' = IF \E s \in Range(cat[i].servers) : s.id = draft THEN cat
                   ELSE AssignAliases([cat EXCEPT ![i].servers = Append(cat[i].servers, Parsed(draft))])
  BY DEF CreateServer
<1>3. /\ cat \in Cats /\ UniqueIds(cat) /\ ServerIds(catalog) \subseteq ServerIds(cat)
      /\ i \in 1 .. Len(cat) /\ cat[i].id = Local
      /\ Local \notin Listed => cat[i].servers = <<>>
      /\ Local \in Listed => cat = catalog
  BY WithLocalIs DEF WithLocal
<1> HIDE DEF cat, i
<1>4. CASE \E s \in Range(cat[i].servers) : s.id = draft
  <2>1. Local \in Listed
    <3> SUFFICES ASSUME cat[i].servers = <<>> PROVE FALSE
      BY <1>3
    <3> QED
      BY <1>4 DEF Range
  <2> QED
    BY <1>1, <1>2, <1>3, <1>4, <2>1, NoEditKeeps
<1>5. CASE ~\E s \in Range(cat[i].servers) : s.id = draft
  <2>1. Parsed(draft) \in Server
    BY ParsedIs DEF Entries
  <2> DEFINE servers == Append(cat[i].servers, Parsed(draft))
  <2>2. /\ servers \in Seq(Server)
        /\ Len(servers) = Len(cat[i].servers) + 1
        /\ \A j \in 1 .. Len(cat[i].servers) : servers[j] = cat[i].servers[j]
    <3>1. cat[i].servers \in Seq(Server)
      BY <1>3, RowsAre
    <3> QED
      BY <2>1, <3>1, SeqBack
  <2> DEFINE more == [cat EXCEPT ![i].servers = servers]
             new == AssignAliases(more)
  <2>4. catalog' = new
    BY <1>2, <1>5
  <2> HIDE DEF servers
  <2>3. /\ more \in Cats /\ Len(more) = Len(cat) /\ more[i].servers = servers
        /\ \A k \in 1 .. Len(cat) : more[k].id = cat[k].id /\ (k # i => more[k] = cat[k])
    BY <1>3, <2>2, WithServersIs
  <2> HIDE DEF more
  <2>5. UniqueIds(more)
    BY <1>3, <2>3 DEF UniqueIds
  <2>6. ServerIds(cat) \subseteq ServerIds(more)
    <3> SUFFICES ASSUME NEW p \in Positions(cat) PROVE ServerAt(cat, p).id \in ServerIds(more)
      BY <1>3, ServerIdsAre
    <3> DEFINE k == p[1]
               j == p[2]
    <3>1. /\ k \in 1 .. Len(cat) /\ j \in 1 .. Len(cat[k].servers)
          /\ ServerAt(cat, p) = cat[k].servers[j]
      BY <1>3, PositionIs
    <3> HIDE DEF k, j
    <3>2. j \in 1 .. Len(more[k].servers) /\ more[k].servers[j] = cat[k].servers[j]
      <4>1. CASE k = i
        <5>1. Len(cat[i].servers) \in Nat
          BY <1>3, RowsAre
        <5> QED
          BY <2>2, <2>3, <3>1, <4>1, <5>1
      <4>2. CASE k # i
        BY <2>3, <3>1, <4>2
      <4> QED
        BY <4>1, <4>2
    <3>3. <<k, j>> \in Positions(more) /\ ServerAt(more, <<k, j>>) = more[k].servers[j]
      BY <2>3, <3>1, <3>2, PositionIs DEF ServerAt
    <3> QED
      BY <2>3, <3>1, <3>2, <3>3, ServerIdsAre
  <2>7. Alike(new, more) /\ Unique(new)
    BY <2>3, AssignedIs
  <2> HIDE DEF new
  <2>8. new \in Cats /\ UniqueIds(new) /\ ServerIds(new) = ServerIds(more)
    BY <2>5, <2>7, AlikeLists DEF Alike
  <2> QED
    BY <1>1, <1>3, <2>4, <2>6, <2>7, <2>8, EditKeeps
<1> QED
  BY <1>4, <1>5

\* A removal ends the sessions on what it takes away.
LEMMA RemovalKeeps ==
    ASSUME CatalogInv, Edit, agent' = agent,
           removals' \in [Ids -> 0 .. edits + 1],
           update' # Unset => UpdateIs(update'),
           catalog' \in Cats, UniqueIds(catalog'), Unique(catalog'),
           NEW gone, tunnel' = Without(gone), ServerIds(catalog) \ gone \subseteq ServerIds(catalog')
    PROVE  CatalogInv'
<1>1. CatalogKept'
  BY DEF CatalogKept
<1>2. edits' \in 0 .. MaxEdits /\ removals' \in [Ids -> 0 .. edits'] /\ updates' = updates
  <2>1. edits \in Nat /\ edits < MaxEdits /\ edits' = edits + 1 /\ updates' = updates
    BY DEF CatalogInv, Edit
  <2> QED
    BY <2>1, CatalogAssumption
<1>3. tunnel' # Unset =>
        tunnel # Unset /\ tunnel' = tunnel /\ (tunnel.runs => tunnel.servers \cap gone = {})
  BY DEF Without
<1>4. tunnel' # Unset => tunnel' \in [servers : SUBSET Entries, runs : BOOLEAN]
  BY <1>3 DEF CatalogInv
<1>5. RunningIsListed'
  BY <1>3 DEF CatalogInv, RunningIsListed
<1> QED
  BY <1>1, <1>2, <1>4, <1>5 DEF CatalogInv, UpdateIs

\* A subscription that is removed ends the session on a server of it.
LEMMA RemoveSubscriptionKeeps ==
    ASSUME CatalogInv, RemoveSubscription
    PROVE  CatalogInv'
<1>1. catalog \in Cats /\ UniqueIds(catalog) /\ Unique(catalog)
  BY DEF CatalogInv, CatalogKept
<1>2. PICK u \in Urls :
        /\ tunnel' = IF u \in Listed THEN Without(SubIds(u)) ELSE tunnel
        /\ removals' = [removals EXCEPT ![u] = @ + 1]
        /\ catalog' = Retained(catalog, {sub \in Range(catalog) : sub.id = u})
        /\ update' = IF update = Unset THEN Unset
                     ELSE [update EXCEPT !.targets = [i \in 1 .. Len(update.targets) |->
                            [update.targets[i] EXCEPT !.removed = @ \/ update.targets[i].id = u]]]
  BY DEF RemoveSubscription
<1>3. Edit /\ agent' = agent
  BY DEF RemoveSubscription
<1> DEFINE gone == {sub \in Range(catalog) : sub.id = u}
           new == Retained(catalog, gone)
           ended == IF u \in Listed THEN SubIds(u) ELSE {}
<1>4. /\ new \in Cats /\ UniqueIds(new) /\ Unique(new)
      /\ \A i \in 1 .. Len(catalog) : catalog[i] \notin gone =>
            {s.id : s \in Range(catalog[i].servers)} \subseteq ServerIds(new)
  <2> HIDE DEF gone
  <2> QED
    BY <1>1, FewerSubscriptions
<1>5. catalog' = new
  BY <1>2
<1> HIDE DEF new
<1>6. ServerIds(catalog) \ ended \subseteq ServerIds(new)
  <2> SUFFICES ASSUME NEW i \in 1 .. Len(catalog), NEW x \in {s.id : s \in Range(catalog[i].servers)},
                      x \notin ended
               PROVE  x \in ServerIds(new)
    BY DEF ServerIds
  <2>1. CASE catalog[i].id = u
    <3>1. u \in Listed
      BY <2>1 DEF Listed
    <3>2. Sub(u) = catalog[i]
      BY <2>1, <3>1, SubIs DEF CatalogInv
    <3> QED
      BY <3>1, <3>2 DEF SubIds
  <2>2. CASE catalog[i].id # u
    BY <1>4, <2>2
  <2> QED
    BY <2>1, <2>2
<1>7. removals' \in [Ids -> 0 .. edits + 1]
  <2>1. removals \in [Ids -> 0 .. edits] /\ edits \in Nat
    BY DEF CatalogInv
  <2>2. \A id \in Ids : removals[id] \in 0 .. edits + 1 /\ removals[id] + 1 \in 0 .. edits + 1
    BY <2>1
  <2>3. removals' = [id \in Ids |-> IF id = u THEN removals[id] + 1 ELSE removals[id]]
    BY <1>2, <2>1
  <2> QED
    BY <2>2, <2>3
<1>8. update' # Unset => UpdateIs(update')
  <2> SUFFICES ASSUME update' # Unset PROVE UpdateIs(update')
    OBVIOUS
  <2>1. update # Unset /\ UpdateIs(update)
    BY <1>2 DEF CatalogInv
  <2> DEFINE marked(i) == [update.targets[i] EXCEPT !.removed = @ \/ update.targets[i].id = u]
             targets == [i \in 1 .. Len(update.targets) |-> marked(i)]
  <2>2. update.targets \in Seq(Targets) /\ Len(update.targets) \in Nat
    BY <2>1 DEF UpdateIs
  <2>3. ASSUME NEW i \in 1 .. Len(update.targets)
        PROVE  marked(i) \in Targets /\ marked(i).baseline = update.targets[i].baseline
    <3>1. update.targets[i] \in Targets
      BY <2>2
    <3>2. (update.targets[i].removed \/ update.targets[i].id = u) \in BOOLEAN
      OBVIOUS
    <3> QED
      BY <3>1, <3>2 DEF Targets
  <2> HIDE DEF marked
  <2>4. /\ targets \in Seq(Targets) /\ Len(targets) = Len(update.targets)
        /\ \A i \in 1 .. Len(targets) : targets[i].baseline = update.targets[i].baseline
    BY <2>2, <2>3
  <2>5. update' = [update EXCEPT !.targets = targets]
    BY <1>2, <2>1 DEF marked
  <2> HIDE DEF targets
  <2>6. update' \in [all : BOOLEAN, targets : Seq(Targets)] /\ update'.targets = targets
    BY <2>1, <2>4, <2>5 DEF UpdateIs
  <2> QED
    BY <2>1, <2>4, <2>6 DEF UpdateIs
<1>9. tunnel' = Without(ended)
  BY <1>2 DEF Without
<1> HIDE DEF ended
<1> QED
  BY <1>3, <1>4, <1>5, <1>6, <1>7, <1>8, <1>9, RemovalKeeps

\* A server that is removed ends the session on it.
LEMMA RemoveServerKeeps ==
    ASSUME CatalogInv, RemoveServer
    PROVE  CatalogInv'
<1>1. catalog \in Cats /\ UniqueIds(catalog) /\ Unique(catalog)
  BY DEF CatalogInv, CatalogKept
<1>2. PICK id \in ServerIds(catalog) :
        /\ tunnel' = Without({id})
        /\ catalog' = Retained(Fewer(catalog, id),
                {sub \in Range(Fewer(catalog, id)) : sub.id = Local /\ sub.servers = <<>>})
  BY DEF RemoveServer, Fewer
<1>3. Edit /\ UNCHANGED <<removals, agent, update>>
  BY DEF RemoveServer
<1> DEFINE left == Fewer(catalog, id)
           gone == {sub \in Range(left) : sub.id = Local /\ sub.servers = <<>>}
           new == Retained(left, gone)
<1>4. /\ left \in Cats /\ UniqueIds(left) /\ Unique(left)
      /\ ServerIds(catalog) \ {id} \subseteq ServerIds(left)
  BY <1>1, FewerServers
<1>5. catalog' = new
  BY <1>2
<1> HIDE DEF left
<1>6. /\ new \in Cats /\ UniqueIds(new) /\ Unique(new)
      /\ \A i \in 1 .. Len(left) : left[i] \notin gone =>
            {s.id : s \in Range(left[i].servers)} \subseteq ServerIds(new)
  <2> HIDE DEF gone
  <2> QED
    BY <1>4, FewerSubscriptions
<1> HIDE DEF new
<1>7. ServerIds(left) \subseteq ServerIds(new)
  <2> SUFFICES ASSUME NEW i \in 1 .. Len(left), NEW x \in {s.id : s \in Range(left[i].servers)}
               PROVE  x \in ServerIds(new)
    BY DEF ServerIds
  <2>1. left[i].servers # <<>>
    <3> SUFFICES ASSUME left[i].servers = <<>> PROVE FALSE
      OBVIOUS
    <3> QED
      BY DEF Range
  <2> QED
    BY <1>6, <2>1
<1>8. removals' \in [Ids -> 0 .. edits + 1]
  <2>1. removals \in [Ids -> 0 .. edits] /\ edits \in Nat
    BY DEF CatalogInv
  <2>2. 0 .. edits \subseteq 0 .. edits + 1
    BY <2>1
  <2> QED
    BY <1>3, <2>1, <2>2
<1>9. update' # Unset => UpdateIs(update')
  <2>1. update' = update
    BY <1>3
  <2> QED
    BY <2>1 DEF CatalogInv
<1>10. ServerIds(catalog) \ {id} \subseteq ServerIds(new)
  BY <1>4, <1>7
<1> QED
  BY <1>2, <1>3, <1>5, <1>6, <1>8, <1>9, <1>10, RemovalKeeps

\* What is not of the catalog.
LEMMA OthersKeep ==
    ASSUME CatalogInv, SetUserAgent \/ ClaimServers \/ StartClaimed
    PROVE  CatalogInv'
<1>1. UNCHANGED <<catalog, removals, update>>
  BY DEF SetUserAgent, ClaimServers, StartClaimed
<1>2. CatalogKept'
  BY <1>1 DEF CatalogInv, CatalogKept
<1>3. /\ edits' \in 0 .. MaxEdits /\ updates' \in 0 .. MaxUpdates
      /\ removals' \in [Ids -> 0 .. edits']
  <2>1. /\ edits \in 0 .. MaxEdits /\ updates \in 0 .. MaxUpdates
        /\ removals \in [Ids -> 0 .. edits]
    BY DEF CatalogInv
  <2>2. \/ UNCHANGED <<edits, updates>>
        \/ edits < MaxEdits /\ edits' = edits + 1 /\ updates' = updates
    BY DEF SetUserAgent, ClaimServers, StartClaimed, Edit
  <2>3. edits' \in 0 .. MaxEdits /\ 0 .. edits \subseteq 0 .. edits' /\ updates' = updates
    BY <2>1, <2>2, CatalogAssumption
  <2> QED
    BY <1>1, <2>1, <2>3
<1>4. agent' \in {"global", "other"}
  BY DEF SetUserAgent, ClaimServers, StartClaimed, CatalogInv
<1>5. ServerIds(catalog) \subseteq Entries
  BY ServerIdsAre DEF CatalogInv, CatalogKept
<1>6. /\ tunnel' # Unset => tunnel' \in [servers : SUBSET Entries, runs : BOOLEAN]
      /\ tunnel' # Unset /\ tunnel'.runs => tunnel'.servers \subseteq ServerIds(catalog)
  <2>1. CASE SetUserAgent
    BY <2>1 DEF SetUserAgent, CatalogInv, RunningIsListed
  <2>2. CASE ClaimServers
    <3>1. PICK servers \in SUBSET ServerIds(catalog) \ {{}} :
            tunnel' = [servers |-> servers, runs |-> FALSE]
      BY <2>2 DEF ClaimServers
    <3> QED
      BY <1>5, <3>1
  <2>3. CASE StartClaimed
    <3>1. tunnel # Unset /\ tunnel \in [servers : SUBSET Entries, runs : BOOLEAN]
      BY <2>3 DEF StartClaimed, CatalogInv
    <3>2. tunnel' = IF tunnel.servers \subseteq ServerIds(catalog)
                    THEN [tunnel EXCEPT !.runs = TRUE] ELSE Unset
      BY <2>3 DEF StartClaimed
    <3> QED
      BY <3>1, <3>2
  <2> QED
    BY <2>1, <2>2, <2>3
<1>7. RunningIsListed'
  BY <1>1, <1>6 DEF RunningIsListed, ServerIds
<1>8. update' # Unset => UpdateIs(update')
  BY <1>1 DEF CatalogInv
<1> QED
  BY <1>2, <1>3, <1>4, <1>6, <1>7, <1>8 DEF CatalogInv, UpdateIs

\* The invariant holds of an empty catalog.
LEMMA CatalogInvInit == CatalogInit => CatalogInv
<1> SUFFICES ASSUME CatalogInit PROVE CatalogInv
  OBVIOUS
<1>1. catalog = <<>> /\ catalog \in Cats /\ Len(catalog) = 0
  BY DEF CatalogInit, Cats
<1>2. Positions(catalog) = {}
  BY <1>1 DEF Positions
<1>3. CatalogKept
  BY <1>1, <1>2 DEF CatalogKept, UniqueIds, Unique
<1> QED
  BY <1>3, CatalogAssumption DEF CatalogInit, CatalogInv, RunningIsListed

\* Every step keeps the invariant.
LEMMA CatalogInvStep ==
    ASSUME CatalogInv, [CatalogNext]_catalogVars
    PROVE  CatalogInv'
<1>1. CASE UNCHANGED catalogVars
  <2>1. CatalogKept' /\ RunningIsListed'
    BY <1>1 DEF catalogVars, CatalogInv, CatalogKept, RunningIsListed, ServerIds
  <2> QED
    BY <1>1, <2>1 DEF catalogVars, CatalogInv, UpdateIs
<1>2. CASE CatalogNext
  BY <1>2, PreparesKeep, RequestKeeps, ApplyKeeps, RemoveSubscriptionKeeps, CreateServerKeeps,
     RemoveServerKeeps, ServerEditsKeep, SubscriptionEditsKeep, OthersKeep
  DEF CatalogNext, UpdateWork
<1> QED
  BY <1>1, <1>2

\* The invariant holds throughout.
LEMMA CatalogHolds == CatalogSpec => []CatalogInv
BY CatalogInvInit, CatalogInvStep, PTL DEF CatalogSpec

-----------------------------------------------------------------------------
\* What holds of the catalog

\* Every server has a handle and no two have the same (alias.rs, set_server_alias), whatever
\* providers send, for any number of subscriptions, servers, updates and edits.
THEOREM HandlesAreAlwaysUnique == CatalogSpec => []HandlesAreUnique
<1>1. CatalogInv => HandlesAreUnique
  BY DEF CatalogInv, CatalogKept, Unique, HandlesAreUnique
<1> QED
  BY <1>1, CatalogHolds, PTL

\* No session runs on a server that the catalog lost (disconnect_if_active_gone and
\* disconnect_if_active_within), whatever was fetched and edited meanwhile.
THEOREM RunningIsAlwaysListed == CatalogSpec => []RunningIsListed
<1>1. CatalogInv => RunningIsListed
  BY DEF CatalogInv
<1> QED
  BY <1>1, CatalogHolds, PTL

\* The types, the unique ids of subscriptions and the pairs of override and base.
THEOREM CatalogIsTyped == CatalogSpec => []CatalogTypeOK
<1>1. CatalogInv => CatalogTypeOK
  <2> SUFFICES ASSUME CatalogInv PROVE CatalogTypeOK
    OBVIOUS
  <2>1. catalog \in Cats /\ UniqueIds(catalog)
    BY DEF CatalogInv, CatalogKept
  <2>2. Listed \subseteq Ids
    <3>1. ASSUME NEW row \in Subscription PROVE row.id \in Ids
      BY DEF Subscription
    <3> QED
      BY <2>1, <3>1, RowsAre DEF Listed
  <2>3. removals \in [Ids -> 0 .. MaxEdits]
    <3>1. removals \in [Ids -> 0 .. edits] /\ edits \in 0 .. MaxEdits
      BY DEF CatalogInv
    <3>2. 0 .. edits \subseteq 0 .. MaxEdits
      BY <3>1, CatalogAssumption
    <3> QED
      BY <3>1, <3>2
  <2>4. \A p \in Positions(catalog) :
            (ServerAt(catalog, p).override = Unset) = (ServerAt(catalog, p).base = Unset)
    BY <2>1, PositionIs DEF Server
  <2>5. update # Unset => \A i \in 1 .. Len(update.targets) :
            update.targets[i].state \in {"waits", "fetches", "fetched", "failed"}
    <3> SUFFICES ASSUME update # Unset, NEW i \in 1 .. Len(update.targets)
                 PROVE  update.targets[i].state \in {"waits", "fetches", "fetched", "failed"}
      OBVIOUS
    <3>1. update.targets \in Seq(Targets)
      BY DEF CatalogInv, UpdateIs
    <3>2. update.targets[i] \in Targets
      BY <3>1
    <3> QED
      BY <3>2 DEF Targets, UpdateStates
  <2> QED
    BY <2>1, <2>2, <2>3, <2>4, <2>5 DEF CatalogTypeOK, CatalogInv, UniqueIds
<1> QED
  BY <1>1, CatalogHolds, PTL

\* A request with the device identifier has the consent of its subscription when it leaves
\* (validate_subscription_fetch), however long it waited.
THEOREM HwidIsAlwaysConsented == CatalogSpec => HwidIsConsented
<1> DEFINE Consented ==
        update # Unset /\ update' # Unset =>
            \A i \in 1 .. Len(update.targets) :
                LET target == update.targets[i] IN
                /\ target.state = "waits" /\ update'.targets[i].state = "fetches"
                /\ target.hwid /\ ~target.baseline.add
                => target.id \in Listed /\ Sub(target.id).hwid
<1>1. ASSUME CatalogInv, [CatalogNext]_catalogVars PROVE Consented
  <2> SUFFICES ASSUME update # Unset, update' # Unset, NEW i \in 1 .. Len(update.targets),
                      update.targets[i].state = "waits", update'.targets[i].state = "fetches",
                      update.targets[i].hwid, ~update.targets[i].baseline.add
               PROVE  update.targets[i].id \in Listed /\ Sub(update.targets[i].id).hwid
    OBVIOUS
  <2>1. Valid(update.targets[i])
    <3>1. CASE Request \/ Respond
      BY <1>1, <3>1, RequestKeeps
    <3>2. CASE RemoveSubscription
      <4>1. PICK u \in Urls :
                update' = IF update = Unset THEN Unset
                     ELSE [update EXCEPT !.targets = [k \in 1 .. Len(update.targets) |->
                            [update.targets[k] EXCEPT !.removed = @ \/ update.targets[k].id = u]]]
        BY <3>2 DEF RemoveSubscription
      <4>2. UpdateIs(update)
        BY <1>1 DEF CatalogInv
      <4>3. update.targets[i] \in Targets
        BY <4>2 DEF UpdateIs
      <4>4. update'.targets[i].state = update.targets[i].state
        BY <4>1, <4>2, <4>3 DEF UpdateIs, Targets
      <4> QED
        BY <4>4
    <3>3. CASE AddSubscription \/ Refresh \/ RefreshAll
      BY <3>3 DEF AddSubscription, Refresh, RefreshAll, Prepare
    <3>4. CASE Apply
      BY <3>4 DEF Apply
    <3>5. CASE \/ CreateServer \/ RemoveServer \/ UpdateServer \/ DropOverride
               \/ TrustCertificate \/ SetServerAlias \/ SetHwid
               \/ SetSubscriptionUserAgent \/ SetUserAgent \/ ClaimServers \/ StartClaimed
               \/ UNCHANGED catalogVars
      <4>1. update' = update
        BY <3>5 DEF CreateServer, RemoveServer, UpdateServer, DropOverride, TrustCertificate,
                SetServerAlias, SetHwid, SetSubscriptionUserAgent, SetUserAgent, ClaimServers,
                StartClaimed, catalogVars
      <4> QED
        BY <4>1
    <3> QED
      BY <1>1, <3>1, <3>2, <3>3, <3>4, <3>5 DEF CatalogNext, UpdateWork
  <2>2. update.targets[i].id \in Listed
        /\ Sub(update.targets[i].id).hwid = update.targets[i].hwid
    BY <2>1 DEF Valid
  <2> QED
    BY <2>2
<1>2. CatalogSpec => [][Consented]_catalogVars
  BY <1>1, CatalogHolds, PTL DEF CatalogSpec
<1> QED
  BY <1>2 DEF HwidIsConsented
=============================================================================
