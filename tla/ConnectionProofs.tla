--------------------------- MODULE ConnectionProofs ---------------------------
(***************************************************************************)
(* What TLAPS proves of the connection lifecycle, for every number of      *)
(* members, of threads and of generations, and every order of their steps. *)
(***************************************************************************)
EXTENDS Connection, FiniteSetTheorems, WellFoundedInduction, TLAPS

-----------------------------------------------------------------------------
(* Numbers nobody holds.                                                   *)

\* A non-empty set of naturals has a least element.
LEMMA LeastNatural ==
    ASSUME NEW D \in SUBSET Nat, D # {}
    PROVE  \E d \in D : \A e \in D : d <= e
<1>1. PICK d \in D : \A e \in D : ~(<<e, d>> \in OpToRel(<, Nat))
  BY NatLessThanWellFounded, WFMin
<1>2. ASSUME NEW e \in D, e < d PROVE FALSE
  <2>1. <<e, d>> \in OpToRel(<, Nat)
    BY <1>2 DEF OpToRel
  <2> QED
    BY <1>1, <2>1
<1>3. \A e \in D : d <= e
  BY <1>2
<1> QED
  BY <1>3

\* A finite set leaves out one of the first Cardinality + 1 numbers, so the
\* number that Least names is there and nobody holds it.
LEMMA LeastIsFresh ==
    ASSUME NEW held, IsFiniteSet(held)
    PROVE  Least(held) \in Nat \ {0} /\ Least(held) \notin held
<1> DEFINE n == Cardinality(held)
           free == {k \in 1 .. n + 1 : k \notin held}
<1>1. n \in Nat
  BY FS_CardinalityType
<1>2. free # {}
  <2> SUFFICES ASSUME 1 .. n + 1 \in SUBSET held PROVE FALSE
    OBVIOUS
  <2>1. Cardinality(1 .. n + 1) <= n
    BY FS_Subset
  <2>2. Cardinality(1 .. n + 1) = n + 1
    BY <1>1, FS_Interval
  <2> QED
    BY <1>1, <2>1, <2>2
<1>3. PICK d \in free : \A e \in free : d <= e
  <2>1. free \in SUBSET Nat
    BY <1>1
  <2> HIDE DEF free
  <2> QED
    BY <1>2, <2>1, LeastNatural
<1>4. \A m \in 1 .. d - 1 : m \in held
  BY <1>1, <1>3
<1>5. \E k \in 1 .. n + 1 : k \notin held /\ \A m \in 1 .. k - 1 : m \in held
  BY <1>3, <1>4
<1>6. Least(held) \in 1 .. n + 1 /\ Least(held) \notin held
  BY <1>5 DEF Least
<1> QED
  BY <1>1, <1>6

\* What a finite set is mapped to is finite.
LEMMA ImageIsFinite ==
    ASSUME NEW S, IsFiniteSet(S), NEW f, f \in [S -> {f[x] : x \in S}]
    PROVE  IsFiniteSet({f[x] : x \in S})
<1> DEFINE T == {f[x] : x \in S}
<1>1. f \in Surjection(S, T)
  BY DEF Surjection
<1> QED
  BY <1>1, FS_Surjection

\* The threads are finitely many.
FiniteThreads ==
    /\ IsFiniteSet(starts) /\ IsFiniteSet(confirms) /\ IsFiniteSet(deaths)
    /\ IsFiniteSet(redials) /\ IsFiniteSet(shared.recoverers)

\* A new generation is nobody's.
LEMMA GenerationIsFresh ==
    ASSUME FiniteThreads
    PROVE  /\ FreshGeneration \in Nat \ {0}
           /\ FreshGeneration \notin HeldGenerations
<1> DEFINE A == starts \cup redials \cup shared.recoverers
           B == confirms \cup deaths
           f == [c \in A |-> c.generation]
           h == [c \in B |-> c.subject.generation]
<1>1. IsFiniteSet(A) /\ IsFiniteSet(B)
  BY FS_Union DEF FiniteThreads
<1>2. IsFiniteSet({c.generation : c \in A})
  <2>1. f \in [A -> {f[x] : x \in A}] /\ {f[x] : x \in A} = {c.generation : c \in A}
    OBVIOUS
  <2> HIDE DEF A, f
  <2>2. IsFiniteSet({f[x] : x \in A})
    BY <1>1, <2>1, ImageIsFinite
  <2> QED
    BY <2>1, <2>2
<1>3. IsFiniteSet({c.subject.generation : c \in B})
  <2>1. h \in [B -> {h[x] : x \in B}] /\ {h[x] : x \in B} = {c.subject.generation : c \in B}
    OBVIOUS
  <2> HIDE DEF B, h
  <2>2. IsFiniteSet({h[x] : x \in B})
    BY <1>1, <2>1, ImageIsFinite
  <2> QED
    BY <2>1, <2>2
<1>4. IsFiniteSet({shared.generation, shared.entry.generation, shared.retry.generation})
  <2> DEFINE S == {shared.generation} \cup {shared.entry.generation}
           T == S \cup {shared.retry.generation}
  <2>1. IsFiniteSet(S)
    BY FS_Singleton, FS_AddElement
  <2>2. IsFiniteSet(T)
    <3> HIDE DEF S
    <3> QED
      BY <2>1, FS_AddElement
  <2>3. {shared.generation, shared.entry.generation, shared.retry.generation} \in SUBSET T
    OBVIOUS
  <2> QED
    <3> HIDE DEF T
    <3> QED
      BY <2>2, <2>3, FS_Subset
<1>5. IsFiniteSet(HeldGenerations)
  BY <1>2, <1>3, <1>4, FS_Union DEF HeldGenerations
<1>6. IsFiniteSet(HeldGenerations \ {0})
  BY <1>5, FS_Difference
<1> QED
  BY <1>6, LeastIsFresh DEF FreshGeneration

-----------------------------------------------------------------------------
(* What each method changes.                                               *)

\* Only the session differs.
SameButSession(s, t) ==
    /\ t.generation = s.generation /\ t.override = s.override /\ t.retry = s.retry
    /\ t.entry = s.entry /\ t.recoverers = s.recoverers

Status == {"disconnected", "connected", "exited", "failed"}

\* A session is never mistaken for its absence.
LEMMA SessionExists ==
    ASSUME NEW s \in Shared
    PROVE  Present(s) <=> s.session \in Session
BY DEF Shared, Session, Present, NoSession

\* The guarded state with another session.
With(s, session) == [s EXCEPT !.session = session]

LEMMA WithIs ==
    ASSUME NEW s \in Shared, NEW x \in Session
    PROVE  /\ With(s, x) \in Shared /\ Present(With(s, x))
           /\ SameButSession(s, With(s, x)) /\ With(s, x).session = x
BY SessionExists DEF Shared, With, SameButSession

\* The last session counts.
LEMMA WithWith ==
    ASSUME NEW s \in Shared, NEW x, NEW y
    PROVE  With(With(s, x), y) = With(s, y)
BY DEF With, Shared

LEMMA CoreFailedIs ==
    ASSUME NEW s \in Shared, Present(s), NEW status \in Status
    PROVE  LET x == [s.session EXCEPT !.alive = FALSE, !.status = status]
           IN  CoreFailed(s, status) = With(s, x) /\ x \in Session
<1>1. s.session \in Session
  BY SessionExists
<1> QED
  BY <1>1 DEF Shared, Session, CoreFailed, With, Status

LEMMA InterfaceStoppedIs ==
    ASSUME NEW s \in Shared, Present(s)
    PROVE  LET x == IF s.session.envelope
                    THEN [s.session EXCEPT !.iface = "none", !.envelope = FALSE]
                    ELSE [s.session EXCEPT !.iface = IF @ = "up" THEN "planned" ELSE @]
           IN  InterfaceStopped(s) = With(s, x) /\ x \in Session
<1>1. s.session \in Session
  BY SessionExists
<1>2. CASE s.session.envelope
  BY <1>1, <1>2 DEF Shared, Session, InterfaceStopped, With, HasEnvelope
<1>3. CASE ~s.session.envelope
  BY <1>1, <1>3 DEF Shared, Session, InterfaceStopped, With, HasEnvelope
<1> QED
  BY <1>2, <1>3

\* What no method breaks: only a running core is connected, a connected
\* session names its server, a hold is asked for, as every owned interface
\* does, and no interface appears that the profile did not ask for.
SoundSession(x) ==
    /\ x.alive => x.status = "connected"
    /\ x.status = "connected" => x.target # NoTarget
    /\ x.holding \/ x.envelope => Holds
    /\ ~Tun => x.iface = "none" /\ ~x.envelope

\* The same run, and no more life in it than before.
Calmer(x, y) ==
    /\ y.run = x.run /\ y.spawned = x.spawned
    /\ y.target \in {x.target, NoTarget}
    /\ y.alive => x.alive
    /\ y.status = "connected" => x.status = "connected" /\ y.target = x.target
    /\ y.status = "connected" /\ ~y.pending => ~x.pending

\* A hold stays, unless the device is gone.
KeepsHold(x, y) ==
    x.holding /\ x.iface = "up" => (y.holding /\ y.iface = "up") \/ y.iface = "none"

LEMMA SessionStoppedIs ==
    ASSUME NEW s \in Shared, Present(s)
    PROVE  \E y \in Session :
              /\ SessionStopped(s) = With(s, y)
              /\ Calmer(s.session, y)
              /\ SoundSession(s.session) => SoundSession(y)
              /\ y.status = "disconnected" /\ ~y.alive /\ ~y.holding
<1> DEFINE x == IF s.session.envelope
                THEN [s.session EXCEPT !.iface = "none", !.envelope = FALSE]
                ELSE [s.session EXCEPT !.iface = IF @ = "up" THEN "planned" ELSE @]
           y == [x EXCEPT !.status = "disconnected", !.alive = FALSE,
                          !.pending = FALSE, !.target = NoTarget, !.holding = FALSE]
<1>1. InterfaceStopped(s) = With(s, x) /\ x \in Session
  BY InterfaceStoppedIs
<1>2. s.session \in Session
  BY SessionExists
<1>3. y \in Session
  BY <1>1 DEF Session, Target
<1>4. SessionStopped(s) = With(s, y)
  <2>1. With(s, x) \in Shared /\ With(s, x).session = x
    BY <1>1, WithIs
  <2>2. SessionStopped(s) = With(With(s, x), y)
    <3> HIDE DEF x
    <3> QED
      BY <1>1, <2>1 DEF SessionStopped, With, Shared, Session
  <2> QED
    BY <2>2, WithWith
<1>5. Calmer(s.session, y)
  BY <1>2 DEF Calmer, Session
<1>6. SoundSession(s.session) => SoundSession(y)
  BY <1>2 DEF SoundSession, Session
<1>7. y.status = "disconnected" /\ ~y.alive /\ ~y.holding
  BY <1>2 DEF Session
<1> HIDE DEF x, y
<1> QED
  BY <1>3, <1>4, <1>5, <1>6, <1>7

LEMMA CoreExitNotedIs ==
    ASSUME NEW s \in Shared, Present(s), SoundSession(s.session)
    PROVE  \E y \in Session :
              /\ CoreExitNoted(s) = With(s, y)
              /\ Calmer(s.session, y) /\ SoundSession(y) /\ KeepsHold(s.session, y)
              /\ y.status = s.session.status /\ y.target = s.session.target
              /\ y.alive = s.session.alive
              /\ ~Holds /\ ~y.envelope => y.holding = s.session.holding
<1>1. s.session \in Session
  BY SessionExists
<1>2. CASE Holds \/ s.session.envelope
  <2> DEFINE y == [s.session EXCEPT !.holding = TRUE]
  <2>1. y \in Session /\ CoreExitNoted(s) = With(s, y)
    BY <1>1, <1>2 DEF CoreExitNoted, With, Shared, Session
  <2> QED
    BY <1>1, <1>2, <2>1 DEF Calmer, SoundSession, KeepsHold, Session
<1>3. CASE ~(Holds \/ s.session.envelope)
  <2> DEFINE y == [s.session EXCEPT !.iface = IF @ = "up" THEN "planned" ELSE @]
  <2>1. y \in Session /\ CoreExitNoted(s) = With(s, y)
    BY <1>1, <1>3, InterfaceStoppedIs DEF CoreExitNoted, With, Shared, Session
  <2> QED
    BY <1>1, <1>3, <2>1 DEF Calmer, SoundSession, KeepsHold, Session
<1> QED
  BY <1>2, <1>3

LEMMA CalmerTwice ==
    ASSUME NEW x, NEW y, NEW z, Calmer(x, y), Calmer(y, z)
    PROVE  Calmer(x, z)
BY DEF Calmer

\* The core is given up, and what it leaves behind is noted.
LEMMA CoreLostIs ==
    ASSUME NEW s \in Shared, Present(s), SoundSession(s.session),
           NEW status \in Status \ {"connected"}
    PROVE  \E y \in Session :
              /\ CoreExitNoted(CoreFailed(s, status)) = With(s, y)
              /\ Calmer(s.session, y) /\ SoundSession(y) /\ KeepsHold(s.session, y)
              /\ y.status = status /\ y.target = s.session.target /\ ~y.alive
              /\ ~Holds /\ ~y.envelope => y.holding = s.session.holding
<1> DEFINE x == [s.session EXCEPT !.alive = FALSE, !.status = status]
<1>1. x \in Session /\ CoreFailed(s, status) = With(s, x)
  BY CoreFailedIs
<1>2. With(s, x) \in Shared /\ Present(With(s, x)) /\ With(s, x).session = x
  BY <1>1, WithIs
<1>3. s.session \in Session
  BY SessionExists
<1>4. /\ Calmer(s.session, x) /\ SoundSession(x)
      /\ x.status = status /\ x.target = s.session.target /\ ~x.alive
      /\ x.holding = s.session.holding /\ x.iface = s.session.iface
  BY <1>3 DEF Session, Status, Calmer, SoundSession
<1> HIDE DEF x
<1>5. PICK y \in Session :
         /\ CoreExitNoted(With(s, x)) = With(With(s, x), y)
         /\ Calmer(x, y) /\ SoundSession(y) /\ KeepsHold(x, y)
         /\ y.status = x.status /\ y.target = x.target /\ y.alive = x.alive
         /\ ~Holds /\ ~y.envelope => y.holding = x.holding
  BY <1>2, <1>4, CoreExitNotedIs
<1>6. With(With(s, x), y) = With(s, y)
  BY WithWith
<1>7. Calmer(s.session, y)
  BY <1>4, <1>5, CalmerTwice
<1>8. KeepsHold(s.session, y)
  BY <1>4, <1>5 DEF KeepsHold
<1> QED
  BY <1>1, <1>4, <1>5, <1>6, <1>7, <1>8

LEMMA ConfirmationFailedIs ==
    ASSUME NEW s \in Shared, Present(s), SoundSession(s.session)
    PROVE  \E y \in Session :
              /\ ConfirmationFailed(s) = With(s, y)
              /\ Calmer(s.session, y) /\ SoundSession(y) /\ KeepsHold(s.session, y)
              /\ y.status \in {"failed", "disconnected"}
              /\ ~Tun => ~y.holding
<1> DEFINE early == s.session.envelope /\ s.session.iface # "up"
           held == (Holds \/ s.session.envelope) /\ s.session.iface = "up"
<1>0. s.session \in Session
  BY SessionExists
<1>1. CASE early
  <2> DEFINE x == [s.session EXCEPT !.alive = FALSE, !.status = "failed"]
             y == [x EXCEPT !.holding = FALSE]
  <2>1. x \in Session /\ CoreFailed(s, "failed") = With(s, x)
    BY CoreFailedIs DEF Status
  <2>2. y \in Session /\ [With(s, x) EXCEPT !.session.holding = FALSE] = With(s, y)
    BY <2>1 DEF With, Shared, Session
  <2>3. ConfirmationFailed(s) = With(s, y)
    BY <1>1, <2>1, <2>2 DEF ConfirmationFailed
  <2>4. /\ Calmer(s.session, y) /\ SoundSession(y) /\ KeepsHold(s.session, y)
        /\ y.status = "failed" /\ ~y.holding
    BY <1>0, <1>1 DEF Calmer, SoundSession, KeepsHold, Session
  <2> HIDE DEF x, y
  <2> QED
    BY <2>2, <2>3, <2>4
<1>2. CASE ~early /\ held
  <2>1. ConfirmationFailed(s) = CoreExitNoted(CoreFailed(s, "failed"))
    BY <1>2 DEF ConfirmationFailed
  <2>2. ~Tun => FALSE
    BY <1>2 DEF SoundSession
  <2> QED
    BY <2>1, <2>2, CoreLostIs DEF Status
<1>3. CASE ~early /\ ~held
  <2>1. ConfirmationFailed(s) = SessionStopped(s)
    BY <1>3 DEF ConfirmationFailed
  <2>2. \A y : KeepsHold(s.session, y)
    BY <1>3 DEF SoundSession, KeepsHold
  <2> QED
    BY <2>1, <2>2, SessionStoppedIs
<1> QED
  BY <1>1, <1>2, <1>3

LEMMA TrafficConfirmedIs ==
    ASSUME NEW s \in Shared, Present(s), SoundSession(s.session)
    PROVE  \E y \in Session :
              /\ TrafficConfirmed(s) = With(s, y) /\ SoundSession(y)
              /\ y.run = s.session.run /\ y.spawned = s.session.spawned
              /\ y.target = s.session.target /\ y.status = s.session.status
              /\ y.alive = s.session.alive /\ ~y.pending /\ ~y.holding
<1> DEFINE y == [s.session EXCEPT !.iface = IF @ = "planned" THEN "up" ELSE @,
                                  !.pending = FALSE, !.holding = FALSE]
<1>1. s.session \in Session
  BY SessionExists
<1>2. y \in Session /\ TrafficConfirmed(s) = With(s, y)
  BY <1>1 DEF TrafficConfirmed, With, Shared, Session
<1>3. /\ SoundSession(y)
      /\ y.run = s.session.run /\ y.spawned = s.session.spawned
      /\ y.target = s.session.target /\ y.status = s.session.status
      /\ y.alive = s.session.alive /\ ~y.pending /\ ~y.holding
  BY <1>1 DEF SoundSession, Session
<1> HIDE DEF y
<1> QED
  BY <1>2, <1>3

\* The session of a core that has just been launched,
NewBorn(y, target) ==
    /\ y.status = "connected" /\ y.alive /\ y.pending /\ y.target = target
    /\ SoundSession(y)

\* and of one that could not be launched.
StillBorn(y) == y.status = "failed" /\ y.target = NoTarget /\ ~y.alive

\* A run opened at the core is new, unproved, and takes no hold away.
LEMMA RunOpenedIs ==
    ASSUME NEW s \in Shared, Present(s), SoundSession(s.session),
           NEW target \in Candidate, NEW run \in Nat
    PROVE  /\ \E y \in Session :
                 /\ RunOpened(s, target, run, TRUE) = With(s, y)
                 /\ NewBorn(y, target) /\ KeepsHold(s.session, y)
           /\ \E y \in Session :
                 /\ RunOpened(s, target, run, FALSE) = With(s, y) /\ SoundSession(y)
                 /\ StillBorn(y) /\ KeepsHold(s.session, y)
                 /\ y.holding = s.session.holding
<1> DEFINE iface == IF s.session.iface = "up" /\ ~s.session.holding /\ ~s.session.envelope
                    THEN "planned" ELSE s.session.iface
           y == [s.session EXCEPT !.iface = iface, !.status = "connected",
                    !.alive = TRUE, !.run = run, !.spawned = TRUE,
                    !.pending = TRUE, !.target = target]
           z == [s.session EXCEPT !.iface = iface, !.status = "failed",
                    !.alive = FALSE, !.run = run, !.spawned = FALSE,
                    !.pending = TRUE, !.target = NoTarget]
<1>1. s.session \in Session
  BY SessionExists
<1>2. y \in Session /\ z \in Session
  BY <1>1, PolicyAssumption DEF Session, Target, Candidate, NoTarget
<1>3. RunOpened(s, target, run, TRUE) = With(s, y)
  BY <1>1 DEF RunOpened, With, Shared, Session
<1>4. RunOpened(s, target, run, FALSE) = With(s, z)
  BY <1>1 DEF RunOpened, With, Shared, Session
<1>5. NewBorn(y, target) /\ KeepsHold(s.session, y)
  BY <1>1, PolicyAssumption
     DEF NewBorn, SoundSession, KeepsHold, Session, Candidate, NoTarget
<1>6. /\ SoundSession(z) /\ StillBorn(z) /\ KeepsHold(s.session, z)
      /\ z.holding = s.session.holding
  BY <1>1 DEF StillBorn, SoundSession, KeepsHold, Session
<1> HIDE DEF y, z
<1> QED
  BY <1>2, <1>3, <1>4, <1>5, <1>6

-----------------------------------------------------------------------------
(* The failover entry.                                                     *)

LEMMA EntryExists ==
    ASSUME NEW s \in Shared
    PROVE  /\ s.entry # NoEntry <=> s.entry \in Entry
           /\ s.entry # NoEntry <=> s.entry.generation # 0
           /\ s.retry # NoRetry <=> s.retry.generation # 0
           /\ s.retry # NoRetry =>
                 s.retry \in [generation : Nat \ {0}, attempting : BOOLEAN, allowed : BOOLEAN]
BY DEF Shared, Entry, NoEntry, NoRetry

\* Every method of the policy object returns a well-formed record.
LEMMA MethodsAreTyped ==
    ASSUME NEW a \in ActivationRecord, NEW m \in Candidate
    PROVE  /\ NewActivation(0) \in ActivationRecord
           /\ BegunEpisode(a) \in ActivationRecord
           /\ Admitted(a, m) \in ActivationRecord
           /\ AttemptFailed(a) \in ActivationRecord
           /\ ConfirmedSuccess(a) \in ActivationRecord
           /\ Disarmed(a) \in ActivationRecord
           /\ Elapsed(a) \in ActivationRecord
<1>1. NewActivation(0) \in ActivationRecord
  BY PolicyAssumption DEF ActivationRecord, NewActivation, Candidate
<1>2. BegunEpisode(a) \in ActivationRecord
  BY DEF ActivationRecord, BegunEpisode
<1>3. Admitted(a, m) \in ActivationRecord
  <2>1. a.visited \cup {m} \in SUBSET Candidate
    BY DEF ActivationRecord
  <2>2. a.attempts + 1 \in Nat /\ Cooldown \in 0 .. Cooldown
    BY PolicyAssumption DEF ActivationRecord
  <2> QED
    BY <2>1, <2>2 DEF ActivationRecord, Admitted
<1>4. AttemptFailed(a) \in ActivationRecord /\ ConfirmedSuccess(a) \in ActivationRecord
  BY DEF ActivationRecord, AttemptFailed, ConfirmedSuccess
<1>5. Disarmed(a) \in ActivationRecord
  BY DEF ActivationRecord, Disarmed
<1>6. Elapsed(a) \in ActivationRecord
  BY PolicyAssumption DEF ActivationRecord, Elapsed
<1> QED
  BY <1>1, <1>2, <1>3, <1>4, <1>5, <1>6

\* The guarded state with another entry.
WithEntry(s, entry) == [s EXCEPT !.entry = entry]

LEMMA WithEntryIs ==
    ASSUME NEW s \in Shared, NEW e \in Entry \cup {NoEntry}
    PROVE  LET t == WithEntry(s, e) IN
           /\ t \in Shared /\ t.entry = e
           /\ t.generation = s.generation /\ t.override = s.override
           /\ t.retry = s.retry /\ t.session = s.session /\ t.recoverers = s.recoverers
BY DEF Shared, WithEntry

\* An entry that is the same up to its grant being revoked, or absent like it.
Revoked(e) ==
    IF e = NoEntry THEN NoEntry ELSE [e EXCEPT !.activation = Disarmed(@)]

LEMMA DisarmIs ==
    ASSUME NEW s \in Shared
    PROVE  /\ Disarm(s) = WithEntry(s, Revoked(s.entry))
           /\ Revoked(s.entry) \in Entry \cup {NoEntry}
           /\ Revoked(s.entry).generation = s.entry.generation
<1>1. CASE s.entry = NoEntry
  BY <1>1 DEF Disarm, Revoked, WithEntry, Shared
<1>2. CASE s.entry # NoEntry
  <2>1. s.entry \in Entry
    BY <1>2, EntryExists
  <2>2. Disarmed(s.entry.activation) \in ActivationRecord
    BY <2>1, MethodsAreTyped DEF Entry
  <2>3. Disarm(s) = WithEntry(s, Revoked(s.entry))
    BY <1>2, <2>1 DEF Disarm, Revoked, WithEntry, Shared, Entry
  <2> QED
    BY <1>2, <2>1, <2>2, <2>3 DEF Revoked, Entry
<1> QED
  BY <1>1, <1>2

\* The entry of the same activation: its owner and its grant are kept, and a
\* grant that was revoked stays revoked.
SameGrant(d, e) ==
    /\ e = NoEntry <=> d = NoEntry
    /\ e.generation = d.generation
    /\ e # NoEntry => e.grant = d.grant /\ (e.activation.armed => d.activation.armed)

\* Nothing that tells whose turn it is has changed: neither the generation nor
\* the owner, nor the schedule and the status of the reconnect loop.
Quiet(s, t) ==
    /\ t \in Shared
    /\ t.generation = s.generation /\ t.override = s.override /\ t.retry = s.retry
    /\ SameGrant(s.entry, t.entry)

LEMMA QuietTwice ==
    ASSUME NEW s, NEW t, NEW u, Quiet(s, t), Quiet(t, u)
    PROVE  Quiet(s, u)
BY DEF Quiet, SameGrant

LEMMA WithIsQuiet ==
    ASSUME NEW s \in Shared, NEW x \in Session
    PROVE  Quiet(s, With(s, x)) /\ With(s, x).recoverers = s.recoverers
BY WithIs DEF Quiet, SameGrant, SameButSession

LEMMA WithEntryIsQuiet ==
    ASSUME NEW s \in Shared, NEW e \in Entry \cup {NoEntry}, SameGrant(s.entry, e)
    PROVE  Quiet(s, WithEntry(s, e))
BY WithEntryIs DEF Quiet

LEMMA RevokedIs ==
    ASSUME NEW s \in Shared
    PROVE  LET e == Revoked(s.entry) IN
           /\ SameGrant(s.entry, e)
           /\ e # NoEntry =>
                 /\ ~e.activation.armed
                 /\ e.activation = Disarmed(s.entry.activation)
                 /\ e.subject = s.entry.subject /\ e.current = s.entry.current
                 /\ e.automatic = s.entry.automatic /\ e.worker = s.entry.worker
                 /\ e.backoff = s.entry.backoff
<1>1. CASE s.entry = NoEntry
  BY <1>1 DEF Revoked, SameGrant
<1>2. CASE s.entry # NoEntry
  <2>1. s.entry \in Entry
    BY <1>2, EntryExists
  <2>2. Revoked(s.entry) # NoEntry
    BY <1>2, <2>1, DisarmIs DEF Entry, NoEntry
  <2> QED
    BY <1>2, <2>1, <2>2 DEF Revoked, SameGrant, Entry, ActivationRecord, Disarmed
<1> QED
  BY <1>1, <1>2

LEMMA DisarmIsQuiet ==
    ASSUME NEW s \in Shared
    PROVE  /\ Quiet(s, Disarm(s))
           /\ Disarm(s).session = s.session /\ Disarm(s).recoverers = s.recoverers
           /\ Disarm(s).entry = Revoked(s.entry)
BY DisarmIs, RevokedIs, WithEntryIs, WithEntryIsQuiet

LEMMA InstallIs ==
    ASSUME NEW s \in Shared, s.generation # 0, NEW grant \in Grants
    PROVE  \E e \in Entry :
              /\ Install(s, grant) = WithEntry(s, e)
              /\ e.generation = s.generation /\ e.grant = grant
              /\ e.activation = NewActivation(0)
              /\ ~e.automatic /\ ~e.worker
<1> DEFINE e == [generation |-> s.generation, grant |-> grant,
                 activation |-> NewActivation(0), subject |-> NoSubject, current |-> 0,
                 automatic |-> FALSE, worker |-> FALSE, backoff |-> 0,
                 confirming |-> FALSE]
<1>1. 0 \in Candidate /\ 0 \in 0 .. Backoff /\ NoSubject \in Subject
  BY PolicyAssumption, ConnectionAssumption DEF Candidate, NoSubject, Subject
<1>2. NewActivation(0) \in ActivationRecord
  BY <1>1, PolicyAssumption DEF ActivationRecord, NewActivation
<1>3. e \in Entry
  BY <1>1, <1>2 DEF Entry, Shared
<1>4. Install(s, grant) = WithEntry(s, e)
  BY DEF Install, WithEntry
<1>5. /\ e.generation = s.generation /\ e.grant = grant
      /\ e.activation = NewActivation(0)
      /\ ~e.automatic /\ ~e.worker
  OBVIOUS
<1> HIDE DEF e
<1> QED
  BY <1>3, <1>4, <1>5

LEMMA CapturedIs ==
    ASSUME NEW s \in Shared, NEW g \in Nat
    PROVE  Captured(s, g) \in Subject
<1>1. CASE s.session = NoSession
  BY <1>1 DEF Captured, Subject, NoSession
<1>2. CASE s.session # NoSession
  <2>1. s.session \in Session
    BY <1>2 DEF Shared
  <2> QED
    BY <2>1 DEF Captured, Subject, Session
<1> QED
  BY <1>1, <1>2

\* bind only writes to the entry of its own generation.
LEMMA BindIs ==
    ASSUME NEW s \in Shared, NEW target \in Candidate, NEW g \in Nat
    PROVE  LET e == Bind(s, target, g).entry IN
           /\ Quiet(s, Bind(s, target, g))
           /\ Bind(s, target, g).session = s.session
           /\ Bind(s, target, g).recoverers = s.recoverers
           /\ ~Owns(s, g) => Bind(s, target, g) = s
           /\ Owns(s, g) =>
                 /\ e.subject = Captured(s, g) /\ e.current = target
                 /\ e.activation = s.entry.activation
                 /\ e.automatic = s.entry.automatic /\ e.worker = s.entry.worker
                 /\ e.backoff = s.entry.backoff
<1>1. CASE ~Owns(s, g)
  BY <1>1 DEF Bind, Quiet, SameGrant
<1>2. CASE Owns(s, g)
  <2> DEFINE f == [s.entry EXCEPT !.subject = Captured(s, g), !.current = target,
                                  !.confirming = TRUE]
  <2>1. s.entry \in Entry
    BY <1>2, EntryExists DEF Owns
  <2>2. f \in Entry
    BY <2>1, CapturedIs DEF Entry
  <2>3. Bind(s, target, g) = WithEntry(s, f)
    BY <1>2, <2>1 DEF Bind, WithEntry, Shared, Entry
  <2>4. /\ f.generation = s.entry.generation /\ f.grant = s.entry.grant
        /\ f.activation = s.entry.activation
        /\ f.subject = Captured(s, g) /\ f.current = target
        /\ f.automatic = s.entry.automatic /\ f.worker = s.entry.worker
        /\ f.backoff = s.entry.backoff
    BY <2>1 DEF Entry
  <2> HIDE DEF f
  <2>5. SameGrant(s.entry, f)
    BY <2>1, <2>2, <2>4 DEF SameGrant, Entry, NoEntry
  <2> QED
    BY <1>2, <2>2, <2>3, <2>4, <2>5, WithEntryIs, WithEntryIsQuiet
<1> QED
  BY <1>1, <1>2

\* success ends the attempt it confirms, and nothing else.
LEMMA SucceedIs ==
    ASSUME NEW s \in Shared, NEW target \in Candidate, NEW subject \in Subject
    PROVE  LET t == Succeed(s, target, subject)
               e == t.entry
           IN  /\ Quiet(s, t) /\ t.session = s.session /\ t.recoverers = s.recoverers
               /\ ~Matches(s, target, subject) => t = s
               /\ Matches(s, target, subject) =>
                     /\ e.subject = s.entry.subject /\ e.current = s.entry.current
                     /\ e.worker = s.entry.worker /\ e.backoff = s.entry.backoff
                     /\ ~e.automatic
                     /\ e.activation =
                           IF s.entry.automatic /\ IsInFlight(s.entry.activation, s.entry.current)
                           THEN ConfirmedSuccess(s.entry.activation) ELSE s.entry.activation
<1>1. CASE ~Matches(s, target, subject)
  BY <1>1 DEF Succeed, Quiet, SameGrant
<1>2. CASE Matches(s, target, subject)
  <2> DEFINE a == IF s.entry.automatic /\ IsInFlight(s.entry.activation, s.entry.current)
                  THEN ConfirmedSuccess(s.entry.activation) ELSE s.entry.activation
             f == [s.entry EXCEPT !.confirming = FALSE, !.automatic = FALSE,
                                  !.activation = a]
  <2>1. s.entry \in Entry
    BY <1>2, EntryExists DEF Matches, Owns
  <2>2. s.entry.activation \in ActivationRecord /\ 0 \in Candidate
    BY <2>1, PolicyAssumption DEF Entry, Candidate
  <2>3. a \in ActivationRecord /\ a.armed = s.entry.activation.armed
    BY <2>2, MethodsAreTyped DEF ConfirmedSuccess, ActivationRecord
  <2>4. Succeed(s, target, subject) = WithEntry(s, f)
    <3>1. CASE ~s.entry.automatic
      BY <1>2, <2>1, <3>1 DEF Succeed, WithEntry, Shared, Entry
    <3>2. CASE s.entry.automatic
      BY <1>2, <2>1, <3>2 DEF Succeed, WithEntry, Shared, Entry
    <3> QED
      BY <3>1, <3>2
  <2> HIDE DEF a
  <2>5. f \in Entry
    BY <2>1, <2>3 DEF Entry
  <2>6. /\ f.generation = s.entry.generation /\ f.grant = s.entry.grant
        /\ f.activation = a /\ ~f.automatic
        /\ f.subject = s.entry.subject /\ f.current = s.entry.current
        /\ f.worker = s.entry.worker /\ f.backoff = s.entry.backoff
    BY <2>1 DEF Entry
  <2> HIDE DEF f
  <2>7. SameGrant(s.entry, f)
    BY <2>1, <2>3, <2>5, <2>6 DEF SameGrant, Entry, NoEntry
  <2>8. Quiet(s, WithEntry(s, f)) /\ WithEntry(s, f).entry = f
    BY <2>5, <2>7, WithEntryIs, WithEntryIsQuiet
  <2> QED
    BY <1>2, <2>4, <2>5, <2>6, <2>8, WithEntryIs DEF a
<1> QED
  BY <1>1, <1>2

\* admit_failover_locked binds nothing yet.
LEMMA FailoverAdmittedIs ==
    ASSUME NEW s \in Shared, s.entry # NoEntry, NEW target \in Candidate
    PROVE  LET t == FailoverAdmitted(s, target)
               e == t.entry
           IN  /\ Quiet(s, t) /\ t.session = s.session /\ t.recoverers = s.recoverers
               /\ e.activation = Admitted(s.entry.activation, target)
               /\ e.automatic /\ e.current = target
               /\ e.worker = s.entry.worker /\ e.backoff = s.entry.backoff
<1> DEFINE a == Admitted(s.entry.activation, target)
           f == [s.entry EXCEPT !.activation = a, !.automatic = TRUE,
                                !.current = target, !.subject = NoSubject]
<1>1. s.entry \in Entry
  BY EntryExists
<1>2. s.entry.activation \in ActivationRecord
  BY <1>1 DEF Entry
<1>3. a \in ActivationRecord /\ a.armed = s.entry.activation.armed
  BY <1>2, MethodsAreTyped DEF Admitted, ActivationRecord
<1>4. FailoverAdmitted(s, target) = WithEntry(s, f)
  BY <1>1 DEF FailoverAdmitted, WithEntry, Shared, Entry
<1> HIDE DEF a
<1>5. NoSubject \in Subject
  BY DEF NoSubject, Subject
<1>6. f \in Entry
  BY <1>1, <1>3, <1>5 DEF Entry
<1>7. /\ f.generation = s.entry.generation /\ f.grant = s.entry.grant
      /\ f.activation = a /\ f.automatic /\ f.current = target
      /\ f.worker = s.entry.worker /\ f.backoff = s.entry.backoff
  BY <1>1 DEF Entry
<1> HIDE DEF f
<1>8. SameGrant(s.entry, f)
  BY <1>1, <1>3, <1>6, <1>7 DEF SameGrant, Entry, NoEntry
<1> QED
  BY <1>4, <1>6, <1>7, <1>8, WithEntryIs, WithEntryIsQuiet DEF a

\* The worker a failure makes sure of.
Worker(g) == [generation |-> g, target |-> NoTarget, step |-> "deciding"]

LEMMA RecoveringIs ==
    ASSUME NEW s \in Shared, s.entry # NoEntry, NEW a \in ActivationRecord,
           a.armed => s.entry.activation.armed
    PROVE  LET t == Recovering(s, a)
               e == t.entry
           IN  /\ Quiet(s, t) /\ t.session = s.session
               /\ e.activation = a /\ ~e.automatic /\ e.worker
               /\ e.subject = s.entry.subject /\ e.current = s.entry.current
               /\ e.backoff = Backoff
               /\ t.recoverers = IF s.entry.worker THEN s.recoverers
                                 ELSE s.recoverers \cup {Worker(s.entry.generation)}
<1> DEFINE f == [s.entry EXCEPT !.activation = a, !.automatic = FALSE,
                                !.confirming = FALSE, !.backoff = Backoff,
                                !.worker = TRUE]
           w == IF s.entry.worker THEN s.recoverers
                ELSE s.recoverers \cup {Worker(s.entry.generation)}
<1>1. s.entry \in Entry
  BY EntryExists
<1>2. f \in Entry
  <2>1. Backoff \in 0 .. Backoff
    BY ConnectionAssumption
  <2> QED
    BY <1>1, <2>1 DEF Entry
<1>3. /\ f.generation = s.entry.generation /\ f.grant = s.entry.grant
      /\ f.activation = a /\ ~f.automatic /\ f.worker
      /\ f.subject = s.entry.subject /\ f.current = s.entry.current
      /\ f.backoff = Backoff
  BY <1>1 DEF Entry
<1>4. Recovering(s, a) = [WithEntry(s, f) EXCEPT !.recoverers = w]
  <2>1. CASE s.entry.worker
    BY <1>1, <2>1 DEF Recovering, WithEntry, Shared, Entry
  <2>2. CASE ~s.entry.worker
    BY <1>1, <2>2 DEF Recovering, WithEntry, Shared, Entry, Worker
  <2> QED
    BY <1>1, <2>1, <2>2 DEF Entry
<1>5. w \in SUBSET [generation : Nat \ {0}, target : Target,
                    step : {"deciding", "starting", "erring"}]
  BY <1>1 DEF Shared, Entry, Worker, Target
<1> HIDE DEF f, w
<1>6. SameGrant(s.entry, f)
  BY <1>1, <1>2, <1>3 DEF SameGrant, Entry, NoEntry
<1>7. WithEntry(s, f) \in Shared /\ WithEntry(s, f).entry = f /\ Quiet(s, WithEntry(s, f))
      /\ WithEntry(s, f).session = s.session
  BY <1>2, <1>6, WithEntryIs, WithEntryIsQuiet
<1>8. ASSUME NEW t \in Shared
      PROVE  LET u == [t EXCEPT !.recoverers = w] IN
             /\ u \in Shared /\ u.entry = t.entry /\ u.session = t.session
             /\ u.recoverers = w /\ u.generation = t.generation
             /\ u.override = t.override /\ u.retry = t.retry
  BY <1>5 DEF Shared
<1>9. Quiet(s, Recovering(s, a))
  BY <1>4, <1>7, <1>8 DEF Quiet
<1> QED
  BY <1>3, <1>4, <1>7, <1>8, <1>9 DEF w

\* Entries that differ in the confirming flag at most.
SameButConfirming(d, e) ==
    /\ SameGrant(d, e)
    /\ e.activation = d.activation /\ e.subject = d.subject /\ e.current = d.current
    /\ e.automatic = d.automatic /\ e.worker = d.worker /\ e.backoff = d.backoff

Settled(s) == [s EXCEPT !.entry.confirming = FALSE]

LEMMA SettledIs ==
    ASSUME NEW s \in Shared, s.entry # NoEntry
    PROVE  LET t == Settled(s) IN
           /\ Quiet(s, t) /\ t.session = s.session /\ t.recoverers = s.recoverers
           /\ SameButConfirming(s.entry, t.entry)
<1> DEFINE f == [s.entry EXCEPT !.confirming = FALSE]
<1>1. s.entry \in Entry
  BY EntryExists
<1>2. f \in Entry
  BY <1>1 DEF Entry
<1>3. Settled(s) = WithEntry(s, f)
  BY <1>1 DEF Settled, WithEntry, Shared, Entry
<1>4. /\ f.generation = s.entry.generation /\ f.grant = s.entry.grant
      /\ f.activation = s.entry.activation /\ f.automatic = s.entry.automatic
      /\ f.subject = s.entry.subject /\ f.current = s.entry.current
      /\ f.worker = s.entry.worker /\ f.backoff = s.entry.backoff
  BY <1>1 DEF Entry
<1> HIDE DEF f
<1>5. SameGrant(s.entry, f)
  BY <1>1, <1>2, <1>4 DEF SameGrant, Entry, NoEntry
<1> QED
  BY <1>2, <1>3, <1>4, <1>5, WithEntryIs, WithEntryIsQuiet DEF SameButConfirming

\* The failure concerns the entry, which still holds its grant.
Heard(s, target, subject, coreDeath) ==
    /\ IsCurrent(s, subject.generation)
    /\ Matches(s, target, subject)
    /\ Armed(s)
    /\ ~(coreDeath /\ s.entry.confirming)

\* What failover_failure_locked makes of it: nothing, the end of the grant, the
\* end of an attempt, the beginning of an episode.
FailureOutcome(s, t) ==
    \/ /\ SameButConfirming(s.entry, t.entry) /\ t.recoverers = s.recoverers
       /\ ~(s.entry.automatic /\ IsInFlight(s.entry.activation, s.entry.current))
       /\ ~(~s.entry.automatic /\ CanBeginEpisode(s.entry.activation, s.entry.current))
    \/ /\ t.entry.activation = Disarmed(s.entry.activation)
       /\ t.entry.subject = s.entry.subject /\ t.entry.current = s.entry.current
       /\ t.entry.automatic = s.entry.automatic
       /\ t.entry.worker = s.entry.worker /\ t.entry.backoff = s.entry.backoff
       /\ t.recoverers = s.recoverers
    \/ /\ \/ /\ s.entry.automatic /\ IsInFlight(s.entry.activation, s.entry.current)
             /\ t.entry.activation = AttemptFailed(s.entry.activation)
          \/ /\ ~s.entry.automatic
             /\ CanBeginEpisode(s.entry.activation, s.entry.current)
             /\ t.entry.activation = BegunEpisode(s.entry.activation)
       /\ t.entry.subject = s.entry.subject /\ t.entry.current = s.entry.current
       /\ ~t.entry.automatic /\ t.entry.worker
       /\ t.recoverers = IF s.entry.worker THEN s.recoverers
                         ELSE s.recoverers \cup {Worker(s.entry.generation)}

LEMMA FailureNotedIs ==
    ASSUME NEW s \in Shared, NEW target, NEW subject,
           NEW eligible \in BOOLEAN, NEW coreDeath \in BOOLEAN
    PROVE  LET t == FailureNoted(s, target, subject, eligible, coreDeath)
           IN  /\ Quiet(s, t) /\ t.session = s.session
               /\ ~Heard(s, target, subject, coreDeath) => t = s
               /\ Heard(s, target, subject, coreDeath) => FailureOutcome(s, t)
<1> DEFINE t == FailureNoted(s, target, subject, eligible, coreDeath)
           settled == Settled(s)
           a == s.entry.activation
<1>1. CASE ~Heard(s, target, subject, coreDeath)
  <2>1. t = s
    BY <1>1 DEF FailureNoted, Heard
  <2> QED
    BY <1>1, <2>1 DEF Quiet, SameGrant
<1>2. CASE Heard(s, target, subject, coreDeath)
  <2>1. s.entry # NoEntry /\ s.entry \in Entry /\ a \in ActivationRecord /\ 0 \in Candidate
    BY <1>2, EntryExists, PolicyAssumption DEF Heard, Armed, Entry, Candidate
  <2>2. /\ Quiet(s, settled) /\ settled.session = s.session
        /\ settled.recoverers = s.recoverers
        /\ SameButConfirming(s.entry, settled.entry)
    BY <2>1, SettledIs
  <2>3. t = IF ~eligible THEN Disarm(settled)
            ELSE IF s.entry.automatic /\ IsInFlight(a, s.entry.current)
                 THEN Recovering(s, AttemptFailed(a))
            ELSE IF ~s.entry.automatic /\ CanBeginEpisode(a, s.entry.current)
                 THEN Recovering(s, BegunEpisode(a))
            ELSE settled
    BY <1>2 DEF FailureNoted, Heard, Settled
  <2>4. CASE ~eligible
    <3>1. settled \in Shared /\ settled.entry # NoEntry
      BY <2>1, <2>2 DEF Quiet, SameGrant
    <3>2. /\ Quiet(settled, Disarm(settled))
          /\ Disarm(settled).session = s.session
          /\ Disarm(settled).recoverers = s.recoverers
          /\ Disarm(settled).entry = Revoked(settled.entry)
      BY <2>2, <3>1, DisarmIsQuiet
    <3>3. Revoked(settled.entry) # NoEntry
      BY <3>1, RevokedIs DEF SameGrant
    <3>4. LET e == Revoked(settled.entry) IN
          /\ e.activation = Disarmed(a)
          /\ e.subject = s.entry.subject /\ e.current = s.entry.current
          /\ e.automatic = s.entry.automatic /\ e.worker = s.entry.worker
          /\ e.backoff = s.entry.backoff
      BY <2>2, <3>1, <3>3, RevokedIs DEF SameButConfirming
    <3>5. t = Disarm(settled)
      BY <2>3, <2>4
    <3>6. Quiet(s, t)
      BY <2>2, <3>2, <3>5, QuietTwice
    <3> QED
      BY <1>2, <3>2, <3>4, <3>5, <3>6 DEF FailureOutcome
  <2>5. CASE eligible /\ s.entry.automatic /\ IsInFlight(a, s.entry.current)
    <3>1. AttemptFailed(a) \in ActivationRecord /\ AttemptFailed(a).armed = a.armed
      BY <2>1, MethodsAreTyped DEF AttemptFailed, ActivationRecord
    <3>2. LET u == Recovering(s, AttemptFailed(a)) IN
          /\ Quiet(s, u) /\ u.session = s.session
          /\ u.entry.activation = AttemptFailed(a) /\ ~u.entry.automatic /\ u.entry.worker
          /\ u.entry.subject = s.entry.subject /\ u.entry.current = s.entry.current
          /\ u.recoverers = IF s.entry.worker THEN s.recoverers
                            ELSE s.recoverers \cup {Worker(s.entry.generation)}
      BY <2>1, <3>1, RecoveringIs
    <3>3. t = Recovering(s, AttemptFailed(a))
      BY <2>3, <2>5
    <3> QED
      BY <1>2, <2>5, <3>2, <3>3 DEF FailureOutcome
  <2>6. CASE eligible /\ ~s.entry.automatic /\ CanBeginEpisode(a, s.entry.current)
    <3>1. BegunEpisode(a) \in ActivationRecord /\ BegunEpisode(a).armed = a.armed
      BY <2>1, MethodsAreTyped DEF BegunEpisode, ActivationRecord
    <3>2. LET u == Recovering(s, BegunEpisode(a)) IN
          /\ Quiet(s, u) /\ u.session = s.session
          /\ u.entry.activation = BegunEpisode(a) /\ ~u.entry.automatic /\ u.entry.worker
          /\ u.entry.subject = s.entry.subject /\ u.entry.current = s.entry.current
          /\ u.recoverers = IF s.entry.worker THEN s.recoverers
                            ELSE s.recoverers \cup {Worker(s.entry.generation)}
      BY <2>1, <3>1, RecoveringIs
    <3>3. t = Recovering(s, BegunEpisode(a))
      BY <2>3, <2>6
    <3> QED
      BY <1>2, <2>6, <3>2, <3>3 DEF FailureOutcome
  <2>7. CASE /\ eligible
             /\ ~(s.entry.automatic /\ IsInFlight(a, s.entry.current))
             /\ ~(~s.entry.automatic /\ CanBeginEpisode(a, s.entry.current))
    BY <1>2, <2>2, <2>3, <2>7 DEF FailureOutcome
  <2> QED
    BY <2>4, <2>5, <2>6, <2>7
<1> QED
  BY <1>1, <1>2

-----------------------------------------------------------------------------
(* Generations, status overrides and the retry schedule.                   *)

\* The generation is gone, and with it the activation and the schedule.
Forgotten(s, t) ==
    /\ t \in Shared
    /\ t.generation = 0 /\ t.entry = NoEntry /\ t.retry = NoRetry
    /\ t.recoverers = s.recoverers

LEMMA InvalidatedIs ==
    ASSUME NEW s \in Shared
    PROVE  /\ Forgotten(s, Invalidated(s))
           /\ Invalidated(s).override = s.override /\ Invalidated(s).session = s.session
BY DEF Shared, Invalidated, Forgotten

LEMMA NextGenerationIs ==
    ASSUME NEW s \in Shared, NEW g \in Nat
    PROVE  LET t == NextGeneration(s, g) IN
           /\ t \in Shared /\ t.generation = g /\ t.entry = NoEntry /\ t.retry = NoRetry
           /\ t.override = s.override /\ t.session = s.session
           /\ t.recoverers = s.recoverers
BY DEF Shared, Invalidated, NextGeneration

LEMMA OverriddenIs ==
    ASSUME NEW s \in Shared,
           NEW o \in [kind : {"none", "failed", "reconnecting"}, target : Target]
    PROVE  LET t == [s EXCEPT !.override = o] IN
           /\ t \in Shared /\ t.override = o
           /\ t.generation = s.generation /\ t.entry = s.entry /\ t.retry = s.retry
           /\ t.session = s.session /\ t.recoverers = s.recoverers
BY DEF Shared

LEMMA OverrideIs ==
    ASSUME NEW s \in Shared, NEW target \in Candidate
    PROVE  /\ LET t == OverrideCleared(s) IN
              /\ t \in Shared /\ t.override = NoOverride
              /\ t.generation = s.generation /\ t.entry = s.entry /\ t.retry = s.retry
              /\ t.session = s.session /\ t.recoverers = s.recoverers
           /\ LET t == OverrideFailed(s, target) IN
              /\ t \in Shared /\ t.override = [kind |-> "failed", target |-> target]
              /\ t.generation = s.generation /\ t.entry = s.entry /\ t.retry = s.retry
              /\ t.session = s.session /\ t.recoverers = s.recoverers
<1>1. /\ NoOverride \in [kind : {"none", "failed", "reconnecting"}, target : Target]
      /\ [kind |-> "failed", target |-> target]
            \in [kind : {"none", "failed", "reconnecting"}, target : Target]
  BY DEF NoOverride, Target
<1>2. LET t == OverrideCleared(s) IN
      /\ t \in Shared /\ t.override = NoOverride
      /\ t.generation = s.generation /\ t.entry = s.entry /\ t.retry = s.retry
      /\ t.session = s.session /\ t.recoverers = s.recoverers
  BY <1>1, OverriddenIs DEF OverrideCleared
<1>3. LET t == OverrideFailed(s, target) IN
      /\ t \in Shared /\ t.override = [kind |-> "failed", target |-> target]
      /\ t.generation = s.generation /\ t.entry = s.entry /\ t.retry = s.retry
      /\ t.session = s.session /\ t.recoverers = s.recoverers
  BY <1>1, OverriddenIs DEF OverrideFailed
<1> QED
  BY <1>2, <1>3

\* cancel_retry_locked ends a retry of the current generation as a whole.
LEMMA CancelRetryIs ==
    ASSUME NEW s \in Shared, NEW g \in Nat
    PROVE  LET t == CancelRetry(s, g)
               cancels == /\ IsCurrent(s, g)
                          /\ s.override.kind = "reconnecting" \/ s.retry.generation = g
           IN  /\ t.session = s.session
               /\ ~cancels => t = s
               /\ cancels =>
                     /\ Forgotten(s, t)
                     /\ t.override = IF s.override.kind = "reconnecting" THEN NoOverride
                                     ELSE s.override
<1> DEFINE u == Invalidated(s)
<1>1. /\ Forgotten(s, u) /\ u.override = s.override /\ u.session = s.session
  BY InvalidatedIs
<1>2. /\ OverrideCleared(u) \in Shared /\ OverrideCleared(u).override = NoOverride
      /\ OverrideCleared(u).generation = 0 /\ OverrideCleared(u).entry = NoEntry
      /\ OverrideCleared(u).retry = NoRetry /\ OverrideCleared(u).session = s.session
      /\ OverrideCleared(u).recoverers = s.recoverers
  <2>1. 0 \in Candidate /\ u \in Shared
    BY <1>1, PolicyAssumption DEF Candidate, Forgotten
  <2> HIDE DEF u
  <2> QED
    BY <1>1, <2>1, OverrideIs DEF Forgotten
<1> QED
  BY <1>1, <1>2 DEF CancelRetry, Forgotten

-----------------------------------------------------------------------------
(* What a step may do while nothing new is taken up.                       *)

\* The entry is the same, or has lost its grant since.
Kept(d, e) ==
    /\ SameGrant(d, e)
    /\ e # NoEntry =>
          /\ e.activation \in {d.activation, Disarmed(d.activation)}
          /\ e.subject = d.subject /\ e.current = d.current
          /\ e.automatic = d.automatic /\ e.worker = d.worker
          /\ e.backoff = d.backoff

\* The session is what it was, or less: nothing comes to life, a hold begins
\* only where a core or its replacement was at work, and none is lost unless
\* an update took the server away.
Weaker(s, t) ==
    Present(t) =>
        /\ Present(s)
        /\ Calmer(s.session, t.session) \/ StillBorn(t.session)
        /\ SoundSession(t.session)
        /\ t.session.status = "exited" =>
              s.session.status \in {"connected", "exited"} \/ s.entry # NoEntry
        /\ t.session.holding =>
              \/ s.session.holding \/ Tun \/ s.session.status = "connected"
              \/ s.entry # NoEntry /\ s.session.target # NoTarget
        /\ \/ KeepsHold(s.session, t.session)
           \/ t.session = HalfDeleted(s.session)
           \/ catalog' # catalog /\ t.generation = 0

\* The same generation is at work, on the same terms or none.
SameTurn(s, t) ==
    /\ t.generation = s.generation /\ t.override = s.override
    /\ t.retry.generation = s.retry.generation
    /\ Kept(s.entry, t.entry)
    /\ Armed(t) => /\ t.session.run = s.session.run
                   /\ t.session.spawned = s.session.spawned
                   /\ t.session.target = s.session.target
    /\ Present(s) => Present(t) \/ t.generation = 0

\* No generation is at work any more.
Withdrawn(s, t) ==
    /\ t.generation = 0 /\ t.entry = NoEntry /\ t.retry = NoRetry
    /\ t.override \in {s.override, NoOverride}
    /\ closed' \/ t.override.kind # "reconnecting"

Eased(s, t) == t \in Shared /\ Weaker(s, t) /\ (SameTurn(s, t) \/ Withdrawn(s, t))

\* A sound state of the engine: what a generation needs is there.
Sound(s) ==
    /\ Present(s) => SoundSession(s.session)
    /\ ~Present(s) => s.generation = 0
    /\ s.entry # NoEntry => s.entry.generation = s.generation

LEMMA KeptIsKept ==
    ASSUME NEW s \in Shared
    PROVE  Kept(s.entry, s.entry) /\ Kept(s.entry, Revoked(s.entry))
BY RevokedIs DEF Kept, SameGrant

LEMMA WeakerIsWeaker ==
    ASSUME NEW s \in Shared, Sound(s)
    PROVE  Weaker(s, s)
<1>1. Present(s) => Calmer(s.session, s.session) /\ KeepsHold(s.session, s.session)
  BY DEF Calmer, KeepsHold
<1> QED
  BY <1>1 DEF Weaker, Sound

LEMMA EasedIsEased ==
    ASSUME NEW s \in Shared, Sound(s)
    PROVE  Eased(s, s) /\ Eased(s, Disarm(s))
<1>1. Weaker(s, s) /\ Kept(s.entry, s.entry) /\ Kept(s.entry, Revoked(s.entry))
  BY KeptIsKept, WeakerIsWeaker
<1>2. /\ Disarm(s) \in Shared /\ Disarm(s).session = s.session
      /\ Disarm(s).generation = s.generation /\ Disarm(s).override = s.override
      /\ Disarm(s).retry = s.retry /\ Disarm(s).entry = Revoked(s.entry)
  BY DisarmIsQuiet DEF Quiet
<1>3. SameTurn(s, s)
  BY <1>1 DEF SameTurn
<1>4. SameTurn(s, Disarm(s))
  BY <1>1, <1>2 DEF SameTurn, Present
<1>5. Weaker(s, Disarm(s))
  BY <1>1, <1>2 DEF Weaker, Present
<1> QED
  BY <1>1, <1>2, <1>3, <1>4, <1>5 DEF Eased

\* Cancelling the retry afterwards is easing, too.
LEMMA EasedThenCancelled ==
    ASSUME NEW s \in Shared, NEW t, Eased(s, t), NEW g \in Nat
    PROVE  /\ Eased(s, CancelRetry(t, g))
           /\ CancelRetry(t, g).recoverers = t.recoverers
<1> DEFINE u == CancelRetry(t, g)
<1>1. t \in Shared /\ Weaker(s, t)
  BY DEF Eased
<1>2. \/ u = t
      \/ /\ Forgotten(t, u) /\ u.session = t.session
         /\ u.override = IF t.override.kind = "reconnecting" THEN NoOverride
                         ELSE t.override
  <2> DEFINE cancels == /\ IsCurrent(t, g)
                        /\ t.override.kind = "reconnecting" \/ t.retry.generation = g
  <2>1. /\ u.session = t.session
        /\ ~cancels => u = t
        /\ cancels => /\ Forgotten(t, u)
                      /\ u.override = IF t.override.kind = "reconnecting" THEN NoOverride
                                      ELSE t.override
    BY <1>1, CancelRetryIs
  <2> HIDE DEF cancels, u
  <2> QED
    BY <2>1
<1> HIDE DEF u
<1>3. CASE u = t
  BY <1>3 DEF u
<1>4. CASE /\ Forgotten(t, u) /\ u.session = t.session
           /\ u.override = IF t.override.kind = "reconnecting" THEN NoOverride
                           ELSE t.override
  <2>1. Weaker(s, u)
    BY <1>1, <1>4 DEF Weaker, Present, Forgotten
  <2>2. Withdrawn(s, u)
    BY <1>4 DEF Eased, SameTurn, Withdrawn, Forgotten, NoOverride
  <2> QED
    BY <1>4, <2>1, <2>2 DEF Eased, Forgotten, u
<1> QED
  BY <1>2, <1>3, <1>4

\* A helper that is past restoring costs the grant and the core, not the hold.
LEMMA HelperLostIs ==
    ASSUME NEW s \in Shared, Sound(s), Present(s), HasEnvelope(s)
    PROVE  LET t == HelperLost(s) IN
           /\ Eased(s, t) /\ t.recoverers = s.recoverers
           /\ t.generation = s.generation /\ t.override = s.override /\ t.retry = s.retry
           /\ t.entry = Revoked(s.entry)
           /\ Present(t) /\ Calmer(s.session, t.session)
           /\ t.session.status = "failed" /\ t.session.target = s.session.target
           /\ ~t.session.alive
<1> DEFINE d == Disarm(s)
<1>1. /\ d \in Shared /\ d.session = s.session
      /\ d.generation = s.generation /\ d.override = s.override /\ d.retry = s.retry
      /\ d.entry = Revoked(s.entry) /\ d.recoverers = s.recoverers
      /\ Present(d) /\ SoundSession(d.session)
  BY DisarmIsQuiet DEF Quiet, Sound, Present
<1> HIDE DEF d
<1>2. PICK y \in Session :
         /\ CoreExitNoted(CoreFailed(d, "failed")) = With(d, y)
         /\ Calmer(d.session, y) /\ SoundSession(y) /\ KeepsHold(d.session, y)
         /\ y.status = "failed" /\ y.target = d.session.target /\ ~y.alive
  BY <1>1, CoreLostIs DEF Status
<1>3. HelperLost(s) = With(d, y)
  BY <1>2 DEF HelperLost, d
<1>4. LET t == With(d, y) IN
      /\ t \in Shared /\ Present(t) /\ t.session = y
      /\ t.generation = s.generation /\ t.override = s.override /\ t.retry = s.retry
      /\ t.entry = Revoked(s.entry) /\ t.recoverers = s.recoverers
  BY <1>1, WithIs DEF SameButSession
<1> DEFINE t == With(d, y)
<1> HIDE DEF t
<1>5. Weaker(s, t)
  BY <1>1, <1>2, <1>4 DEF Weaker, Sound, SoundSession, HasEnvelope, t
<1>6. SameTurn(s, t)
  BY <1>1, <1>2, <1>4, KeptIsKept DEF SameTurn, Calmer, t
<1> QED
  BY <1>1, <1>2, <1>3, <1>4, <1>5, <1>6 DEF Eased, t

-----------------------------------------------------------------------------
(* The three ends of a start.                                              *)

\* A new run has a number.
LEMMA RunIsANumber ==
    ASSUME FiniteThreads
    PROVE  FreshRun \in Nat
<1> DEFINE B == confirms \cup deaths
           f == [c \in B |-> c.subject.run]
           h == [r \in redials |-> r.subject.run]
           E == IF shared.entry = NoEntry THEN {} ELSE {shared.entry.subject.run}
<1>1. IsFiniteSet(B) /\ IsFiniteSet(redials)
  BY FS_Union DEF FiniteThreads
<1>2. IsFiniteSet({c.subject.run : c \in B})
  <2>1. f \in [B -> {f[x] : x \in B}] /\ {f[x] : x \in B} = {c.subject.run : c \in B}
    OBVIOUS
  <2> HIDE DEF B, f
  <2>2. IsFiniteSet({f[x] : x \in B})
    BY <1>1, <2>1, ImageIsFinite
  <2> QED
    BY <2>1, <2>2
<1>3. IsFiniteSet({r.subject.run : r \in redials})
  <2>1. /\ h \in [redials -> {h[x] : x \in redials}]
        /\ {h[x] : x \in redials} = {r.subject.run : r \in redials}
    OBVIOUS
  <2> HIDE DEF h
  <2>2. IsFiniteSet({h[x] : x \in redials})
    BY <1>1, <2>1, ImageIsFinite
  <2> QED
    BY <2>1, <2>2
<1>4. IsFiniteSet({shared.session.run}) /\ IsFiniteSet(E)
  BY FS_Singleton, FS_EmptySet
<1> DEFINE C == {c.subject.run : c \in B}
           D == {r.subject.run : r \in redials}
<1>5. IsFiniteSet(({shared.session.run} \cup C) \cup D)
  <2> HIDE DEF B, C, D
  <2>1. IsFiniteSet(C) /\ IsFiniteSet(D)
    BY <1>2, <1>3 DEF C, D
  <2>2. IsFiniteSet({shared.session.run} \cup C)
    BY <1>4, <2>1, FS_Union
  <2> QED
    BY <2>1, <2>2, FS_Union
<1> DEFINE X == ({shared.session.run} \cup C) \cup D
<1>6. FreshRun = Least(X \cup E)
  BY DEF FreshRun
<1> HIDE DEF X, E
<1>7. IsFiniteSet(X \cup E)
  BY <1>4, <1>5, FS_Union DEF X
<1> QED
  BY <1>6, <1>7, LeastIsFresh

Origin == {"explicit", "failover", "reconnect"}

\* Who may start what: an automatic start is one the entry admits, and a
\* redial is only for a generation that failover does not own.
LEMMA AcceptsIs ==
    ASSUME NEW s \in Shared, Sound(s), NEW origin \in Origin, NEW target,
           NEW g \in Nat, IsCurrent(s, g), Accepts(s, origin, target, g)
    PROVE  /\ Present(s)
           /\ Owns(s, g) <=> s.entry # NoEntry
           /\ origin = "failover" =>
                 /\ s.entry # NoEntry /\ Armed(s) /\ GrantStands(s)
                 /\ CanAdmit(s.entry.activation, target, s.entry.backoff)
           /\ origin = "reconnect" =>
                 /\ s.entry = NoEntry /\ s.retry # NoRetry
                 /\ RetryCurrent(s, target, g)
<1>1. Present(s) /\ (Owns(s, g) <=> s.entry # NoEntry)
  BY DEF Sound, IsCurrent, Owns
<1>2. origin = "failover" =>
         /\ s.entry # NoEntry /\ Armed(s) /\ GrantStands(s)
         /\ CanAdmit(s.entry.activation, target, s.entry.backoff)
  BY DEF Accepts, AdmitsFailover, Owns
<1>3. ASSUME origin = "reconnect"
      PROVE  s.entry = NoEntry /\ s.retry # NoRetry /\ RetryCurrent(s, target, g)
  BY <1>1, <1>3 DEF Accepts, RetryCurrent, RetryReceipt, IsCurrent, NoRetry
<1> QED
  BY <1>1, <1>2, <1>3

\* A refused start takes up nothing.
LEMMA RefusedIs ==
    ASSUME NEW s \in Shared, Sound(s), NEW origin \in Origin, NEW target,
           NEW g \in Nat, Refused(s, origin, target, g)
    PROVE  /\ Eased(s, shared') /\ shared'.recoverers = s.recoverers
           /\ confirms' = confirms /\ standby' = standby
<1>0. Eased(s, s) /\ Eased(s, Disarm(s)) /\ Disarm(s).recoverers = s.recoverers
  BY EasedIsEased, DisarmIsQuiet
<1>1. CASE shared' = s
  BY <1>0, <1>1 DEF Refused
<1>2. CASE /\ IsCurrent(s, g) /\ FALSE \in HelperOutcomes(s)
           /\ shared' = IF origin = "reconnect" THEN CancelRetry(HelperLost(s), g)
                        ELSE HelperLost(s)
  <2>1. Present(s) /\ HasEnvelope(s)
    BY <1>2 DEF HelperOutcomes, HasEnvelope
  <2>2. Eased(s, HelperLost(s)) /\ HelperLost(s).recoverers = s.recoverers
    BY <2>1, HelperLostIs
  <2>3. /\ Eased(s, CancelRetry(HelperLost(s), g))
        /\ CancelRetry(HelperLost(s), g).recoverers = s.recoverers
    BY <2>2, EasedThenCancelled
  <2> QED
    BY <1>2, <2>2, <2>3 DEF Refused
<1>3. CASE shared' = Refusal(s, origin, g)
  <2>1. Eased(s, CancelRetry(s, g)) /\ CancelRetry(s, g).recoverers = s.recoverers
    BY <1>0, EasedThenCancelled
  <2>2. Refusal(s, origin, g) \in {s, Disarm(s), CancelRetry(s, g)}
    BY DEF Refusal, Origin
  <2> QED
    BY <1>0, <1>3, <2>1, <2>2 DEF Refused
<1> QED
  BY <1>1, <1>2, <1>3 DEF Refused

\* What admission writes before the engine connects.
LEMMA AdmissionIs ==
    ASSUME NEW s \in Shared, Sound(s), NEW origin \in Origin, NEW target \in Candidate,
           NEW g \in Nat, IsCurrent(s, g), Accepts(s, origin, target, g)
    PROVE  LET t == Admission(s, origin, target)
               d == s.entry
               e == t.entry
           IN  /\ t \in Shared /\ t.session = s.session /\ t.recoverers = s.recoverers
               /\ t.generation = s.generation /\ t.override = s.override
               /\ t.retry.generation = s.retry.generation
               /\ SameGrant(d, e)
               /\ e # NoEntry =>
                     /\ e.worker = d.worker /\ e.backoff = d.backoff
                     /\ origin = "failover" =>
                           e.activation = Admitted(d.activation, target) /\ e.automatic
                     /\ origin # "failover" =>
                           e.activation = d.activation /\ e.automatic = d.automatic
<1>1. CASE origin = "explicit"
  BY <1>1 DEF Admission, SameGrant
<1>2. CASE origin = "failover"
  <2>1. s.entry # NoEntry
    BY <1>2, AcceptsIs
  <2>2. Admission(s, origin, target) = FailoverAdmitted(s, target)
    BY <1>2 DEF Admission
  <2> QED
    BY <1>2, <2>1, <2>2, FailoverAdmittedIs DEF Quiet
<1>3. CASE origin = "reconnect"
  <2>1. s.retry # NoRetry /\ s.entry = NoEntry
    BY <1>3, AcceptsIs
  <2>2. s.retry \in [generation : Nat \ {0}, attempting : BOOLEAN, allowed : BOOLEAN]
    BY <2>1, EntryExists
  <2> DEFINE p == [s.retry EXCEPT !.attempting = TRUE]
             t == [s EXCEPT !.retry = p]
  <2>3. Admission(s, origin, target) = t
    BY <1>3 DEF Admission, Shared
  <2>4. /\ p \in [generation : Nat \ {0}, attempting : BOOLEAN, allowed : BOOLEAN]
        /\ p.generation = s.retry.generation
    BY <2>2
  <2> HIDE DEF p
  <2>5. /\ t \in Shared /\ t.session = s.session /\ t.recoverers = s.recoverers
        /\ t.generation = s.generation /\ t.override = s.override
        /\ t.retry = p /\ t.entry = s.entry
    BY <2>4 DEF Shared
  <2> HIDE DEF t
  <2> QED
    BY <1>3, <2>1, <2>3, <2>4, <2>5 DEF SameGrant
<1> QED
  BY <1>1, <1>2, <1>3 DEF Origin

\* A start that ends in an error is bound to the entry and revokes its grant.
LEMMA GivenUpIs ==
    ASSUME NEW m \in Shared, NEW target \in Candidate, NEW g \in Nat,
           Owns(m, g) <=> m.entry # NoEntry
    PROVE  LET t == Disarm(Bind(m, target, g))
               e == t.entry
           IN  /\ Quiet(m, t) /\ t.session = m.session /\ t.recoverers = m.recoverers
               /\ ~Armed(t)
               /\ e # NoEntry =>
                     /\ e.current = target /\ e.automatic = m.entry.automatic
                     /\ e.activation = Disarmed(m.entry.activation)
                     /\ e.worker = m.entry.worker /\ e.backoff = m.entry.backoff
<1> DEFINE b == Bind(m, target, g)
<1>1. /\ Quiet(m, b) /\ b.session = m.session /\ b.recoverers = m.recoverers
      /\ b.entry # NoEntry =>
            /\ b.entry.current = target /\ b.entry.activation = m.entry.activation
            /\ b.entry.automatic = m.entry.automatic
            /\ b.entry.worker = m.entry.worker /\ b.entry.backoff = m.entry.backoff
  BY BindIs DEF Quiet, SameGrant
<1>2. b \in Shared
  BY <1>1 DEF Quiet
<1> HIDE DEF b
<1>3. /\ Quiet(b, Disarm(b)) /\ Disarm(b).session = b.session
      /\ Disarm(b).recoverers = b.recoverers /\ Disarm(b).entry = Revoked(b.entry)
  BY <1>2, DisarmIsQuiet
<1>4. LET e == Revoked(b.entry) IN
      /\ SameGrant(b.entry, e)
      /\ e # NoEntry =>
            /\ ~e.activation.armed
            /\ e.activation = Disarmed(b.entry.activation)
            /\ e.current = b.entry.current
            /\ e.automatic = b.entry.automatic /\ e.worker = b.entry.worker
            /\ e.backoff = b.entry.backoff
  BY <1>2, RevokedIs
<1>5. Quiet(m, Disarm(b))
  BY <1>1, <1>3, QuietTwice
<1> QED
  BY <1>1, <1>3, <1>4, <1>5 DEF Armed, SameGrant, b

\* The entry after a start of `target` for `origin`, but for what it is bound to.
Restarted(d, e, origin, target) ==
    /\ SameGrant(d, e)
    /\ e # NoEntry =>
          /\ e.current = target
          /\ e.worker = d.worker /\ e.backoff = d.backoff
          /\ origin = "failover" => e.automatic
          /\ origin # "failover" => e.automatic = d.automatic

\* Apart from the session and the entry, a start leaves things as they are.
SameGeneration(s, t) ==
    /\ t \in Shared /\ Present(s) /\ Present(t)
    /\ t.generation = s.generation /\ t.override = s.override
    /\ t.retry.generation = s.retry.generation /\ t.recoverers = s.recoverers

LEMMA FailedIs ==
    ASSUME NEW s \in Shared, Sound(s), NEW origin \in Origin, NEW target \in Candidate,
           NEW g \in Nat, FreshRun \in Nat, Failed(s, origin, target, g)
    PROVE  LET t == shared'
               a == s.entry.activation
           IN  /\ SameGeneration(s, t) /\ Weaker(s, t) /\ ~Armed(t)
               /\ t.session = s.session \/ StillBorn(t.session)
               /\ Restarted(s.entry, t.entry, origin, target)
               /\ t.entry # NoEntry =>
                     t.entry.activation = Disarmed(IF origin = "failover"
                                                   THEN Admitted(a, target) ELSE a)
               /\ confirms' = confirms /\ standby' = FALSE
<1> DEFINE m == Admission(s, origin, target)
           o == RunOpened(m, target, FreshRun, FALSE)
           a == s.entry.activation
<1>1. IsCurrent(s, g) /\ Accepts(s, origin, target, g)
  BY DEF Failed
<1>2. Present(s) /\ (Owns(s, g) <=> s.entry # NoEntry)
  BY <1>1, AcceptsIs
<1>3. /\ m \in Shared /\ m.session = s.session /\ m.recoverers = s.recoverers
      /\ m.generation = s.generation /\ m.override = s.override
      /\ m.retry.generation = s.retry.generation
      /\ SameGrant(s.entry, m.entry)
      /\ m.entry # NoEntry =>
            /\ m.entry.worker = s.entry.worker /\ m.entry.backoff = s.entry.backoff
            /\ origin = "failover" =>
                  m.entry.activation = Admitted(a, target) /\ m.entry.automatic
            /\ origin # "failover" =>
                  m.entry.activation = a /\ m.entry.automatic = s.entry.automatic
  BY <1>1, AdmissionIs
<1>4. Present(m) /\ SoundSession(m.session)
  BY <1>2, <1>3 DEF Sound, Present
<1>5. \/ shared' = Disarm(Bind(m, target, g))
      \/ shared' = Disarm(Bind(o, target, g))
  BY DEF Failed
<1>6. confirms' = confirms /\ standby' = FALSE
  BY DEF Failed
<1> HIDE DEF m
<1>7. PICK y \in Session :
         /\ o = With(m, y) /\ SoundSession(y) /\ KeepsHold(m.session, y)
         /\ StillBorn(y) /\ y.holding = m.session.holding
  BY <1>3, <1>4, RunOpenedIs
<1>8. /\ o \in Shared /\ Present(o) /\ o.session = y
      /\ SameButSession(m, o)
  BY <1>3, <1>7, WithIs
<1> HIDE DEF o
<1>9. ASSUME NEW n \in Shared, SameButSession(m, n), Present(n), n = m \/ n.session = y,
             shared' = Disarm(Bind(n, target, g))
      PROVE  LET t == shared' IN
             /\ SameGeneration(s, t) /\ Weaker(s, t) /\ ~Armed(t)
             /\ t.session = s.session \/ StillBorn(t.session)
             /\ Restarted(s.entry, t.entry, origin, target)
             /\ t.entry # NoEntry =>
                   t.entry.activation = Disarmed(IF origin = "failover"
                                                 THEN Admitted(a, target) ELSE a)
  <2> DEFINE t == Disarm(Bind(n, target, g))
  <2>1. Owns(n, g) <=> n.entry # NoEntry
    BY <1>2, <1>3, <1>9 DEF Owns, SameButSession, SameGrant
  <2>2. /\ Quiet(n, t) /\ t.session = n.session /\ t.recoverers = n.recoverers
        /\ ~Armed(t)
        /\ t.entry # NoEntry =>
              /\ t.entry.current = target /\ t.entry.automatic = n.entry.automatic
              /\ t.entry.activation = Disarmed(n.entry.activation)
              /\ t.entry.worker = n.entry.worker /\ t.entry.backoff = n.entry.backoff
    BY <2>1, GivenUpIs
  <2> HIDE DEF t
  <2>3. SameGeneration(s, t)
    BY <1>2, <1>3, <1>9, <2>2 DEF SameGeneration, SameButSession, Quiet, Present
  <2>4. t.session = s.session \/ StillBorn(t.session)
    BY <1>3, <1>7, <1>9, <2>2
  <2>5. Weaker(s, t)
    <3>1. CASE n = m
      <4>1. Weaker(s, s) /\ t.session = s.session
        BY <1>3, <2>2, <3>1, WeakerIsWeaker
      <4> QED
        BY <2>3, <4>1 DEF Weaker, Present, SameGeneration
    <3>2. CASE n.session = y
      BY <1>2, <1>3, <1>7, <2>2, <3>2 DEF Weaker, StillBorn
    <3> QED
      BY <1>9, <3>1, <3>2
  <2>6. Restarted(s.entry, t.entry, origin, target)
    BY <1>3, <1>9, <2>2 DEF Restarted, SameGrant, SameButSession, Quiet
  <2>7. t.entry # NoEntry =>
           t.entry.activation = Disarmed(IF origin = "failover"
                                         THEN Admitted(a, target) ELSE a)
    BY <1>3, <1>9, <2>2 DEF SameGrant, SameButSession, Quiet
  <2> QED
    BY <1>9, <2>2, <2>3, <2>4, <2>5, <2>6, <2>7 DEF t
<1>10. SameButSession(m, m)
  BY DEF SameButSession
<1> QED
  BY <1>3, <1>4, <1>5, <1>6, <1>8, <1>9, <1>10

LEMMA LaunchedIs ==
    ASSUME NEW s \in Shared, Sound(s), NEW origin \in Origin, NEW target \in Candidate,
           NEW g \in Nat, FreshRun \in Nat, Launched(s, origin, target, g)
    PROVE  LET t == shared'
               a == s.entry.activation
           IN  /\ SameGeneration(s, t) /\ KeepsHold(s.session, t.session)
               /\ NewBorn(t.session, target)
               /\ Restarted(s.entry, t.entry, origin, target)
               /\ t.entry # NoEntry =>
                     /\ t.entry.subject = Captured(t, g)
                     /\ t.entry.activation = IF origin = "failover"
                                             THEN Admitted(a, target) ELSE a
               /\ confirms' = confirms \cup
                     {[subject |-> Captured(t, g), target |-> target, origin |-> origin]}
               /\ standby' = FALSE
<1> DEFINE m == Admission(s, origin, target)
           n == RunOpened(m, target, FreshRun, TRUE)
           t == Bind(n, target, g)
           a == s.entry.activation
<1>1. IsCurrent(s, g) /\ Accepts(s, origin, target, g)
  BY DEF Launched
<1>2. Present(s) /\ (Owns(s, g) <=> s.entry # NoEntry)
  BY <1>1, AcceptsIs
<1>3. /\ m \in Shared /\ m.session = s.session /\ m.recoverers = s.recoverers
      /\ m.generation = s.generation /\ m.override = s.override
      /\ m.retry.generation = s.retry.generation
      /\ SameGrant(s.entry, m.entry)
      /\ m.entry # NoEntry =>
            /\ m.entry.worker = s.entry.worker /\ m.entry.backoff = s.entry.backoff
            /\ origin = "failover" =>
                  m.entry.activation = Admitted(a, target) /\ m.entry.automatic
            /\ origin # "failover" =>
                  m.entry.activation = a /\ m.entry.automatic = s.entry.automatic
  BY <1>1, AdmissionIs
<1>4. Present(m) /\ SoundSession(m.session)
  BY <1>2, <1>3 DEF Sound, Present
<1>5. /\ shared' = t
      /\ confirms' = confirms \cup
            {[subject |-> Captured(n, g), target |-> target, origin |-> origin]}
      /\ standby' = FALSE
  BY DEF Launched
<1> HIDE DEF m
<1>6. PICK y \in Session :
         n = With(m, y) /\ KeepsHold(m.session, y) /\ NewBorn(y, target)
  BY <1>3, <1>4, RunOpenedIs
<1>7. n \in Shared /\ Present(n) /\ n.session = y /\ SameButSession(m, n)
  BY <1>3, <1>6, WithIs
<1> HIDE DEF n
<1>8. Owns(n, g) <=> n.entry # NoEntry
  BY <1>2, <1>3, <1>7 DEF Owns, SameButSession, SameGrant
<1>9. /\ Quiet(n, t) /\ t.session = n.session /\ t.recoverers = n.recoverers
      /\ n.entry # NoEntry =>
            /\ t.entry.subject = Captured(n, g) /\ t.entry.current = target
            /\ t.entry.activation = n.entry.activation
            /\ t.entry.automatic = n.entry.automatic
            /\ t.entry.worker = n.entry.worker /\ t.entry.backoff = n.entry.backoff
  BY <1>7, <1>8, BindIs
<1> HIDE DEF t
<1>10. SameGeneration(s, t)
  BY <1>2, <1>3, <1>7, <1>9 DEF SameGeneration, SameButSession, Quiet, Present
<1>11. KeepsHold(s.session, t.session) /\ NewBorn(t.session, target)
  BY <1>3, <1>6, <1>7, <1>9
<1>12. Captured(n, g) = Captured(t, g)
  BY <1>9 DEF Captured
<1>13. Restarted(s.entry, t.entry, origin, target)
  BY <1>3, <1>7, <1>9 DEF Restarted, SameGrant, SameButSession, Quiet
<1>14. t.entry # NoEntry =>
          /\ t.entry.subject = Captured(t, g)
          /\ t.entry.activation = IF origin = "failover" THEN Admitted(a, target) ELSE a
  BY <1>3, <1>7, <1>9, <1>12 DEF SameGrant, SameButSession, Quiet
<1> QED
  BY <1>5, <1>10, <1>11, <1>12, <1>13, <1>14

-----------------------------------------------------------------------------
(* The state every step starts from, and the steps that take up nothing.   *)

\* A closed daemon and a missing session have no generation, what belongs to a
\* generation belongs to the current one, and the session is sound.
Grounded ==
    /\ Sound(shared)
    /\ closed => shared.generation = 0
    /\ shared.retry # NoRetry => shared.retry.generation = shared.generation

Base == TypeOK /\ FiniteThreads /\ Grounded

LEMMA BaseIs ==
    ASSUME Base
    PROVE  /\ shared \in Shared /\ Sound(shared)
           /\ FreshRun \in Nat
           /\ FreshGeneration \in Nat \ {0} /\ FreshGeneration \notin HeldGenerations
BY RunIsANumber, GenerationIsFresh DEF Base, TypeOK, Grounded

\* Easing keeps the engine sound.
LEMMA EasedIsGrounded ==
    ASSUME Base, Eased(shared, shared'), closed' = closed \/ shared'.generation = 0
    PROVE  shared' \in Shared /\ Grounded'
<1>1. shared' \in Shared /\ Weaker(shared, shared') /\ shared \in Shared
  BY BaseIs DEF Eased
<1>2. Sound(shared)'
  <2>1. Present(shared') => SoundSession(shared'.session)
    BY <1>1 DEF Weaker
  <2>2. ~Present(shared') => shared'.generation = 0
    BY <1>1 DEF Eased, SameTurn, Withdrawn, Base, Grounded, Sound
  <2>3. shared'.entry # NoEntry => shared'.entry.generation = shared'.generation
    BY <1>1 DEF Eased, SameTurn, Withdrawn, Base, Grounded, Sound, Kept, SameGrant
  <2> QED
    BY <2>1, <2>2, <2>3 DEF Sound, Present
<1>3. shared'.retry # NoRetry => shared'.retry.generation = shared'.generation
  <2>1. ASSUME SameTurn(shared, shared'), shared'.retry # NoRetry
        PROVE  shared'.retry.generation = shared'.generation
    <3>1. shared.retry # NoRetry
      BY <1>1, <2>1, EntryExists DEF SameTurn
    <3> QED
      BY <2>1, <3>1 DEF SameTurn, Base, Grounded
  <2> QED
    BY <2>1 DEF Eased, Withdrawn
<1>4. closed' => shared'.generation = 0
  BY DEF Eased, SameTurn, Withdrawn, Base, Grounded
<1> QED
  BY <1>1, <1>2, <1>3, <1>4 DEF Grounded

\* The guarded state without a session.
LEMMA WithoutSessionIs ==
    ASSUME NEW s \in Shared
    PROVE  LET t == [s EXCEPT !.session = NoSession] IN
           /\ t \in Shared /\ ~Present(t) /\ t.generation = s.generation
           /\ t.override = s.override /\ t.retry = s.retry /\ t.entry = s.entry
           /\ t.recoverers = s.recoverers
BY DEF Shared, Present

Retry == [generation : Nat \ {0}, attempting : BOOLEAN, allowed : BOOLEAN]

\* The guarded state with another schedule.
WithRetry(s, retry) == [s EXCEPT !.retry = retry]

LEMMA WithRetryIs ==
    ASSUME NEW s \in Shared, NEW r \in Retry \cup {NoRetry}
    PROVE  LET t == WithRetry(s, r) IN
           /\ t \in Shared /\ t.session = s.session /\ t.recoverers = s.recoverers
           /\ t.generation = s.generation /\ t.override = s.override
           /\ t.entry = s.entry /\ t.retry = r
BY DEF Shared, WithRetry, Retry

\* The flags of a scheduled retry do not move it to another generation.
LEMMA RetryFlagIs ==
    ASSUME NEW s \in Shared, s.retry # NoRetry, NEW flag \in BOOLEAN
    PROVE  \A t \in {[s EXCEPT !.retry.allowed = flag], [s EXCEPT !.retry.attempting = flag]} :
              /\ t \in Shared /\ t.session = s.session /\ t.recoverers = s.recoverers
              /\ t.generation = s.generation /\ t.override = s.override
              /\ t.entry = s.entry /\ t.retry.generation = s.retry.generation
              /\ t.retry # NoRetry
<1> DEFINE p == [s.retry EXCEPT !.allowed = flag]
           q == [s.retry EXCEPT !.attempting = flag]
<1>1. s.retry \in Retry
  BY EntryExists DEF Retry
<1>2. /\ [s EXCEPT !.retry.allowed = flag] = WithRetry(s, p)
      /\ [s EXCEPT !.retry.attempting = flag] = WithRetry(s, q)
  BY DEF Shared, WithRetry
<1>3. /\ p \in Retry /\ p.generation = s.retry.generation
      /\ q \in Retry /\ q.generation = s.retry.generation
  BY <1>1 DEF Retry
<1>4. p # NoRetry /\ q # NoRetry
  BY <1>3 DEF NoRetry, Retry
<1> HIDE DEF p, q
<1> QED
  BY <1>2, <1>3, <1>4, WithRetryIs

\* Only the flags of the retry differ.
LEMMA FlagIsEased ==
    ASSUME NEW s \in Shared, Sound(s), NEW t \in Shared, t.session = s.session,
           t.generation = s.generation, t.override = s.override, t.entry = s.entry,
           t.retry.generation = s.retry.generation
    PROVE  Eased(s, t)
<1>1. Weaker(s, s) /\ Kept(s.entry, s.entry)
  BY WeakerIsWeaker, KeptIsKept
<1>2. Weaker(s, t)
  BY <1>1 DEF Weaker, Present
<1>3. SameTurn(s, t)
  BY <1>1 DEF SameTurn, Present
<1> QED
  BY <1>2, <1>3 DEF Eased

LEMMA DownIs ==
    ASSUME Base, Down
    PROVE  Eased(shared, shared') /\ shared'.recoverers = shared.recoverers
<1> DEFINE c == OverrideCleared(shared)
           f == Invalidated(c)
           h == HalfDeleted(f.session)
<1>1. shared \in Shared /\ Sound(shared) /\ 0 \in Candidate
  BY BaseIs, PolicyAssumption DEF Candidate
<1>2. /\ c \in Shared /\ c.override = NoOverride /\ c.session = shared.session
      /\ c.recoverers = shared.recoverers
  BY <1>1, OverrideIs
<1>3. Down => \/ shared' = f \/ shared' = [f EXCEPT !.session = NoSession]
              \/ shared' = [f EXCEPT !.session = h]
  BY DEF Down
<1> HIDE DEF c
<1>4. Forgotten(c, f) /\ f.override = c.override /\ f.session = c.session
  BY <1>2, InvalidatedIs
<1>5. f.session \in Session /\ SoundSession(f.session) /\ Present(f)
  BY <1>1, <1>2, <1>4, SessionExists DEF Down, Sound, Present
<1>6. h \in Session /\ SoundSession(h) /\ Calmer(f.session, h)
      /\ h.status = f.session.status /\ h.holding = f.session.holding
  BY <1>5 DEF HalfDeleted, Session, SoundSession, Calmer
<1> HIDE DEF f
<1>7. /\ shared' \in Shared
      /\ shared'.session \in {shared.session, h} \/ ~Present(shared')
      /\ shared'.generation = 0 /\ shared'.entry = NoEntry /\ shared'.retry = NoRetry
      /\ shared'.override = NoOverride /\ shared'.recoverers = shared.recoverers
  <2>1. CASE shared' = [f EXCEPT !.session = h]
    <3>1. f \in Shared
      BY <1>4 DEF Forgotten
    <3>2. /\ shared' \in Shared /\ shared'.session = h
          /\ shared'.generation = f.generation /\ shared'.entry = f.entry
          /\ shared'.retry = f.retry /\ shared'.override = f.override
          /\ shared'.recoverers = f.recoverers
      BY <1>6, <2>1, <3>1 DEF Shared
    <3> QED
      BY <1>2, <1>4, <3>2 DEF Forgotten
  <2>2. CASE shared' = f \/ shared' = [f EXCEPT !.session = NoSession]
    BY <1>2, <1>4, <2>2, WithoutSessionIs DEF Forgotten
  <2> QED
    BY <1>3, <2>1, <2>2
<1>8. Withdrawn(shared, shared')
  BY <1>7 DEF Withdrawn, NoOverride
<1>9. h = HalfDeleted(shared.session) /\ Calmer(shared.session, h)
      /\ h.status = shared.session.status /\ h.holding = shared.session.holding
      /\ f.session = shared.session
  BY <1>2, <1>4, <1>6
<1> HIDE DEF h
<1>10. Weaker(shared, shared')
  <2>1. CASE shared'.session = h
    BY <1>1, <1>5, <1>6, <1>9, <2>1 DEF Weaker, Present
  <2>2. CASE shared'.session = shared.session \/ ~Present(shared')
    BY <1>1, <1>7, <2>2, WeakerIsWeaker DEF Weaker, Present
  <2> QED
    BY <1>7, <2>1, <2>2
<1> QED
  BY <1>7, <1>8, <1>10 DEF Eased

LEMMA DeleteInterfaceIs ==
    ASSUME Base, DeleteInterface
    PROVE  Eased(shared, shared') /\ shared'.recoverers = shared.recoverers
<1> DEFINE d == Disarm(shared)
           none == [d.session EXCEPT !.iface = "none", !.envelope = FALSE]
<1>1. shared \in Shared /\ Sound(shared) /\ Eased(shared, d)
  BY BaseIs, EasedIsEased
<1>2. d \in Shared /\ d.session = shared.session /\ d.recoverers = shared.recoverers
  BY <1>1, DisarmIsQuiet DEF Quiet
<1> HIDE DEF d
<1>3. d.session \in Session /\ SoundSession(d.session) /\ Present(d)
  BY <1>1, <1>2, SessionExists DEF DeleteInterface, Sound, Present
<1>4. \A y \in {HalfDeleted(d.session), none} :
        /\ y \in Session /\ SoundSession(y) /\ Calmer(d.session, y)
        /\ KeepsHold(d.session, y) \/ y = HalfDeleted(d.session)
        /\ y.status = d.session.status
        /\ y.holding = d.session.holding /\ y.target = d.session.target
  <2>1. ASSUME NEW y \in Session, y = HalfDeleted(d.session)
        PROVE  SoundSession(y) /\ Calmer(d.session, y)
    BY <1>3, <2>1 DEF HalfDeleted, Session, SoundSession, Calmer
  <2>2. /\ HalfDeleted(d.session) \in Session
        /\ HalfDeleted(d.session).status = d.session.status
        /\ HalfDeleted(d.session).holding = d.session.holding
        /\ HalfDeleted(d.session).target = d.session.target
    BY <1>3 DEF HalfDeleted, Session
  <2>3. /\ none \in Session /\ SoundSession(none) /\ Calmer(d.session, none)
        /\ KeepsHold(d.session, none) /\ none.status = d.session.status
        /\ none.holding = d.session.holding /\ none.target = d.session.target
    BY <1>3 DEF Session, SoundSession, Calmer, KeepsHold
  <2> QED
    BY <2>1, <2>2, <2>3
<1>5. shared' = d \/ \E y \in {HalfDeleted(d.session), none} : shared' = With(d, y)
  BY <1>3 DEF DeleteInterface, d, With, Shared, Session
<1> HIDE DEF none
<1>6. CASE shared' = d
  BY <1>1, <1>2, <1>6
<1>7. ASSUME NEW y \in {HalfDeleted(d.session), none}, shared' = With(d, y)
      PROVE  Eased(shared, shared') /\ shared'.recoverers = shared.recoverers
  <2>1. /\ shared' \in Shared /\ Present(shared') /\ SameButSession(d, shared')
        /\ shared'.session = y
    BY <1>2, <1>4, <1>7, WithIs
  <2>2. Weaker(shared, shared')
    BY <1>2, <1>3, <1>4, <2>1 DEF Weaker, Present
  <2>3. SameTurn(shared, shared') \/ Withdrawn(shared, shared')
    BY <1>1, <1>2, <1>4, <2>1
       DEF Eased, SameTurn, Withdrawn, SameButSession, Calmer, Armed
  <2> QED
    BY <1>2, <2>1, <2>2, <2>3 DEF Eased, SameButSession
<1> QED
  BY <1>5, <1>6, <1>7

\* A saved profile that differs from the activated one costs the grant.
LEMMA ReconciledIs ==
    ASSUME NEW s \in Shared, Sound(s), NEW profile
    PROVE  LET t == ReconcileProfile(s, profile) IN
           /\ t \in {s, Disarm(s)}
           /\ Eased(s, t) /\ t.recoverers = s.recoverers /\ t.session = s.session
           /\ t.generation = s.generation /\ t.override = s.override /\ t.retry = s.retry
           /\ Armed(t) => t.entry.grant = profile
<1>1. /\ Disarm(s).session = s.session /\ Disarm(s).recoverers = s.recoverers
      /\ Disarm(s).generation = s.generation /\ Disarm(s).override = s.override
      /\ Disarm(s).retry = s.retry
      /\ ~Armed(Disarm(s))
  BY DisarmIsQuiet, RevokedIs DEF Quiet, Armed
<1> QED
  BY <1>1, EasedIsEased DEF ReconcileProfile, Armed

LEMMA SettingsAppliedIs ==
    ASSUME NEW s \in Shared, Sound(s), NEW value
    PROVE  LET t == SettingsApplied(s, value) IN
           /\ Eased(s, t) /\ t.recoverers = s.recoverers /\ t.session = s.session
           /\ Armed(t) /\ Present(s) => t.entry.grant = saved
<1> DEFINE r == ReconcileProfile(s, saved)
           t == DisabledRetriesCancelled(r)
<1>1. /\ r \in Shared /\ Eased(s, r) /\ r.recoverers = s.recoverers
      /\ r.session = s.session /\ r.generation = s.generation
      /\ Armed(r) => r.entry.grant = saved
  BY ReconciledIs DEF Eased
<1>2. Eased(s, s)
  BY EasedIsEased
<1> HIDE DEF r
<1>3. /\ Eased(s, t) /\ t.recoverers = s.recoverers /\ t.session = s.session
      /\ Armed(t) => t.entry.grant = saved
  <2>1. CASE r.retry # NoRetry /\ r.retry.generation = r.generation /\ r.retry.attempting
    <3>1. t = [r EXCEPT !.retry.allowed = FALSE]
      BY <2>1 DEF DisabledRetriesCancelled
    <3> HIDE DEF t
    <3>2. /\ t \in Shared /\ t.session = r.session /\ t.recoverers = r.recoverers
          /\ t.generation = r.generation /\ t.override = r.override
          /\ t.entry = r.entry /\ t.retry.generation = r.retry.generation
      BY <1>1, <2>1, <3>1, RetryFlagIs
    <3>3. Weaker(s, t)
      BY <1>1, <3>2 DEF Eased, Weaker, Present
    <3>4. SameTurn(s, t)
      BY <1>1, <2>1, <3>2, EntryExists DEF Eased, SameTurn, Withdrawn, Present, Armed
    <3> QED
      BY <1>1, <3>2, <3>3, <3>4 DEF Eased, Armed
  <2>2. CASE ~(r.retry # NoRetry /\ r.retry.generation = r.generation /\ r.retry.attempting)
    <3>1. t = CancelRetry(r, r.generation)
      BY <2>2 DEF DisabledRetriesCancelled
    <3>2. r.generation \in Nat
      BY <1>1 DEF Shared
    <3> HIDE DEF t
    <3>3. Eased(s, t) /\ t.recoverers = r.recoverers
      BY <1>1, <3>1, <3>2, EasedThenCancelled
    <3>4. t = r \/ (Forgotten(r, t) /\ t.session = r.session)
      <4>1. LET cancels == /\ IsCurrent(r, r.generation)
                           /\ \/ r.override.kind = "reconnecting"
                              \/ r.retry.generation = r.generation
            IN  /\ t.session = r.session
                /\ ~cancels => t = r
                /\ cancels => Forgotten(r, t)
        BY <1>1, <3>1, <3>2, CancelRetryIs
      <4> QED
        BY <4>1
    <3> QED
      BY <1>1, <3>3, <3>4 DEF Forgotten, Armed
  <2> QED
    BY <2>1, <2>2
<1>4. SettingsApplied(s, value) \in {s, r, t}
  BY DEF SettingsApplied, r
<1>5. ~Present(s) => SettingsApplied(s, value) = s
  BY DEF SettingsApplied
<1>6. Present(s) => SettingsApplied(s, value) \in {r, t}
  BY DEF SettingsApplied, r
<1> HIDE DEF t
<1> QED
  BY <1>1, <1>2, <1>3, <1>4, <1>5, <1>6

\* The server of the session is gone from the catalog.
LosesServer(s, servers) ==
    /\ Present(s)
    /\ s.session.target \notin servers \cup {NoTarget}
    /\ s.session.status # "disconnected"

LEMMA TornDownIs ==
    ASSUME NEW s \in Shared, Sound(s), NEW servers, catalog' = servers, servers # catalog
    PROVE  LET t == TornDown(s, servers) IN
           /\ Eased(s, t) /\ t.recoverers = s.recoverers
           /\ Armed(t) => servers = Candidate
<1> DEFINE gone == LosesServer(s, servers)
           x == IF ~gone THEN s
                ELSE IF ~s.session.envelope THEN SessionStopped(s)
                ELSE [CoreFailed(s, "failed") EXCEPT
                        !.session.pending = FALSE, !.session.target = NoTarget,
                        !.session.holding = TRUE]
           r == ReconcileCatalog(x, servers)
           f == OverrideCleared(Invalidated(r))
           t == TornDown(s, servers)
<1>1. t = r \/ t = f
  BY DEF TornDown, LosesServer
<1>2. gone => t = f
  BY DEF TornDown, LosesServer
<1>3. CASE gone
  <2>1. PICK y \in Session :
           /\ x = With(s, y)
           /\ SoundSession(y)
           /\ Calmer(s.session, y) /\ y.status \in {"disconnected", "failed"}
           /\ y.holding => s.session.envelope
    <3>1. CASE ~s.session.envelope
      BY <1>3, <3>1, SessionStoppedIs DEF LosesServer, Sound
    <3>2. CASE s.session.envelope
      <4> DEFINE u == [s.session EXCEPT !.alive = FALSE, !.status = "failed"]
                 y == [u EXCEPT !.pending = FALSE, !.target = NoTarget, !.holding = TRUE]
      <4>1. u \in Session /\ CoreFailed(s, "failed") = With(s, u)
        BY <1>3, CoreFailedIs DEF Status, LosesServer
      <4>2. y \in Session
        BY <4>1 DEF Session, Target
      <4>3. [With(s, u) EXCEPT !.session.pending = FALSE, !.session.target = NoTarget,
                               !.session.holding = TRUE] = With(s, y)
        BY <4>1 DEF With, Shared, Session
      <4>4. x = With(s, y)
        BY <1>3, <3>2, <4>1, <4>3
      <4>5. s.session \in Session /\ SoundSession(s.session)
        BY <1>3, SessionExists DEF Sound, LosesServer
      <4>6. SoundSession(y) /\ Calmer(s.session, y) /\ y.status = "failed"
        BY <3>2, <4>5 DEF SoundSession, Calmer, Session
      <4> HIDE DEF u, y, x
      <4> QED
        BY <3>2, <4>2, <4>4, <4>6
    <3> QED
      BY <3>1, <3>2
  <2>2. x \in Shared /\ x.session = y /\ SameButSession(s, x) /\ Present(x)
    BY <2>1, WithIs
  <2> HIDE DEF x
  <2>3. /\ r \in Shared /\ r.session = y /\ r.recoverers = s.recoverers
        /\ r.override = s.override
    BY <2>2, DisarmIsQuiet DEF ReconcileCatalog, SameButSession, Quiet
  <2> HIDE DEF r
  <2>4. Forgotten(r, Invalidated(r)) /\ Invalidated(r).session = y
    BY <2>3, InvalidatedIs
  <2>5. /\ f \in Shared /\ f.override = NoOverride /\ f.session = y
        /\ f.generation = 0 /\ f.entry = NoEntry /\ f.retry = NoRetry
        /\ f.recoverers = s.recoverers
    <3>1. Invalidated(r) \in Shared /\ 0 \in Candidate
      BY <2>4, PolicyAssumption DEF Forgotten, Candidate
    <3> QED
      BY <2>3, <2>4, <3>1, OverrideIs DEF Forgotten
  <2> HIDE DEF f
  <2>6. Withdrawn(s, f)
    BY <2>5 DEF Withdrawn, NoOverride
  <2>7. Weaker(s, f)
    BY <1>3, <2>1, <2>5 DEF Weaker, LosesServer, Sound, SoundSession
  <2> HIDE DEF t
  <2> QED
    BY <1>2, <1>3, <2>5, <2>6, <2>7 DEF Eased, Armed, t
<1>4. CASE ~gone
  <2>1. x = s
    BY <1>4
  <2> HIDE DEF x, gone
  <2>2. /\ r \in Shared /\ r.session = s.session /\ r.recoverers = s.recoverers
        /\ r.override = s.override /\ Eased(s, r)
        /\ Armed(r) => servers = Candidate
    <3>1. ~Armed(Disarm(s))
      BY DisarmIsQuiet, RevokedIs DEF Armed
    <3> QED
      BY <2>1, <3>1, DisarmIsQuiet, EasedIsEased DEF ReconcileCatalog, Quiet
  <2> HIDE DEF r
  <2>3. Forgotten(r, Invalidated(r)) /\ Invalidated(r).session = s.session
    BY <2>2, InvalidatedIs
  <2>4. /\ f \in Shared /\ f.override = NoOverride /\ f.session = s.session
        /\ f.generation = 0 /\ f.entry = NoEntry /\ f.retry = NoRetry
        /\ f.recoverers = s.recoverers
    <3>1. Invalidated(r) \in Shared /\ 0 \in Candidate
      BY <2>3, PolicyAssumption DEF Forgotten, Candidate
    <3> QED
      BY <2>2, <2>3, <3>1, OverrideIs DEF Forgotten
  <2> HIDE DEF f
  <2>5. Withdrawn(s, f)
    BY <2>4 DEF Withdrawn, NoOverride
  <2>6. Weaker(s, f)
    BY <2>4, WeakerIsWeaker DEF Weaker, Present
  <2> HIDE DEF t
  <2> QED
    BY <1>1, <2>2, <2>4, <2>5, <2>6 DEF Eased, Armed, t
<1> QED
  BY <1>3, <1>4

\* The steps in which no thread of a generation takes part: requests that take
\* up nothing, the exit of a core, standby, and the end of the daemon.
EasyStep ==
    \/ Down
    \/ DeleteInterface
    \/ \E profile \in Grants \cup {"plain"} : SaveProfile(profile)
    \/ RemoveProfile
    \/ \E profile \in Grants \cup {"plain", "absent"} : EditFile(profile)
    \/ \E value \in BOOLEAN : SetSettings(value)
    \/ \E servers \in Catalogs : ChangeCatalog(servers)
    \/ CoreExits
    \/ ReconcileStandby
    \/ BeginTerminal
    \/ Shutdown
    \/ Ended

LEMMA CoreExitsIs ==
    ASSUME Base, CoreExits
    PROVE  Eased(shared, shared') /\ shared'.recoverers = shared.recoverers
<1> DEFINE y == [shared.session EXCEPT !.alive = FALSE]
<1>1. shared \in Shared /\ Sound(shared) /\ Present(shared)
  BY BaseIs DEF CoreExits
<1>2. shared.session \in Session /\ SoundSession(shared.session)
  BY <1>1, SessionExists DEF Sound
<1>3. /\ y \in Session /\ SoundSession(y) /\ Calmer(shared.session, y)
      /\ KeepsHold(shared.session, y) /\ y.status = shared.session.status
      /\ y.holding = shared.session.holding /\ y.target = shared.session.target
  BY <1>2 DEF Session, SoundSession, Calmer, KeepsHold
<1>4. shared' = With(shared, y)
  BY <1>1, <1>2 DEF CoreExits, With, Shared, Session
<1> HIDE DEF y
<1>5. /\ shared' \in Shared /\ Present(shared') /\ SameButSession(shared, shared')
      /\ shared'.session = y
  BY <1>1, <1>3, <1>4, WithIs
<1>6. Weaker(shared, shared')
  BY <1>1, <1>3, <1>5 DEF Weaker
<1>7. SameTurn(shared, shared')
  BY <1>1, <1>3, <1>5, KeptIsKept DEF SameTurn, SameButSession, Calmer
<1> QED
  BY <1>5, <1>6, <1>7 DEF Eased, SameButSession

LEMMA ShutdownIs ==
    ASSUME Base, Shutdown
    PROVE  Eased(shared, shared') /\ shared'.recoverers = shared.recoverers
<1>1. shared \in Shared /\ Sound(shared)
  BY BaseIs
<1>2. shared.generation = 0 /\ shared.entry = NoEntry
  BY <1>1, EntryExists DEF Shutdown, Base, Grounded, Sound
<1>3. CASE shared' = [shared EXCEPT !.session = NoSession]
  <2>1. /\ shared' \in Shared /\ ~Present(shared') /\ shared'.generation = 0
        /\ shared'.override = shared.override /\ shared'.retry = shared.retry
        /\ shared'.entry = shared.entry /\ shared'.recoverers = shared.recoverers
    BY <1>1, <1>2, <1>3, WithoutSessionIs
  <2> QED
    BY <1>1, <1>2, <2>1, KeptIsKept DEF Eased, Weaker, SameTurn, Armed
<1>4. CASE Present(shared) /\ shared' = CoreFailed(shared, "disconnected")
  <2> DEFINE y == [shared.session EXCEPT !.alive = FALSE, !.status = "disconnected"]
  <2>1. y \in Session /\ shared' = With(shared, y)
    BY <1>1, <1>4, CoreFailedIs DEF Status
  <2>2. shared.session \in Session /\ SoundSession(shared.session)
    BY <1>1, <1>4, SessionExists DEF Sound
  <2>3. /\ SoundSession(y) /\ Calmer(shared.session, y) /\ y.status = "disconnected"
        /\ KeepsHold(shared.session, y)
        /\ y.holding = shared.session.holding /\ y.target = shared.session.target
    BY <2>2 DEF Session, SoundSession, Calmer, KeepsHold
  <2> HIDE DEF y
  <2>4. /\ shared' \in Shared /\ Present(shared') /\ SameButSession(shared, shared')
        /\ shared'.session = y
    BY <1>1, <2>1, WithIs
  <2>5. Weaker(shared, shared')
    BY <1>4, <2>3, <2>4 DEF Weaker
  <2>6. SameTurn(shared, shared')
    BY <1>1, <2>3, <2>4, KeptIsKept DEF SameTurn, SameButSession, Calmer
  <2> QED
    BY <2>4, <2>5, <2>6 DEF Eased, SameButSession
<1> QED
  BY <1>3, <1>4 DEF Shutdown

LEMMA EasyStepIs ==
    ASSUME Base, EasyStep
    PROVE  /\ Eased(shared, shared') /\ shared'.recoverers = shared.recoverers
           /\ UNCHANGED threads
           /\ closed' = closed \/ shared'.generation = 0
           /\ {closed', stopped', standby', reconnect'} \subseteq BOOLEAN
           /\ saved' \in Grants \cup {"plain", "absent"}
           /\ catalog' \in SUBSET Candidate
<1>1. shared \in Shared /\ Sound(shared) /\ TypeOK
  BY BaseIs DEF Base
<1>2. /\ Eased(shared, shared) /\ Eased(shared, Disarm(shared))
      /\ Disarm(shared).recoverers = shared.recoverers
  BY <1>1, EasedIsEased, DisarmIsQuiet
<1>3. CASE Down
  BY <1>1, <1>3, DownIs DEF Down, TypeOK, threads, configuration
<1>4. CASE DeleteInterface
  BY <1>1, <1>4, DeleteInterfaceIs DEF DeleteInterface, TypeOK, threads, configuration
<1>5. CASE \E profile \in Grants \cup {"plain"} : SaveProfile(profile)
  <2>1. PICK profile \in Grants \cup {"plain"} : SaveProfile(profile)
    BY <1>5
  <2>2. Eased(shared, shared') /\ shared'.recoverers = shared.recoverers
    BY <1>1, <1>2, <2>1, ReconciledIs DEF SaveProfile
  <2> QED
    BY <1>1, <2>1, <2>2 DEF SaveProfile, TypeOK, threads
<1>6. CASE RemoveProfile
  BY <1>1, <1>2, <1>6 DEF RemoveProfile, TypeOK, threads
<1>7. CASE \E profile \in Grants \cup {"plain", "absent"} : EditFile(profile)
  BY <1>1, <1>2, <1>7 DEF EditFile, TypeOK, threads
<1>8. CASE \E value \in BOOLEAN : SetSettings(value)
  <2>1. PICK value \in BOOLEAN : SetSettings(value)
    BY <1>8
  <2>2. Eased(shared, shared') /\ shared'.recoverers = shared.recoverers
    BY <1>1, <2>1, SettingsAppliedIs DEF SetSettings
  <2> QED
    BY <1>1, <2>1, <2>2 DEF SetSettings, TypeOK, threads
<1>9. CASE \E servers \in Catalogs : ChangeCatalog(servers)
  <2>1. PICK servers \in Catalogs : ChangeCatalog(servers)
    BY <1>9
  <2>2. Eased(shared, shared') /\ shared'.recoverers = shared.recoverers
    BY <1>1, <2>1, TornDownIs DEF ChangeCatalog
  <2>3. servers \in SUBSET Candidate
    <3>1. Catalogs \subseteq SUBSET Candidate
      BY ConnectionAssumption
    <3> QED
      BY <2>1, <3>1
  <2> QED
    BY <1>1, <2>1, <2>2, <2>3 DEF ChangeCatalog, TypeOK, threads
<1>10. CASE CoreExits
  BY <1>1, <1>10, CoreExitsIs DEF CoreExits, TypeOK, threads, configuration
<1>11. CASE ReconcileStandby
  <2>1. (StandbyProxy /\ ~Busy(shared)) \in BOOLEAN
    OBVIOUS
  <2> QED
    BY <1>1, <1>2, <1>11, <2>1 DEF ReconcileStandby, TypeOK, threads, configuration
<1>12. CASE BeginTerminal
  <2>1. shared' = Invalidated(shared) /\ closed' = TRUE
    BY <1>12 DEF BeginTerminal
  <2>2. /\ Forgotten(shared, shared') /\ shared'.override = shared.override
        /\ shared'.session = shared.session
    BY <1>1, <2>1, InvalidatedIs
  <2>3. Weaker(shared, shared')
    BY <1>1, <2>2, WeakerIsWeaker DEF Weaker, Present, Forgotten
  <2>4. Withdrawn(shared, shared')
    BY <2>1, <2>2 DEF Withdrawn, Forgotten
  <2> QED
    BY <1>1, <1>12, <2>2, <2>3, <2>4
       DEF BeginTerminal, Forgotten, Eased, TypeOK, threads, configuration
<1>13. CASE Shutdown
  BY <1>1, <1>13, ShutdownIs DEF Shutdown, TypeOK, threads, configuration
<1>14. CASE Ended
  BY <1>1, <1>2, <1>14 DEF Ended, TypeOK, threads, configuration, vars
<1> QED
  BY <1>3, <1>4, <1>5, <1>6, <1>7, <1>8, <1>9, <1>10, <1>11, <1>12, <1>13, <1>14
     DEF EasyStep

-----------------------------------------------------------------------------
(* The steps of the supervisor and of the reconnect loop.                  *)

\* The core is given up on behalf of its session.
LEMMA CoreGivenUpIs ==
    ASSUME NEW s \in Shared, Sound(s), Present(s), NEW status \in Status \ {"connected"},
           \/ s.session.status = "connected"
           \/ s.entry # NoEntry /\ s.session.target # NoTarget
    PROVE  LET t == CoreExitNoted(CoreFailed(s, status)) IN
           /\ Eased(s, t) /\ SameButSession(s, t) /\ Present(t)
           /\ Calmer(s.session, t.session)
           /\ t.session.status = status /\ t.session.target = s.session.target
           /\ ~t.session.alive
<1> DEFINE t == CoreExitNoted(CoreFailed(s, status))
<1>1. SoundSession(s.session)
  BY DEF Sound
<1>2. PICK y \in Session :
         /\ t = With(s, y)
         /\ Calmer(s.session, y) /\ SoundSession(y) /\ KeepsHold(s.session, y)
         /\ y.status = status /\ y.target = s.session.target /\ ~y.alive
  BY <1>1, CoreLostIs
<1> HIDE DEF t
<1>3. t \in Shared /\ Present(t) /\ SameButSession(s, t) /\ t.session = y
  BY <1>2, WithIs
<1>4. Weaker(s, t)
  BY <1>2, <1>3 DEF Weaker
<1>5. SameTurn(s, t)
  BY <1>2, <1>3, KeptIsKept DEF SameTurn, SameButSession, Calmer
<1> QED
  BY <1>2, <1>3, <1>4, <1>5 DEF Eased, t

NewDeath == [target |-> shared.session.target, step |-> "begin",
             subject |-> Captured(shared, shared.generation)]

LEMMA NewDeathIs ==
    ASSUME Base, Present(shared), shared.session.target # NoTarget
    PROVE  NewDeath \in [target : Candidate, subject : Subject, step : {"begin", "claim"}]
<1>1. shared \in Shared /\ shared.session \in Session
  BY BaseIs, SessionExists
<1>2. shared.generation \in Nat /\ shared.session.target \in Candidate
  BY <1>1 DEF Shared, Session, Target
<1> QED
  BY <1>1, <1>2, CapturedIs DEF NewDeath

LEMMA SweepIs ==
    ASSUME Base, Sweep
    PROVE  /\ Eased(shared, shared') /\ shared'.recoverers = shared.recoverers
           /\ \/ deaths' = deaths
              \/ /\ deaths' = deaths \cup {NewDeath}
                 /\ Present(shared) /\ shared.session.target # NoTarget
<1>1. shared \in Shared /\ Sound(shared) /\ Present(shared)
  BY BaseIs DEF Sweep
<1>2. CASE /\ FALSE \in HelperOutcomes(shared)
           /\ shared' = HelperLost(shared) /\ deaths' = deaths
  <2>1. HasEnvelope(shared)
    BY <1>2 DEF HelperOutcomes
  <2> QED
    BY <1>1, <1>2, <2>1, HelperLostIs
<1>3. CASE /\ shared.session.status = "connected"
           /\ shared' = CoreExitNoted(CoreFailed(shared, "exited"))
           /\ deaths' = deaths \cup {NewDeath}
  <2>1. shared.session.target # NoTarget
    BY <1>1, <1>3 DEF Sound, SoundSession
  <2> QED
    BY <1>1, <1>3, <2>1, CoreGivenUpIs DEF Status, SameButSession
<1> QED
  BY <1>2, <1>3 DEF Sweep, NewDeath

\* The core the entry carries was killed, and the entry is told whose death to
\* expect.
Noticed(s, t) ==
    /\ t \in Shared /\ Weaker(s, t) /\ Present(s) /\ Present(t)
    /\ t.generation = s.generation /\ t.override = s.override /\ t.retry = s.retry
    /\ s.entry # NoEntry /\ SameGrant(s.entry, t.entry)
    /\ t.entry.activation = s.entry.activation /\ t.entry.current = s.entry.current
    /\ t.entry.automatic = s.entry.automatic
    /\ t.entry.worker = s.entry.worker /\ t.entry.backoff = s.entry.backoff
    /\ t.session.target = s.session.target
    /\ t.session.run = s.session.run /\ t.session.spawned = s.session.spawned
    /\ t.entry.subject = Captured(t, t.generation)

LEMMA WatchRecoverIs ==
    ASSUME Base, WatchRecover
    PROVE  /\ Eased(shared, shared') \/ Noticed(shared, shared')
           /\ shared'.recoverers = shared.recoverers
           /\ \/ deaths' = deaths
              \/ /\ deaths' = deaths \cup {NewDeath}
                 /\ Present(shared) /\ shared.session.target # NoTarget
<1>1. /\ shared \in Shared /\ Sound(shared)
      /\ Present(shared) /\ shared.session.target # NoTarget
  BY BaseIs DEF WatchRecover, Current
<1>2. CASE /\ FALSE \in HelperOutcomes(shared)
           /\ shared' = HelperLost(shared) /\ deaths' = deaths
  <2>1. HasEnvelope(shared)
    BY <1>2 DEF HelperOutcomes
  <2> QED
    BY <1>1, <1>2, <2>1, HelperLostIs
<1>3. CASE /\ shared.session.status = "connected"
           /\ LET subject == Captured(shared, shared.generation)
                  dead == CoreExitNoted(CoreFailed(shared, "exited"))
              IN  shared' = IF /\ Owns(dead, shared.generation)
                               /\ dead.entry.current = shared.session.target
                            THEN [dead EXCEPT !.entry.subject = subject] ELSE dead
           /\ deaths' = deaths \cup {NewDeath}
  <2> DEFINE dead == CoreExitNoted(CoreFailed(shared, "exited"))
             subject == Captured(shared, shared.generation)
  <2>1. /\ Eased(shared, dead) /\ SameButSession(shared, dead) /\ Present(dead)
        /\ Calmer(shared.session, dead.session)
        /\ dead.session.target = shared.session.target
    BY <1>1, <1>3, CoreGivenUpIs DEF Status
  <2>2. dead \in Shared /\ Weaker(shared, dead)
    BY <2>1 DEF Eased
  <2> HIDE DEF dead
  <2>3. CASE shared' = dead
    BY <1>1, <1>3, <2>1, <2>3 DEF SameButSession
  <2>4. CASE Owns(dead, shared.generation) /\ shared' = [dead EXCEPT !.entry.subject = subject]
    <3> DEFINE e == [dead.entry EXCEPT !.subject = subject]
    <3>1. dead.entry \in Entry
      BY <2>2, <2>4, EntryExists DEF Owns
    <3>2. shared' = WithEntry(dead, e)
      BY <2>2, <2>4, <3>1 DEF WithEntry, Shared, Entry
    <3>3. subject \in Subject
      BY <1>1, CapturedIs DEF Shared
    <3>4. /\ e \in Entry /\ e.generation = dead.entry.generation
          /\ e.grant = dead.entry.grant /\ e.activation = dead.entry.activation
          /\ e.current = dead.entry.current /\ e.automatic = dead.entry.automatic
          /\ e.worker = dead.entry.worker /\ e.backoff = dead.entry.backoff
          /\ e.subject = subject
      BY <3>1, <3>3 DEF Entry
    <3> HIDE DEF e
    <3>5. /\ shared' \in Shared /\ shared'.entry = e
          /\ shared'.generation = dead.generation /\ shared'.override = dead.override
          /\ shared'.retry = dead.retry /\ shared'.session = dead.session
          /\ shared'.recoverers = dead.recoverers
      BY <2>2, <3>2, <3>4, WithEntryIs
    <3>6. Weaker(shared, shared')
      BY <2>1, <2>2, <3>5 DEF Weaker, Present
    <3>7. SameGrant(shared.entry, shared'.entry) /\ shared.entry # NoEntry
      BY <2>1, <2>4, <3>1, <3>4, <3>5, EntryExists
         DEF SameGrant, SameButSession, Entry, NoEntry, Owns
    <3>8. e.subject = Captured(shared', shared'.generation)
      BY <2>1, <3>4, <3>5 DEF Captured, SameButSession, Calmer
    <3>9. Noticed(shared, shared')
      BY <1>1, <2>1, <3>4, <3>5, <3>6, <3>7, <3>8
         DEF Noticed, SameButSession, Calmer, Present
    <3> QED
      BY <1>1, <1>3, <2>1, <3>5, <3>9 DEF SameButSession
  <2> QED
    BY <1>3, <2>3, <2>4 DEF dead
<1> QED
  BY <1>2, <1>3 DEF WatchRecover, NewDeath

\* A failure of the member the entry is bound to is heard.
Failure(s, t) ==
    /\ Armed(s) /\ Quiet(s, t) /\ t.session = s.session /\ FailureOutcome(s, t)

LEMMA FailureIs ==
    ASSUME NEW s \in Shared, NEW target, NEW subject,
           NEW eligible \in BOOLEAN, NEW coreDeath \in BOOLEAN
    PROVE  LET t == FailureNoted(s, target, subject, eligible, coreDeath) IN
           \/ t = s
           \/ Failure(s, t) /\ Matches(s, target, subject)
BY FailureNotedIs DEF Failure, Heard

LEMMA BeginReconnectIs ==
    ASSUME Base, NEW d, BeginReconnect(d)
    PROVE  /\ d \in deaths
           /\ shared' = shared \/ Failure(shared, shared')
           /\ \/ deaths' = deaths \ {d}
              \/ /\ deaths' = (deaths \ {d}) \cup {[d EXCEPT !.step = "claim"]}
                 /\ ~Owns(shared, d.subject.generation)
                 /\ Current(shared, d.subject)
<1>1. shared \in Shared /\ TRUE \in BOOLEAN
  BY BaseIs
<1>2. LET t == FailureNoted(shared, d.target, d.subject, TRUE, TRUE) IN
      t = shared \/ Failure(shared, t)
  BY <1>1, FailureIs
<1>3. shared' = shared \/ shared' = FailureNoted(shared, d.target, d.subject, TRUE, TRUE)
  BY DEF BeginReconnect
<1> QED
  BY <1>2, <1>3 DEF BeginReconnect

LEMMA ClaimReconnectIs ==
    ASSUME Base, NEW d, ClaimReconnect(d)
    PROVE  LET g == d.subject.generation IN
           /\ d \in deaths /\ d.step = "claim" /\ deaths' = deaths \ {d}
           /\ \/ shared' = shared /\ redials' = redials
              \/ /\ MayClaimReconnect(shared, d)
                 /\ shared' \in Shared /\ shared'.session = shared.session
                 /\ shared'.generation = shared.generation
                 /\ shared'.entry = shared.entry
                 /\ shared'.recoverers = shared.recoverers
                 /\ shared'.override = [kind |-> "reconnecting", target |-> d.target]
                 /\ shared'.retry =
                       [generation |-> g, attempting |-> FALSE, allowed |-> TRUE]
                 /\ redials' = redials \cup
                       {[generation |-> g, target |-> d.target,
                         subject |-> NoSubject, step |-> "waiting"]}
<1> DEFINE g == d.subject.generation
           o == [kind |-> "reconnecting", target |-> d.target]
           r == [generation |-> g, attempting |-> FALSE, allowed |-> TRUE]
<1>1. shared \in Shared /\ d \in deaths /\ d.target \in Candidate /\ g \in Nat
  BY BaseIs DEF ClaimReconnect, Base, TypeOK, Subject
<1>2. CASE MayClaimReconnect(shared, d)
  <2>1. g # 0
    BY <1>2 DEF MayClaimReconnect, Current, IsCurrent
  <2>2. /\ o \in [kind : {"none", "failed", "reconnecting"}, target : Target]
        /\ r \in Retry \cup {NoRetry}
    BY <1>1, <2>1 DEF Target, Retry
  <2> DEFINE s == [shared EXCEPT !.override = o]
  <2>3. /\ s \in Shared /\ s.override = o /\ s.generation = shared.generation
        /\ s.entry = shared.entry /\ s.session = shared.session
        /\ s.recoverers = shared.recoverers
    BY <1>1, <2>2, OverriddenIs
  <2>4. shared' = WithRetry(s, r)
    BY <1>1, <1>2 DEF ClaimReconnect, WithRetry, Shared
  <2> HIDE DEF s, o, r
  <2>5. /\ shared' \in Shared /\ shared'.session = shared.session
        /\ shared'.generation = shared.generation /\ shared'.entry = shared.entry
        /\ shared'.recoverers = shared.recoverers
        /\ shared'.override = o /\ shared'.retry = r
    BY <2>2, <2>3, <2>4, WithRetryIs
  <2> QED
    BY <1>1, <1>2, <2>5 DEF ClaimReconnect, o, r
<1>3. CASE ~MayClaimReconnect(shared, d)
  BY <1>1, <1>3 DEF ClaimReconnect
<1> QED
  BY <1>2, <1>3

\* complete_reconnect: the retry is over, and so is its status.
LEMMA RedialCompleteIs ==
    ASSUME Base, NEW r, RedialComplete(r)
    PROVE  \/ /\ RetryReceipt(shared, r.target, r.generation)
              /\ shared' \in Shared /\ shared'.session = shared.session
              /\ shared'.generation = shared.generation
              /\ shared'.entry = shared.entry
              /\ shared'.recoverers = shared.recoverers
              /\ shared'.override = NoOverride /\ shared'.retry = NoRetry
              /\ shared.session.target = r.target
              /\ redials' = redials \ {r}
           \/ /\ shared' = shared
              /\ redials' = (redials \ {r}) \cup {[r EXCEPT !.step = "failed"]}
<1> DEFINE c == OverrideCleared(shared)
<1>1. shared \in Shared /\ 0 \in Candidate
  BY BaseIs, PolicyAssumption DEF Candidate
<1>2. /\ c \in Shared /\ c.override = NoOverride /\ c.generation = shared.generation
      /\ c.entry = shared.entry /\ c.session = shared.session
      /\ c.recoverers = shared.recoverers
  BY <1>1, OverrideIs
<1>3. [c EXCEPT !.retry = NoRetry] = WithRetry(c, NoRetry)
  BY DEF WithRetry
<1>4. LET t == [c EXCEPT !.retry = NoRetry] IN
      /\ t \in Shared /\ t.session = c.session /\ t.recoverers = c.recoverers
      /\ t.generation = c.generation /\ t.override = c.override
      /\ t.entry = c.entry /\ t.retry = NoRetry
  BY <1>2, <1>3, WithRetryIs
<1> HIDE DEF c
<1> QED
  BY <1>2, <1>4 DEF RedialComplete, c

LEMMA RedialAgainIs ==
    ASSUME Base, NEW r \in redials, RedialAgain(r)
    PROVE  /\ Eased(shared, shared') /\ shared'.recoverers = shared.recoverers
           /\ \/ /\ redials' = (redials \ {r}) \cup
                        {[r EXCEPT !.step = "waiting", !.subject = NoSubject]}
                 /\ RetryCurrent(shared, r.target, r.generation)
                 /\ shared'.retry # NoRetry /\ shared'.retry.allowed
                 /\ SameTurn(shared, shared')
              \/ /\ redials' = redials \ {r}
                 /\ ~RetryCurrent(shared, r.target, r.generation)
                 /\ shared' = CancelRetry(shared, r.generation)
<1>1. shared \in Shared /\ Sound(shared) /\ r.generation \in Nat
  BY BaseIs DEF Base, TypeOK
<1>2. CASE RetryCurrent(shared, r.target, r.generation)
  <2>1. shared.retry # NoRetry /\ FALSE \in BOOLEAN
    BY <1>2 DEF RetryCurrent, RetryReceipt, IsCurrent, NoRetry
  <2>2. shared' = [shared EXCEPT !.retry.attempting = FALSE]
    BY <1>2 DEF RedialAgain
  <2>3. /\ shared' \in Shared /\ shared'.session = shared.session
        /\ shared'.recoverers = shared.recoverers
        /\ shared'.generation = shared.generation /\ shared'.override = shared.override
        /\ shared'.entry = shared.entry
        /\ shared'.retry.generation = shared.retry.generation /\ shared'.retry # NoRetry
    BY <1>1, <2>1, <2>2, RetryFlagIs
  <2>4. Eased(shared, shared')
    BY <1>1, <2>3, FlagIsEased
  <2>5. SameTurn(shared, shared')
    BY <1>1, <2>3, KeptIsKept DEF SameTurn, Present
  <2>6. shared'.retry.allowed
    <3>1. shared.retry \in Retry /\ shared.retry.allowed
      BY <1>1, <1>2, <2>1, EntryExists DEF Retry, RetryCurrent
    <3> QED
      BY <1>1, <2>2, <3>1 DEF Shared, Retry
  <2> QED
    BY <1>2, <2>3, <2>4, <2>5, <2>6 DEF RedialAgain
<1>3. CASE ~RetryCurrent(shared, r.target, r.generation)
  <2>1. /\ Eased(shared, CancelRetry(shared, r.generation))
        /\ CancelRetry(shared, r.generation).recoverers = shared.recoverers
    BY <1>1, EasedIsEased, EasedThenCancelled
  <2> QED
    BY <1>3, <2>1 DEF RedialAgain
<1> QED
  BY <1>2, <1>3

-----------------------------------------------------------------------------
(* The steps of the failover worker, and of time.                          *)

Recoverer == [generation : Nat \ {0}, target : Target,
              step : {"deciding", "starting", "erring"}]

\* The guarded state with other workers.
WithWorkers(s, workers) == [s EXCEPT !.recoverers = workers]

SameButWorkers(s, t) ==
    /\ t.generation = s.generation /\ t.override = s.override /\ t.retry = s.retry
    /\ t.entry = s.entry /\ t.session = s.session

LEMMA WithWorkersIs ==
    ASSUME NEW s \in Shared, NEW W \in SUBSET Recoverer
    PROVE  LET t == WithWorkers(s, W) IN
           t \in Shared /\ SameButWorkers(s, t) /\ t.recoverers = W
BY DEF Shared, WithWorkers, SameButWorkers, Recoverer

\* Whose state an easing started from does not matter where only workers differ.
LEMMA EasedElsewhere ==
    ASSUME NEW s, NEW u, SameButWorkers(s, u), NEW t
    PROVE  /\ Eased(u, t) => Eased(s, t)
           /\ Weaker(u, t) => Weaker(s, t)
           /\ Sound(s) => Sound(u)
           /\ Weaker(s, s) => Weaker(s, u)
           /\ SameTurn(s, u) <=> SameTurn(s, s)
BY DEF SameButWorkers, Eased, Weaker, SameTurn, Withdrawn, Sound, Present, Armed

LEMMA WorkerMovesIs ==
    ASSUME Base, NEW r \in shared.recoverers,
           NEW step \in {"deciding", "starting", "erring"}, NEW target \in Target
    PROVE  /\ Gone(r) \in Shared /\ SameButWorkers(shared, Gone(r))
           /\ Gone(r).recoverers = shared.recoverers \ {r}
           /\ At(r, step, target) \in Shared /\ SameButWorkers(shared, At(r, step, target))
           /\ At(r, step, target).recoverers =
                 (shared.recoverers \ {r}) \cup
                    {[generation |-> r.generation, target |-> target, step |-> step]}
<1> DEFINE v == [r EXCEPT !.step = step, !.target = target]
           u == [generation |-> r.generation, target |-> target, step |-> step]
<1>1. shared \in Shared /\ r \in Recoverer /\ shared.recoverers \in SUBSET Recoverer
  <2>1. shared \in Shared
    BY BaseIs
  <2>2. shared.recoverers \in SUBSET Recoverer
    BY <2>1 DEF Shared, Recoverer
  <2> QED
    BY <2>1, <2>2
<1>2. v = u /\ u \in Recoverer
  <2>1. u \in Recoverer /\ v \in Recoverer
    BY <1>1 DEF Recoverer
  <2>2. v.generation = u.generation /\ v.target = u.target /\ v.step = u.step
    BY <1>1 DEF Recoverer
  <2>3. \A x, y \in Recoverer :
           x.generation = y.generation /\ x.target = y.target /\ x.step = y.step => x = y
    BY DEF Recoverer
  <2> QED
    BY <2>1, <2>2, <2>3
<1>3. /\ Gone(r) = WithWorkers(shared, shared.recoverers \ {r})
      /\ At(r, step, target) = WithWorkers(shared, (shared.recoverers \ {r}) \cup {v})
  BY <1>1 DEF Gone, At, WithWorkers, Shared
<1>4. /\ shared.recoverers \ {r} \in SUBSET Recoverer
      /\ (shared.recoverers \ {r}) \cup {v} \in SUBSET Recoverer
  BY <1>1, <1>2
<1> HIDE DEF v, u
<1> QED
  BY <1>1, <1>2, <1>3, <1>4, WithWorkersIs DEF u

\* The entry without a worker.
Unattended(d, e) ==
    /\ SameGrant(d, e) /\ e # NoEntry
    /\ e.activation = d.activation /\ e.subject = d.subject /\ e.current = d.current
    /\ e.automatic = d.automatic /\ e.backoff = d.backoff /\ ~e.worker

LEMMA RecovererDecideIs ==
    ASSUME Base, NEW r, RecovererDecide(r)
    PROVE  LET a == shared.entry.activation
               kind == Kind(a, shared.entry.backoff)
           IN  /\ r \in shared.recoverers /\ r.step = "deciding"
               /\ \/ ~(Owns(shared, r.generation) /\ IsCurrent(shared, r.generation))
                     /\ shared' = Gone(r)
                  \/ /\ Owns(shared, r.generation)
                     /\ kind \in {"idle", "exhausted", "disarmed"}
                     /\ shared' \in Shared
                     /\ shared'.generation = shared.generation
                     /\ shared'.override = shared.override
                     /\ shared'.retry = shared.retry
                     /\ shared'.session = shared.session
                     /\ shared'.recoverers = shared.recoverers \ {r}
                     /\ Unattended(shared.entry, shared'.entry)
                  \/ /\ Owns(shared, r.generation) /\ kind = "attempt"
                     /\ \E m \in Candidate :
                           IsNext(a, m) /\ shared' = At(r, "starting", m)
<1> DEFINE a == shared.entry.activation
           kind == Kind(a, shared.entry.backoff)
<1>1. shared \in Shared /\ r \in shared.recoverers /\ r.step = "deciding"
  BY BaseIs DEF RecovererDecide
<1>2. CASE /\ ~(Owns(shared, r.generation) /\ IsCurrent(shared, r.generation))
           /\ shared' = Gone(r)
  BY <1>1, <1>2
<1>3. CASE /\ Owns(shared, r.generation)
           /\ kind \in {"idle", "exhausted", "disarmed"}
           /\ shared' = [Gone(r) EXCEPT !.entry.worker = FALSE]
  <2> DEFINE g == Gone(r)
             e == [shared.entry EXCEPT !.worker = FALSE]
  <2>1. /\ g \in Shared /\ SameButWorkers(shared, g)
        /\ g.recoverers = shared.recoverers \ {r}
    BY <1>1, WorkerMovesIs DEF Target
  <2> HIDE DEF g
  <2>2. shared.entry \in Entry
    BY <1>1, <1>3, EntryExists DEF Owns
  <2>3. /\ e \in Entry /\ e.generation = shared.entry.generation
        /\ e.grant = shared.entry.grant /\ e.activation = a
        /\ e.subject = shared.entry.subject /\ e.current = shared.entry.current
        /\ e.automatic = shared.entry.automatic /\ e.backoff = shared.entry.backoff
        /\ ~e.worker
    BY <2>2 DEF Entry
  <2>4. shared' = WithEntry(g, e)
    BY <1>3, <2>1, <2>2 DEF g, WithEntry, Shared, SameButWorkers, Entry
  <2> HIDE DEF e
  <2>5. /\ shared' \in Shared /\ shared'.entry = e
        /\ shared'.generation = g.generation /\ shared'.override = g.override
        /\ shared'.retry = g.retry /\ shared'.session = g.session
        /\ shared'.recoverers = g.recoverers
    BY <2>1, <2>3, <2>4, WithEntryIs
  <2>6. Unattended(shared.entry, e)
    BY <2>2, <2>3, EntryExists DEF Unattended, SameGrant, Entry, NoEntry
  <2> QED
    BY <1>1, <1>3, <2>1, <2>5, <2>6 DEF SameButWorkers
<1>4. CASE /\ Owns(shared, r.generation) /\ kind = "attempt"
           /\ \E m \in Candidate : IsNext(a, m) /\ shared' = At(r, "starting", m)
  BY <1>1, <1>4
<1> QED
  BY <1>2, <1>3, <1>4 DEF RecovererDecide

LEMMA RecovererErrorIs ==
    ASSUME Base, NEW r, RecovererError(r)
    PROVE  /\ r \in shared.recoverers /\ r.step = "erring"
           /\ Eased(shared, shared')
           /\ SameTurn(shared, shared') /\ shared'.session = shared.session
           /\ shared'.retry = shared.retry
           /\ shared'.recoverers = (shared.recoverers \ {r}) \cup {Worker(r.generation)}
           /\ IsCurrent(shared, r.generation) => ~Armed(shared')
<1> DEFINE n == At(r, "deciding", NoTarget)
<1>1. shared \in Shared /\ Sound(shared) /\ r \in shared.recoverers /\ r.step = "erring"
  BY BaseIs DEF RecovererError
<1>2. /\ n \in Shared /\ SameButWorkers(shared, n)
      /\ n.recoverers = (shared.recoverers \ {r}) \cup {Worker(r.generation)}
  BY <1>1, WorkerMovesIs DEF Target, Worker
<1>3. shared' = IF IsCurrent(shared, r.generation) THEN Disarm(n) ELSE n
  BY DEF RecovererError
<1> HIDE DEF n
<1>4. Sound(n)
  BY <1>1, <1>2, EasedElsewhere
<1>5. /\ Eased(n, n) /\ Eased(n, Disarm(n)) /\ Disarm(n).recoverers = n.recoverers
      /\ Disarm(n).session = n.session /\ Disarm(n).generation = n.generation
      /\ Disarm(n).override = n.override /\ Disarm(n).retry = n.retry
      /\ Disarm(n).entry = Revoked(n.entry) /\ ~Armed(Disarm(n))
  BY <1>2, <1>4, EasedIsEased, DisarmIsQuiet, RevokedIs DEF Quiet, Armed
<1>6. Eased(shared, shared')
  BY <1>1, <1>2, <1>3, <1>5, EasedElsewhere
<1>7. SameTurn(shared, shared') /\ shared'.session = shared.session
  BY <1>1, <1>2, <1>3, <1>5, KeptIsKept DEF SameTurn, SameButWorkers, Present
<1>8. shared'.retry = shared.retry
  BY <1>2, <1>3, <1>5 DEF SameButWorkers
<1> QED
  BY <1>1, <1>2, <1>3, <1>5, <1>6, <1>7, <1>8

\* Time passes for the entry.
Aged(d, e) ==
    /\ SameGrant(d, e) /\ e # NoEntry
    /\ e.activation = Elapsed(d.activation)
    /\ e.subject = d.subject /\ e.current = d.current
    /\ e.automatic = d.automatic /\ e.worker = d.worker
    /\ e.backoff = IF d.backoff > 0 THEN d.backoff - 1 ELSE 0

LEMMA TickIs ==
    ASSUME Base, Tick
    PROVE  /\ shared' \in Shared /\ shared'.generation = shared.generation
           /\ shared'.override = shared.override /\ shared'.retry = shared.retry
           /\ shared'.session = shared.session
           /\ shared'.recoverers = shared.recoverers
           /\ Aged(shared.entry, shared'.entry)
<1> DEFINE d == shared.entry
           a == Elapsed(d.activation)
           b == IF d.backoff > 0 THEN d.backoff - 1 ELSE 0
           e == [d EXCEPT !.activation = a, !.backoff = b]
<1>1. shared \in Shared /\ d \in Entry
  BY BaseIs, EntryExists DEF Tick
<1>2. a \in ActivationRecord /\ a.armed = d.activation.armed
  <2>1. d.activation \in ActivationRecord /\ 0 \in Candidate
    BY <1>1, PolicyAssumption DEF Entry, Candidate
  <2> QED
    BY <2>1, MethodsAreTyped DEF Elapsed, ActivationRecord
<1>3. b \in 0 .. Backoff
  <2>1. Backoff \in Nat /\ d.backoff \in 0 .. Backoff
    BY <1>1, ConnectionAssumption DEF Entry
  <2> QED
    BY <2>1
<1>4. shared' = WithEntry(shared, e)
  BY <1>1 DEF Tick, WithEntry, Shared, Entry
<1> HIDE DEF a, b
<1>5. /\ e \in Entry /\ e.generation = d.generation /\ e.grant = d.grant
      /\ e.activation = a /\ e.subject = d.subject /\ e.current = d.current
      /\ e.automatic = d.automatic /\ e.worker = d.worker /\ e.backoff = b
  BY <1>1, <1>2, <1>3 DEF Entry
<1> HIDE DEF e
<1>6. SameGrant(d, e) /\ e # NoEntry
  BY <1>1, <1>2, <1>5, EntryExists DEF SameGrant, Entry, NoEntry
<1>7. /\ shared' \in Shared /\ shared'.entry = e
      /\ shared'.generation = shared.generation /\ shared'.override = shared.override
      /\ shared'.retry = shared.retry /\ shared'.session = shared.session
      /\ shared'.recoverers = shared.recoverers
  BY <1>1, <1>4, <1>5, WithEntryIs
<1> QED
  BY <1>5, <1>6, <1>7 DEF Aged, a, b

-----------------------------------------------------------------------------
(* What a confirmation makes of a core.                                    *)

\* The core was proved to carry traffic: the session runs, and an automatic
\* attempt that the entry was waiting for has succeeded.
Proved(s, t, c) ==
    /\ t \in Shared /\ Present(s) /\ Present(t)
    /\ t.generation = s.generation /\ t.retry = s.retry /\ t.recoverers = s.recoverers
    /\ \/ t.override = s.override
       \/ c.origin = "failover" /\ t.override = NoOverride
    /\ SoundSession(t.session)
    /\ s.session.status = "connected" /\ t.session.status = "connected"
    /\ t.session.target = c.target /\ s.session.target = c.target
    /\ t.session.run = s.session.run /\ t.session.spawned = s.session.spawned
    /\ ~t.session.pending /\ ~t.session.holding
    /\ SameGrant(s.entry, t.entry)
    /\ ~Matches(s, c.target, c.subject) => t.entry = s.entry
    /\ Matches(s, c.target, c.subject) =>
          /\ t.entry.subject = s.entry.subject /\ t.entry.current = s.entry.current
          /\ t.entry.worker = s.entry.worker /\ t.entry.backoff = s.entry.backoff
          /\ ~t.entry.automatic
          /\ t.entry.activation =
                IF s.entry.automatic /\ IsInFlight(s.entry.activation, s.entry.current)
                THEN ConfirmedSuccess(s.entry.activation) ELSE s.entry.activation

\* The core was not proved, and its generation goes on without it. The status
\* says so unless the reconnect loop will, and the entry hears of it.
Disproved(s, t, c) ==
    /\ t \in Shared /\ Weaker(s, t) /\ Present(s) /\ Present(t)
    /\ t.generation = s.generation /\ t.retry = s.retry
    /\ \/ t.override = s.override
       \/ /\ t.override = [kind |-> "failed", target |-> c.target]
          /\ c.origin # "reconnect"
          /\ s.session.status = "connected" /\ s.session.target = c.target
          /\ t.session.status \in {"failed", "disconnected"}
    /\ \/ /\ t.recoverers = s.recoverers /\ Kept(s.entry, t.entry)
          /\ Armed(t) =>
                /\ ~Matches(s, c.target, c.subject)
                /\ t.session = s.session \/ s.session.target = c.target
       \/ /\ Armed(s) /\ Matches(s, c.target, c.subject)
          /\ SameGrant(s.entry, t.entry) /\ FailureOutcome(s, t)

\* The core failed its confirmation or never reached it, and the status may
\* say so.
LEMMA ReportedIs ==
    ASSUME NEW s \in Shared, Sound(s), Present(s), NEW c, c.target \in Candidate,
           s.session.status = "connected", s.session.target = c.target
    PROVE  LET t == Reported(ConfirmationFailed(s), c) IN
           /\ t \in Shared /\ Weaker(s, t) /\ Present(t)
           /\ t.generation = s.generation /\ t.retry = s.retry
           /\ t.entry = s.entry /\ t.recoverers = s.recoverers
           /\ t.session.status \in {"failed", "disconnected"}
           /\ IF c.origin = "reconnect" THEN t.override = s.override
              ELSE t.override = [kind |-> "failed", target |-> c.target]
<1> DEFINE f == ConfirmationFailed(s)
           t == Reported(f, c)
<1>1. PICK y \in Session :
         /\ f = With(s, y)
         /\ Calmer(s.session, y) /\ SoundSession(y) /\ KeepsHold(s.session, y)
         /\ y.status \in {"failed", "disconnected"} /\ (~Tun => ~y.holding)
  BY ConfirmationFailedIs DEF Sound
<1> HIDE DEF f
<1>2. f \in Shared /\ SameButSession(s, f) /\ f.session = y
  BY <1>1, WithIs
<1>3. /\ t \in Shared /\ t.session = y /\ t.generation = s.generation
      /\ t.retry = s.retry /\ t.entry = s.entry /\ t.recoverers = s.recoverers
      /\ IF c.origin = "reconnect" THEN t.override = s.override
         ELSE t.override = [kind |-> "failed", target |-> c.target]
  BY <1>2, OverrideIs DEF Reported, SameButSession
<1> HIDE DEF t
<1>4. Present(t)
  BY <1>1, <1>3, SessionExists
<1>5. Weaker(s, t)
  BY <1>1, <1>3 DEF Weaker
<1> QED
  BY <1>1, <1>3, <1>4, <1>5 DEF t, f

\* A start_interface that failed may have left the device behind.
LEMMA InterfaceFailuresIs ==
    ASSUME NEW s \in Shared, Sound(s), Present(s), NEW left \in InterfaceFailures(s)
    PROVE  /\ left \in Shared /\ SameButSession(s, left) /\ Present(left)
           /\ SoundSession(left.session)
           /\ left.session.status = s.session.status
           /\ left.session.target = s.session.target
           /\ \A t : Weaker(left, t) => Weaker(s, t)
<1>1. s.session \in Session /\ SoundSession(s.session)
  BY SessionExists DEF Sound
<1>2. CASE left = s
  BY <1>1, <1>2 DEF SameButSession
<1>3. CASE s.session.iface = "planned" /\ left = [s EXCEPT !.session.iface = "up"]
  <2> DEFINE y == [s.session EXCEPT !.iface = "up"]
  <2>1. /\ y \in Session /\ SoundSession(y)
        /\ y.status = s.session.status /\ y.target = s.session.target
        /\ \A z : Calmer(y, z) => Calmer(s.session, z)
        /\ \A z : KeepsHold(s.session, z)
        /\ y.holding = s.session.holding
    BY <1>1, <1>3 DEF Session, SoundSession, Calmer, KeepsHold
  <2>2. left = With(s, y)
    BY <1>3 DEF With, Shared
  <2> HIDE DEF y
  <2>3. left \in Shared /\ SameButSession(s, left) /\ Present(left) /\ left.session = y
    BY <2>1, <2>2, WithIs
  <2>4. \A t : Weaker(left, t) => Weaker(s, t)
    BY <2>1, <2>3 DEF Weaker, SameButSession
  <2> QED
    BY <2>1, <2>3, <2>4
<1> QED
  BY <1>2, <1>3 DEF InterfaceFailures

\* A retry that was withdrawn meanwhile ends with its last attempt.
LEMMA LastAttemptIs ==
    ASSUME NEW f \in Shared, NEW c, c.subject.generation \in Nat
    PROVE  LET t == LastAttempt(f, c) IN
           \/ t = f
           \/ /\ c.origin = "reconnect" /\ Forgotten(f, t) /\ t.session = f.session
              /\ t.override = IF f.override.kind = "reconnecting" THEN NoOverride
                              ELSE f.override
<1> DEFINE g == c.subject.generation
           t == CancelRetry(f, g)
           cancels == /\ IsCurrent(f, g)
                      /\ f.override.kind = "reconnecting" \/ f.retry.generation = g
<1>1. /\ t.session = f.session
      /\ ~cancels => t = f
      /\ cancels =>
            /\ Forgotten(f, t)
            /\ t.override = IF f.override.kind = "reconnecting" THEN NoOverride
                            ELSE f.override
  BY CancelRetryIs
<1>2. LastAttempt(f, c) = f \/ (c.origin = "reconnect" /\ LastAttempt(f, c) = t)
  BY DEF LastAttempt
<1> HIDE DEF t, cancels
<1> QED
  BY <1>1, <1>2

\* A late cancellation leaves nothing at work.
LEMMA CancelledIsEased ==
    ASSUME NEW s \in Shared, NEW f, Weaker(s, f), f.override = s.override,
           NEW t, Forgotten(f, t), t.session = f.session,
           t.override = IF f.override.kind = "reconnecting" THEN NoOverride
                        ELSE f.override
    PROVE  Eased(s, t) /\ ~Armed(t)
<1>1. Weaker(s, t)
  BY DEF Weaker, Present, Forgotten
<1>2. Withdrawn(s, t)
  BY DEF Withdrawn, Forgotten, NoOverride
<1> QED
  BY <1>1, <1>2 DEF Eased, Armed, Forgotten

LEMMA CommittedIs ==
    ASSUME Base, NEW c \in confirms, Current(shared, c.subject), Committed(shared, c)
    PROVE  \/ Answered(c, TRUE) /\ Proved(shared, shared', c)
           \/ /\ Answered(c, FALSE)
              /\ \/ /\ Eased(shared, shared') /\ ~Armed(shared')
                    /\ shared'.recoverers = shared.recoverers
                 \/ /\ shared' = shared
                    /\ ~(Owns(shared, c.subject.generation)
                            /\ shared.session.target = c.target)
                 \/ Disproved(shared, shared', c)
<1> DEFINE s == shared
           mine == s.session.target = c.target
           owned == Owns(s, c.subject.generation)
           runs == mine /\ s.session.status = "connected" /\ (owned => s.session.alive)
<1>1. /\ s \in Shared /\ Sound(s) /\ Present(s) /\ SoundSession(s.session)
      /\ c.target \in Candidate /\ c.subject \in Subject
      /\ c.subject.generation \in Nat /\ s.session \in Session
  BY BaseIs, SessionExists DEF Current, Base, TypeOK, Subject, Sound
<1>2. CASE /\ runs
           /\ LET settled == Succeed(TrafficConfirmed(s), c.target, c.subject)
              IN  shared' = IF c.origin = "failover" THEN OverrideCleared(settled)
                            ELSE settled
           /\ Answered(c, TRUE)
  <2> DEFINE t == TrafficConfirmed(s)
             u == Succeed(t, c.target, c.subject)
  <2>1. PICK y \in Session :
           /\ t = With(s, y) /\ SoundSession(y)
           /\ y.run = s.session.run /\ y.spawned = s.session.spawned
           /\ y.target = s.session.target /\ y.status = s.session.status
           /\ ~y.pending /\ ~y.holding
    BY <1>1, TrafficConfirmedIs
  <2> HIDE DEF t
  <2>2. t \in Shared /\ Present(t) /\ SameButSession(s, t) /\ t.session = y
    BY <1>1, <2>1, WithIs
  <2>3. /\ Quiet(t, u) /\ u.session = y /\ u.recoverers = s.recoverers
        /\ ~Matches(t, c.target, c.subject) => u = t
        /\ Matches(t, c.target, c.subject) =>
              /\ u.entry.subject = t.entry.subject /\ u.entry.current = t.entry.current
              /\ u.entry.worker = t.entry.worker /\ u.entry.backoff = t.entry.backoff
              /\ ~u.entry.automatic
              /\ u.entry.activation =
                    IF t.entry.automatic /\ IsInFlight(t.entry.activation, t.entry.current)
                    THEN ConfirmedSuccess(t.entry.activation) ELSE t.entry.activation
    BY <1>1, <2>2, SucceedIs DEF SameButSession
  <2> HIDE DEF u
  <2>4. Matches(t, c.target, c.subject) <=> Matches(s, c.target, c.subject)
    BY <2>2 DEF Matches, Owns, SameButSession
  <2>5. /\ shared' \in Shared /\ shared'.session = y /\ shared'.entry = u.entry
        /\ shared'.generation = s.generation /\ shared'.retry = s.retry
        /\ shared'.recoverers = s.recoverers
        /\ \/ shared'.override = s.override
           \/ c.origin = "failover" /\ shared'.override = NoOverride
    <3>1. u \in Shared
      BY <2>3 DEF Quiet
    <3>2. shared' = u \/ (c.origin = "failover" /\ shared' = OverrideCleared(u))
      BY <1>2 DEF t, u
    <3>3. LET v == OverrideCleared(u) IN
          /\ v \in Shared /\ v.override = NoOverride
          /\ v.generation = u.generation /\ v.entry = u.entry /\ v.retry = u.retry
          /\ v.session = u.session /\ v.recoverers = u.recoverers
      BY <1>1, <3>1, OverrideIs
    <3>4. /\ u.generation = s.generation /\ u.retry = s.retry /\ u.override = s.override
          /\ u.session = y /\ u.recoverers = s.recoverers
      BY <2>2, <2>3 DEF Quiet, SameButSession
    <3> QED
      BY <3>1, <3>2, <3>3, <3>4
  <2>6. Present(shared')
    BY <2>5, SessionExists
  <2>7. SameGrant(s.entry, shared'.entry)
    BY <2>2, <2>3, <2>5 DEF Quiet, SameButSession
  <2>8. Proved(shared, shared', c)
    BY <1>1, <1>2, <2>1, <2>2, <2>3, <2>4, <2>5, <2>6, <2>7 DEF Proved, SameButSession
  <2> QED
    BY <1>2, <2>8
<1>3. CASE /\ runs
           /\ \E left \in InterfaceFailures(s) :
                 shared' = LastAttempt(Reported(ConfirmationFailed(Disarm(left)), c), c)
           /\ Answered(c, FALSE)
  <2>1. PICK left \in InterfaceFailures(s) :
           shared' = LastAttempt(Reported(ConfirmationFailed(Disarm(left)), c), c)
    BY <1>3
  <2>2. /\ left \in Shared /\ SameButSession(s, left) /\ Present(left)
        /\ SoundSession(left.session)
        /\ left.session.status = s.session.status
        /\ left.session.target = s.session.target
        /\ \A t : Weaker(left, t) => Weaker(s, t)
    BY <1>1, InterfaceFailuresIs
  <2> DEFINE d == Disarm(left)
             f == Reported(ConfirmationFailed(d), c)
  <2>3. /\ d \in Shared /\ d.session = left.session /\ d.entry = Revoked(s.entry)
        /\ d.generation = s.generation /\ d.override = s.override /\ d.retry = s.retry
        /\ d.recoverers = s.recoverers
    BY <2>2, DisarmIsQuiet DEF Quiet, SameButSession
  <2>4. /\ SameGrant(s.entry, Revoked(s.entry)) /\ Kept(s.entry, Revoked(s.entry))
        /\ Revoked(s.entry) # NoEntry => ~Revoked(s.entry).activation.armed
    BY <1>1, RevokedIs, KeptIsKept
  <2> HIDE DEF d
  <2>5. Sound(d) /\ Present(d)
    BY <1>1, <2>2, <2>3, <2>4 DEF Sound, Present, SameGrant
  <2>6. /\ f \in Shared /\ Weaker(d, f) /\ Present(f)
        /\ f.generation = s.generation /\ f.retry = s.retry
        /\ f.entry = d.entry /\ f.recoverers = s.recoverers
        /\ f.session.status \in {"failed", "disconnected"}
        /\ IF c.origin = "reconnect" THEN f.override = s.override
           ELSE f.override = [kind |-> "failed", target |-> c.target]
    BY <1>1, <1>3, <2>2, <2>3, <2>5, ReportedIs
  <2> HIDE DEF f
  <2>7. Weaker(s, f)
    <3>1. Weaker(left, f)
      BY <2>2, <2>3, <2>4, <2>6 DEF Weaker, Present, SameGrant, SameButSession
    <3> QED
      BY <2>2, <3>1
  <2>8. shared' = LastAttempt(f, c)
    BY <2>1 DEF d, f
  <2>9. CASE shared' = f
    <3>1. ~Armed(f)
      BY <2>3, <2>4, <2>6 DEF Armed
    <3>2. Disproved(shared, shared', c)
      BY <1>1, <1>3, <2>3, <2>4, <2>6, <2>7, <2>9, <3>1 DEF Disproved
    <3> QED
      BY <1>3, <3>2
  <2>10. CASE /\ c.origin = "reconnect" /\ Forgotten(f, shared')
              /\ shared'.session = f.session
              /\ shared'.override = IF f.override.kind = "reconnecting" THEN NoOverride
                                    ELSE f.override
    <3>1. Eased(s, shared') /\ ~Armed(shared')
      BY <1>1, <2>6, <2>7, <2>10, CancelledIsEased
    <3> QED
      BY <1>3, <2>6, <2>10, <3>1 DEF Forgotten
  <2> QED
    BY <1>1, <2>6, <2>8, <2>9, <2>10, LastAttemptIs
<1>4. CASE /\ owned /\ mine /\ ~s.session.alive
           /\ \E eligible \in BOOLEAN :
                 shared' = FailureNoted(CoreExitNoted(CoreFailed(s, "exited")),
                                        c.target, c.subject, eligible, FALSE)
           /\ Answered(c, FALSE)
  <2> DEFINE u == CoreExitNoted(CoreFailed(s, "exited"))
  <2>1. PICK eligible \in BOOLEAN :
           shared' = FailureNoted(u, c.target, c.subject, eligible, FALSE)
    BY <1>4
  <2>2. s.entry # NoEntry /\ s.session.target # NoTarget
    BY <1>1, <1>4 DEF Owns, Current
  <2>3. /\ Eased(s, u) /\ SameButSession(s, u) /\ Present(u)
        /\ u.session.target = s.session.target
    BY <1>1, <2>2, CoreGivenUpIs DEF Status
  <2>4. u \in Shared /\ Weaker(s, u)
    BY <2>3 DEF Eased
  <2> HIDE DEF u
  <2>5. /\ Quiet(u, shared') /\ shared'.session = u.session
        /\ ~Heard(u, c.target, c.subject, FALSE) => shared' = u
        /\ Heard(u, c.target, c.subject, FALSE) => FailureOutcome(u, shared')
    BY <2>1, <2>4, FailureNotedIs
  <2>6. Weaker(s, shared')
    BY <2>3, <2>4, <2>5 DEF Weaker, Present, Quiet
  <2>7. /\ shared' \in Shared /\ Present(shared')
        /\ shared'.generation = s.generation /\ shared'.retry = s.retry
        /\ shared'.override = s.override
        /\ SameGrant(s.entry, shared'.entry)
    BY <2>3, <2>5 DEF Quiet, SameButSession, Present
  <2>8. CASE shared' = u /\ ~Heard(u, c.target, c.subject, FALSE)
    <3>1. Armed(shared') => ~Matches(s, c.target, c.subject)
      BY <1>1, <2>3, <2>8
         DEF Heard, Matches, Owns, SameButSession, Armed, Current, IsCurrent
    <3>2. Kept(s.entry, shared'.entry) /\ shared'.recoverers = s.recoverers
      BY <1>1, <2>3, <2>8, KeptIsKept DEF SameButSession
    <3> QED
      BY <1>1, <1>4, <2>6, <2>7, <3>1, <3>2 DEF Disproved
  <2>9. CASE Heard(u, c.target, c.subject, FALSE) /\ FailureOutcome(u, shared')
    <3>1. Armed(s) /\ Matches(s, c.target, c.subject)
      BY <2>3, <2>9 DEF Heard, Matches, Owns, Armed, SameButSession
    <3>2. FailureOutcome(s, shared')
      BY <2>3, <2>9 DEF FailureOutcome, SameButSession
    <3> QED
      BY <1>1, <1>4, <2>6, <2>7, <3>1, <3>2 DEF Disproved
  <2> QED
    BY <2>5, <2>8, <2>9
<1>5. CASE /\ ~runs /\ ~(owned /\ mine /\ ~s.session.alive)
           /\ shared' = s /\ Answered(c, FALSE)
  BY <1>1, <1>5 DEF SoundSession
<1> QED
  BY <1>2, <1>3, <1>4, <1>5 DEF Committed

\* Negative answers about a core that is still current.
Denied(s, t, c) ==
    \/ Eased(s, t) /\ ~Armed(t) /\ t.recoverers = s.recoverers
    \/ t = s /\ ~(Owns(s, c.subject.generation) /\ s.session.target = c.target)
    \/ Disproved(s, t, c)

LEMMA RejectedIs ==
    ASSUME Base, NEW c \in confirms, Current(shared, c.subject),
           Rejected(shared, c, TRUE)
    PROVE  Denied(shared, shared', c)
<1> DEFINE s == shared
           active == s.session.target = c.target /\ s.session.status = "connected"
           u == IF active THEN Reported(ConfirmationFailed(s), c) ELSE s
           v == LastAttempt(u, c)
<1>1. /\ s \in Shared /\ Sound(s) /\ Present(s)
      /\ c.target \in Candidate /\ c.subject.generation \in Nat
      /\ Weaker(s, s) /\ Kept(s.entry, s.entry)
      /\ IsCurrent(s, c.subject.generation)
  BY BaseIs, WeakerIsWeaker, KeptIsKept DEF Current, Base, TypeOK, Subject
<1>2. /\ u \in Shared /\ Weaker(s, u) /\ Present(u)
      /\ u.generation = s.generation /\ u.retry = s.retry
      /\ u.entry = s.entry /\ u.recoverers = s.recoverers
      /\ u.session = s.session \/ s.session.target = c.target
      /\ \/ u.override = s.override
         \/ /\ u.override = [kind |-> "failed", target |-> c.target]
            /\ c.origin # "reconnect"
            /\ s.session.status = "connected" /\ s.session.target = c.target
            /\ u.session.status \in {"failed", "disconnected"}
  <2>1. CASE active
    BY <1>1, <2>1, ReportedIs
  <2>2. CASE ~active
    BY <1>1, <2>2
  <2> QED
    BY <2>1, <2>2
<1>3. PICK remote \in BOOLEAN :
         shared' = FailureNoted(v, c.target, c.subject, TRUE /\ remote, FALSE)
  BY DEF Rejected
<1> DEFINE eligible == TRUE /\ remote
<1> HIDE DEF u
<1>4. \/ v = u
      \/ /\ c.origin = "reconnect" /\ Forgotten(u, v) /\ v.session = u.session
         /\ v.override = IF u.override.kind = "reconnecting" THEN NoOverride
                         ELSE u.override
  BY <1>1, <1>2, LastAttemptIs
<1> HIDE DEF v
<1>5. v \in Shared
  BY <1>2, <1>4 DEF Forgotten
<1>6. /\ Quiet(v, shared') /\ shared'.session = v.session
      /\ ~Heard(v, c.target, c.subject, FALSE) => shared' = v
      /\ Heard(v, c.target, c.subject, FALSE) => FailureOutcome(v, shared')
  <2>1. eligible \in BOOLEAN /\ FALSE \in BOOLEAN
    OBVIOUS
  <2>2. shared' = FailureNoted(v, c.target, c.subject, eligible, FALSE)
    BY <1>3
  <2> HIDE DEF eligible
  <2> QED
    BY <1>5, <2>1, <2>2, FailureNotedIs
<1>7. CASE v = u /\ ~Heard(v, c.target, c.subject, FALSE)
  <2>1. shared' = u
    BY <1>6, <1>7
  <2>2. Armed(u) => ~Matches(s, c.target, c.subject)
    BY <1>1, <1>2, <1>7 DEF Heard, Matches, Owns, Armed, IsCurrent
  <2>3. Disproved(s, u, c)
    BY <1>1, <1>2, <2>2 DEF Disproved
  <2> QED
    BY <2>1, <2>3 DEF Denied
<1>8. CASE v = u /\ Heard(v, c.target, c.subject, FALSE)
  <2>1. Armed(s) /\ Matches(s, c.target, c.subject)
    BY <1>2, <1>8 DEF Heard, Matches, Owns, Armed
  <2>2. FailureOutcome(s, shared')
    BY <1>2, <1>6, <1>8 DEF FailureOutcome
  <2>3. /\ shared' \in Shared /\ shared'.generation = s.generation
        /\ shared'.retry = s.retry /\ shared'.override = u.override
        /\ shared'.session = u.session /\ SameGrant(s.entry, shared'.entry)
    BY <1>2, <1>6, <1>8 DEF Quiet
  <2>4. Present(shared')
    BY <1>2, <2>3 DEF Present
  <2>5. Weaker(s, shared')
    BY <1>2, <2>3, <2>4 DEF Weaker, Present
  <2>6. Disproved(s, shared', c)
    BY <1>1, <1>2, <2>1, <2>2, <2>3, <2>4, <2>5 DEF Disproved
  <2> QED
    BY <2>6 DEF Denied
<1>9. CASE /\ c.origin = "reconnect" /\ Forgotten(u, v) /\ v.session = u.session
           /\ v.override = IF u.override.kind = "reconnecting" THEN NoOverride
                           ELSE u.override
  <2>1. Eased(s, v) /\ ~Armed(v)
    BY <1>1, <1>2, <1>9, CancelledIsEased
  <2>2. ~Heard(v, c.target, c.subject, FALSE)
    BY <2>1 DEF Heard
  <2>3. shared' = v /\ v.recoverers = s.recoverers
    BY <1>2, <1>6, <1>9, <2>2 DEF Forgotten
  <2> QED
    BY <2>1, <2>3 DEF Denied
<1> QED
  BY <1>4, <1>7, <1>8, <1>9

\* Without its helper a session is beyond judging.
LEMMA RejectedUnhelpedIs ==
    ASSUME Base, NEW c \in confirms, Current(shared, c.subject), HasEnvelope(shared),
           Rejected(HelperLost(shared), c, FALSE)
    PROVE  Denied(shared, shared', c)
<1> DEFINE s == HelperLost(shared)
           v == LastAttempt(s, c)
<1>1. /\ shared \in Shared /\ Sound(shared) /\ Present(shared)
      /\ c.subject.generation \in Nat
  BY BaseIs DEF Current, Base, TypeOK, Subject
<1>2. /\ Eased(shared, s) /\ s.recoverers = shared.recoverers
      /\ s.entry = Revoked(shared.entry) /\ s.session.status = "failed"
  BY <1>1, HelperLostIs
<1>3. ~Armed(s) /\ s \in Shared
  BY <1>1, <1>2, RevokedIs DEF Armed, Eased
<1>4. PICK remote \in BOOLEAN :
         shared' = FailureNoted(v, c.target, c.subject, FALSE /\ remote, FALSE)
  BY <1>2 DEF Rejected
<1> HIDE DEF s
<1>5. /\ Eased(shared, CancelRetry(s, c.subject.generation))
      /\ CancelRetry(s, c.subject.generation).recoverers = s.recoverers
  BY <1>1, <1>2, EasedThenCancelled
<1>6. v = s \/ v = CancelRetry(s, c.subject.generation)
  BY DEF LastAttempt
<1>7. v = s \/ Forgotten(s, v)
  BY <1>1, <1>3, LastAttemptIs
<1> HIDE DEF v
<1>8. Eased(shared, v) /\ ~Armed(v) /\ v.recoverers = shared.recoverers
  BY <1>2, <1>3, <1>5, <1>6, <1>7 DEF Armed, Forgotten
<1>9. shared' = v
  <2> DEFINE eligible == FALSE /\ remote
  <2>1. eligible \in BOOLEAN /\ FALSE \in BOOLEAN /\ v \in Shared
    BY <1>8 DEF Eased
  <2>2. shared' = FailureNoted(v, c.target, c.subject, eligible, FALSE)
    BY <1>4
  <2>3. ~Heard(v, c.target, c.subject, FALSE)
    BY <1>8 DEF Heard
  <2> HIDE DEF eligible
  <2> QED
    BY <2>1, <2>2, <2>3, FailureNotedIs
<1> QED
  BY <1>8, <1>9 DEF Denied

LEMMA ConfirmIs ==
    ASSUME Base, NEW c, Confirm(c)
    PROVE  /\ c \in confirms /\ confirms' = confirms \ {c}
           /\ \/ ~Current(shared, c.subject) /\ shared' = shared /\ Answered(c, FALSE)
              \/ /\ Current(shared, c.subject)
                 /\ \/ Answered(c, TRUE) /\ Proved(shared, shared', c)
                    \/ Answered(c, FALSE) /\ Denied(shared, shared', c)
<1>1. c \in confirms /\ confirms' = confirms \ {c}
  BY DEF Confirm
<1>2. CASE ~Current(shared, c.subject)
  BY <1>1, <1>2 DEF Confirm
<1>3. CASE Current(shared, c.subject)
  <2>1. shared \in Shared /\ Sound(shared) /\ Present(shared)
    BY <1>3, BaseIs DEF Current
  <2>2. CASE Committed(shared, c)
    BY <1>1, <1>3, <2>2, CommittedIs DEF Denied
  <2>3. CASE Rejected(shared, c, TRUE) /\ Answered(c, FALSE)
    BY <1>1, <1>3, <2>3, RejectedIs
  <2>4. CASE HasEnvelope(shared) /\ shared' = HelperLost(shared) /\ Answered(c, FALSE)
    <3>1. /\ Eased(shared, shared') /\ shared'.recoverers = shared.recoverers
          /\ shared'.entry = Revoked(shared.entry)
      BY <2>1, <2>4, HelperLostIs
    <3>2. ~Armed(shared')
      BY <2>1, <3>1, RevokedIs DEF Armed
    <3> QED
      BY <1>1, <1>3, <2>4, <3>1, <3>2 DEF Denied
  <2>5. CASE /\ HasEnvelope(shared) /\ Rejected(HelperLost(shared), c, FALSE)
             /\ Answered(c, FALSE)
    BY <1>1, <1>3, <2>5, RejectedUnhelpedIs
  <2>6. PICK helper \in HelperOutcomes(shared) :
           LET s == IF helper THEN shared ELSE HelperLost(shared) IN
           \/ helper /\ Committed(s, c)
           \/ ~helper /\ shared' = s /\ Answered(c, FALSE)
           \/ Rejected(s, c, helper) /\ Answered(c, FALSE)
    BY <1>3 DEF Confirm
  <2>7. helper = TRUE \/ (helper = FALSE /\ HasEnvelope(shared))
    BY <2>6 DEF HelperOutcomes
  <2>8. CASE helper = TRUE
    BY <2>2, <2>3, <2>6, <2>8
  <2>9. CASE helper = FALSE
    BY <2>4, <2>5, <2>6, <2>7, <2>9
  <2> QED
    BY <2>7, <2>8, <2>9
<1> QED
  BY <1>2, <1>3

-----------------------------------------------------------------------------
(* The requests that claim a generation.                                   *)

\* A session that was only prepared: nothing runs in it yet.
Prepared(x) ==
    /\ x.status = "disconnected" /\ ~x.alive /\ ~x.holding /\ x.target = NoTarget
    /\ SoundSession(x)

LEMMA PreparedSessionIs ==
    ASSUME NEW envelope \in BOOLEAN, NEW withInterface \in BOOLEAN,
           envelope => Holds, ~Tun => ~envelope /\ ~withInterface
    PROVE  /\ PreparedSession(envelope, withInterface) \in Session
           /\ Prepared(PreparedSession(envelope, withInterface))
<1> DEFINE x == PreparedSession(envelope, withInterface)
<1>1. x \in Session
  BY DEF PreparedSession, Session, Target, NoTarget
<1>2. SoundSession(x)
  BY DEF PreparedSession, SoundSession
<1> QED
  BY <1>1, <1>2 DEF PreparedSession, Prepared

\* The daemon works for a generation of its own, and for nobody yet.
Claimed(t) ==
    /\ ~closed
    /\ t \in Shared /\ Present(t) /\ SoundSession(t.session)
    /\ t.generation = FreshGeneration /\ t.override = NoOverride /\ t.retry = NoRetry
    /\ t.recoverers = shared.recoverers

LEMMA ClaimGenerationIs ==
    ASSUME Base, ~closed, NEW s \in Shared, Present(s), SoundSession(s.session),
           s.recoverers = shared.recoverers
    PROVE  LET t == ClaimGeneration(s, FreshGeneration) IN
           Claimed(t) /\ t.session = s.session /\ t.entry = NoEntry
<1> DEFINE n == NextGeneration(s, FreshGeneration)
           t == ClaimGeneration(s, FreshGeneration)
<1>1. FreshGeneration \in Nat
  BY BaseIs
<1>2. /\ n \in Shared /\ n.generation = FreshGeneration /\ n.entry = NoEntry
      /\ n.retry = NoRetry /\ n.session = s.session /\ n.recoverers = s.recoverers
  BY <1>1, NextGenerationIs
<1>3. t = OverrideCleared(n)
  BY DEF ClaimGeneration
<1>4. 0 \in Candidate
  BY PolicyAssumption DEF Candidate
<1> HIDE DEF n, t
<1>5. /\ t \in Shared /\ t.override = NoOverride
      /\ t.generation = n.generation /\ t.entry = n.entry /\ t.retry = n.retry
      /\ t.session = n.session /\ t.recoverers = n.recoverers
  BY <1>2, <1>3, <1>4, OverrideIs
<1> QED
  BY <1>2, <1>5 DEF Claimed, Present, t

\* The activation of a new generation has everything before it.
NewEntry(e) ==
    /\ e \in Entry /\ e.generation = FreshGeneration
    /\ e.grant = saved /\ catalog = Candidate
    /\ e.activation = NewActivation(0) /\ ~e.automatic /\ ~e.worker

LEMMA UpIs ==
    ASSUME Base, Up
    PROVE  /\ ~Present(shared) /\ Claimed(shared') /\ Prepared(shared'.session)
           /\ shared'.entry = NoEntry \/ NewEntry(shared'.entry)
           /\ starts' = starts \cup {[generation |-> FreshGeneration, target |-> 0]}
<1> DEFINE g == FreshGeneration
           x == PreparedSession(Tun /\ saved \in Grants, Tun)
           prepared == [shared EXCEPT !.session = x]
           claimed == ClaimGeneration(prepared, g)
<1>1. shared \in Shared /\ g \in Nat \ {0}
  BY BaseIs
<1>2. x \in Session /\ Prepared(x)
  <2> DEFINE envelope == Tun /\ saved \in Grants
  <2>1. Tun \in BOOLEAN /\ Holds \in BOOLEAN
    BY ConnectionAssumption
  <2>2. envelope => Holds
    BY ConnectionAssumption
  <2>3. envelope \in BOOLEAN /\ (~Tun => ~envelope)
    OBVIOUS
  <2> HIDE DEF envelope
  <2>4. PreparedSession(envelope, Tun) \in Session /\ Prepared(PreparedSession(envelope, Tun))
    BY <2>1, <2>2, <2>3, PreparedSessionIs
  <2> QED
    BY <2>4 DEF envelope
<1>3. /\ ~closed /\ ~Present(shared)
      /\ saved \in Grants => catalog = Candidate
      /\ shared' = IF saved \in Grants THEN Install(claimed, saved) ELSE claimed
      /\ starts' = starts \cup {[generation |-> g, target |-> 0]}
  BY DEF Up
<1>4. prepared = With(shared, x)
  BY DEF With
<1> HIDE DEF x, prepared
<1>5. /\ prepared \in Shared /\ Present(prepared) /\ prepared.session = x
      /\ prepared.recoverers = shared.recoverers
  BY <1>1, <1>2, <1>4, WithIs DEF SameButSession
<1>6. Claimed(claimed) /\ claimed.session = x /\ claimed.entry = NoEntry
  BY <1>2, <1>3, <1>5, ClaimGenerationIs DEF Prepared
<1> HIDE DEF claimed
<1>7. CASE saved \in Grants
  <2>1. PICK e \in Entry : /\ Install(claimed, saved) = WithEntry(claimed, e)
                           /\ e.generation = claimed.generation /\ e.grant = saved
                           /\ e.activation = NewActivation(0)
                           /\ ~e.automatic /\ ~e.worker
    BY <1>1, <1>6, <1>7, InstallIs DEF Claimed
  <2>2. /\ shared' \in Shared /\ shared'.entry = e
        /\ shared'.generation = claimed.generation /\ shared'.override = claimed.override
        /\ shared'.retry = claimed.retry /\ shared'.session = claimed.session
        /\ shared'.recoverers = claimed.recoverers
    BY <1>3, <1>6, <1>7, <2>1, WithEntryIs DEF Claimed
  <2>3. NewEntry(e)
    BY <1>3, <1>6, <1>7, <2>1 DEF NewEntry, Claimed
  <2>4. Claimed(shared')
    BY <1>3, <1>6, <2>2 DEF Claimed, Present
  <2> QED
    BY <1>2, <1>3, <1>6, <2>2, <2>3, <2>4
<1>8. CASE saved \notin Grants
  BY <1>2, <1>3, <1>6, <1>8
<1> QED
  BY <1>7, <1>8

\* A replacement keeps what runs until its own start.
LEMMA ConnectIs ==
    ASSUME Base, NEW target, Connect(target)
    PROVE  LET x == shared.session
               y == shared'.session
           IN  /\ target \in Candidate
               /\ Claimed(shared') /\ shared'.entry = NoEntry
               /\ IF ~Present(shared) THEN Prepared(y)
                  ELSE /\ y.run = x.run /\ y.status = x.status /\ y.pending = x.pending
                       /\ y.target = x.target /\ y.holding = x.holding
               /\ starts' = starts \cup {[generation |-> FreshGeneration, target |-> target]}
<1> DEFINE g == FreshGeneration
           withInterface == Tun /\ saved # "absent"
           iface == IF withInterface THEN "planned" ELSE "none"
           x == IF Present(shared) THEN [shared.session EXCEPT !.iface = iface]
                ELSE PreparedSession(FALSE, withInterface)
           prepared == IF Present(shared)
                       THEN [shared EXCEPT !.session.iface = iface]
                       ELSE [shared EXCEPT !.session = PreparedSession(FALSE, withInterface)]
<1>1. shared \in Shared /\ Sound(shared) /\ catalog \in SUBSET Candidate
  BY BaseIs DEF Base, TypeOK
<1>2. withInterface \in BOOLEAN /\ (~Tun => ~withInterface)
  OBVIOUS
<1>3. prepared = With(shared, x)
  BY <1>1 DEF With, Shared
<1>4. /\ ~closed /\ target \in catalog
      /\ shared' = ClaimGeneration(prepared, g)
      /\ starts' = starts \cup {[generation |-> g, target |-> target]}
  BY DEF Connect
<1>5. x \in Session /\ SoundSession(x)
  <2>1. CASE ~Present(shared)
    <3> HIDE DEF withInterface
    <3>1. FALSE \in BOOLEAN
      OBVIOUS
    <3> QED
      BY <1>2, <2>1, <3>1, PreparedSessionIs DEF Prepared
  <2>2. CASE Present(shared)
    <3>1. shared.session \in Session /\ SoundSession(shared.session)
      BY <1>1, <2>2, SessionExists DEF Sound
    <3>2. x = [shared.session EXCEPT !.iface = iface]
      BY <2>2
    <3>3. x \in Session
      BY <3>1, <3>2 DEF Session
    <3> QED
      BY <1>2, <3>1, <3>2, <3>3 DEF Session, SoundSession
  <2> QED
    BY <2>1, <2>2
<1>6. IF ~Present(shared) THEN Prepared(x)
      ELSE /\ x.run = shared.session.run /\ x.status = shared.session.status
           /\ x.pending = shared.session.pending /\ x.target = shared.session.target
           /\ x.holding = shared.session.holding
  <2>1. CASE ~Present(shared)
    <3> HIDE DEF withInterface
    <3>1. FALSE \in BOOLEAN
      OBVIOUS
    <3> QED
      BY <1>2, <2>1, <3>1, PreparedSessionIs
  <2>2. CASE Present(shared)
    <3>1. shared.session \in Session
      BY <1>1, <2>2, SessionExists
    <3>2. x = [shared.session EXCEPT !.iface = iface]
      BY <2>2
    <3> QED
      BY <2>2, <3>1, <3>2 DEF Session
  <2> QED
    BY <2>1, <2>2
<1> HIDE DEF x, prepared
<1>7. /\ prepared \in Shared /\ Present(prepared) /\ prepared.session = x
      /\ prepared.recoverers = shared.recoverers
  BY <1>1, <1>3, <1>5, WithIs DEF SameButSession
<1>8. Claimed(shared') /\ shared'.session = x /\ shared'.entry = NoEntry
  BY <1>4, <1>5, <1>7, ClaimGenerationIs
<1> QED
  BY <1>1, <1>4, <1>6, <1>8

\* A running core is restarted under a generation of its own, like an explicit
\* start; what it was carrying is not waited for any longer.
LEMMA SetPortsIs ==
    ASSUME Base, NEW value, SetPorts(value)
    PROVE  LET x == shared.session
               y == shared'.session
           IN  /\ ~closed /\ Present(shared) /\ x.status = "connected"
               /\ shared' \in Shared /\ Present(shared') /\ SoundSession(y)
               /\ shared'.generation = FreshGeneration
               /\ shared'.override \in {shared.override, NoOverride}
               /\ shared'.entry = NoEntry /\ shared'.retry = NoRetry
               /\ shared'.recoverers = shared.recoverers
               /\ \/ y = x /\ confirms' = confirms
                  \/ StillBorn(y) /\ confirms' = confirms
                  \/ /\ NewBorn(y, x.target)
                     /\ confirms' = confirms \cup
                           {[subject |-> Captured(shared', FreshGeneration),
                             target |-> x.target, origin |-> "explicit"]}
               /\ x.target \in Candidate /\ standby' = FALSE
<1> DEFINE g == FreshGeneration
           target == shared.session.target
           applied == SettingsApplied(shared, value)
           restarted == NextGeneration(applied, g)
           running == RunOpened(restarted, target, FreshRun, TRUE)
           dead == RunOpened(restarted, target, FreshRun, FALSE)
<1>1. shared \in Shared /\ Sound(shared) /\ FreshRun \in Nat /\ g \in Nat \ {0}
  BY BaseIs
<1>2. /\ ~closed /\ shared.session.status = "connected" /\ standby' = FALSE
      /\ \/ shared' = restarted /\ confirms' = confirms
         \/ shared' = dead /\ confirms' = confirms
         \/ /\ shared' = running
            /\ confirms' = confirms \cup
                  {[subject |-> Captured(running, g), target |-> target,
                    origin |-> "explicit"]}
  BY DEF SetPorts
<1>3. Present(shared)
  BY <1>2 DEF Present, NoSession
<1>4. SoundSession(shared.session) /\ shared.session \in Session
  BY <1>1, <1>3, SessionExists DEF Sound
<1>5. target \in Candidate
  BY <1>2, <1>4 DEF SoundSession, Session, Target
<1>6. /\ applied \in Shared /\ applied.session = shared.session
      /\ applied.recoverers = shared.recoverers
      /\ applied.override \in {shared.override, NoOverride}
  <2> HIDE DEF applied
  <2>1. /\ Eased(shared, applied) /\ applied.recoverers = shared.recoverers
        /\ applied.session = shared.session
    BY <1>1, SettingsAppliedIs DEF applied
  <2> QED
    BY <2>1 DEF Eased, SameTurn, Withdrawn
<1> HIDE DEF applied
<1>7. /\ restarted \in Shared /\ restarted.generation = g /\ restarted.entry = NoEntry
      /\ restarted.retry = NoRetry /\ restarted.override = applied.override
      /\ restarted.session = applied.session /\ restarted.recoverers = applied.recoverers
  BY <1>1, <1>6, NextGenerationIs
<1> HIDE DEF restarted
<1>8. Present(restarted) /\ SoundSession(restarted.session)
  BY <1>3, <1>4, <1>6, <1>7 DEF Present
<1>9. PICK y \in Session : /\ running = With(restarted, y) /\ NewBorn(y, target)
                           /\ KeepsHold(restarted.session, y)
  BY <1>1, <1>5, <1>7, <1>8, RunOpenedIs
<1>10. PICK z \in Session : /\ dead = With(restarted, z) /\ SoundSession(z)
                            /\ StillBorn(z)
  BY <1>1, <1>5, <1>7, <1>8, RunOpenedIs
<1> HIDE DEF running, dead
<1>11. /\ running \in Shared /\ Present(running) /\ SameButSession(restarted, running)
       /\ running.session = y
  BY <1>7, <1>9, WithIs
<1>12. /\ dead \in Shared /\ Present(dead) /\ SameButSession(restarted, dead)
       /\ dead.session = z
  BY <1>7, <1>10, WithIs
<1> HIDE DEF target
<1>13. CASE shared' = restarted /\ confirms' = confirms
  BY <1>2, <1>3, <1>4, <1>5, <1>6, <1>7, <1>8, <1>13 DEF target
<1>14. CASE shared' = dead /\ confirms' = confirms
  BY <1>2, <1>3, <1>5, <1>6, <1>7, <1>10, <1>12, <1>14 DEF target, SameButSession
<1>15. CASE /\ shared' = running
            /\ confirms' = confirms \cup
                  {[subject |-> Captured(running, g), target |-> target,
                    origin |-> "explicit"]}
  BY <1>2, <1>3, <1>5, <1>6, <1>7, <1>9, <1>11, <1>15 DEF target, SameButSession, NewBorn
<1> QED
  BY <1>2, <1>13, <1>14, <1>15

-----------------------------------------------------------------------------
(* The starts, for whoever asks for them.                                  *)

\* A start of `target` for generation g was accepted.
Accepted(s, origin, target, g) ==
    /\ IsCurrent(s, g) /\ Present(s)
    /\ origin = "failover" =>
          /\ s.entry # NoEntry /\ Armed(s) /\ GrantStands(s)
          /\ CanAdmit(s.entry.activation, target, s.entry.backoff)
    /\ origin = "reconnect" =>
          /\ s.entry = NoEntry /\ s.retry # NoRetry
          /\ RetryCurrent(s, target, g)

\* The generation goes on, with another session.
GoesOn(s, t) ==
    /\ t \in Shared /\ Present(t)
    /\ t.generation = s.generation /\ t.override = s.override
    /\ t.retry.generation = s.retry.generation

\* A start that ended in an error,
GaveUp(s, t, origin, target, g) ==
    /\ Accepted(s, origin, target, g) /\ GoesOn(s, t)
    /\ Weaker(s, t) /\ ~Armed(t)
    /\ t.session = s.session \/ StillBorn(t.session)
    /\ Restarted(s.entry, t.entry, origin, target)
    /\ t.entry # NoEntry =>
          t.entry.activation = Disarmed(IF origin = "failover"
                                        THEN Admitted(s.entry.activation, target)
                                        ELSE s.entry.activation)
    /\ confirms' = confirms /\ standby' = FALSE

NewConfirm(t, origin, target, g) ==
    [subject |-> Captured(t, g), target |-> target, origin |-> origin]

\* and one whose core is waiting for its confirmation.
Began(s, t, origin, target, g) ==
    /\ Accepted(s, origin, target, g) /\ GoesOn(s, t)
    /\ KeepsHold(s.session, t.session) /\ NewBorn(t.session, target)
    /\ Restarted(s.entry, t.entry, origin, target)
    /\ t.entry # NoEntry =>
          /\ t.entry.subject = Captured(t, g)
          /\ t.entry.activation = IF origin = "failover"
                                  THEN Admitted(s.entry.activation, target)
                                  ELSE s.entry.activation
    /\ confirms' = confirms \cup {NewConfirm(t, origin, target, g)} /\ standby' = FALSE

LEMMA FailedStartIs ==
    ASSUME NEW s \in Shared, Sound(s), NEW origin \in Origin, NEW target \in Candidate,
           NEW g \in Nat, FreshRun \in Nat, Failed(s, origin, target, g)
    PROVE  GaveUp(s, shared', origin, target, g) /\ shared'.recoverers = s.recoverers
<1>1. Accepted(s, origin, target, g)
  BY AcceptsIs DEF Failed, Accepted
<1> QED
  BY <1>1, FailedIs DEF GaveUp, GoesOn, SameGeneration

LEMMA LaunchedStartIs ==
    ASSUME NEW s \in Shared, Sound(s), NEW origin \in Origin, NEW target \in Candidate,
           NEW g \in Nat, FreshRun \in Nat, Launched(s, origin, target, g)
    PROVE  Began(s, shared', origin, target, g) /\ shared'.recoverers = s.recoverers
<1>1. Accepted(s, origin, target, g)
  BY AcceptsIs DEF Launched, Accepted
<1> QED
  BY <1>1, LaunchedIs DEF Began, GoesOn, SameGeneration, NewConfirm

LEMMA ExplicitStartIs ==
    ASSUME Base, NEW c, ExplicitStart(c)
    PROVE  /\ c \in starts /\ starts' = starts \ {c}
           /\ shared'.recoverers = shared.recoverers
           /\ \/ Eased(shared, shared') /\ confirms' = confirms /\ standby' = standby
              \/ GaveUp(shared, shared', "explicit", c.target, c.generation)
              \/ Began(shared, shared', "explicit", c.target, c.generation)
<1> DEFINE origin == "explicit"
<1>1. /\ shared \in Shared /\ Sound(shared) /\ FreshRun \in Nat
      /\ origin \in Origin
  BY BaseIs DEF Origin
<1>2. /\ c \in starts /\ starts' = starts \ {c}
      /\ \/ Refused(shared, origin, c.target, c.generation)
         \/ Failed(shared, origin, c.target, c.generation)
         \/ Launched(shared, origin, c.target, c.generation)
  BY DEF ExplicitStart
<1>3. c.target \in Candidate /\ c.generation \in Nat
  BY <1>2 DEF Base, TypeOK
<1> HIDE DEF origin
<1>4. CASE Refused(shared, origin, c.target, c.generation)
  BY <1>1, <1>2, <1>3, <1>4, RefusedIs
<1>5. CASE Failed(shared, origin, c.target, c.generation)
  BY <1>1, <1>2, <1>3, <1>5, FailedStartIs DEF origin
<1>6. CASE Launched(shared, origin, c.target, c.generation)
  BY <1>1, <1>2, <1>3, <1>6, LaunchedStartIs DEF origin
<1> QED
  BY <1>2, <1>4, <1>5, <1>6

\* A redial that is refused ends the retry it was made for.
LEMMA RefusedRedialIs ==
    ASSUME NEW s \in Shared, s.retry # NoRetry => s.retry.generation = s.generation,
           NEW target, NEW g \in Nat, Refused(s, "reconnect", target, g)
    PROVE  \/ ~IsCurrent(s, g) /\ shared' = s
           \/ shared'.retry = NoRetry /\ shared'.override.kind # "reconnecting"
<1> DEFINE origin == "reconnect"
<1>1. ASSUME NEW u \in Shared, u.generation = s.generation, u.retry = s.retry,
             IsCurrent(s, g), shared' = CancelRetry(u, g)
      PROVE  shared'.retry = NoRetry /\ shared'.override.kind # "reconnecting"
  <2>1. IsCurrent(u, g)
    BY <1>1 DEF IsCurrent
  <2>2. CASE u.override.kind = "reconnecting" \/ u.retry.generation = g
    <3>1. /\ Forgotten(u, shared')
          /\ shared'.override = IF u.override.kind = "reconnecting" THEN NoOverride
                                ELSE u.override
      BY <1>1, <2>1, <2>2, CancelRetryIs
    <3> QED
      BY <3>1 DEF Forgotten, NoOverride
  <2>3. CASE ~(u.override.kind = "reconnecting" \/ u.retry.generation = g)
    <3>1. shared' = u
      BY <1>1, <2>3, CancelRetryIs
    <3> QED
      BY <1>1, <2>3, <3>1 DEF IsCurrent
  <2> QED
    BY <2>2, <2>3
<1>2. \/ ~IsCurrent(s, g) /\ shared' = s
      \/ IsCurrent(s, g) /\ FALSE \in HelperOutcomes(s) /\ shared' = CancelRetry(HelperLost(s), g)
      \/ IsCurrent(s, g) /\ shared' = CancelRetry(s, g)
  <2>1. /\ \/ ~IsCurrent(s, g) /\ shared' = s
           \/ /\ IsCurrent(s, g)
              /\ FALSE \in HelperOutcomes(s)
              /\ shared' = IF origin = "reconnect" THEN CancelRetry(HelperLost(s), g)
                           ELSE HelperLost(s)
           \/ IsCurrent(s, g) /\ shared' = Refusal(s, origin, g)
    BY DEF Refused
  <2>2. Refusal(s, origin, g) = CancelRetry(s, g)
    BY DEF Refusal
  <2> QED
    BY <2>1, <2>2
<1>3. CASE FALSE \in HelperOutcomes(s)
  <2>1. HasEnvelope(s) /\ Present(s)
    BY <1>3 DEF HelperOutcomes, HasEnvelope
  <2>2. /\ HelperLost(s) \in Shared /\ HelperLost(s).generation = s.generation
        /\ HelperLost(s).retry = s.retry
    <3>1. Quiet(s, Disarm(s)) /\ Disarm(s).session = s.session
      BY DisarmIsQuiet
    <3> DEFINE u == Disarm(s)
    <3>2. u \in Shared /\ Present(u) /\ u.session = s.session
      BY <2>1, <3>1 DEF Quiet, Present
    <3> HIDE DEF u
    <3>3. u.session \in Session /\ u.session.envelope
      BY <2>1, <3>2, SessionExists DEF HasEnvelope
    <3>4. "failed" \in Status
      BY DEF Status
    <3> DEFINE x == [u.session EXCEPT !.alive = FALSE, !.status = "failed"]
               v == CoreFailed(u, "failed")
    <3>5. v = With(u, x) /\ x \in Session
      BY <3>2, <3>4, CoreFailedIs
    <3>6. x.envelope
      BY <3>3 DEF Session
    <3> HIDE DEF x, v
    <3>7. v \in Shared /\ v.session = x /\ SameButSession(u, v) /\ Present(v)
      BY <3>2, <3>5, WithIs
    <3> DEFINE y == [x EXCEPT !.holding = TRUE]
    <3>8. CoreExitNoted(v) = With(v, y) /\ y \in Session
      BY <3>5, <3>6, <3>7 DEF CoreExitNoted, With, Session, Shared
    <3> HIDE DEF y
    <3>9. CoreExitNoted(v) \in Shared /\ SameButSession(v, CoreExitNoted(v))
      BY <3>7, <3>8, WithIs
    <3>10. HelperLost(s) = CoreExitNoted(v)
      BY DEF HelperLost, v, u
    <3>11. u.generation = s.generation /\ u.retry = s.retry
      BY <3>1 DEF Quiet, u
    <3> QED
      BY <3>7, <3>9, <3>10, <3>11 DEF SameButSession
  <2> QED
    BY <1>1, <1>2, <2>2
<1> QED
  BY <1>1, <1>2, <1>3

LEMMA RedialStartIs ==
    ASSUME Base, NEW r, RedialStart(r)
    PROVE  /\ r \in redials /\ r.step = "waiting"
           /\ shared'.recoverers = shared.recoverers
           /\ \/ /\ Eased(shared, shared') /\ confirms' = confirms /\ standby' = standby
                 /\ \/ ~IsCurrent(shared, r.generation) /\ shared' = shared
                    \/ shared'.retry = NoRetry /\ shared'.override.kind # "reconnecting"
                 /\ redials' = redials \ {r}
              \/ /\ GaveUp(shared, shared', "reconnect", r.target, r.generation)
                 /\ redials' = (redials \ {r}) \cup {[r EXCEPT !.step = "failed"]}
              \/ /\ Began(shared, shared', "reconnect", r.target, r.generation)
                 /\ redials' = (redials \ {r}) \cup
                        {[r EXCEPT !.step = "awaiting",
                                   !.subject = Captured(shared', r.generation)]}
<1> DEFINE origin == "reconnect"
<1>1. /\ shared \in Shared /\ Sound(shared) /\ FreshRun \in Nat
      /\ origin \in Origin
      /\ shared.retry # NoRetry => shared.retry.generation = shared.generation
  BY BaseIs DEF Origin, Base, Grounded
<1>2. /\ r \in redials /\ r.step = "waiting"
      /\ \/ /\ Refused(shared, origin, r.target, r.generation)
            /\ redials' = redials \ {r}
         \/ /\ Failed(shared, origin, r.target, r.generation)
            /\ redials' = (redials \ {r}) \cup {[r EXCEPT !.step = "failed"]}
         \/ /\ Launched(shared, origin, r.target, r.generation)
            /\ redials' = (redials \ {r}) \cup
                   {[r EXCEPT !.step = "awaiting",
                              !.subject = Captured(shared', r.generation)]}
  BY DEF RedialStart
<1>3. r.target \in Candidate /\ r.generation \in Nat
  BY <1>2 DEF Base, TypeOK
<1> HIDE DEF origin
<1>4. CASE Refused(shared, origin, r.target, r.generation) /\ redials' = redials \ {r}
  <2>1. \/ ~IsCurrent(shared, r.generation) /\ shared' = shared
        \/ shared'.retry = NoRetry /\ shared'.override.kind # "reconnecting"
    BY <1>1, <1>3, <1>4, RefusedRedialIs DEF origin
  <2> QED
    BY <1>1, <1>2, <1>3, <1>4, <2>1, RefusedIs
<1>5. CASE /\ Failed(shared, origin, r.target, r.generation)
           /\ redials' = (redials \ {r}) \cup {[r EXCEPT !.step = "failed"]}
  BY <1>1, <1>2, <1>3, <1>5, FailedStartIs DEF origin
<1>6. CASE /\ Launched(shared, origin, r.target, r.generation)
           /\ redials' = (redials \ {r}) \cup
                  {[r EXCEPT !.step = "awaiting",
                             !.subject = Captured(shared', r.generation)]}
  BY <1>1, <1>2, <1>3, <1>6, LaunchedStartIs DEF origin
<1> QED
  BY <1>2, <1>4, <1>5, <1>6

\* Whose workers are where does not matter to the outcome of a start.
LEMMA StartElsewhere ==
    ASSUME NEW s, NEW u, SameButWorkers(s, u), NEW t, NEW target, NEW g
    PROVE  /\ GaveUp(u, t, "failover", target, g) => GaveUp(s, t, "failover", target, g)
           /\ Began(u, t, "failover", target, g) => Began(s, t, "failover", target, g)
<1>1. /\ IsCurrent(u, g) <=> IsCurrent(s, g)
      /\ Present(u) <=> Present(s)
      /\ Armed(u) <=> Armed(s)
      /\ GrantStands(u) <=> GrantStands(s)
  BY DEF SameButWorkers, IsCurrent, Present, Armed, GrantStands
<1>2. Accepted(u, "failover", target, g) => Accepted(s, "failover", target, g)
  BY <1>1 DEF Accepted, SameButWorkers
<1>3. Weaker(u, t) => Weaker(s, t)
  BY EasedElsewhere
<1>4. GoesOn(u, t) => GoesOn(s, t)
  BY DEF GoesOn, SameButWorkers
<1> QED
  BY <1>2, <1>3, <1>4 DEF GaveUp, Began, SameButWorkers

LEMMA RecovererStartIs ==
    ASSUME Base, NEW r, RecovererStart(r)
    PROVE  LET g == r.generation
               others == shared.recoverers \ {r}
           IN  /\ r \in shared.recoverers /\ r.step = "starting"
               /\ \/ /\ Eased(shared, shared') /\ confirms' = confirms
                     /\ standby' = standby /\ shared'.recoverers = others
                     /\ IsCurrent(shared, g) /\ Owns(shared, g) /\ Armed(shared') =>
                           /\ Armed(shared)
                           /\ ~CanAdmit(shared.entry.activation, r.target,
                                        shared.entry.backoff)
                  \/ /\ GaveUp(shared, shared', "failover", r.target, g)
                     /\ r.target \in Candidate
                     /\ shared'.recoverers = others \cup
                           {[generation |-> g, target |-> r.target, step |-> "erring"]}
                  \/ /\ Began(shared, shared', "failover", r.target, g)
                     /\ r.target \in Candidate
                     /\ shared'.recoverers = others \cup {Worker(g)}
<1> DEFINE origin == "failover"
           g == r.generation
           target == r.target
           gone == Gone(r)
           erring == At(r, "erring", target)
           deciding == At(r, "deciding", NoTarget)
<1>1. /\ shared \in Shared /\ Sound(shared) /\ FreshRun \in Nat /\ origin \in Origin
      /\ Weaker(shared, shared)
  BY BaseIs, WeakerIsWeaker DEF Origin
<1>2. /\ r \in shared.recoverers /\ r.step = "starting"
      /\ \/ Refused(gone, origin, target, g)
         \/ Failed(erring, origin, target, g)
         \/ Launched(deciding, origin, target, g)
  BY DEF RecovererStart
<1>3. r.generation \in Nat /\ target \in Target /\ NoTarget \in Target
  BY <1>1, <1>2 DEF Shared, Target
<1>4. /\ gone \in Shared /\ SameButWorkers(shared, gone)
      /\ gone.recoverers = shared.recoverers \ {r}
      /\ erring \in Shared /\ SameButWorkers(shared, erring)
      /\ erring.recoverers = (shared.recoverers \ {r}) \cup
             {[generation |-> g, target |-> target, step |-> "erring"]}
      /\ deciding \in Shared /\ SameButWorkers(shared, deciding)
      /\ deciding.recoverers = (shared.recoverers \ {r}) \cup {Worker(g)}
  BY <1>2, <1>3, WorkerMovesIs DEF Worker
<1>5. ASSUME NEW s \in Shared, SameButWorkers(shared, s), Accepts(s, origin, target, g)
      PROVE  target \in Candidate
  BY <1>5 DEF Accepts, AdmitsFailover, CanAdmit, IsNext, Open
<1> HIDE DEF gone, erring, deciding, origin, target, g
<1>6. CASE Refused(gone, origin, target, g)
  <2>1. Sound(gone)
    BY <1>1, <1>4, EasedElsewhere
  <2>2. /\ Eased(gone, shared') /\ shared'.recoverers = gone.recoverers
        /\ confirms' = confirms /\ standby' = standby
    BY <1>1, <1>3, <1>4, <1>6, <2>1, RefusedIs DEF g
  <2>3. Eased(shared, shared')
    BY <1>4, <2>2, EasedElsewhere
  <2>4. ASSUME IsCurrent(shared, g), Owns(shared, g), Armed(shared')
        PROVE  /\ Armed(shared)
               /\ ~CanAdmit(shared.entry.activation, target, shared.entry.backoff)
    <3>1. IsCurrent(gone, g) /\ Owns(gone, g) /\ gone.entry = shared.entry
      BY <1>4, <2>4 DEF SameButWorkers, IsCurrent, Owns
    <3>2. ASSUME NEW u, shared' = Disarm(u), u \in Shared
          PROVE  FALSE
      <4>1. shared'.entry = Revoked(u.entry)
        BY <3>2, DisarmIsQuiet
      <4> QED
        BY <2>4, <3>2, <4>1, RevokedIs DEF Armed
    <3>3. CASE shared' = HelperLost(gone) /\ FALSE \in HelperOutcomes(gone)
      <4>1. HasEnvelope(gone) /\ Present(gone)
        BY <3>3 DEF HelperOutcomes, HasEnvelope
      <4>2. shared'.entry = Revoked(gone.entry)
        BY <1>4, <2>1, <3>3, <4>1, HelperLostIs
      <4> QED
        BY <1>4, <2>4, <4>2, RevokedIs DEF Armed
    <3>4. CASE ~Accepts(gone, origin, target, g) /\ shared' = Refusal(gone, origin, g)
      <4>1. /\ ~AdmitsFailover(gone, target, g)
            /\ shared' = IF Owns(gone, g) /\ Armed(gone) /\ ~GrantStands(gone)
                         THEN Disarm(gone) ELSE gone
        BY <3>4 DEF Accepts, Refusal, origin
      <4>2. ~(Armed(gone) /\ ~GrantStands(gone)) /\ shared' = gone
        BY <1>4, <3>1, <3>2, <4>1
      <4>3. Armed(shared) /\ Armed(gone) /\ GrantStands(gone)
        BY <1>4, <2>4, <4>2 DEF Armed, SameButWorkers
      <4> QED
        BY <3>1, <4>1, <4>3 DEF AdmitsFailover
    <3>5. \/ shared' = HelperLost(gone) /\ FALSE \in HelperOutcomes(gone)
          \/ ~Accepts(gone, origin, target, g) /\ shared' = Refusal(gone, origin, g)
      BY <1>6, <3>1 DEF Refused, origin
    <3> QED
      BY <3>3, <3>4, <3>5
  <2> QED
    BY <1>2, <1>4, <2>2, <2>3, <2>4 DEF g, target
<1>7. CASE Failed(erring, origin, target, g)
  <2>1. target \in Candidate
    BY <1>4, <1>5, <1>7 DEF Failed
  <2>2. Sound(erring)
    BY <1>1, <1>4, EasedElsewhere
  <2>3. GaveUp(erring, shared', origin, target, g) /\ shared'.recoverers = erring.recoverers
    BY <1>1, <1>3, <1>4, <1>7, <2>1, <2>2, FailedStartIs DEF g
  <2>4. GaveUp(shared, shared', origin, target, g)
    BY <1>4, <2>3, StartElsewhere DEF origin
  <2> QED
    BY <1>2, <1>4, <2>1, <2>3, <2>4 DEF g, target, origin
<1>8. CASE Launched(deciding, origin, target, g)
  <2>1. target \in Candidate
    BY <1>4, <1>5, <1>8 DEF Launched
  <2>2. Sound(deciding)
    BY <1>1, <1>4, EasedElsewhere
  <2>3. Began(deciding, shared', origin, target, g) /\ shared'.recoverers = deciding.recoverers
    BY <1>1, <1>3, <1>4, <1>8, <2>1, <2>2, LaunchedStartIs DEF g
  <2>4. Began(shared, shared', origin, target, g)
    BY <1>4, <2>3, StartElsewhere DEF origin
  <2> QED
    BY <1>2, <1>4, <2>1, <2>3, <2>4 DEF g, target, origin
<1> QED
  BY <1>2, <1>6, <1>7, <1>8

-----------------------------------------------------------------------------
(* Type correctness, with what every step relies on.                       *)

Start == [generation : Nat \ {0}, target : Candidate]
Confirmation == [subject : Subject, target : Candidate, origin : Origin]
Death == [target : Candidate, subject : Subject, step : {"begin", "claim"}]
Redial == [generation : Nat \ {0}, target : Candidate, subject : Subject,
           step : {"waiting", "awaiting", "confirmed", "failed"}]

\* The threads are finitely many, and typed.
LEMMA ThreadsAre ==
    ASSUME Base
    PROVE  /\ starts \in SUBSET Start /\ IsFiniteSet(starts)
           /\ confirms \in SUBSET Confirmation /\ IsFiniteSet(confirms)
           /\ deaths \in SUBSET Death /\ IsFiniteSet(deaths)
           /\ redials \in SUBSET Redial /\ IsFiniteSet(redials)
           /\ shared.recoverers \in SUBSET Recoverer /\ IsFiniteSet(shared.recoverers)
<1>1. shared \in Shared
  BY BaseIs
<1>2. shared.recoverers \in SUBSET Recoverer
  BY <1>1 DEF Shared, Recoverer
<1> QED
  BY <1>2 DEF Base, TypeOK, FiniteThreads, Start, Confirmation, Death, Redial, Origin

LEMMA BaseFrom ==
    ASSUME shared' \in Shared, Grounded',
           {closed', stopped', standby', reconnect'} \subseteq BOOLEAN,
           saved' \in Grants \cup {"plain", "absent"}, catalog' \in SUBSET Candidate,
           starts' \in SUBSET Start, IsFiniteSet(starts'),
           confirms' \in SUBSET Confirmation, IsFiniteSet(confirms'),
           deaths' \in SUBSET Death, IsFiniteSet(deaths'),
           redials' \in SUBSET Redial, IsFiniteSet(redials'),
           IsFiniteSet(shared'.recoverers)
    PROVE  Base'
BY DEF Base, TypeOK, FiniteThreads, Start, Confirmation, Death, Redial, Origin

\* A step of the guarded state, with everything else in its place.
LEMMA BaseKeeps ==
    ASSUME Base, shared' \in Shared, Grounded', IsFiniteSet(shared'.recoverers),
           UNCHANGED <<closed, stopped, configuration>>, standby' \in BOOLEAN,
           starts' \in SUBSET Start, IsFiniteSet(starts'),
           confirms' \in SUBSET Confirmation, IsFiniteSet(confirms'),
           deaths' \in SUBSET Death, IsFiniteSet(deaths'),
           redials' \in SUBSET Redial, IsFiniteSet(redials')
    PROVE  Base'
<1>1. /\ {closed', stopped', standby', reconnect'} \subseteq BOOLEAN
      /\ saved' \in Grants \cup {"plain", "absent"} /\ catalog' \in SUBSET Candidate
  BY DEF Base, TypeOK, configuration
<1> QED
  BY <1>1, BaseFrom

\* A thread of a finite set is replaced.
LEMMA Replaced ==
    ASSUME NEW T, NEW S \in SUBSET T, IsFiniteSet(S), NEW x, NEW y \in T, NEW R,
           R = (S \ {x}) \cup {y}
    PROVE  R \in SUBSET T /\ IsFiniteSet(R)
<1> DEFINE U == S \ {x}
<1>1. U \in SUBSET T /\ IsFiniteSet(U)
  BY FS_RemoveElement
<1>2. R = U \cup {y}
  OBVIOUS
<1> HIDE DEF U
<1>3. IsFiniteSet(U \cup {y})
  BY <1>1, FS_AddElement
<1> QED
  BY <1>1, <1>2, <1>3

\* What the generation keeps, and what it loses, leave the state sound.
LEMMA Regrounded ==
    ASSUME Base, closed' = closed, shared' \in Shared, Present(shared'),
           SoundSession(shared'.session), shared'.generation = shared.generation,
           shared'.entry # NoEntry =>
              shared.entry # NoEntry /\ shared'.entry.generation = shared.entry.generation,
           shared'.retry # NoRetry => shared'.retry.generation = shared'.generation
    PROVE  Grounded'
BY DEF Base, Grounded, Sound, Present

LEMMA GoesOnIsGrounded ==
    ASSUME Base, closed' = closed, GoesOn(shared, shared'),
           SoundSession(shared'.session), SameGrant(shared.entry, shared'.entry)
    PROVE  shared' \in Shared /\ Grounded'
<1>1. shared \in Shared /\ shared' \in Shared
  BY BaseIs DEF GoesOn
<1>2. shared'.retry # NoRetry => shared.retry # NoRetry
  BY <1>1, EntryExists DEF GoesOn
<1>3. shared'.retry # NoRetry => shared'.retry.generation = shared'.generation
  BY <1>2 DEF GoesOn, Base, Grounded
<1> QED
  BY <1>1, <1>3, Regrounded DEF GoesOn, SameGrant

\* Whoever started something leaves a sound state behind.
LEMMA StartIsGrounded ==
    ASSUME Base, closed' = closed, NEW origin, NEW target, NEW g,
           \/ GaveUp(shared, shared', origin, target, g)
           \/ Began(shared, shared', origin, target, g)
    PROVE  /\ shared' \in Shared /\ Grounded' /\ standby' = FALSE
           /\ SameGrant(shared.entry, shared'.entry)
<1>1. CASE GaveUp(shared, shared', origin, target, g)
  <2>1. SoundSession(shared'.session)
    BY <1>1 DEF GaveUp, Weaker, GoesOn
  <2> QED
    BY <1>1, <2>1, GoesOnIsGrounded DEF GaveUp, Restarted
<1>2. CASE Began(shared, shared', origin, target, g)
  <2>1. SoundSession(shared'.session)
    BY <1>2 DEF Began, NewBorn
  <2> QED
    BY <1>2, <2>1, GoesOnIsGrounded DEF Began, Restarted
<1> QED
  BY <1>1, <1>2

LEMMA NewConfirmIs ==
    ASSUME Base, NEW origin \in Origin, NEW target \in Candidate, NEW g \in Nat,
           shared' \in Shared,
           \/ GaveUp(shared, shared', origin, target, g)
           \/ Began(shared, shared', origin, target, g)
    PROVE  confirms' \in SUBSET Confirmation /\ IsFiniteSet(confirms')
<1>1. Captured(shared', g) \in Subject
  BY CapturedIs
<1>2. NewConfirm(shared', origin, target, g) \in Confirmation
  BY <1>1 DEF NewConfirm, Confirmation
<1>3. \/ confirms' = confirms
      \/ confirms' = confirms \cup {NewConfirm(shared', origin, target, g)}
  BY DEF GaveUp, Began
<1> DEFINE new == NewConfirm(shared', origin, target, g)
<1>4. confirms \in SUBSET Confirmation /\ IsFiniteSet(confirms)
  BY ThreadsAre
<1> HIDE DEF new
<1>5. IsFiniteSet(confirms \cup {new})
  BY <1>4, FS_AddElement
<1> QED
  BY <1>2, <1>3, <1>4, <1>5 DEF new

\* The answer of a confirmation changes only the step of who waits for it.
LEMMA AnsweredIs ==
    ASSUME Base, NEW c, NEW answer \in BOOLEAN, Answered(c, answer)
    PROVE  \E f \in [redials -> Redial] :
              /\ redials' = {f[r] : r \in redials}
              /\ \A r \in redials :
                    /\ f[r].generation = r.generation /\ f[r].target = r.target
                    /\ f[r].subject = r.subject
<1> DEFINE told(r) == IF r.step = "awaiting" /\ r.subject = c.subject
                      THEN [r EXCEPT !.step = IF answer THEN "confirmed" ELSE "failed"]
                      ELSE r
           f == [r \in redials |-> told(r)]
<1>1. redials \in SUBSET Redial
  BY ThreadsAre
<1>2. \A r \in redials :
         /\ told(r) \in Redial /\ told(r).generation = r.generation
         /\ told(r).target = r.target /\ told(r).subject = r.subject
  BY <1>1 DEF Redial
<1>3. redials' = {told(r) : r \in redials}
  BY DEF Answered
<1> HIDE DEF told
<1>4. f \in [redials -> Redial] /\ \A r \in redials : f[r] = told(r)
  BY <1>2
<1>5. redials' = {f[r] : r \in redials}
  BY <1>3, <1>4
<1> HIDE DEF f
<1> QED
  BY <1>2, <1>4, <1>5

LEMMA AnsweredThreads ==
    ASSUME Base, NEW c, NEW answer \in BOOLEAN, Answered(c, answer)
    PROVE  redials' \in SUBSET Redial /\ IsFiniteSet(redials')
<1>1. PICK f \in [redials -> Redial] : redials' = {f[r] : r \in redials}
  BY AnsweredIs
<1>2. redials' \in SUBSET Redial
  BY <1>1
<1>3. f \in [redials -> {f[r] : r \in redials}]
  BY <1>1
<1>4. IsFiniteSet({f[r] : r \in redials})
  BY <1>3, ImageIsFinite, ThreadsAre
<1> QED
  BY <1>1, <1>2, <1>4

LEMMA EasyStepKeepsBase ==
    ASSUME Base, EasyStep
    PROVE  Base'
<1>1. /\ Eased(shared, shared') /\ shared'.recoverers = shared.recoverers
      /\ starts' = starts /\ confirms' = confirms /\ deaths' = deaths /\ redials' = redials
      /\ closed' = closed \/ shared'.generation = 0
      /\ {closed', stopped', standby', reconnect'} \subseteq BOOLEAN
      /\ saved' \in Grants \cup {"plain", "absent"}
      /\ catalog' \in SUBSET Candidate
  BY EasyStepIs DEF threads
<1>2. shared' \in Shared /\ Grounded'
  BY <1>1, EasedIsGrounded
<1> QED
  BY <1>1, <1>2, BaseFrom, ThreadsAre

LEMMA ClaimedIsGrounded ==
    ASSUME Base, closed' = closed, Claimed(shared'),
           shared'.entry = NoEntry \/ NewEntry(shared'.entry)
    PROVE  shared' \in Shared /\ Grounded'
<1>1. Sound(shared')
  BY DEF Claimed, Sound, NewEntry
<1>2. Sound(shared)'
  BY <1>1 DEF Sound, Present
<1> QED
  BY <1>2 DEF Claimed, Grounded

LEMMA UpKeepsBase ==
    ASSUME Base, Up
    PROVE  Base'
<1> DEFINE new == [generation |-> FreshGeneration, target |-> 0]
<1>1. /\ UNCHANGED <<closed, stopped, standby, configuration, confirms, deaths, redials>>
      /\ Claimed(shared')
      /\ shared'.entry = NoEntry \/ NewEntry(shared'.entry)
      /\ starts' = starts \cup {new}
  BY UpIs DEF Up
<1>2. new \in Start
  BY BaseIs, PolicyAssumption DEF Start, Candidate
<1> HIDE DEF new
<1>3. /\ starts' \in SUBSET Start /\ IsFiniteSet(starts')
  BY <1>1, <1>2, ThreadsAre, FS_AddElement
<1>4. shared' \in Shared /\ Grounded' /\ shared'.recoverers = shared.recoverers
  BY <1>1, ClaimedIsGrounded DEF Claimed
<1>5. standby' \in BOOLEAN
  BY <1>1 DEF Base, TypeOK
<1> QED
  BY <1>1, <1>3, <1>4, <1>5, BaseKeeps, ThreadsAre

LEMMA ConnectKeepsBase ==
    ASSUME Base, NEW target, Connect(target)
    PROVE  Base'
<1> DEFINE new == [generation |-> FreshGeneration, target |-> target]
<1>1. /\ UNCHANGED <<closed, stopped, standby, configuration, confirms, deaths, redials>>
      /\ target \in Candidate
      /\ Claimed(shared') /\ shared'.entry = NoEntry
      /\ starts' = starts \cup {new}
  BY ConnectIs DEF Connect
<1>2. new \in Start
  BY <1>1, BaseIs DEF Start
<1> HIDE DEF new
<1>3. /\ starts' \in SUBSET Start /\ IsFiniteSet(starts')
  BY <1>1, <1>2, ThreadsAre, FS_AddElement
<1>4. shared' \in Shared /\ Grounded' /\ shared'.recoverers = shared.recoverers
  BY <1>1, ClaimedIsGrounded DEF Claimed
<1>5. standby' \in BOOLEAN
  BY <1>1 DEF Base, TypeOK
<1> QED
  BY <1>1, <1>3, <1>4, <1>5, BaseKeeps, ThreadsAre

LEMMA SetPortsKeepsBase ==
    ASSUME Base, NEW value \in BOOLEAN, SetPorts(value)
    PROVE  Base'
<1> DEFINE new == [subject |-> Captured(shared', FreshGeneration),
                   target |-> shared.session.target, origin |-> "explicit"]
<1>1. /\ UNCHANGED <<closed, stopped, saved, catalog, starts, deaths, redials>>
      /\ reconnect' = value /\ standby' = FALSE
      /\ ~closed /\ shared' \in Shared /\ Present(shared')
      /\ shared'.generation = FreshGeneration
      /\ shared'.entry = NoEntry /\ shared'.retry = NoRetry
      /\ shared'.recoverers = shared.recoverers
      /\ SoundSession(shared'.session)
      /\ confirms' = confirms \/ confirms' = confirms \cup {new}
      /\ shared.session.target \in Candidate
  <2>1. UNCHANGED <<closed, stopped, saved, catalog, starts, deaths, redials>> /\ reconnect' = value
    BY DEF SetPorts
  <2> QED
    BY <2>1, SetPortsIs
<1>2. new \in Confirmation
  <2>1. Captured(shared', FreshGeneration) \in Subject
    BY <1>1, BaseIs, CapturedIs
  <2> QED
    BY <1>1, <2>1 DEF Confirmation, Origin
<1> HIDE DEF new
<1>3. /\ confirms' \in SUBSET Confirmation /\ IsFiniteSet(confirms')
  BY <1>1, <1>2, ThreadsAre, FS_AddElement
<1>4. Grounded'
  <2>1. Sound(shared)'
    BY <1>1 DEF Sound, Present
  <2> QED
    BY <1>1, <2>1 DEF Grounded
<1>5. /\ {closed', stopped', standby', reconnect'} \subseteq BOOLEAN
      /\ saved' \in Grants \cup {"plain", "absent"} /\ catalog' \in SUBSET Candidate
  BY <1>1 DEF Base, TypeOK
<1>6. /\ starts' = starts /\ deaths' = deaths /\ redials' = redials
  BY <1>1
<1> QED
  BY <1>1, <1>3, <1>4, <1>5, <1>6, BaseFrom, ThreadsAre

\* A death of the core is captured, or nothing is.
LEMMA DeathCaptured ==
    ASSUME Base, \/ deaths' = deaths
                 \/ /\ deaths' = deaths \cup {NewDeath}
                    /\ Present(shared) /\ shared.session.target # NoTarget
    PROVE  deaths' \in SUBSET Death /\ IsFiniteSet(deaths')
<1>1. CASE deaths' = deaths
  BY <1>1, ThreadsAre
<1>2. CASE /\ deaths' = deaths \cup {NewDeath}
           /\ Present(shared) /\ shared.session.target # NoTarget
  <2>1. NewDeath \in Death
    BY <1>2, NewDeathIs DEF Death
  <2> QED
    BY <1>2, <2>1, ThreadsAre, FS_AddElement
<1> QED
  BY <1>1, <1>2

LEMMA SupervisionKeepsBase ==
    ASSUME Base, Sweep \/ WatchRecover
    PROVE  Base'
<1>1. /\ UNCHANGED <<closed, stopped, standby, configuration, starts, confirms, redials>>
      /\ Eased(shared, shared') \/ Noticed(shared, shared')
      /\ shared'.recoverers = shared.recoverers
      /\ \/ deaths' = deaths
         \/ /\ deaths' = deaths \cup {NewDeath}
            /\ Present(shared) /\ shared.session.target # NoTarget
  BY SweepIs, WatchRecoverIs DEF Sweep, WatchRecover
<1>2. deaths' \in SUBSET Death /\ IsFiniteSet(deaths')
  BY <1>1, DeathCaptured
<1>3. shared' \in Shared /\ Grounded'
  <2>1. CASE Eased(shared, shared')
    BY <1>1, <2>1, EasedIsGrounded
  <2>2. CASE Noticed(shared, shared')
    <3>1. SoundSession(shared'.session)
      BY <2>2 DEF Noticed, Weaker
    <3>2. shared'.retry # NoRetry => shared'.retry.generation = shared'.generation
      BY <2>2 DEF Noticed, Base, Grounded
    <3> QED
      BY <1>1, <2>2, <3>1, <3>2, Regrounded DEF Noticed, SameGrant
  <2> QED
    BY <1>1, <2>1, <2>2
<1>4. standby' \in BOOLEAN
  BY <1>1 DEF Base, TypeOK
<1> QED
  BY <1>1, <1>2, <1>3, <1>4, BaseKeeps, ThreadsAre

LEMMA DyingKeepsBase ==
    ASSUME Base, NEW d, BeginReconnect(d) \/ ClaimReconnect(d)
    PROVE  Base'
<1> DEFINE left == [d EXCEPT !.step = "claim"]
<1>1. shared \in Shared /\ Grounded
  BY BaseIs DEF Base
<1>2. CASE BeginReconnect(d)
  <2>1. /\ UNCHANGED <<closed, stopped, standby, configuration, starts, confirms, redials>>
        /\ d \in deaths
        /\ shared' = shared \/ Failure(shared, shared')
        /\ \/ deaths' = deaths \ {d}
           \/ deaths' = (deaths \ {d}) \cup {left}
    <3>1. UNCHANGED <<closed, stopped, standby, configuration, starts, confirms, redials>>
      BY <1>2 DEF BeginReconnect
    <3> QED
      BY <1>2, <3>1, BeginReconnectIs
  <2>2. left \in Death
    BY <2>1, ThreadsAre DEF Death
  <2> HIDE DEF left
  <2>3. deaths' \in SUBSET Death /\ IsFiniteSet(deaths')
    <3>1. CASE deaths' = deaths \ {d}
      BY <3>1, ThreadsAre, FS_RemoveElement
    <3>2. CASE deaths' = (deaths \ {d}) \cup {left}
      BY <2>2, <3>2, ThreadsAre, Replaced
    <3> QED
      BY <2>1, <3>1, <3>2
  <2>4. /\ shared' \in Shared /\ Grounded' /\ IsFiniteSet(shared'.recoverers)
    <3>1. CASE shared' = shared
      BY <1>1, <2>1, <3>1, ThreadsAre DEF Grounded, Sound, Present
    <3>2. CASE Failure(shared, shared')
      <4>1. /\ shared' \in Shared /\ shared'.session = shared.session
            /\ shared'.generation = shared.generation /\ shared'.retry = shared.retry
            /\ SameGrant(shared.entry, shared'.entry)
        BY <3>2 DEF Failure, Quiet
      <4>2. Grounded'
        BY <1>1, <2>1, <4>1 DEF Grounded, Sound, Present, SameGrant
      <4> DEFINE worker == Worker(shared.entry.generation)
      <4>3. \/ shared'.recoverers = shared.recoverers
            \/ shared'.recoverers = shared.recoverers \cup {worker}
        BY <3>2 DEF Failure, FailureOutcome
      <4> HIDE DEF worker
      <4>4. IsFiniteSet(shared'.recoverers)
        <5>1. IsFiniteSet(shared.recoverers)
          BY ThreadsAre
        <5>2. IsFiniteSet(shared.recoverers \cup {worker})
          BY <5>1, FS_AddElement
        <5> QED
          BY <4>3, <5>1, <5>2
      <4> QED
        BY <4>1, <4>2, <4>4
    <3> QED
      BY <2>1, <3>1, <3>2
  <2>5. standby' \in BOOLEAN
    BY <2>1 DEF Base, TypeOK
  <2> QED
    BY <2>1, <2>3, <2>4, <2>5, BaseKeeps, ThreadsAre
<1>3. CASE ClaimReconnect(d)
  <2> DEFINE g == d.subject.generation
             new == [generation |-> g, target |-> d.target,
                     subject |-> NoSubject, step |-> "waiting"]
  <2>1. UNCHANGED <<closed, stopped, standby, configuration, starts, confirms>>
    BY <1>3 DEF ClaimReconnect
  <2>2. d \in deaths /\ deaths' = deaths \ {d}
    BY <1>3, ClaimReconnectIs
  <2>3. deaths' \in SUBSET Death /\ IsFiniteSet(deaths')
    BY <2>2, ThreadsAre, FS_RemoveElement
  <2>4. standby' \in BOOLEAN
    BY <2>1 DEF Base, TypeOK
  <2>5. CASE shared' = shared /\ redials' = redials
    <3>1. Grounded'
      BY <1>1, <2>1, <2>5 DEF Grounded, Sound, Present
    <3> QED
      BY <1>1, <2>1, <2>3, <2>4, <2>5, <3>1, BaseKeeps, ThreadsAre
  <2>6. CASE /\ MayClaimReconnect(shared, d)
             /\ shared' \in Shared /\ shared'.session = shared.session
             /\ shared'.generation = shared.generation
             /\ shared'.entry = shared.entry
             /\ shared'.recoverers = shared.recoverers
             /\ shared'.retry =
                   [generation |-> g, attempting |-> FALSE, allowed |-> TRUE]
             /\ redials' = redials \cup {new}
    <3>1. Present(shared) /\ g = shared.generation /\ g # 0
      BY <2>6 DEF MayClaimReconnect, Current, IsCurrent
    <3>2. Grounded'
      BY <1>1, <2>1, <2>6, <3>1 DEF Grounded, Sound, Present
    <3>3. new \in Redial
      BY <2>2, <3>1, ThreadsAre DEF Redial, Death, Subject, NoSubject
    <3> HIDE DEF new
    <3>4. redials' \in SUBSET Redial /\ IsFiniteSet(redials')
      BY <2>6, <3>3, ThreadsAre, FS_AddElement
    <3>5. IsFiniteSet(shared'.recoverers) /\ shared' \in Shared
      BY <2>6, ThreadsAre
    <3> QED
      BY <2>1, <2>3, <2>4, <3>2, <3>4, <3>5, BaseKeeps, ThreadsAre
  <2> QED
    BY <1>3, <2>5, <2>6, ClaimReconnectIs
<1> QED
  BY <1>2, <1>3

LEMMA ExplicitStartKeepsBase ==
    ASSUME Base, NEW c, ExplicitStart(c)
    PROVE  Base'
<1> DEFINE origin == "explicit"
           g == c.generation
<1>1. /\ UNCHANGED <<closed, stopped, configuration, deaths, redials>>
      /\ c \in starts /\ starts' = starts \ {c} /\ shared'.recoverers = shared.recoverers
      /\ \/ Eased(shared, shared') /\ confirms' = confirms /\ standby' = standby
         \/ GaveUp(shared, shared', origin, c.target, g)
         \/ Began(shared, shared', origin, c.target, g)
  <2>1. UNCHANGED <<closed, stopped, configuration, deaths, redials>>
    BY DEF ExplicitStart
  <2> QED
    BY <2>1, ExplicitStartIs
<1>2. c.target \in Candidate /\ g \in Nat /\ origin \in Origin
  BY <1>1, ThreadsAre DEF Start, Origin
<1>3. starts' \in SUBSET Start /\ IsFiniteSet(starts')
  BY <1>1, ThreadsAre, FS_RemoveElement
<1> HIDE DEF origin, g
<1>4. CASE Eased(shared, shared') /\ confirms' = confirms /\ standby' = standby
  <2>1. shared' \in Shared /\ Grounded' /\ standby' \in BOOLEAN
    BY <1>1, <1>4, EasedIsGrounded DEF Base, TypeOK
  <2> QED
    BY <1>1, <1>3, <1>4, <2>1, BaseKeeps, ThreadsAre
<1>5. CASE \/ GaveUp(shared, shared', origin, c.target, g)
           \/ Began(shared, shared', origin, c.target, g)
  <2>1. shared' \in Shared /\ Grounded' /\ standby' \in BOOLEAN
    BY <1>1, <1>5, StartIsGrounded
  <2>2. confirms' \in SUBSET Confirmation /\ IsFiniteSet(confirms')
    BY <1>2, <1>5, <2>1, NewConfirmIs
  <2> QED
    BY <1>1, <1>3, <2>1, <2>2, BaseKeeps, ThreadsAre
<1> QED
  BY <1>1, <1>4, <1>5

LEMMA RedialStartKeepsBase ==
    ASSUME Base, NEW r, RedialStart(r)
    PROVE  Base'
<1> DEFINE origin == "reconnect"
           g == r.generation
           failed == [r EXCEPT !.step = "failed"]
           awaiting == [r EXCEPT !.step = "awaiting",
                                 !.subject = Captured(shared', g)]
<1>1. /\ UNCHANGED <<closed, stopped, configuration, starts, deaths>>
      /\ r \in redials /\ shared'.recoverers = shared.recoverers
      /\ \/ /\ Eased(shared, shared') /\ confirms' = confirms /\ standby' = standby
            /\ redials' = redials \ {r}
         \/ /\ GaveUp(shared, shared', origin, r.target, g)
            /\ redials' = (redials \ {r}) \cup {failed}
         \/ /\ Began(shared, shared', origin, r.target, g)
            /\ redials' = (redials \ {r}) \cup {awaiting}
  <2>1. UNCHANGED <<closed, stopped, configuration, starts, deaths>>
    BY DEF RedialStart
  <2> QED
    BY <2>1, RedialStartIs
<1>2. r.target \in Candidate /\ g \in Nat /\ origin \in Origin /\ r \in Redial
  BY <1>1, ThreadsAre DEF Redial, Origin
<1>3. failed \in Redial
  BY <1>2 DEF Redial
<1>4. ASSUME shared' \in Shared PROVE awaiting \in Redial
  <2>1. Captured(shared', g) \in Subject
    BY <1>2, <1>4, CapturedIs
  <2> QED
    BY <1>2, <2>1 DEF Redial
<1> HIDE DEF origin, g, failed, awaiting
<1>5. CASE /\ Eased(shared, shared') /\ confirms' = confirms /\ standby' = standby
           /\ redials' = redials \ {r}
  <2>1. shared' \in Shared /\ Grounded' /\ standby' \in BOOLEAN
    BY <1>1, <1>5, EasedIsGrounded DEF Base, TypeOK
  <2>2. redials' \in SUBSET Redial /\ IsFiniteSet(redials')
    BY <1>5, ThreadsAre, FS_RemoveElement
  <2> QED
    BY <1>1, <1>5, <2>1, <2>2, BaseKeeps, ThreadsAre
<1>6. CASE /\ \/ GaveUp(shared, shared', origin, r.target, g)
              \/ Began(shared, shared', origin, r.target, g)
           /\ \/ redials' = (redials \ {r}) \cup {failed}
              \/ redials' = (redials \ {r}) \cup {awaiting}
  <2>1. shared' \in Shared /\ Grounded' /\ standby' \in BOOLEAN
    BY <1>1, <1>6, StartIsGrounded
  <2>2. confirms' \in SUBSET Confirmation /\ IsFiniteSet(confirms')
    BY <1>2, <1>6, <2>1, NewConfirmIs
  <2>3. awaiting \in Redial
    BY <1>4, <2>1
  <2>4. redials' \in SUBSET Redial /\ IsFiniteSet(redials')
    <3> redials \in SUBSET Redial /\ IsFiniteSet(redials)
      BY ThreadsAre
    <3>1. CASE redials' = (redials \ {r}) \cup {failed}
      BY <1>3, <3>1, Replaced
    <3>2. CASE redials' = (redials \ {r}) \cup {awaiting}
      BY <2>3, <3>2, Replaced
    <3> QED
      BY <1>6, <3>1, <3>2
  <2> QED
    BY <1>1, <2>1, <2>2, <2>4, BaseKeeps, ThreadsAre
<1> QED
  BY <1>1, <1>5, <1>6

LEMMA RedialKeepsBase ==
    ASSUME Base, NEW r \in redials, RedialComplete(r) \/ RedialAgain(r)
    PROVE  Base'
<1> DEFINE failed == [r EXCEPT !.step = "failed"]
           waiting == [r EXCEPT !.step = "waiting", !.subject = NoSubject]
<1>1. /\ UNCHANGED <<closed, stopped, standby, configuration, starts, confirms, deaths>>
      /\ standby' \in BOOLEAN
  BY DEF RedialComplete, RedialAgain, Base, TypeOK
<1>2. shared \in Shared /\ Grounded
  BY BaseIs DEF Base
<1>3. failed \in Redial /\ waiting \in Redial
  BY ThreadsAre DEF Redial, Subject, NoSubject
<1>4. /\ shared' \in Shared /\ Grounded' /\ shared'.recoverers = shared.recoverers
      /\ \/ redials' = redials \ {r}
         \/ redials' = (redials \ {r}) \cup {failed}
         \/ redials' = (redials \ {r}) \cup {waiting}
  <2>1. CASE RedialAgain(r)
    BY <1>1, <2>1, RedialAgainIs, EasedIsGrounded
  <2>2. CASE RedialComplete(r)
    <3>1. CASE shared' = shared /\ redials' = (redials \ {r}) \cup {failed}
      BY <1>1, <1>2, <3>1 DEF Grounded, Sound, Present
    <3>2. CASE /\ RetryReceipt(shared, r.target, r.generation)
               /\ shared' \in Shared /\ shared'.session = shared.session
               /\ shared'.generation = shared.generation
               /\ shared'.entry = shared.entry
               /\ shared'.recoverers = shared.recoverers
               /\ shared'.retry = NoRetry
               /\ redials' = redials \ {r}
      BY <1>1, <1>2, <3>2 DEF Grounded, Sound, Present
    <3> HIDE DEF failed, waiting
    <3> QED
      BY <2>2, <3>1, <3>2, RedialCompleteIs DEF failed
  <2> QED
    BY <2>1, <2>2
<1> HIDE DEF failed, waiting
<1>5. redials' \in SUBSET Redial /\ IsFiniteSet(redials')
  <2> redials \in SUBSET Redial /\ IsFiniteSet(redials)
    BY ThreadsAre
  <2>1. CASE redials' = redials \ {r}
    BY <2>1, FS_RemoveElement
  <2>2. CASE redials' = (redials \ {r}) \cup {failed}
    <3>1. failed \in Redial
      BY <1>3
    <3> QED
      BY <2>2, <3>1, Replaced
  <2>3. CASE redials' = (redials \ {r}) \cup {waiting}
    <3>1. waiting \in Redial
      BY <1>3
    <3> QED
      BY <2>3, <3>1, Replaced
  <2> QED
    BY <1>4, <2>1, <2>2, <2>3
<1> QED
  BY <1>1, <1>4, <1>5, BaseKeeps, ThreadsAre

\* A failure that was heard may have called for a worker, no more.
LEMMA WorkersAfter ==
    ASSUME Base, FailureOutcome(shared, shared')
    PROVE  IsFiniteSet(shared'.recoverers)
<1> DEFINE worker == Worker(shared.entry.generation)
<1>1. \/ shared'.recoverers = shared.recoverers
      \/ shared'.recoverers = shared.recoverers \cup {worker}
  BY DEF FailureOutcome
<1> HIDE DEF worker
<1>2. IsFiniteSet(shared.recoverers)
  BY ThreadsAre
<1>3. IsFiniteSet(shared.recoverers \cup {worker})
  BY <1>2, FS_AddElement
<1> QED
  BY <1>1, <1>2, <1>3

LEMMA ConfirmKeepsBase ==
    ASSUME Base, NEW c, Confirm(c)
    PROVE  Base'
<1>1. /\ UNCHANGED <<closed, stopped, standby, configuration, starts, deaths>>
      /\ standby' \in BOOLEAN
  BY DEF Confirm, Base, TypeOK
<1>2. /\ c \in confirms /\ confirms' = confirms \ {c}
      /\ \/ shared' = shared
         \/ Proved(shared, shared', c)
         \/ Denied(shared, shared', c)
      /\ Answered(c, TRUE) \/ Answered(c, FALSE)
  BY ConfirmIs
<1>3. confirms' \in SUBSET Confirmation /\ IsFiniteSet(confirms')
  BY <1>2, ThreadsAre, FS_RemoveElement
<1>4. redials' \in SUBSET Redial /\ IsFiniteSet(redials')
  <2>1. PICK answer \in BOOLEAN : Answered(c, answer)
    BY <1>2
  <2> QED
    BY <2>1, AnsweredThreads
<1>5. shared' \in Shared /\ Grounded' /\ IsFiniteSet(shared'.recoverers)
  <2>1. shared \in Shared /\ Grounded /\ IsFiniteSet(shared.recoverers)
    BY BaseIs, ThreadsAre DEF Base
  <2>2. CASE shared' = shared
    BY <1>1, <2>1, <2>2 DEF Grounded, Sound, Present
  <2>3. CASE Proved(shared, shared', c)
    <3>1. shared'.retry # NoRetry => shared'.retry.generation = shared'.generation
      BY <2>1, <2>3 DEF Proved, Grounded
    <3>2. Grounded'
      BY <1>1, <2>3, <3>1, Regrounded DEF Proved, SameGrant
    <3> QED
      BY <2>1, <2>3, <3>2 DEF Proved
  <2>4. CASE Eased(shared, shared') /\ shared'.recoverers = shared.recoverers
    BY <1>1, <2>1, <2>4, EasedIsGrounded
  <2>5. CASE Disproved(shared, shared', c)
    <3>1. /\ shared' \in Shared /\ Present(shared') /\ SoundSession(shared'.session)
          /\ shared'.generation = shared.generation /\ shared'.retry = shared.retry
      BY <2>5 DEF Disproved, Weaker
    <3>2. SameGrant(shared.entry, shared'.entry)
      BY <2>5 DEF Disproved, Kept
    <3>3. Grounded'
      BY <1>1, <2>1, <3>1, <3>2, Regrounded DEF Grounded, SameGrant
    <3>4. shared'.recoverers = shared.recoverers \/ FailureOutcome(shared, shared')
      BY <2>5 DEF Disproved
    <3> QED
      BY <2>1, <3>1, <3>3, <3>4, WorkersAfter
  <2> QED
    BY <1>2, <2>2, <2>3, <2>4, <2>5 DEF Denied
<1> QED
  BY <1>1, <1>3, <1>4, <1>5, BaseKeeps, ThreadsAre

\* A worker that moved on, or is gone.
LEMMA WorkerMoved ==
    ASSUME Base, NEW r \in shared.recoverers, NEW w,
           \/ shared'.recoverers = shared.recoverers \ {r}
           \/ shared'.recoverers = (shared.recoverers \ {r}) \cup {w}
    PROVE  IsFiniteSet(shared'.recoverers)
<1> DEFINE others == shared.recoverers \ {r}
<1>1. IsFiniteSet(others)
  BY ThreadsAre, FS_RemoveElement
<1>2. shared'.recoverers = others \/ shared'.recoverers = others \cup {w}
  OBVIOUS
<1> HIDE DEF others
<1>3. IsFiniteSet(others \cup {w})
  BY <1>1, FS_AddElement
<1> QED
  BY <1>1, <1>2, <1>3

LEMMA RecovererStartKeepsBase ==
    ASSUME Base, NEW r, RecovererStart(r)
    PROVE  Base'
<1> DEFINE g == r.generation
           origin == "failover"
           erring == [generation |-> g, target |-> r.target, step |-> "erring"]
           deciding == Worker(g)
<1>1. UNCHANGED <<closed, stopped, configuration, starts, deaths, redials>>
  BY DEF RecovererStart
<1>2. /\ r \in shared.recoverers
      /\ \/ /\ Eased(shared, shared') /\ confirms' = confirms /\ standby' = standby
            /\ shared'.recoverers = shared.recoverers \ {r}
         \/ /\ GaveUp(shared, shared', origin, r.target, g) /\ r.target \in Candidate
            /\ shared'.recoverers = (shared.recoverers \ {r}) \cup {erring}
         \/ /\ Began(shared, shared', origin, r.target, g) /\ r.target \in Candidate
            /\ shared'.recoverers = (shared.recoverers \ {r}) \cup {deciding}
  BY RecovererStartIs
<1>3. g \in Nat /\ origin \in Origin
  BY <1>2, ThreadsAre DEF Recoverer, Origin
<1> HIDE DEF g, origin, erring, deciding
<1>4. IsFiniteSet(shared'.recoverers)
  BY <1>2, WorkerMoved
<1>5. CASE Eased(shared, shared') /\ confirms' = confirms /\ standby' = standby
  <2>1. shared' \in Shared /\ Grounded' /\ standby' \in BOOLEAN
    BY <1>1, <1>5, EasedIsGrounded DEF Base, TypeOK
  <2> QED
    BY <1>1, <1>4, <1>5, <2>1, BaseKeeps, ThreadsAre
<1>6. CASE /\ \/ GaveUp(shared, shared', origin, r.target, g)
              \/ Began(shared, shared', origin, r.target, g)
           /\ r.target \in Candidate
  <2>1. shared' \in Shared /\ Grounded' /\ standby' \in BOOLEAN
    BY <1>1, <1>6, StartIsGrounded
  <2>2. confirms' \in SUBSET Confirmation /\ IsFiniteSet(confirms')
    BY <1>3, <1>6, <2>1, NewConfirmIs
  <2> QED
    BY <1>1, <1>4, <2>1, <2>2, BaseKeeps, ThreadsAre
<1> QED
  BY <1>2, <1>5, <1>6

LEMMA RecovererKeepsBase ==
    ASSUME Base, NEW r, RecovererDecide(r) \/ RecovererError(r)
    PROVE  Base'
<1>1. /\ UNCHANGED <<closed, stopped, standby, configuration, threads>>
      /\ standby' \in BOOLEAN
  BY DEF RecovererDecide, RecovererError, Base, TypeOK
<1>2. shared \in Shared /\ Grounded
  BY BaseIs DEF Base
<1>3. /\ shared' \in Shared /\ Grounded' /\ IsFiniteSet(shared'.recoverers)
  <2>1. CASE RecovererError(r)
    <3>1. /\ r \in shared.recoverers /\ Eased(shared, shared')
          /\ shared'.recoverers = (shared.recoverers \ {r}) \cup {Worker(r.generation)}
      BY <2>1, RecovererErrorIs
    <3>2. IsFiniteSet(shared'.recoverers)
      BY <3>1, WorkerMoved
    <3> QED
      BY <1>1, <3>1, <3>2, EasedIsGrounded
  <2>2. ASSUME NEW m \in Candidate, r \in shared.recoverers,
               shared' = Gone(r) \/ shared' = At(r, "starting", m)
        PROVE  shared' \in Shared /\ Grounded' /\ IsFiniteSet(shared'.recoverers)
    <3> DEFINE w == [generation |-> r.generation, target |-> m, step |-> "starting"]
    <3>1. /\ shared' \in Shared /\ SameButWorkers(shared, shared')
          /\ \/ shared'.recoverers = shared.recoverers \ {r}
             \/ shared'.recoverers = (shared.recoverers \ {r}) \cup {w}
      <4>1. m \in Target /\ "starting" \in {"deciding", "starting", "erring"}
        BY DEF Target
      <4> QED
        BY <2>2, <4>1, WorkerMovesIs
    <3> HIDE DEF w
    <3>2. IsFiniteSet(shared'.recoverers)
      BY <2>2, <3>1, WorkerMoved
    <3>3. Grounded'
      BY <1>1, <1>2, <3>1 DEF Grounded, Sound, Present, SameButWorkers
    <3> QED
      BY <3>1, <3>2, <3>3
  <2>3. CASE /\ r \in shared.recoverers
             /\ shared' \in Shared
             /\ shared'.generation = shared.generation
             /\ shared'.retry = shared.retry
             /\ shared'.session = shared.session
             /\ shared'.recoverers = shared.recoverers \ {r}
             /\ Unattended(shared.entry, shared'.entry)
    <3>1. IsFiniteSet(shared'.recoverers)
      BY <2>3, WorkerMoved
    <3>2. Grounded'
      BY <1>1, <1>2, <2>3 DEF Grounded, Sound, Present, Unattended, SameGrant
    <3> QED
      BY <2>3, <3>1, <3>2
  <2>4. 0 \in Candidate
    BY PolicyAssumption DEF Candidate
  <2>5. CASE RecovererDecide(r)
    <3>1. r \in shared.recoverers
      BY <2>5, RecovererDecideIs
    <3>2. CASE shared' = Gone(r)
      BY <2>2, <2>4, <3>1, <3>2
    <3>3. CASE \E m \in Candidate : shared' = At(r, "starting", m)
      BY <2>2, <3>1, <3>3
    <3> QED
      BY <2>3, <2>5, <3>1, <3>2, <3>3, RecovererDecideIs
  <2> QED
    BY <2>1, <2>5
<1> QED
  BY <1>1, <1>3, BaseKeeps, ThreadsAre DEF threads

LEMMA TickKeepsBase ==
    ASSUME Base, Tick
    PROVE  Base'
<1>1. /\ UNCHANGED <<closed, stopped, standby, configuration, threads>>
      /\ standby' \in BOOLEAN
  BY DEF Tick, Base, TypeOK
<1>2. shared' \in Shared /\ Grounded' /\ shared'.recoverers = shared.recoverers
  <2>1. Grounded
    BY DEF Base
  <2> QED
    BY <1>1, <2>1, TickIs DEF Grounded, Sound, Present, Aged, SameGrant
<1> QED
  BY <1>1, <1>2, BaseKeeps, ThreadsAre DEF threads

\* What the daemon may do next, by the handler that does it.
LEMMA NextIs ==
    ASSUME Next
    PROVE  \/ EasyStep
           \/ Up
           \/ \E target \in Chosen : Connect(target)
           \/ \E value \in BOOLEAN : SetPorts(value)
           \/ Sweep \/ WatchRecover \/ Tick
           \/ \E c \in starts : ExplicitStart(c)
           \/ \E c \in confirms : Confirm(c)
           \/ \E d \in deaths : BeginReconnect(d) \/ ClaimReconnect(d)
           \/ \E r \in redials : RedialStart(r) \/ RedialComplete(r) \/ RedialAgain(r)
           \/ \E r \in shared.recoverers :
                 RecovererDecide(r) \/ RecovererStart(r) \/ RecovererError(r)
<1>1. CASE User
  BY <1>1 DEF User, EasyStep
<1>2. CASE \E g \in 0 .. MaxGenerations : Threads(g)
  BY <1>2 DEF Threads, Starting, Confirming, Dying, Redialing, Failing
<1>3. CASE CoreExits \/ ReconcileStandby \/ BeginTerminal \/ Shutdown \/ Ended
  BY <1>3 DEF EasyStep
<1> QED
  BY <1>1, <1>2, <1>3 DEF Next

LEMMA BaseInit ==
    ASSUME Init
    PROVE  Base
<1>1. shared \in Shared
  BY DEF Init, Shared, NoOverride, NoRetry, NoEntry, NoSession, Target, NoTarget
<1>2. TypeOK
  BY <1>1 DEF Init, TypeOK
<1>3. FiniteThreads
  BY FS_EmptySet DEF Init, FiniteThreads
<1>4. Grounded
  BY DEF Init, Grounded, Sound, Present
<1> QED
  BY <1>2, <1>3, <1>4 DEF Base

LEMMA BaseNext ==
    ASSUME Base, [Next]_vars
    PROVE  Base'
<1>1. CASE UNCHANGED vars
  BY <1>1 DEF Base, TypeOK, FiniteThreads, Grounded, Sound, Present, vars,
              configuration, threads
<1>2. CASE Next
  BY <1>2, NextIs, EasyStepKeepsBase, UpKeepsBase, ConnectKeepsBase, SetPortsKeepsBase,
     SupervisionKeepsBase, DyingKeepsBase, ExplicitStartKeepsBase, RedialStartKeepsBase,
     RedialKeepsBase, ConfirmKeepsBase, RecovererStartKeepsBase, RecovererKeepsBase,
     TickKeepsBase
<1> QED
  BY <1>1, <1>2

\* Every variable of the connection lifecycle keeps its type, whatever the
\* number of members, threads and generations: the critical sections of the
\* engine lock never leave a half-built entry, session or schedule behind.
THEOREM TypeCorrect == Spec => []TypeOK
<1>1. Init => Base
  BY BaseInit
<1>2. Base /\ [Next]_vars => Base'
  BY BaseNext
<1>3. Base => TypeOK
  BY DEF Base
<1> QED
  BY <1>1, <1>2, <1>3, PTL DEF Spec

-----------------------------------------------------------------------------
(* The steps that claim no generation and no retry.                        *)

OrdinaryStep ==
    \/ EasyStep \/ Sweep \/ WatchRecover \/ Tick
    \/ \E c \in starts : ExplicitStart(c)
    \/ \E c \in confirms : Confirm(c)
    \/ \E d \in deaths : BeginReconnect(d)
    \/ \E r \in redials : RedialStart(r) \/ RedialComplete(r) \/ RedialAgain(r)
    \/ \E r \in shared.recoverers :
          RecovererDecide(r) \/ RecovererStart(r) \/ RecovererError(r)

LEMMA NextCases ==
    ASSUME Next
    PROVE  \/ OrdinaryStep
           \/ Up
           \/ \E target \in Chosen : Connect(target)
           \/ \E value \in BOOLEAN : SetPorts(value)
           \/ \E d \in deaths : ClaimReconnect(d)
BY NextIs DEF OrdinaryStep

\* The generation goes on under the same owner, and no retry begins.
Continues(s, t) ==
    /\ t.generation = s.generation
    /\ SameGrant(s.entry, t.entry)
    /\ t.retry = NoRetry \/ t.retry.generation = s.retry.generation
    /\ t.override = s.override \/ t.override.kind # "reconnecting"

LEMMA ContinuesIs ==
    ASSUME NEW s, NEW t
    PROVE  /\ Eased(s, t) => Withdrawn(s, t) \/ Continues(s, t)
           /\ Noticed(s, t) => Continues(s, t)
           /\ Failure(s, t) => Continues(s, t)
           /\ SameButWorkers(s, t) => Continues(s, t)
           /\ \A origin, target, g :
                 GaveUp(s, t, origin, target, g) \/ Began(s, t, origin, target, g)
                    => Continues(s, t)
           /\ \A c : Proved(s, t, c) => Continues(s, t)
           /\ \A c : Denied(s, t, c) => Withdrawn(s, t) \/ Continues(s, t)
<1>0. SameGrant(s.entry, s.entry)
  BY DEF SameGrant
<1>1. Eased(s, t) => Withdrawn(s, t) \/ Continues(s, t)
  BY DEF Eased, SameTurn, Kept, Continues
<1>2. Noticed(s, t) => Continues(s, t)
  BY DEF Noticed, Continues
<1>3. Failure(s, t) => Continues(s, t)
  BY DEF Failure, Quiet, Continues
<1>4. SameButWorkers(s, t) => Continues(s, t)
  BY <1>0 DEF SameButWorkers, Continues
<1>5. ASSUME NEW origin, NEW target, NEW g,
             GaveUp(s, t, origin, target, g) \/ Began(s, t, origin, target, g)
      PROVE  Continues(s, t)
  BY <1>5 DEF GaveUp, Began, GoesOn, Restarted, Continues
<1>6. ASSUME NEW c, Proved(s, t, c) PROVE Continues(s, t)
  BY <1>6 DEF Proved, Continues, NoOverride
<1>7. ASSUME NEW c, Denied(s, t, c) PROVE Withdrawn(s, t) \/ Continues(s, t)
  <2>1. CASE Disproved(s, t, c)
    BY <2>1 DEF Disproved, Kept, Continues
  <2>2. CASE t = s
    BY <1>0, <2>2 DEF Continues
  <2> QED
    BY <1>1, <1>7, <2>1, <2>2 DEF Denied
<1> QED
  BY <1>1, <1>2, <1>3, <1>4, <1>5, <1>6, <1>7

LEMMA OrdinaryContinues ==
    ASSUME Base, OrdinaryStep
    PROVE  Withdrawn(shared, shared') \/ Continues(shared, shared')
<1>0. shared \in Shared /\ SameGrant(shared.entry, shared.entry)
  BY BaseIs DEF SameGrant
<1>1. CASE EasyStep \/ Sweep \/ WatchRecover
  BY <1>1, EasyStepIs, SweepIs, WatchRecoverIs, ContinuesIs
<1>2. CASE Tick
  BY <1>2, TickIs DEF Continues, Aged
<1>3. ASSUME NEW c \in starts, ExplicitStart(c)
      PROVE  Withdrawn(shared, shared') \/ Continues(shared, shared')
  BY <1>3, ExplicitStartIs, ContinuesIs
<1>4. ASSUME NEW c \in confirms, Confirm(c)
      PROVE  Withdrawn(shared, shared') \/ Continues(shared, shared')
  <2>1. CASE shared' = shared
    BY <1>0, <2>1 DEF Continues
  <2> QED
    BY <1>4, <2>1, ConfirmIs, ContinuesIs
<1>5. ASSUME NEW d \in deaths, BeginReconnect(d)
      PROVE  Continues(shared, shared')
  <2>1. CASE shared' = shared
    BY <1>0, <2>1 DEF Continues
  <2> QED
    BY <1>5, <2>1, BeginReconnectIs, ContinuesIs
<1>6. ASSUME NEW r \in redials, RedialStart(r) \/ RedialAgain(r)
      PROVE  Withdrawn(shared, shared') \/ Continues(shared, shared')
  BY <1>6, RedialStartIs, RedialAgainIs, ContinuesIs
<1>7. ASSUME NEW r \in redials, RedialComplete(r)
      PROVE  Continues(shared, shared')
  <2>1. CASE shared' = shared
    BY <1>0, <2>1 DEF Continues
  <2> QED
    BY <1>0, <1>7, <2>1, RedialCompleteIs DEF Continues, NoOverride
<1>8. ASSUME NEW r \in shared.recoverers, RecovererDecide(r)
      PROVE  Continues(shared, shared')
  <2>1. ASSUME NEW m \in Candidate, shared' = Gone(r) \/ shared' = At(r, "starting", m)
        PROVE  Continues(shared, shared')
    <3>1. m \in Target /\ "starting" \in {"deciding", "starting", "erring"}
      BY DEF Target
    <3>2. SameButWorkers(shared, shared')
      BY <2>1, <3>1, WorkerMovesIs
    <3> QED
      BY <3>2, ContinuesIs
  <2>2. 0 \in Candidate
    BY PolicyAssumption DEF Candidate
  <2>3. CASE /\ shared'.generation = shared.generation
             /\ shared'.override = shared.override
             /\ shared'.retry = shared.retry
             /\ Unattended(shared.entry, shared'.entry)
    BY <2>3 DEF Continues, Unattended
  <2> QED
    BY <1>8, <2>1, <2>2, <2>3, RecovererDecideIs
<1>9. ASSUME NEW r \in shared.recoverers, RecovererStart(r) \/ RecovererError(r)
      PROVE  Withdrawn(shared, shared') \/ Continues(shared, shared')
  BY <1>9, RecovererStartIs, RecovererErrorIs, ContinuesIs
<1> QED
  BY <1>1, <1>2, <1>3, <1>4, <1>5, <1>6, <1>7, <1>8, <1>9 DEF OrdinaryStep

\* What becomes of the threads meanwhile: no request and no loop begins, and a
\* death is only passed on to a generation that failover does not own.
LEMMA OrdinaryThreads ==
    ASSUME Base, OrdinaryStep
    PROVE  /\ starts' \subseteq starts
           /\ \A q \in redials' :
                 \E r \in redials : r.generation = q.generation /\ r.target = q.target
           /\ \A d \in deaths' :
                 \/ d \in deaths \/ d.step = "begin"
                 \/ /\ ~Owns(shared, d.subject.generation)
                    /\ shared'.entry # NoEntry => shared.entry # NoEntry
<1>1. CASE EasyStep
  BY <1>1, EasyStepIs DEF threads
<1>2. CASE Sweep \/ WatchRecover
  <2>1. starts' = starts /\ redials' = redials
    BY <1>2 DEF Sweep, WatchRecover
  <2>2. deaths' = deaths \/ deaths' = deaths \cup {NewDeath}
    BY <1>2, SweepIs, WatchRecoverIs
  <2>3. NewDeath.step = "begin"
    BY DEF NewDeath
  <2> QED
    BY <2>1, <2>2, <2>3
<1>3. CASE Tick
  BY <1>3 DEF Tick, threads
<1>4. ASSUME NEW c \in starts, ExplicitStart(c)
      PROVE  starts' \subseteq starts /\ deaths' = deaths /\ redials' = redials
  BY <1>4 DEF ExplicitStart
<1>5. ASSUME NEW c \in confirms, Confirm(c)
      PROVE  /\ starts' \subseteq starts /\ deaths' = deaths
             /\ \A q \in redials' :
                   \E r \in redials : r.generation = q.generation /\ r.target = q.target
  <2>1. starts' = starts /\ deaths' = deaths
    BY <1>5 DEF Confirm
  <2>2. PICK answer \in BOOLEAN : Answered(c, answer)
    BY <1>5, ConfirmIs
  <2>3. PICK f \in [redials -> Redial] :
              /\ redials' = {f[r] : r \in redials}
              /\ \A r \in redials : f[r].generation = r.generation /\ f[r].target = r.target
    BY <2>2, AnsweredIs
  <2> QED
    BY <2>1, <2>3
<1>6. ASSUME NEW d \in deaths, BeginReconnect(d)
      PROVE  /\ starts' = starts /\ redials' = redials
             /\ \A e \in deaths' :
                   \/ e \in deaths
                   \/ /\ ~Owns(shared, e.subject.generation)
                      /\ shared'.entry # NoEntry => shared.entry # NoEntry
  <2>1. starts' = starts /\ redials' = redials
    BY <1>6 DEF BeginReconnect
  <2>2. Continues(shared, shared')
    <3>1. SameGrant(shared.entry, shared.entry)
      BY DEF SameGrant
    <3>2. CASE shared' = shared
      BY <3>1, <3>2 DEF Continues
    <3> QED
      BY <1>6, <3>2, BeginReconnectIs, ContinuesIs
  <2>3. [d EXCEPT !.step = "claim"].subject = d.subject
    BY ThreadsAre DEF Death
  <2> QED
    BY <1>6, <2>1, <2>2, <2>3, BeginReconnectIs DEF Continues, SameGrant
<1>7. ASSUME NEW r \in redials, RedialStart(r) \/ RedialComplete(r) \/ RedialAgain(r)
      PROVE  /\ starts' = starts /\ deaths' = deaths
             /\ \A q \in redials' :
                   \E p \in redials : p.generation = q.generation /\ p.target = q.target
  <2>1. starts' = starts /\ deaths' = deaths
    BY <1>7 DEF RedialStart, RedialComplete, RedialAgain
  <2> DEFINE moved(step, subject) == [r EXCEPT !.step = step, !.subject = subject]
  <2>2. \/ redials' = redials \ {r}
        \/ redials' = (redials \ {r}) \cup {[r EXCEPT !.step = "failed"]}
        \/ \E step, subject : redials' = (redials \ {r}) \cup {moved(step, subject)}
    <3>1. CASE RedialComplete(r)
      BY <3>1, RedialCompleteIs
    <3>2. CASE RedialAgain(r)
      <4>1. \/ redials' = redials \ {r}
            \/ redials' = (redials \ {r}) \cup {moved("waiting", NoSubject)}
        BY <3>2, RedialAgainIs
      <4> HIDE DEF moved
      <4> QED
        BY <4>1
    <3>3. CASE RedialStart(r)
      <4>1. \/ redials' = redials \ {r}
            \/ redials' = (redials \ {r}) \cup {[r EXCEPT !.step = "failed"]}
            \/ redials' = (redials \ {r}) \cup
                   {moved("awaiting", Captured(shared', r.generation))}
        BY <3>3, RedialStartIs
      <4> HIDE DEF moved
      <4> QED
        BY <4>1
    <3> QED
      BY <1>7, <3>1, <3>2, <3>3
  <2>3. r \in Redial
    BY ThreadsAre
  <2>4. \A step, subject : /\ moved(step, subject).generation = r.generation
                           /\ moved(step, subject).target = r.target
    BY <2>3 DEF Redial
  <2>5. /\ [r EXCEPT !.step = "failed"].generation = r.generation
        /\ [r EXCEPT !.step = "failed"].target = r.target
    BY <2>3 DEF Redial
  <2> HIDE DEF moved
  <2> QED
    BY <2>1, <2>2, <2>4, <2>5
<1>8. ASSUME NEW r \in shared.recoverers,
             RecovererDecide(r) \/ RecovererStart(r) \/ RecovererError(r)
      PROVE  starts' = starts /\ deaths' = deaths /\ redials' = redials
  BY <1>8 DEF RecovererDecide, RecovererStart, RecovererError, threads
<1> QED
  BY <1>1, <1>2, <1>3, <1>4, <1>5, <1>6, <1>7, <1>8 DEF OrdinaryStep

-----------------------------------------------------------------------------
(* A generation failover owns has no legacy retry.                         *)

\* No death of a generation failover owns is on its way to the reconnect loop.
NoOwnedClaim ==
    shared.entry # NoEntry =>
        \A d \in deaths : d.step = "claim" => d.subject.generation # shared.generation

OwnedInv == OwnedSuppressesLegacy /\ NoOwnedClaim

\* A generation nobody holds is nobody's.
LEMMA FreshIsNobodys ==
    ASSUME Base
    PROVE  /\ FreshGeneration # 0 /\ FreshGeneration # shared.generation
           /\ FreshGeneration # shared.entry.generation
           /\ FreshGeneration # shared.retry.generation
           /\ \A c \in starts : c.generation # FreshGeneration
           /\ \A r \in redials : r.generation # FreshGeneration
           /\ \A r \in shared.recoverers : r.generation # FreshGeneration
           /\ \A c \in confirms : c.subject.generation # FreshGeneration
           /\ \A d \in deaths : d.subject.generation # FreshGeneration
<1>1. FreshGeneration \in Nat \ {0} /\ FreshGeneration \notin HeldGenerations
  BY BaseIs
<1> QED
  BY <1>1 DEF HeldGenerations

LEMMA OwnedInit ==
    ASSUME Init
    PROVE  OwnedInv
BY DEF Init, OwnedInv, OwnedSuppressesLegacy, NoOwnedClaim

LEMMA OwnedNext ==
    ASSUME Base, Base', OwnedInv, [Next]_vars
    PROVE  OwnedInv'
<1>0. shared \in Shared /\ shared' \in Shared
  BY BaseIs DEF Base, TypeOK
<1>1. CASE UNCHANGED vars
  BY <1>1 DEF OwnedInv, OwnedSuppressesLegacy, NoOwnedClaim, vars, threads
<1>2. CASE OrdinaryStep
  <2> SUFFICES ASSUME shared'.entry # NoEntry
               PROVE  /\ shared'.entry.generation = shared'.generation
                      /\ shared'.retry = NoRetry
                      /\ shared'.override.kind # "reconnecting"
                      /\ ~ \E r \in redials' : r.generation = shared'.generation
                      /\ \A d \in deaths' : d.step = "claim" =>
                            d.subject.generation # shared'.generation
    BY DEF OwnedInv, OwnedSuppressesLegacy, NoOwnedClaim
  <2>1. Continues(shared, shared')
    BY <1>2, OrdinaryContinues DEF Withdrawn
  <2>2. /\ shared.entry # NoEntry
        /\ shared'.generation = shared.generation
        /\ shared'.entry.generation = shared.entry.generation
    BY <2>1 DEF Continues, SameGrant
  <2>3. /\ shared.entry.generation = shared.generation
        /\ shared.retry = NoRetry
        /\ shared.override.kind # "reconnecting"
        /\ ~ \E r \in redials : r.generation = shared.generation
        /\ \A d \in deaths : d.step = "claim" => d.subject.generation # shared.generation
    BY <2>2 DEF OwnedInv, OwnedSuppressesLegacy, NoOwnedClaim
  <2>4. shared'.retry = NoRetry
    BY <1>0, <2>1, <2>3, EntryExists DEF Continues
  <2>5. shared'.override.kind # "reconnecting"
    BY <2>1, <2>3 DEF Continues
  <2>6. ~ \E r \in redials' : r.generation = shared'.generation
    BY <1>2, <2>2, <2>3, OrdinaryThreads
  <2>7. \A d \in deaths' : d.step = "claim" => d.subject.generation # shared'.generation
    BY <1>2, <2>2, <2>3, OrdinaryThreads DEF Owns
  <2> QED
    BY <2>2, <2>3, <2>4, <2>5, <2>6, <2>7
<1>3. CASE Up
  <2>1. /\ Claimed(shared') /\ redials' = redials /\ deaths' = deaths
        /\ shared'.entry = NoEntry \/ NewEntry(shared'.entry)
    BY <1>3, UpIs DEF Up
  <2> QED
    BY <2>1, FreshIsNobodys DEF OwnedInv, OwnedSuppressesLegacy, NoOwnedClaim, Claimed,
       NewEntry, NoOverride
<1>4. ASSUME NEW target \in Chosen, Connect(target)
      PROVE  OwnedInv'
  BY <1>4, ConnectIs DEF OwnedInv, OwnedSuppressesLegacy, NoOwnedClaim
<1>5. ASSUME NEW value \in BOOLEAN, SetPorts(value)
      PROVE  OwnedInv'
  BY <1>5, SetPortsIs DEF OwnedInv, OwnedSuppressesLegacy, NoOwnedClaim
<1>6. ASSUME NEW d \in deaths, ClaimReconnect(d)
      PROVE  OwnedInv'
  <2>1. CASE shared' = shared /\ redials' = redials
    BY <1>6, <2>1, ClaimReconnectIs DEF OwnedInv, OwnedSuppressesLegacy, NoOwnedClaim
  <2>2. CASE MayClaimReconnect(shared, d) /\ shared'.entry = shared.entry
    <3>1. d.subject.generation = shared.generation /\ d.step = "claim"
      BY <1>6, <2>2, ClaimReconnectIs DEF MayClaimReconnect, Current, IsCurrent
    <3>2. shared.entry = NoEntry
      BY <1>6, <3>1 DEF OwnedInv, NoOwnedClaim
    <3> QED
      BY <2>2, <3>2 DEF OwnedInv, OwnedSuppressesLegacy, NoOwnedClaim
  <2> QED
    BY <1>6, <2>1, <2>2, ClaimReconnectIs
<1> QED
  BY <1>1, <1>2, <1>3, <1>4, <1>5, <1>6, NextCases

\* A generation failover owns never has a legacy retry, a reconnect loop or the
\* reconnecting status: a death of an owned core goes to failover alone, since
\* no captured death of that generation is ever passed to claim_reconnect.
THEOREM FailoverExcludesReconnect == Spec => []OwnedSuppressesLegacy
<1>1. Init => Base /\ OwnedInv
  BY BaseInit, OwnedInit
<1>2. Base /\ OwnedInv /\ [Next]_vars => (Base /\ OwnedInv)'
  BY BaseNext, OwnedNext
<1>3. Base /\ OwnedInv => OwnedSuppressesLegacy
  BY DEF OwnedInv
<1> QED
  BY <1>1, <1>2, <1>3, PTL DEF Spec

-----------------------------------------------------------------------------
(* No grant outlives what it was given for.                                *)

\* The steps that may change what a grant rests on.
LEMMA EditsAre ==
    ASSUME Base, ~ExternalEdits, OrdinaryStep
    PROVE  /\ saved' = saved \/ (Armed(shared') => shared'.entry.grant = saved')
           /\ catalog' = catalog \/ (Armed(shared') => catalog' = Candidate)
<1>0. shared \in Shared /\ Sound(shared)
  BY BaseIs
<1>1. ASSUME shared' = Disarm(shared) PROVE ~Armed(shared')
  <2>1. shared'.entry = Revoked(shared.entry)
    BY <1>0, <1>1, DisarmIsQuiet
  <2> QED
    BY <1>0, <2>1, RevokedIs DEF Armed
<1>2. ASSUME NEW profile, SaveProfile(profile)
      PROVE  /\ catalog' = catalog
             /\ Armed(shared') => shared'.entry.grant = saved'
  <2>1. CASE saved' = profile /\ shared' = ReconcileProfile(shared, profile)
    BY <1>0, <1>2, <2>1, ReconciledIs DEF SaveProfile
  <2>2. CASE shared' = Disarm(shared)
    BY <1>1, <1>2, <2>2 DEF SaveProfile
  <2> QED
    BY <1>2, <2>1, <2>2 DEF SaveProfile
<1>3. CASE RemoveProfile
  BY <1>1, <1>3 DEF RemoveProfile
<1>4. ASSUME NEW servers \in Catalogs, ChangeCatalog(servers)
      PROVE  saved' = saved /\ (Armed(shared') => catalog' = Candidate)
  <2>1. /\ catalog' = servers /\ servers # catalog /\ saved' = saved
        /\ shared' = TornDown(shared, servers)
    BY <1>4 DEF ChangeCatalog
  <2> QED
    BY <1>0, <2>1, TornDownIs
<1>5. CASE \/ Down \/ DeleteInterface \/ CoreExits \/ ReconcileStandby \/ BeginTerminal
           \/ Shutdown \/ Ended \/ Sweep \/ WatchRecover \/ Tick
  BY <1>5 DEF Down, DeleteInterface, CoreExits, ReconcileStandby, BeginTerminal, Shutdown,
     Ended, Sweep, WatchRecover, Tick, configuration, vars
<1>6. ASSUME NEW value \in BOOLEAN, SetSettings(value)
      PROVE  saved' = saved /\ catalog' = catalog
  BY <1>6 DEF SetSettings
<1>7. ASSUME NEW profile, EditFile(profile) PROVE FALSE
  BY <1>7 DEF EditFile
<1>8. CASE \/ \E c \in starts : ExplicitStart(c)
           \/ \E c \in confirms : Confirm(c)
           \/ \E d \in deaths : BeginReconnect(d)
           \/ \E r \in redials : RedialStart(r) \/ RedialComplete(r) \/ RedialAgain(r)
           \/ \E r \in shared.recoverers :
                 RecovererDecide(r) \/ RecovererStart(r) \/ RecovererError(r)
  BY <1>8 DEF ExplicitStart, Confirm, BeginReconnect, RedialStart, RedialComplete,
     RedialAgain, RecovererDecide, RecovererStart, RecovererError, configuration
<1>9. CASE EasyStep
  <2>1. \A profile : SaveProfile(profile) =>
              /\ catalog' = catalog
              /\ Armed(shared') => shared'.entry.grant = saved'
    BY <1>2
  <2> QED
    BY <1>3, <1>4, <1>5, <1>6, <1>7, <1>9, <2>1 DEF EasyStep
<1> QED
  BY <1>5, <1>8, <1>9 DEF OrdinaryStep

LEMMA GrantNext ==
    ASSUME Base, ~ExternalEdits, ArmedGrantStands, [Next]_vars
    PROVE  ArmedGrantStands'
<1>1. CASE UNCHANGED vars
  BY <1>1 DEF ArmedGrantStands, Armed, GrantStands, vars, configuration
<1>2. CASE OrdinaryStep
  <2> SUFFICES ASSUME Armed(shared')
               PROVE  saved' = shared'.entry.grant /\ catalog' = Candidate
    BY DEF ArmedGrantStands, Armed, GrantStands
  <2>1. Continues(shared, shared')
    BY <1>2, OrdinaryContinues DEF Withdrawn, Armed
  <2>2. Armed(shared) /\ shared'.entry.grant = shared.entry.grant
    BY <2>1 DEF Continues, SameGrant, Armed
  <2>3. saved = shared.entry.grant /\ catalog = Candidate
    BY <2>2 DEF ArmedGrantStands, GrantStands
  <2> QED
    BY <1>2, <2>2, <2>3, EditsAre
<1>3. CASE Up
  <2>1. /\ saved' = saved /\ catalog' = catalog
        /\ shared'.entry = NoEntry \/ NewEntry(shared'.entry)
    BY <1>3, UpIs DEF Up, configuration
  <2> QED
    BY <2>1 DEF ArmedGrantStands, Armed, GrantStands, NewEntry
<1>4. ASSUME \/ \E target \in Chosen : Connect(target)
             \/ \E value \in BOOLEAN : SetPorts(value)
      PROVE  ArmedGrantStands'
  BY <1>4, ConnectIs, SetPortsIs DEF ArmedGrantStands, Armed
<1>5. ASSUME NEW d \in deaths, ClaimReconnect(d)
      PROVE  ArmedGrantStands'
  <2>1. saved' = saved /\ catalog' = catalog
    BY <1>5 DEF ClaimReconnect, configuration
  <2>2. shared'.entry = shared.entry
    BY <1>5, ClaimReconnectIs
  <2> QED
    BY <2>1, <2>2 DEF ArmedGrantStands, Armed, GrantStands
<1> QED
  BY <1>1, <1>2, <1>3, <1>4, <1>5, NextCases

\* As long as the profile file is only edited through the daemon, no grant is
\* armed that the file or the catalog no longer supports: every edit and every
\* update revokes what it contradicts in the same critical section.
THEOREM GrantsStand ==
    ASSUME ~ExternalEdits
    PROVE  Spec => []ArmedGrantStands
<1>1. Init => Base /\ ArmedGrantStands
  <2>1. Init => ArmedGrantStands
    BY DEF Init, ArmedGrantStands, Armed
  <2> QED
    BY <2>1, BaseInit
<1>2. Base /\ ArmedGrantStands /\ [Next]_vars => (Base /\ ArmedGrantStands)'
  BY BaseNext, GrantNext
<1> QED
  BY <1>1, <1>2, PTL DEF Spec

-----------------------------------------------------------------------------
(* What becomes of the session.                                            *)

\* The step of a confirmation that proves the core of `shared`.
ProvedBy(c) ==
    /\ c \in confirms /\ confirms' = confirms \ {c}
    /\ Current(shared, c.subject) /\ Proved(shared, shared', c)

\* A core was launched and waits for its confirmation.
Unproved ==
    /\ ~standby' /\ KeepsHold(shared.session, shared'.session)
    /\ \E target \in Candidate : NewBorn(shared'.session, target)

\* A new generation starts with what runs, or with nothing that runs yet.
Renewed ==
    /\ shared'.generation = FreshGeneration /\ FreshGeneration # shared.generation
    /\ Running(shared') =>
          Running(shared) /\ shared.session.run = shared'.session.run

LEMMA SessionStep ==
    ASSUME Base, Next
    PROVE  \/ shared'.session = shared.session
           \/ Weaker(shared, shared')
           \/ \E c \in confirms : ProvedBy(c)
           \/ Unproved
           \/ Renewed
<1>1. CASE EasyStep \/ Sweep \/ WatchRecover
  BY <1>1, EasyStepIs, SweepIs, WatchRecoverIs DEF Eased, Noticed
<1>2. CASE Tick
  BY <1>2, TickIs
<1>3. CASE Up
  <2>1. Claimed(shared') /\ Prepared(shared'.session)
    BY <1>3, UpIs
  <2> QED
    BY <2>1, FreshIsNobodys DEF Renewed, Claimed, Prepared, Running
<1>4. ASSUME NEW target \in Chosen, Connect(target)
      PROVE  Renewed
  <2>1. Claimed(shared')
    BY <1>4, ConnectIs
  <2>2. IF ~Present(shared) THEN Prepared(shared'.session)
        ELSE /\ shared'.session.run = shared.session.run
             /\ shared'.session.status = shared.session.status
             /\ shared'.session.pending = shared.session.pending
    BY <1>4, ConnectIs
  <2> QED
    BY <2>1, <2>2, FreshIsNobodys DEF Renewed, Claimed, Prepared, Running
<1>5. ASSUME NEW value \in BOOLEAN, SetPorts(value)
      PROVE  Renewed
  <2>1. /\ Present(shared) /\ shared'.generation = FreshGeneration
        /\ \/ shared'.session = shared.session
           \/ StillBorn(shared'.session)
           \/ NewBorn(shared'.session, shared.session.target)
    BY <1>5, SetPortsIs
  <2> QED
    BY <2>1, FreshIsNobodys DEF Renewed, StillBorn, NewBorn, Running, Present
<1>6. ASSUME NEW origin, NEW target \in Candidate, NEW g,
             \/ GaveUp(shared, shared', origin, target, g)
             \/ Began(shared, shared', origin, target, g)
      PROVE  Weaker(shared, shared') \/ Unproved
  BY <1>6 DEF GaveUp, Began, Unproved
<1>7. ASSUME NEW c \in starts, ExplicitStart(c)
      PROVE  Weaker(shared, shared') \/ Unproved
  <2>1. c.target \in Candidate
    BY ThreadsAre DEF Start
  <2> QED
    BY <1>6, <1>7, <2>1, ExplicitStartIs DEF Eased
<1>8. ASSUME NEW c \in confirms, Confirm(c)
      PROVE  \/ shared'.session = shared.session
             \/ Weaker(shared, shared')
             \/ ProvedBy(c)
  BY <1>8, ConfirmIs DEF Denied, Disproved, Eased, ProvedBy
<1>9. ASSUME NEW d \in deaths, BeginReconnect(d) \/ ClaimReconnect(d)
      PROVE  shared'.session = shared.session
  BY <1>9, BeginReconnectIs, ClaimReconnectIs DEF Failure
<1>10. ASSUME NEW r \in redials, RedialStart(r)
       PROVE  Weaker(shared, shared') \/ Unproved
  <2>1. r.target \in Candidate
    BY ThreadsAre DEF Redial
  <2> QED
    BY <1>6, <1>10, <2>1, RedialStartIs DEF Eased
<1>11. ASSUME NEW r \in redials, RedialComplete(r) \/ RedialAgain(r)
       PROVE  shared'.session = shared.session \/ Weaker(shared, shared')
  BY <1>11, RedialCompleteIs, RedialAgainIs DEF Eased
<1>12. ASSUME NEW r \in shared.recoverers, RecovererStart(r)
       PROVE  Weaker(shared, shared') \/ Unproved
  BY <1>6, <1>12, RecovererStartIs DEF Eased
<1>13. ASSUME NEW r \in shared.recoverers, RecovererDecide(r) \/ RecovererError(r)
       PROVE  shared'.session = shared.session
  <2>1. ASSUME NEW m \in Candidate, shared' = Gone(r) \/ shared' = At(r, "starting", m)
        PROVE  shared'.session = shared.session
    <3>1. m \in Target /\ "starting" \in {"deciding", "starting", "erring"}
      BY DEF Target
    <3> QED
      BY <2>1, <3>1, WorkerMovesIs DEF SameButWorkers
  <2>2. 0 \in Candidate
    BY PolicyAssumption DEF Candidate
  <2> QED
    BY <1>13, <2>1, <2>2, RecovererDecideIs, RecovererErrorIs
<1> QED
  BY <1>1, <1>2, <1>3, <1>4, <1>5, <1>7, <1>8, <1>9, <1>10, <1>11, <1>12, <1>13, NextIs

LEMMA RunningStep ==
    ASSUME Base, [Next]_vars, Running(shared'),
           ~(Running(shared) /\ shared.session.run = shared'.session.run)
    PROVE  \E c \in confirms \ confirms' :
              /\ c.subject = Captured(shared', shared'.generation)
              /\ c.target = shared'.session.target
<1>1. CASE UNCHANGED vars \/ shared'.session = shared.session
  BY <1>1 DEF vars, Running, Present
<1>2. CASE Weaker(shared, shared')
  BY <1>2 DEF Weaker, Running, Calmer, StillBorn
<1>3. ASSUME NEW c \in confirms, ProvedBy(c)
      PROVE  /\ c \in confirms \ confirms'
             /\ c.subject = Captured(shared', shared'.generation)
             /\ c.target = shared'.session.target
  <2>1. c.subject \in Subject
    BY ThreadsAre DEF Confirmation
  <2>2. /\ c.subject.generation = shared'.generation
        /\ c.subject.run = shared'.session.run /\ c.subject.spawned = shared'.session.spawned
    BY <1>3 DEF ProvedBy, Current, IsCurrent, Proved
  <2>3. c.subject = Captured(shared', shared'.generation)
    BY <2>1, <2>2 DEF Captured, Subject
  <2> QED
    BY <1>3, <2>3 DEF ProvedBy, Proved
<1>4. CASE Unproved
  BY <1>4 DEF Unproved, NewBorn, Running
<1>5. CASE Renewed
  BY <1>5 DEF Renewed
<1> QED
  BY <1>1, <1>2, <1>3, <1>4, <1>5, SessionStep

\* A session is reported as running only once the confirmation of that very run
\* has been applied, and only for the generation that is current then: no late
\* answer about an earlier core vouches for the one that replaced it.
THEOREM RunningOnlyIfProved == Spec => RunningIsProved
<1>1. Init => Base
  BY BaseInit
<1>2. Base /\ [Next]_vars => Base'
  BY BaseNext
<1>3. Base /\ [Next]_vars =>
         [Running(shared') /\ ~(Running(shared) /\ shared.session.run = shared'.session.run)
             => \E c \in confirms \ confirms' :
                   /\ c.subject = Captured(shared', shared'.generation)
                   /\ c.target = shared'.session.target]_vars
  BY RunningStep
<1> QED
  BY <1>1, <1>2, <1>3, PTL DEF Spec, RunningIsProved

LEMMA HoldStep ==
    ASSUME Base, [Next]_vars, Held(shared), shared'.generation = shared.generation,
           shared.generation # 0 \/ catalog' = catalog
    PROVE  \/ Held(shared') \/ Running(shared') \/ ~Present(shared')
           \/ shared'.session.iface = "none" \/ shared'.session = HalfDeleted(shared.session)
<1>1. CASE UNCHANGED vars \/ shared'.session = shared.session
  BY <1>1 DEF vars, Held, Present
<1>2. CASE Weaker(shared, shared')
  BY <1>2 DEF Weaker, Held, KeepsHold
<1>3. ASSUME NEW c \in confirms, ProvedBy(c)
      PROVE  Running(shared')
  BY <1>3 DEF ProvedBy, Proved, Running
<1>4. CASE Unproved
  BY <1>4 DEF Unproved, KeepsHold, Held
<1>5. CASE Renewed
  BY <1>5 DEF Renewed
<1> QED
  BY <1>1, <1>2, <1>3, <1>4, <1>5, SessionStep

\* Routes that a session holds stay until a core is proved or the device is
\* explicitly deleted, through every failed start, lost helper, late answer and
\* cancelled retry of its generation.
THEOREM HoldsOutliveRecovery == Spec => HoldOutlivesRecovery
<1>1. Init => Base
  BY BaseInit
<1>2. Base /\ [Next]_vars => Base'
  BY BaseNext
<1>3. Base /\ [Next]_vars =>
         [(/\ Held(shared)
           /\ shared'.generation = shared.generation
           /\ shared.generation # 0 \/ catalog' = catalog)
          => \/ Held(shared') \/ Running(shared') \/ ~Present(shared')
             \/ shared'.session.iface = "none"
             \/ shared'.session = HalfDeleted(shared.session)]_vars
  BY HoldStep
<1> QED
  BY <1>1, <1>2, <1>3, PTL DEF Spec, HoldOutlivesRecovery

-----------------------------------------------------------------------------
(* What becomes of the activation, and the recovery contract.              *)

\* An attempt is only decided for an armed, open episode between two starts,
\* with budget, an untried member and no wait left.
LEMMA AttemptDecided ==
    ASSUME NEW a \in ActivationRecord, NEW backoff \in Int,
           Kind(a, backoff) = "attempt"
    PROVE  /\ a.armed /\ a.episode /\ ~a.inFlight
           /\ a.attempts < MaxAttempts
           /\ ~(Candidate \subseteq a.visited)
           /\ a.cooldown = 0 /\ ~(backoff > 0)
BY PolicyAssumption DEF Kind, ActivationRecord

\* The calls on the activation of an entry d, made under their guards.
Called(d, b) ==
    LET a == d.activation IN
    \/ b = a
    \/ b = Disarmed(a)
    \/ IsInFlight(a, d.current) /\ b = AttemptFailed(a)
    \/ IsInFlight(a, d.current) /\ b = ConfirmedSuccess(a)
    \/ CanBeginEpisode(a, d.current) /\ b = BegunEpisode(a)
    \/ \E m \in Candidate :
          CanAdmit(a, m, d.backoff) /\ b \in {Admitted(a, m), Disarmed(Admitted(a, m))}
    \/ b = Elapsed(a)

\* The entry is gone, or the same one after at most one call.
Moved(d, e) == e = NoEntry \/ (d # NoEntry /\ Called(d, e.activation))

LEMMA MovedIs ==
    ASSUME NEW s \in Shared, NEW t
    PROVE  /\ t.entry = s.entry => Moved(s.entry, t.entry)
           /\ Eased(s, t) => Moved(s.entry, t.entry)
           /\ Noticed(s, t) => Moved(s.entry, t.entry)
           /\ Failure(s, t) => Moved(s.entry, t.entry)
           /\ \A origin \in Origin, target \in Candidate : \A g :
                 GaveUp(s, t, origin, target, g) \/ Began(s, t, origin, target, g)
                    => Moved(s.entry, t.entry)
           /\ \A c : Proved(s, t, c) => Moved(s.entry, t.entry)
           /\ \A c : Denied(s, t, c) => Moved(s.entry, t.entry)
<1>1. t.entry = s.entry => Moved(s.entry, t.entry)
  BY DEF Moved, Called
<1>2. Kept(s.entry, t.entry) => Moved(s.entry, t.entry)
  BY DEF Kept, SameGrant, Moved, Called
<1>3. Eased(s, t) => Moved(s.entry, t.entry)
  BY <1>2 DEF Eased, SameTurn, Withdrawn, Moved
<1>4. Noticed(s, t) => Moved(s.entry, t.entry)
  BY DEF Noticed, Moved, Called
<1>5. s.entry # NoEntry /\ FailureOutcome(s, t) => Moved(s.entry, t.entry)
  BY DEF FailureOutcome, SameButConfirming, Moved, Called
<1>6. Failure(s, t) => Moved(s.entry, t.entry)
  BY <1>5 DEF Failure, Armed
<1>7. ASSUME NEW origin \in Origin, NEW target \in Candidate, NEW g,
             GaveUp(s, t, origin, target, g) \/ Began(s, t, origin, target, g),
             t.entry # NoEntry
      PROVE  Moved(s.entry, t.entry)
  <2>1. s.entry # NoEntry
    BY <1>7 DEF GaveUp, Began, Restarted, SameGrant
  <2>2. CASE origin = "failover"
    <3>1. CanAdmit(s.entry.activation, target, s.entry.backoff)
      BY <1>7, <2>2 DEF GaveUp, Began, Accepted
    <3>2. t.entry.activation \in {Admitted(s.entry.activation, target),
                                  Disarmed(Admitted(s.entry.activation, target))}
      BY <1>7, <2>2 DEF GaveUp, Began
    <3> QED
      BY <2>1, <3>1, <3>2 DEF Moved, Called
  <2>3. CASE origin # "failover"
    BY <1>7, <2>1, <2>3 DEF GaveUp, Began, Moved, Called
  <2> QED
    BY <2>2, <2>3
<1>8. ASSUME NEW origin \in Origin, NEW target \in Candidate, NEW g,
             GaveUp(s, t, origin, target, g) \/ Began(s, t, origin, target, g)
      PROVE  Moved(s.entry, t.entry)
  BY <1>7, <1>8 DEF Moved
<1>9. ASSUME NEW c, Proved(s, t, c) PROVE Moved(s.entry, t.entry)
  <2>1. CASE Matches(s, c.target, c.subject)
    BY <1>9, <2>1 DEF Proved, Matches, Owns, Moved, Called
  <2>2. CASE ~Matches(s, c.target, c.subject)
    BY <1>1, <1>9, <2>2 DEF Proved
  <2> QED
    BY <2>1, <2>2
<1>10. ASSUME NEW c, Denied(s, t, c) PROVE Moved(s.entry, t.entry)
  BY <1>1, <1>2, <1>3, <1>5, <1>10 DEF Denied, Disproved, Armed
<1> QED
  BY <1>1, <1>3, <1>4, <1>6, <1>8, <1>9, <1>10

LEMMA EntryMoves ==
    ASSUME Base, OrdinaryStep
    PROVE  Moved(shared.entry, shared'.entry)
<1>0. shared \in Shared /\ "explicit" \in Origin /\ "reconnect" \in Origin /\ "failover" \in Origin
  BY BaseIs DEF Origin
<1>1. CASE EasyStep \/ Sweep \/ WatchRecover
  BY <1>0, <1>1, EasyStepIs, SweepIs, WatchRecoverIs, MovedIs
<1>2. CASE Tick
  BY <1>2, TickIs DEF Aged, SameGrant, Moved, Called
<1>3. ASSUME NEW c \in starts, ExplicitStart(c)
      PROVE  Moved(shared.entry, shared'.entry)
  <2> DEFINE origin == "explicit"
  <2>1. c.target \in Candidate /\ origin \in Origin
    BY <1>0, ThreadsAre DEF Start
  <2>2. \/ Eased(shared, shared')
        \/ GaveUp(shared, shared', origin, c.target, c.generation)
        \/ Began(shared, shared', origin, c.target, c.generation)
    BY <1>3, ExplicitStartIs
  <2> HIDE DEF origin
  <2> QED
    BY <1>0, <2>1, <2>2, MovedIs
<1>4. ASSUME NEW c \in confirms, Confirm(c)
      PROVE  Moved(shared.entry, shared'.entry)
  BY <1>0, <1>4, ConfirmIs, MovedIs
<1>5. ASSUME NEW d \in deaths, BeginReconnect(d)
      PROVE  Moved(shared.entry, shared'.entry)
  BY <1>0, <1>5, BeginReconnectIs, MovedIs
<1>6. ASSUME NEW r \in redials, RedialStart(r)
      PROVE  Moved(shared.entry, shared'.entry)
  <2> DEFINE origin == "reconnect"
  <2>1. r.target \in Candidate /\ origin \in Origin
    BY <1>0, ThreadsAre DEF Redial
  <2>2. \/ Eased(shared, shared')
        \/ GaveUp(shared, shared', origin, r.target, r.generation)
        \/ Began(shared, shared', origin, r.target, r.generation)
    BY <1>6, RedialStartIs
  <2> HIDE DEF origin
  <2> QED
    BY <1>0, <2>1, <2>2, MovedIs
<1>7. ASSUME NEW r \in redials, RedialComplete(r) \/ RedialAgain(r)
      PROVE  Moved(shared.entry, shared'.entry)
  <2>1. CASE RedialComplete(r)
    <3>1. shared'.entry = shared.entry
      BY <2>1, RedialCompleteIs
    <3> QED
      BY <1>0, <3>1, MovedIs
  <2>2. CASE RedialAgain(r)
    BY <1>0, <2>2, RedialAgainIs, MovedIs
  <2> QED
    BY <1>7, <2>1, <2>2
<1>8. ASSUME NEW r \in shared.recoverers, RecovererDecide(r)
      PROVE  Moved(shared.entry, shared'.entry)
  <2>1. ASSUME NEW m \in Candidate, shared' = Gone(r) \/ shared' = At(r, "starting", m)
        PROVE  shared'.entry = shared.entry
    <3>1. m \in Target /\ "starting" \in {"deciding", "starting", "erring"}
      BY DEF Target
    <3> QED
      BY <2>1, <3>1, WorkerMovesIs DEF SameButWorkers
  <2>2. 0 \in Candidate
    BY PolicyAssumption DEF Candidate
  <2>3. CASE Unattended(shared.entry, shared'.entry)
    BY <2>3 DEF Unattended, SameGrant, Moved, Called
  <2>4. shared'.entry = shared.entry \/ Unattended(shared.entry, shared'.entry)
    BY <1>8, <2>1, <2>2, RecovererDecideIs
  <2> QED
    BY <1>0, <2>3, <2>4, MovedIs
<1>9. ASSUME NEW r \in shared.recoverers, RecovererStart(r)
      PROVE  Moved(shared.entry, shared'.entry)
  <2> DEFINE origin == "failover"
  <2>1. origin \in Origin
    BY <1>0
  <2>2. \/ Eased(shared, shared')
        \/ GaveUp(shared, shared', origin, r.target, r.generation) /\ r.target \in Candidate
        \/ Began(shared, shared', origin, r.target, r.generation) /\ r.target \in Candidate
    BY <1>9, RecovererStartIs
  <2> HIDE DEF origin
  <2> QED
    BY <1>0, <2>1, <2>2, MovedIs
<1>10. ASSUME NEW r \in shared.recoverers, RecovererError(r)
       PROVE  Moved(shared.entry, shared'.entry)
  BY <1>0, <1>10, RecovererErrorIs, MovedIs
<1> QED
  BY <1>1, <1>2, <1>3, <1>4, <1>5, <1>6, <1>7, <1>8, <1>9, <1>10 DEF OrdinaryStep

\* The activation an entry carries is new, or the entry is gone or had a call.
LEMMA EntryStep ==
    ASSUME Base, [Next]_vars
    PROVE  \/ Moved(shared.entry, shared'.entry)
           \/ NewEntry(shared'.entry)
<1>0. shared \in Shared
  BY BaseIs
<1>1. CASE UNCHANGED vars
  <2>1. shared'.entry = shared.entry
    BY <1>1 DEF vars
  <2> QED
    BY <1>0, <2>1, MovedIs
<1>2. CASE Up
  BY <1>2, UpIs DEF Moved
<1>3. CASE \/ \E target \in Chosen : Connect(target)
           \/ \E value \in BOOLEAN : SetPorts(value)
  BY <1>3, ConnectIs, SetPortsIs DEF Moved
<1>4. ASSUME NEW d \in deaths, ClaimReconnect(d)
      PROVE  Moved(shared.entry, shared'.entry)
  <2>1. shared'.entry = shared.entry
    BY <1>4, ClaimReconnectIs
  <2> QED
    BY <1>0, <2>1, MovedIs
<1> QED
  BY <1>1, <1>2, <1>3, <1>4, EntryMoves, NextCases

\* The members are finitely many, and so is every set of visited ones.
LEMMA VisitedIsFinite ==
    ASSUME NEW S \in SUBSET Candidate
    PROVE  IsFiniteSet(S) /\ Cardinality(S) \in Nat
<1>1. IsFiniteSet(Candidate)
  BY PolicyAssumption, FS_Interval DEF Candidate
<1> QED
  BY <1>1, FS_Subset, FS_CardinalityType

\* The budget and the visited set of one activation agree.
Accounted(a) ==
    /\ a.attempts <= MaxAttempts
    /\ a.episode =>
          /\ a.current \in a.visited
          /\ Cardinality(a.visited) = a.attempts + 1
    /\ ~a.episode =>
          /\ a.visited = {}
          /\ a.attempts = 0
          /\ ~a.inFlight

\* Opening an episode visits the member that failed, and only that one.
LEMMA BegunIsAccounted ==
    ASSUME NEW a \in ActivationRecord, Accounted(a), ~a.episode
    PROVE  Accounted(BegunEpisode(a))
<1> DEFINE b == BegunEpisode(a)
<1>1. b.visited = {a.current} /\ b.attempts = 0 /\ b.episode /\ b.current = a.current
  BY DEF BegunEpisode, Accounted, ActivationRecord
<1>2. Cardinality({a.current}) = 1
  BY FS_Singleton
<1> QED
  BY <1>1, <1>2, PolicyAssumption DEF Accounted

\* What an admission does, and that it keeps the accounts.
LEMMA AdmittedIsAccounted ==
    ASSUME NEW a \in ActivationRecord, Accounted(a), NEW m \in Candidate,
           NEW backoff \in Int, CanAdmit(a, m, backoff)
    PROVE  /\ a.armed /\ a.episode /\ ~a.inFlight /\ a.cooldown = 0
           /\ m \notin a.visited /\ Cardinality(a.visited) <= MaxAttempts
           /\ Accounted(Admitted(a, m))
<1> DEFINE b == Admitted(a, m)
<1>1. /\ b.visited = a.visited \cup {m} /\ b.attempts = a.attempts + 1
      /\ b.episode = a.episode /\ b.current = m
  BY DEF Admitted, ActivationRecord
<1>2. a.visited \in SUBSET Candidate /\ a.attempts \in Nat
  BY DEF ActivationRecord
<1>3. Kind(a, backoff) = "attempt" /\ m \notin a.visited
  BY DEF CanAdmit, IsNext, Open
<1>4. /\ a.armed /\ a.episode /\ ~a.inFlight /\ a.cooldown = 0
      /\ a.attempts < MaxAttempts
  BY <1>3, AttemptDecided
<1>5. Cardinality(a.visited \cup {m}) = Cardinality(a.visited) + 1
  BY <1>2, <1>3, VisitedIsFinite, FS_AddElement
<1>6. Cardinality(b.visited) = b.attempts + 1 /\ Cardinality(a.visited) <= MaxAttempts
  BY <1>1, <1>2, <1>4, <1>5, PolicyAssumption DEF Accounted
<1>7. b.attempts <= MaxAttempts
  BY <1>1, <1>2, <1>4, PolicyAssumption
<1>8. b.current \in b.visited
  BY <1>1
<1>9. Accounted(b)
  <2> HIDE DEF b
  <2> QED
    BY <1>1, <1>4, <1>6, <1>7, <1>8 DEF Accounted
<1> QED
  BY <1>3, <1>4, <1>6, <1>9

\* Every call the daemon makes on an activation returns a well-formed record
\* with its accounts in order.
LEMMA CalledIsAccounted ==
    ASSUME NEW d \in Entry, Accounted(d.activation), NEW b, Called(d, b)
    PROVE  b \in ActivationRecord /\ Accounted(b)
<1> DEFINE a == d.activation
<1>1. a \in ActivationRecord /\ d.backoff \in Int /\ d.current \in Candidate
  BY PolicyAssumption DEF Entry
<1>2. ASSUME NEW x \in ActivationRecord, Accounted(x)
      PROVE  Disarmed(x) \in ActivationRecord /\ Accounted(Disarmed(x))
  <2>1. Disarmed(x) \in ActivationRecord
    BY <1>1, <1>2, MethodsAreTyped
  <2> QED
    BY <1>2, <2>1 DEF Disarmed, ActivationRecord, Accounted
<1>3. CASE b = a
  BY <1>1, <1>3
<1>4. CASE b = Disarmed(a)
  BY <1>1, <1>2, <1>4
<1>5. CASE b = AttemptFailed(a)
  <2>1. b \in ActivationRecord
    BY <1>1, <1>5, MethodsAreTyped
  <2> QED
    BY <1>1, <1>5, <2>1 DEF AttemptFailed, ActivationRecord, Accounted
<1>6. CASE b = ConfirmedSuccess(a)
  <2>1. b \in ActivationRecord
    BY <1>1, <1>6, MethodsAreTyped
  <2> QED
    BY <1>1, <1>6, <2>1, PolicyAssumption DEF ConfirmedSuccess, ActivationRecord, Accounted
<1>7. CASE CanBeginEpisode(a, d.current) /\ b = BegunEpisode(a)
  BY <1>1, <1>7, MethodsAreTyped, BegunIsAccounted DEF CanBeginEpisode
<1>8. ASSUME NEW m \in Candidate, CanAdmit(a, m, d.backoff),
             b \in {Admitted(a, m), Disarmed(Admitted(a, m))}
      PROVE  b \in ActivationRecord /\ Accounted(b)
  <2>1. Admitted(a, m) \in ActivationRecord /\ Accounted(Admitted(a, m))
    BY <1>1, <1>8, MethodsAreTyped, AdmittedIsAccounted
  <2> QED
    BY <1>2, <1>8, <2>1
<1>9. CASE b = Elapsed(a)
  <2>1. b \in ActivationRecord
    BY <1>1, <1>9, MethodsAreTyped
  <2> QED
    BY <1>1, <1>9, <2>1 DEF Elapsed, ActivationRecord, Accounted
<1> QED
  BY <1>3, <1>4, <1>5, <1>6, <1>7, <1>8, <1>9 DEF Called

EntryAccounted == shared.entry # NoEntry => Accounted(shared.entry.activation)

LEMMA AccountedInit == Init => EntryAccounted
BY DEF Init, EntryAccounted

LEMMA AccountedNext == Base /\ EntryAccounted /\ [Next]_vars => EntryAccounted'
<1> SUFFICES ASSUME Base, EntryAccounted, [Next]_vars, shared'.entry # NoEntry
             PROVE  Accounted(shared'.entry.activation)
  BY DEF EntryAccounted
<1> DEFINE d == shared.entry
           e == shared'.entry
<1>1. CASE NewEntry(e)
  <2>1. e.activation = NewActivation(0)
    BY <1>1 DEF NewEntry
  <2> QED
    BY <2>1, PolicyAssumption DEF NewActivation, Accounted
<1>2. CASE Moved(d, e)
  <2>1. d # NoEntry /\ Called(d, e.activation)
    BY <1>2 DEF Moved
  <2>2. d \in Entry /\ Accounted(d.activation)
    BY <2>1, BaseIs, EntryExists DEF EntryAccounted
  <2> QED
    BY <2>1, <2>2, CalledIsAccounted
<1> QED
  BY <1>1, <1>2, EntryStep

\* What the contract sees of an entry.
Grant(e) ==
    IF e = NoEntry THEN "absent" ELSE IF e.activation.armed THEN "armed" ELSE "revoked"
Stage(e) ==
    IF e = NoEntry \/ ~e.activation.episode THEN "idle"
    ELSE IF e.activation.inFlight THEN "trying" ELSE "waiting"
Tried(e) == IF e = NoEntry THEN {} ELSE e.activation.visited
Rest(e) == IF e = NoEntry THEN 0 ELSE e.activation.cooldown

LEMMA SeenThrough ==
    ASSUME NEW e \in Entry
    PROVE  /\ Grant(e) = IF e.activation.armed THEN "armed" ELSE "revoked"
           /\ Stage(e) = IF ~e.activation.episode THEN "idle"
                         ELSE IF e.activation.inFlight THEN "trying" ELSE "waiting"
           /\ Tried(e) = e.activation.visited
           /\ Rest(e) = e.activation.cooldown
<1>1. e # NoEntry
  BY DEF Entry, NoEntry
<1> QED
  BY <1>1 DEF Grant, Stage, Tried, Rest

\* Every call the daemon makes is one step of the contract, or none of it shows.
LEMMA CallIsContracted ==
    ASSUME NEW d \in Entry, NEW e \in Entry, Accounted(d.activation),
           Called(d, e.activation)
    PROVE  \/ /\ Grant(e) = Grant(d) /\ Stage(e) = Stage(d)
              /\ Tried(e) = Tried(d) /\ Rest(e) = Rest(d)
           \* Revoke
           \/ /\ Grant(d) = "armed" /\ Grant(e) = "revoked"
              /\ Stage(e) = Stage(d) /\ Tried(e) = Tried(d) /\ Rest(e) = Rest(d)
           \* TryFailed
           \/ /\ Stage(d) = "trying" /\ Stage(e) = "waiting"
              /\ Grant(e) = Grant(d) /\ Tried(e) = Tried(d) /\ Rest(e) = Rest(d)
           \* Recovered
           \/ /\ Stage(d) = "trying" /\ Stage(e) = "idle" /\ Tried(e) = {}
              /\ Grant(e) = Grant(d) /\ Rest(e) = Rest(d)
           \* Pass
           \/ /\ Rest(d) > 0 /\ Rest(e) = Rest(d) - 1
              /\ Grant(e) = Grant(d) /\ Stage(e) = Stage(d) /\ Tried(e) = Tried(d)
           \* Fail
           \/ \E m \in Candidate :
              /\ Grant(d) = "armed" /\ Stage(d) = "idle"
              /\ Stage(e) = "waiting" /\ Tried(e) = {m}
              /\ Grant(e) = Grant(d) /\ Rest(e) = Rest(d)
           \* Try
           \/ \E m \in Candidate :
              /\ Grant(d) = "armed" /\ Stage(d) = "waiting"
              /\ m \notin Tried(d) /\ Cardinality(Tried(d)) <= MaxAttempts /\ Rest(d) = 0
              /\ Grant(e) \in {"armed", "revoked"} /\ Stage(e) = "trying"
              /\ Tried(e) = Tried(d) \cup {m} /\ Rest(e) = Cooldown
<1> DEFINE a == d.activation
           b == e.activation
<1>1. a \in ActivationRecord /\ b \in ActivationRecord
      /\ d.backoff \in Int /\ d.current \in Candidate
  BY PolicyAssumption DEF Entry
<1>2. /\ Grant(d) = IF a.armed THEN "armed" ELSE "revoked"
      /\ Stage(d) = IF ~a.episode THEN "idle"
                    ELSE IF a.inFlight THEN "trying" ELSE "waiting"
      /\ Tried(d) = a.visited
      /\ Rest(d) = a.cooldown
  BY SeenThrough
<1>3. /\ Grant(e) = IF b.armed THEN "armed" ELSE "revoked"
      /\ Stage(e) = IF ~b.episode THEN "idle"
                    ELSE IF b.inFlight THEN "trying" ELSE "waiting"
      /\ Tried(e) = b.visited
      /\ Rest(e) = b.cooldown
  BY SeenThrough
<1>4. CASE b = a
  BY <1>2, <1>3, <1>4
<1>5. CASE b = Disarmed(a)
  <2>1. /\ ~b.armed /\ b.cooldown = a.cooldown /\ b.inFlight = a.inFlight
        /\ b.episode = a.episode /\ b.visited = a.visited
    BY <1>1, <1>5 DEF Disarmed, ActivationRecord
  <2> HIDE DEF a, b
  <2> QED
    BY <1>2, <1>3, <2>1
<1>6. CASE IsInFlight(a, d.current) /\ b = AttemptFailed(a)
  <2>1. /\ a.episode /\ a.inFlight
        /\ b.armed = a.armed /\ b.cooldown = a.cooldown /\ ~b.inFlight
        /\ b.episode = a.episode /\ b.visited = a.visited
    BY <1>1, <1>6 DEF IsInFlight, AttemptFailed, ActivationRecord, Accounted
  <2> HIDE DEF a, b
  <2> QED
    BY <1>2, <1>3, <2>1
<1>7. CASE IsInFlight(a, d.current) /\ b = ConfirmedSuccess(a)
  <2>1. /\ a.episode /\ a.inFlight
        /\ b.armed = a.armed /\ b.cooldown = a.cooldown
        /\ ~b.episode /\ b.visited = {}
    BY <1>1, <1>7 DEF IsInFlight, ConfirmedSuccess, ActivationRecord, Accounted
  <2> HIDE DEF a, b
  <2> QED
    BY <1>2, <1>3, <2>1
<1>8. CASE CanBeginEpisode(a, d.current) /\ b = BegunEpisode(a)
  <2>1. a.armed /\ ~a.episode /\ a.current \in Candidate /\ ~a.inFlight /\ a.visited = {}
    BY <1>1, <1>8 DEF CanBeginEpisode, Accounted, ActivationRecord
  <2>2. /\ b.armed = a.armed /\ b.cooldown = a.cooldown /\ b.inFlight = a.inFlight
        /\ b.episode /\ b.visited = {a.current}
    BY <1>1, <1>8, <2>1 DEF BegunEpisode, ActivationRecord
  <2> HIDE DEF a, b
  <2> QED
    BY <1>2, <1>3, <2>1, <2>2
<1>9. ASSUME NEW m \in Candidate, CanAdmit(a, m, d.backoff),
             b \in {Admitted(a, m), Disarmed(Admitted(a, m))}
      PROVE  /\ Grant(d) = "armed" /\ Stage(d) = "waiting"
             /\ m \notin Tried(d) /\ Cardinality(Tried(d)) <= MaxAttempts /\ Rest(d) = 0
             /\ Grant(e) \in {"armed", "revoked"} /\ Stage(e) = "trying"
             /\ Tried(e) = Tried(d) \cup {m} /\ Rest(e) = Cooldown
  <2>1. /\ a.armed /\ a.episode /\ ~a.inFlight /\ a.cooldown = 0
        /\ m \notin a.visited /\ Cardinality(a.visited) <= MaxAttempts
    BY <1>1, <1>9, AdmittedIsAccounted
  <2>2. /\ b.cooldown = Cooldown /\ b.inFlight
        /\ b.episode = a.episode /\ b.visited = a.visited \cup {m}
    BY <1>1, <1>9 DEF Admitted, Disarmed, ActivationRecord
  <2> HIDE DEF a, b
  <2> QED
    BY <1>2, <1>3, <2>1, <2>2
<1>10. CASE b = Elapsed(a)
  <2>1. /\ b.armed = a.armed /\ b.inFlight = a.inFlight
        /\ b.episode = a.episode /\ b.visited = a.visited
    BY <1>1, <1>10 DEF Elapsed, ActivationRecord
  <2>2. b.cooldown = IF a.cooldown > 0 THEN a.cooldown - 1 ELSE 0
    BY <1>1, <1>10 DEF Elapsed, ActivationRecord
  <2>3. a.cooldown \in Nat
    BY <1>1, PolicyAssumption DEF ActivationRecord
  <2> HIDE DEF a, b
  <2> QED
    BY <1>2, <1>3, <2>1, <2>2, <2>3
<1>11. \/ b = a \/ b = Disarmed(a)
       \/ IsInFlight(a, d.current) /\ b = AttemptFailed(a)
       \/ IsInFlight(a, d.current) /\ b = ConfirmedSuccess(a)
       \/ CanBeginEpisode(a, d.current) /\ b = BegunEpisode(a)
       \/ \E m \in Candidate :
             CanAdmit(a, m, d.backoff) /\ b \in {Admitted(a, m), Disarmed(Admitted(a, m))}
       \/ b = Elapsed(a)
  BY DEF Called
<1> HIDE DEF a, b
<1>12. ASSUME NEW m \in Candidate, CanAdmit(a, m, d.backoff),
              b \in {Admitted(a, m), Disarmed(Admitted(a, m))}
       PROVE  \E n \in Candidate :
              /\ Grant(d) = "armed" /\ Stage(d) = "waiting"
              /\ n \notin Tried(d) /\ Cardinality(Tried(d)) <= MaxAttempts /\ Rest(d) = 0
              /\ Grant(e) \in {"armed", "revoked"} /\ Stage(e) = "trying"
              /\ Tried(e) = Tried(d) \cup {n} /\ Rest(e) = Cooldown
  BY <1>9, <1>12
<1> QED
  BY <1>4, <1>5, <1>6, <1>7, <1>8, <1>10, <1>11, <1>12

\* Whatever the interleaving of requests, confirmations, deaths, workers and
\* time, what happens to the daemon's entry is what the recovery contract
\* allows: automatic starts are sequential, authorized, spaced and at most
\* MaxAttempts to an episode, none of them to a member already tried.
THEOREM EntryCarriesOutContract == Spec => ImplementsRecovery
<1> USE DEF Recovery!Candidate, Candidate
<1>1. Init => Recovery!Init
  BY DEF Init, Recovery!Init, Armed
<1>2. Base /\ Base' /\ EntryAccounted /\ [Next]_vars => [Recovery!Next]_Recovery!vars
  <2> SUFFICES ASSUME Base, Base', EntryAccounted, [Next]_vars
               PROVE  [Recovery!Next]_Recovery!vars
    OBVIOUS
  <2> DEFINE d == shared.entry
             e == shared'.entry
  <2>1. (d # NoEntry => d \in Entry) /\ (e # NoEntry => e \in Entry)
    BY DEF Base, TypeOK, Shared
  <2>2. /\ Grant(d) = IF shared.entry = NoEntry THEN "absent"
                      ELSE IF Armed(shared) THEN "armed" ELSE "revoked"
        /\ Stage(d) = IF shared.entry = NoEntry \/ ~shared.entry.activation.episode THEN "idle"
                      ELSE IF shared.entry.activation.inFlight THEN "trying" ELSE "waiting"
        /\ Tried(d) = IF shared.entry = NoEntry THEN {} ELSE shared.entry.activation.visited
        /\ Rest(d) = IF shared.entry = NoEntry THEN 0 ELSE shared.entry.activation.cooldown
    BY DEF Grant, Stage, Tried, Rest, Armed
  <2>3. /\ Grant(e) = IF shared'.entry = NoEntry THEN "absent"
                      ELSE IF Armed(shared') THEN "armed" ELSE "revoked"
        /\ Stage(e) = IF shared'.entry = NoEntry \/ ~shared'.entry.activation.episode THEN "idle"
                      ELSE IF shared'.entry.activation.inFlight THEN "trying" ELSE "waiting"
        /\ Tried(e) = IF shared'.entry = NoEntry THEN {} ELSE shared'.entry.activation.visited
        /\ Rest(e) = IF shared'.entry = NoEntry THEN 0 ELSE shared'.entry.activation.cooldown
    BY DEF Grant, Stage, Tried, Rest, Armed
  <2>4. CASE NewEntry(e)
    <3>1. Grant(e) = "armed" /\ Stage(e) = "idle" /\ Tried(e) = {} /\ Rest(e) = 0
      BY <2>4, SeenThrough DEF NewEntry, NewActivation
    <3>2. Recovery!Authorize
      BY <2>3, <3>1 DEF Recovery!Authorize, Armed
    <3> QED
      BY <3>2 DEF Recovery!Next
  <2>5. CASE e = NoEntry
    <3>1. Recovery!Withdraw
      BY <2>5 DEF Recovery!Withdraw, Armed
    <3> QED
      BY <3>1 DEF Recovery!Next
  <2>6. CASE d # NoEntry /\ e # NoEntry /\ Called(d, e.activation)
    <3>1. d \in Entry /\ e \in Entry /\ Accounted(d.activation)
      BY <2>1, <2>6 DEF EntryAccounted
    <3>2. CASE /\ Grant(e) = Grant(d) /\ Stage(e) = Stage(d)
               /\ Tried(e) = Tried(d) /\ Rest(e) = Rest(d)
      BY <2>2, <2>3, <3>2 DEF Recovery!vars, Armed
    <3>3. CASE /\ Grant(d) = "armed" /\ Grant(e) = "revoked"
               /\ Stage(e) = Stage(d) /\ Tried(e) = Tried(d) /\ Rest(e) = Rest(d)
      <4>1. Recovery!Revoke
        BY <2>2, <2>3, <3>3 DEF Recovery!Revoke, Armed
      <4> QED
        BY <4>1 DEF Recovery!Next
    <3>4. CASE /\ Stage(d) = "trying" /\ Stage(e) = "waiting"
               /\ Grant(e) = Grant(d) /\ Tried(e) = Tried(d) /\ Rest(e) = Rest(d)
      <4>1. Recovery!TryFailed
        BY <2>2, <2>3, <3>4 DEF Recovery!TryFailed, Armed
      <4> QED
        BY <4>1 DEF Recovery!Next
    <3>5. CASE /\ Stage(d) = "trying" /\ Stage(e) = "idle" /\ Tried(e) = {}
               /\ Grant(e) = Grant(d) /\ Rest(e) = Rest(d)
      <4>1. Recovery!Recovered
        BY <2>2, <2>3, <3>5 DEF Recovery!Recovered, Armed
      <4> QED
        BY <4>1 DEF Recovery!Next
    <3>6. CASE /\ Rest(d) > 0 /\ Rest(e) = Rest(d) - 1
               /\ Grant(e) = Grant(d) /\ Stage(e) = Stage(d) /\ Tried(e) = Tried(d)
      <4>1. Recovery!Pass
        BY <2>2, <2>3, <3>6 DEF Recovery!Pass, Armed
      <4> QED
        BY <4>1 DEF Recovery!Next
    <3>7. ASSUME NEW m \in Candidate,
                 Grant(d) = "armed" /\ Stage(d) = "idle",
                 Stage(e) = "waiting" /\ Tried(e) = {m},
                 Grant(e) = Grant(d) /\ Rest(e) = Rest(d)
          PROVE  Recovery!Next
      <4>1. Recovery!Fail(m)
        BY <2>2, <2>3, <3>7 DEF Recovery!Fail, Armed
      <4> QED
        BY <3>7, <4>1 DEF Recovery!Next
    <3>8. ASSUME NEW m \in Candidate,
                 Grant(d) = "armed" /\ Stage(d) = "waiting",
                 m \notin Tried(d) /\ Cardinality(Tried(d)) <= MaxAttempts /\ Rest(d) = 0,
                 Grant(e) \in {"armed", "revoked"} /\ Stage(e) = "trying",
                 Tried(e) = Tried(d) \cup {m} /\ Rest(e) = Cooldown
          PROVE  Recovery!Next
      <4>1. Recovery!Cardinality(Tried(d)) <= MaxAttempts
        BY <3>8 DEF Recovery!Cardinality, Cardinality
      <4>2. Recovery!Try(m)
        BY <2>2, <2>3, <3>8, <4>1 DEF Recovery!Try, Armed
      <4> QED
        BY <3>8, <4>2 DEF Recovery!Next
    <3> HIDE DEF d, e
    <3> QED
      BY <2>6, <3>1, <3>2, <3>3, <3>4, <3>5, <3>6, <3>7, <3>8, CallIsContracted
  <2>7. CASE Moved(d, e)
    BY <2>5, <2>6, <2>7 DEF Moved
  <2> QED
    BY <2>4, <2>7, EntryStep
<1> QED
  BY <1>1, <1>2, BaseInit, BaseNext, AccountedInit, AccountedNext, PTL
     DEF Spec, ImplementsRecovery, Recovery!Spec

-----------------------------------------------------------------------------
(* A retry has one loop.                                                   *)

SameLoop(p, q) == p.generation = q.generation /\ p.target = q.target

\* The step of a loop replaces it by itself, or ends it.
LEMMA RedialsAfter ==
    ASSUME Base, NEW r \in redials, RedialStart(r) \/ RedialComplete(r) \/ RedialAgain(r)
    PROVE  \E q : SameLoop(q, r) /\ redials' \subseteq (redials \ {r}) \cup {q}
<1> DEFINE moved(step, subject) == [r EXCEPT !.step = step, !.subject = subject]
<1>1. r \in Redial
  BY ThreadsAre
<1>2. \A step, subject : SameLoop(moved(step, subject), r)
  BY <1>1 DEF SameLoop, Redial
<1>3. SameLoop([r EXCEPT !.step = "failed"], r) /\ SameLoop(r, r)
  BY <1>1 DEF SameLoop, Redial
<1>4. \/ redials' = redials \ {r}
      \/ redials' = (redials \ {r}) \cup {[r EXCEPT !.step = "failed"]}
      \/ \E step, subject : redials' = (redials \ {r}) \cup {moved(step, subject)}
  <2>1. CASE RedialComplete(r)
    BY <2>1, RedialCompleteIs
  <2>2. CASE RedialAgain(r)
    <3>1. \/ redials' = redials \ {r}
          \/ redials' = (redials \ {r}) \cup {moved("waiting", NoSubject)}
      BY <2>2, RedialAgainIs
    <3> HIDE DEF moved
    <3> QED
      BY <3>1
  <2>3. CASE RedialStart(r)
    <3>1. \/ redials' = redials \ {r}
          \/ redials' = (redials \ {r}) \cup {[r EXCEPT !.step = "failed"]}
          \/ redials' = (redials \ {r}) \cup
                 {moved("awaiting", Captured(shared', r.generation))}
      BY <2>3, RedialStartIs
    <3> HIDE DEF moved
    <3> QED
      BY <3>1
  <2> QED
    BY <2>1, <2>2, <2>3
<1>5. CASE redials' = redials \ {r}
  BY <1>3, <1>5
<1>6. CASE redials' = (redials \ {r}) \cup {[r EXCEPT !.step = "failed"]}
  <2> DEFINE q == [r EXCEPT !.step = "failed"]
  <2>1. SameLoop(q, r) /\ redials' \subseteq (redials \ {r}) \cup {q}
    BY <1>3, <1>6
  <2> QED
    BY <2>1
<1>7. ASSUME NEW step, NEW subject, redials' = (redials \ {r}) \cup {moved(step, subject)}
      PROVE  \E q : SameLoop(q, r) /\ redials' \subseteq (redials \ {r}) \cup {q}
  <2> DEFINE q == moved(step, subject)
  <2>1. SameLoop(q, r) /\ redials' \subseteq (redials \ {r}) \cup {q}
    BY <1>2, <1>7
  <2> HIDE DEF q
  <2> QED
    BY <2>1
<1> QED
  BY <1>4, <1>5, <1>6, <1>7

\* Two loops are two loops of the state before, whatever they have learnt.
Apart(p, q) ==
    \E r, s \in redials : SameLoop(r, p) /\ SameLoop(s, q) /\ (r = s => p = q)

LEMMA OrdinaryLoops ==
    ASSUME Base, OrdinaryStep, NEW p \in redials', NEW q \in redials'
    PROVE  Apart(p, q)
<1>1. ASSUME redials' = redials PROVE Apart(p, q)
  BY <1>1 DEF Apart, SameLoop
<1>2. CASE EasyStep \/ Sweep \/ WatchRecover \/ Tick
  <2>1. redials' = redials
    BY <1>2, EasyStepIs DEF threads, Sweep, WatchRecover, Tick
  <2> QED
    BY <1>1, <2>1
<1>3. CASE \E c \in starts : ExplicitStart(c)
  BY <1>1, <1>3 DEF ExplicitStart
<1>4. CASE \E d \in deaths : BeginReconnect(d)
  BY <1>1, <1>4 DEF BeginReconnect
<1>5. CASE \E r \in shared.recoverers :
              RecovererDecide(r) \/ RecovererStart(r) \/ RecovererError(r)
  BY <1>1, <1>5 DEF RecovererDecide, RecovererStart, RecovererError, threads
<1>6. ASSUME NEW c \in confirms, Confirm(c) PROVE Apart(p, q)
  <2>1. PICK answer \in BOOLEAN : Answered(c, answer)
    BY <1>6, ConfirmIs
  <2>2. PICK f \in [redials -> Redial] :
              /\ redials' = {f[r] : r \in redials}
              /\ \A r \in redials : f[r].generation = r.generation /\ f[r].target = r.target
    BY <2>1, AnsweredIs
  <2>3. PICK r \in redials, s \in redials : p = f[r] /\ q = f[s]
    BY <2>2
  <2> QED
    BY <2>2, <2>3 DEF Apart, SameLoop
<1>7. ASSUME NEW r \in redials, RedialStart(r) \/ RedialComplete(r) \/ RedialAgain(r)
      PROVE  Apart(p, q)
  <2>1. PICK e : SameLoop(e, r) /\ redials' \subseteq (redials \ {r}) \cup {e}
    BY <1>7, RedialsAfter
  <2>2. SameLoop(r, e) /\ SameLoop(p, p) /\ SameLoop(q, q)
    BY <2>1 DEF SameLoop
  <2>3. \/ p = e /\ q = e
        \/ p = e /\ q \in redials /\ q # r
        \/ p \in redials /\ p # r /\ q = e
        \/ p \in redials /\ q \in redials
    BY <2>1
  <2> QED
    BY <2>2, <2>3 DEF Apart
<1> QED
  BY <1>2, <1>3, <1>4, <1>5, <1>6, <1>7 DEF OrdinaryStep

\* A confirmation is made by the start it answers for, which is then over.
LEMMA ConfirmsAfter ==
    ASSUME Base, OrdinaryStep, NEW c \in confirms'
    PROVE  \/ c \in confirms
           \/ /\ c.origin = "explicit"
              /\ \E b \in starts : starts' = starts \ {b} /\ c.subject.generation = b.generation
           \/ c.origin = "failover" /\ shared'.entry # NoEntry
           \/ c.origin = "reconnect"
<1>1. CASE EasyStep \/ Sweep \/ WatchRecover \/ Tick
  BY <1>1, EasyStepIs DEF threads, Sweep, WatchRecover, Tick
<1>2. CASE \E d \in confirms : Confirm(d)
  BY <1>2 DEF Confirm
<1>3. CASE \E d \in deaths : BeginReconnect(d)
  BY <1>3 DEF BeginReconnect
<1>4. ASSUME NEW b \in starts, ExplicitStart(b), c \notin confirms
      PROVE  /\ c.origin = "explicit"
             /\ starts' = starts \ {b} /\ c.subject.generation = b.generation
  <2> DEFINE new == NewConfirm(shared', "explicit", b.target, b.generation)
  <2>1. confirms' = confirms \/ confirms' = confirms \cup {new}
    BY <1>4, ExplicitStartIs DEF GaveUp, Began
  <2>2. new.origin = "explicit" /\ new.subject.generation = b.generation
    BY DEF NewConfirm, Captured
  <2>3. starts' = starts \ {b}
    BY <1>4, ExplicitStartIs
  <2> HIDE DEF new
  <2> QED
    BY <1>4, <2>1, <2>2, <2>3
<1>5. ASSUME NEW r \in redials, RedialStart(r), c \notin confirms
      PROVE  c.origin = "reconnect"
  <2>1. c = NewConfirm(shared', "reconnect", r.target, r.generation)
    BY <1>5, RedialStartIs DEF GaveUp, Began
  <2> QED
    BY <2>1 DEF NewConfirm
<1>6. CASE \E r \in redials : RedialComplete(r) \/ RedialAgain(r)
  BY <1>6 DEF RedialComplete, RedialAgain
<1>7. ASSUME NEW r \in shared.recoverers, RecovererStart(r), c \notin confirms
      PROVE  c.origin = "failover" /\ shared'.entry # NoEntry
  <2> DEFINE new == NewConfirm(shared', "failover", r.target, r.generation)
  <2>1. \/ confirms' = confirms
        \/ /\ Began(shared, shared', "failover", r.target, r.generation)
           /\ confirms' = confirms \cup {new}
    BY <1>7, RecovererStartIs DEF GaveUp, Began
  <2>2. Began(shared, shared', "failover", r.target, r.generation) => shared'.entry # NoEntry
    BY DEF Began, Accepted, Restarted, SameGrant
  <2>3. new.origin = "failover"
    BY DEF NewConfirm
  <2> HIDE DEF new
  <2> QED
    BY <1>7, <2>1, <2>2, <2>3
<1>8. CASE \E r \in shared.recoverers : RecovererDecide(r) \/ RecovererError(r)
  BY <1>8 DEF RecovererDecide, RecovererError, threads
<1> QED
  BY <1>1, <1>2, <1>3, <1>4, <1>5, <1>6, <1>7, <1>8 DEF OrdinaryStep

\* The status still names what the loop is after.
InCharge(r) == shared.override = [kind |-> "reconnecting", target |-> r.target]

\* What a step does to the session and the status of a generation that goes on
\* and that failover does not own: nothing that matters to a loop, a proof or a
\* disproof of the core, the explicit start of the generation, a redial by a
\* loop in charge, or its end.
Stays ==
    /\ shared'.override = shared.override
    /\ shared'.session = shared.session \/ Weaker(shared, shared')
Given(c) ==
    /\ c \in confirms /\ c.subject.generation = shared.generation
    /\ \/ shared'.override = shared.override
       \/ c.origin = "failover"
    /\ Present(shared) /\ Present(shared')
    /\ shared'.session.status = shared.session.status
    /\ shared'.session.target = shared.session.target
Refuted(c) ==
    /\ c \in confirms /\ c.subject.generation = shared.generation
    /\ c.origin # "reconnect"
    /\ shared'.override = [kind |-> "failed", target |-> c.target]
    /\ Weaker(shared, shared') /\ Present(shared')
    /\ shared'.session.status \in {"failed", "disconnected"}
Started(b) ==
    /\ b \in starts /\ b.generation = shared.generation /\ starts' = starts \ {b}
    /\ shared'.override = shared.override
    /\ Present(shared') /\ NewBorn(shared'.session, b.target)
Redialed(q) ==
    /\ q \in redials /\ q.generation = shared.generation /\ InCharge(q)
    /\ shared'.override = shared.override
    /\ Present(shared') /\ NewBorn(shared'.session, q.target)
Completed(q) ==
    /\ q \in redials /\ q.generation = shared.generation /\ InCharge(q)
    /\ shared'.session = shared.session /\ shared'.override = NoOverride
    /\ shared'.retry = NoRetry /\ redials' = redials \ {q}

LEMMA TurnStep ==
    ASSUME Base, OrdinaryStep, shared'.generation = shared.generation,
           shared.generation # 0, shared.entry = NoEntry
    PROVE  \/ Stays
           \/ \E c \in confirms : Given(c) \/ Refuted(c)
           \/ \E b \in starts : Started(b)
           \/ \E q \in redials : Redialed(q) \/ Completed(q)
<1>0. Eased(shared, shared') => Stays
  BY DEF Eased, SameTurn, Withdrawn, Stays
<1>1. CASE EasyStep \/ Sweep \/ WatchRecover
  BY <1>0, <1>1, EasyStepIs, SweepIs, WatchRecoverIs DEF Noticed
<1>2. CASE Tick
  BY <1>2, TickIs DEF Stays
<1>3. ASSUME NEW b \in starts, ExplicitStart(b)
      PROVE  Stays \/ Started(b)
  <2> DEFINE origin == "explicit"
  <2>1. \/ Eased(shared, shared')
        \/ GaveUp(shared, shared', origin, b.target, b.generation)
        \/ Began(shared, shared', origin, b.target, b.generation)
    BY <1>3, ExplicitStartIs
  <2>2. starts' = starts \ {b}
    BY <1>3, ExplicitStartIs
  <2> HIDE DEF origin
  <2>3. CASE GaveUp(shared, shared', origin, b.target, b.generation)
    BY <2>3 DEF GaveUp, GoesOn, Stays
  <2>4. CASE Began(shared, shared', origin, b.target, b.generation)
    BY <2>2, <2>4 DEF Began, GoesOn, Accepted, IsCurrent, Started
  <2> QED
    BY <1>0, <2>1, <2>3, <2>4
<1>4. ASSUME NEW c \in confirms, Confirm(c)
      PROVE  Stays \/ Given(c) \/ Refuted(c)
  <2>1. CASE shared' = shared
    BY <2>1 DEF Stays
  <2>2. CASE Current(shared, c.subject) /\ Proved(shared, shared', c)
    BY <2>2 DEF Proved, Current, IsCurrent, Given
  <2>3. CASE Current(shared, c.subject) /\ Disproved(shared, shared', c)
    BY <2>3 DEF Disproved, Current, IsCurrent, Refuted, Stays
  <2> QED
    BY <1>0, <1>4, <2>1, <2>2, <2>3, ConfirmIs DEF Denied
<1>5. ASSUME NEW d \in deaths, BeginReconnect(d)
      PROVE  Stays
  BY <1>5, BeginReconnectIs DEF Failure, Quiet, Stays
<1>6. ASSUME NEW r \in redials, RedialStart(r)
      PROVE  Stays \/ Redialed(r)
  <2> DEFINE origin == "reconnect"
  <2>1. \/ Eased(shared, shared')
        \/ GaveUp(shared, shared', origin, r.target, r.generation)
        \/ Began(shared, shared', origin, r.target, r.generation)
    BY <1>6, RedialStartIs
  <2>2. CASE Eased(shared, shared')
    BY <1>0, <2>2
  <2>3. CASE GaveUp(shared, shared', origin, r.target, r.generation)
    BY <2>3 DEF GaveUp, GoesOn, Stays
  <2>4. CASE Began(shared, shared', origin, r.target, r.generation)
    BY <2>4 DEF Began, GoesOn, Accepted, IsCurrent, RetryCurrent, RetryReceipt,
                InCharge, Redialed
  <2> HIDE DEF origin
  <2> QED
    BY <2>1, <2>2, <2>3, <2>4
<1>7. ASSUME NEW r \in redials, RedialComplete(r)
      PROVE  Stays \/ Completed(r)
  BY <1>7, RedialCompleteIs DEF Stays, Completed, RetryReceipt, IsCurrent, InCharge
<1>8. ASSUME NEW r \in redials, RedialAgain(r)
      PROVE  Stays
  BY <1>0, <1>8, RedialAgainIs
<1>9. ASSUME NEW r \in shared.recoverers, RecovererDecide(r)
      PROVE  Stays
  <2>1. ASSUME NEW m \in Candidate, shared' = Gone(r) \/ shared' = At(r, "starting", m)
        PROVE  Stays
    <3>1. m \in Target /\ "starting" \in {"deciding", "starting", "erring"}
      BY DEF Target
    <3> QED
      BY <2>1, <3>1, WorkerMovesIs DEF SameButWorkers, Stays
  <2>2. 0 \in Candidate
    BY PolicyAssumption DEF Candidate
  <2> QED
    BY <1>9, <2>1, <2>2, RecovererDecideIs DEF Owns
<1>10. ASSUME NEW r \in shared.recoverers, RecovererStart(r)
       PROVE  Stays
  <2>1. Eased(shared, shared')
    BY <1>10, RecovererStartIs DEF GaveUp, Began, Accepted
  <2> QED
    BY <1>0, <2>1
<1>11. ASSUME NEW r \in shared.recoverers, RecovererError(r)
       PROVE  Stays
  BY <1>0, <1>11, RecovererErrorIs
<1> QED
  BY <1>1, <1>2, <1>3, <1>4, <1>5, <1>6, <1>7, <1>8, <1>9, <1>10, <1>11 DEF OrdinaryStep

\* Every generation is started once.
StartsOnce ==
    /\ \A b, c \in starts : b.generation = c.generation => b = c
    /\ \A c \in starts, d \in confirms :
          d.origin = "explicit" => d.subject.generation # c.generation

\* A confirmation of the current generation made for failover has its entry.
FailoverHasEntry ==
    \A c \in confirms :
        c.origin = "failover" /\ c.subject.generation = shared.generation
            /\ shared.generation # 0 => shared.entry # NoEntry

OnceInv == StartsOnce /\ FailoverHasEntry

LEMMA OnceInit == Init => OnceInv
BY DEF Init, OnceInv, StartsOnce, FailoverHasEntry

LEMMA OnceNext ==
    ASSUME Base, OnceInv, [Next]_vars
    PROVE  OnceInv'
<1>0. StartsOnce /\ FailoverHasEntry
  BY DEF OnceInv
<1>1. CASE UNCHANGED vars
  BY <1>0, <1>1 DEF vars, threads, OnceInv, StartsOnce, FailoverHasEntry
<1>2. CASE OrdinaryStep
  <2>1. starts' \subseteq starts
    BY <1>2, OrdinaryThreads
  <2>2. StartsOnce'
    <3>1. ASSUME NEW b \in starts', NEW c \in starts', b.generation = c.generation
          PROVE  b = c
      BY <1>0, <2>1, <3>1 DEF StartsOnce
    <3>2. ASSUME NEW c \in starts', NEW d \in confirms', d.origin = "explicit"
          PROVE  d.subject.generation # c.generation
      BY <1>0, <1>2, <2>1, <3>2, ConfirmsAfter DEF StartsOnce
    <3> QED
      BY <3>1, <3>2 DEF StartsOnce
  <2>3. ASSUME NEW c \in confirms', c.origin = "failover",
               c.subject.generation = shared'.generation, shared'.generation # 0
        PROVE  shared'.entry # NoEntry
    <3>1. Continues(shared, shared')
      BY <1>2, <2>3, OrdinaryContinues DEF Withdrawn
    <3>2. c \in confirms => shared.entry # NoEntry
      BY <1>0, <2>3, <3>1 DEF FailoverHasEntry, Continues
    <3> QED
      BY <1>2, <2>3, <3>1, <3>2, ConfirmsAfter DEF Continues, SameGrant
  <2> QED
    BY <2>2, <2>3 DEF OnceInv, FailoverHasEntry
<1>3. ASSUME NEW target, starts' = starts \cup {[generation |-> FreshGeneration, target |-> target]},
             confirms' = confirms, shared'.generation = FreshGeneration
      PROVE  OnceInv'
  <2> DEFINE new == [generation |-> FreshGeneration, target |-> target]
  <2>1. new.generation = FreshGeneration /\ starts' = starts \cup {new}
    BY <1>3
  <2> HIDE DEF new
  <2>2. StartsOnce'
    BY <1>0, <1>3, <2>1, FreshIsNobodys DEF StartsOnce
  <2>3. FailoverHasEntry'
    BY <1>3, FreshIsNobodys DEF FailoverHasEntry
  <2> QED
    BY <2>2, <2>3 DEF OnceInv
<1>4. CASE Up
  <2>1. shared'.generation = FreshGeneration
    BY <1>4, UpIs DEF Claimed
  <2>2. starts' = starts \cup {[generation |-> FreshGeneration, target |-> 0]}
        /\ confirms' = confirms
    BY <1>4, UpIs DEF Up
  <2> QED
    BY <1>3, <2>1, <2>2
<1>5. ASSUME NEW target \in Chosen, Connect(target) PROVE OnceInv'
  <2>1. shared'.generation = FreshGeneration
    BY <1>5, ConnectIs DEF Claimed
  <2>2. starts' = starts \cup {[generation |-> FreshGeneration, target |-> target]}
        /\ confirms' = confirms
    BY <1>5, ConnectIs DEF Connect
  <2> QED
    BY <1>3, <2>1, <2>2
<1>6. ASSUME NEW value \in BOOLEAN, SetPorts(value) PROVE OnceInv'
  <2> DEFINE new == [subject |-> Captured(shared', FreshGeneration),
                     target |-> shared.session.target, origin |-> "explicit"]
  <2>1. /\ confirms' = confirms \/ confirms' = confirms \cup {new}
        /\ shared'.generation = FreshGeneration
    BY <1>6, SetPortsIs
  <2>2. new.origin = "explicit" /\ new.subject.generation = FreshGeneration
    BY DEF Captured
  <2>3. starts' = starts
    BY <1>6 DEF SetPorts
  <2> HIDE DEF new
  <2>4. StartsOnce'
    BY <1>0, <2>1, <2>2, <2>3, FreshIsNobodys DEF StartsOnce
  <2>5. FailoverHasEntry'
    BY <2>1, <2>2, FreshIsNobodys DEF FailoverHasEntry
  <2> QED
    BY <2>4, <2>5 DEF OnceInv
<1>7. ASSUME NEW d \in deaths, ClaimReconnect(d) PROVE OnceInv'
  <2>1. /\ starts' = starts /\ confirms' = confirms
        /\ shared'.entry = shared.entry /\ shared'.generation = shared.generation
    BY <1>7, ClaimReconnectIs DEF ClaimReconnect
  <2> QED
    BY <1>0, <2>1 DEF OnceInv, StartsOnce, FailoverHasEntry
<1> QED
  BY <1>1, <1>2, <1>4, <1>5, <1>6, <1>7, NextCases

\* The redials of the current generation,
Loops == {r \in redials : r.generation = shared.generation}

\* which has been started,
Startless == \A c \in starts : c.generation # shared.generation

\* and what a loop can no longer bring back: the session is about another
\* server, or it is over for good.
Over(s, r) ==
    s.session.target # r.target \/ s.session.status \notin {"connected", "exited"}

\* Two loops of the current generation are after different servers, and one
\* that the status no longer names has nothing left to redial.
LoopsApart ==
    /\ \A p, q \in Loops : p.target = q.target => p = q
    /\ \A r \in Loops : InCharge(r) \/ (Startless /\ Over(shared, r))

\* While the start of a generation is out, its loops redial what was there.
LoopsBeforeStart ==
    ~Startless =>
        \A r \in Loops :
            InCharge(r) /\ shared.session.target \in {r.target, NoTarget}

LoopInv == LoopsApart /\ LoopsBeforeStart

LEMMA OverStays ==
    ASSUME shared.entry = NoEntry, Weaker(shared, shared'), NEW r,
           r.target \in Candidate, Over(shared, r)
    PROVE  Over(shared', r)
<1>0. r.target # NoTarget
  BY PolicyAssumption DEF Candidate, NoTarget
<1>1. CASE ~Present(shared')
  BY <1>1 DEF Present, NoSession, Over
<1>2. CASE Present(shared')
  BY <1>0, <1>2 DEF Weaker, Calmer, StillBorn, Over
<1> QED
  BY <1>1, <1>2

LEMMA LoopInit == Init => LoopInv
BY DEF Init, LoopInv, LoopsApart, LoopsBeforeStart, Loops, Startless

\* In a generation that goes on, what a loop is after stays decided.
LEMMA LoopStays ==
    ASSUME Base, Base', OwnedInv, OnceInv, LoopInv, OrdinaryStep,
           shared'.generation = shared.generation, shared.generation # 0,
           NEW r \in Loops, \A q \in redials : Completed(q) => r.target # q.target
    PROVE  /\ InCharge(r)' \/ (Startless' /\ Over(shared', r))
           /\ ~Startless' =>
                 InCharge(r)' /\ shared'.session.target \in {r.target, NoTarget}
<1>0. /\ shared.entry = NoEntry /\ r \in redials /\ r.generation = shared.generation
      /\ r.target \in Candidate
  BY ThreadsAre DEF Loops, OwnedInv, OwnedSuppressesLegacy, Redial
<1>1. starts' \subseteq starts /\ (Startless => Startless')
  BY OrdinaryThreads DEF Startless
<1>2. /\ InCharge(r) \/ (Startless /\ Over(shared, r))
      /\ ~Startless => InCharge(r) /\ shared.session.target \in {r.target, NoTarget}
  BY DEF LoopInv, LoopsApart, LoopsBeforeStart
<1>3. Present(shared')
  BY DEF Base, Grounded, Sound
<1>4. CASE Stays
  <2>1. InCharge(r) => InCharge(r)'
    BY <1>4 DEF Stays, InCharge
  <2>2. Over(shared, r) => Over(shared', r)
    BY <1>0, <1>4, OverStays DEF Stays, Over
  <2>3. shared'.session.target \in {shared.session.target, NoTarget}
    BY <1>3, <1>4 DEF Stays, Weaker, Calmer, StillBorn
  <2> QED
    BY <1>1, <1>2, <2>1, <2>2, <2>3
<1>5. ASSUME NEW c \in confirms, Given(c)
      PROVE  /\ InCharge(r) => InCharge(r)'
             /\ Over(shared, r) => Over(shared', r)
             /\ shared'.session.target = shared.session.target
  BY <1>0, <1>5 DEF Given, OnceInv, FailoverHasEntry, InCharge, Over
<1>6. ASSUME NEW c \in confirms, Refuted(c)
      PROVE  Startless' /\ Over(shared', r)
  <2>1. c.origin = "explicit"
    BY <1>0, <1>6, ThreadsAre DEF Refuted, OnceInv, FailoverHasEntry, Confirmation, Origin
  <2>2. Startless
    BY <1>6, <2>1 DEF Refuted, OnceInv, StartsOnce, Startless
  <2> QED
    BY <1>1, <1>6, <2>2 DEF Refuted, Over
<1>7. ASSUME NEW b \in starts, Started(b)
      PROVE  Startless' /\ InCharge(r)'
  <2>1. ~Startless
    BY <1>7 DEF Started, Startless
  <2>2. Startless'
    BY <1>7 DEF Started, Startless, OnceInv, StartsOnce
  <2> QED
    BY <1>2, <1>7, <2>1, <2>2 DEF Started, InCharge
<1>8. ASSUME NEW q \in redials, Redialed(q)
      PROVE  /\ InCharge(r) => InCharge(r)' /\ shared'.session.target = r.target
             /\ ~InCharge(r) => Over(shared', r)
  BY <1>8 DEF Redialed, InCharge, NewBorn, Over
<1>9. ASSUME NEW q \in redials, Completed(q)
      PROVE  Startless' /\ Over(shared', r)
  <2>1. ~InCharge(r)
    BY <1>9 DEF Completed, InCharge
  <2> QED
    BY <1>1, <1>2, <1>9, <2>1 DEF Completed, Over
<1> QED
  BY <1>0, <1>1, <1>2, <1>4, <1>5, <1>6, <1>7, <1>8, <1>9, TurnStep

\* No death starts a second loop for a target that is being redialed.
LEMMA LoopIsAlone ==
    ASSUME LoopsApart
    PROVE  OneLoopPerTarget
<1> SUFFICES ASSUME NEW d \in deaths, MayClaimReconnect(shared, d),
                    NEW r \in redials,
                    r.generation = d.subject.generation, r.target = d.target
             PROVE  FALSE
  BY DEF OneLoopPerTarget
<1>1. r \in Loops
  BY DEF MayClaimReconnect, Current, IsCurrent, Loops
<1>2. ~InCharge(r) /\ ~Over(shared, r)
  BY DEF MayClaimReconnect, InCharge, Over
<1> QED
  BY <1>1, <1>2 DEF LoopsApart

LEMMA LoopNext ==
    ASSUME Base, Base', OwnedInv, OnceInv, LoopInv, [Next]_vars
    PROVE  LoopInv'
<1>0. LoopsApart /\ LoopsBeforeStart
  BY DEF LoopInv
<1>1. CASE UNCHANGED vars
  BY <1>0, <1>1 DEF vars, threads, LoopInv, LoopsApart, LoopsBeforeStart, Loops,
                    Startless, InCharge, Over
<1>2. ASSUME Loops' = {} PROVE LoopInv'
  BY <1>2 DEF LoopInv, LoopsApart, LoopsBeforeStart
<1>3. ASSUME OrdinaryStep, shared'.generation = shared.generation, shared.generation # 0
      PROVE  LoopInv'
  <2>1. ASSUME NEW p \in Loops', NEW q \in Loops', p.target = q.target
        PROVE  p = q
    <3>1. p \in redials' /\ q \in redials'
      BY DEF Loops
    <3>2. PICK r \in redials, s \in redials :
              SameLoop(r, p) /\ SameLoop(s, q) /\ (r = s => p = q)
      BY <1>3, <3>1, OrdinaryLoops DEF Apart
    <3>3. r \in Loops /\ s \in Loops /\ r.target = s.target
      BY <1>3, <2>1, <3>2 DEF Loops, SameLoop
    <3> QED
      BY <1>0, <3>2, <3>3 DEF LoopsApart
  <2>2. ASSUME NEW q \in Loops'
        PROVE  /\ InCharge(q)' \/ (Startless' /\ Over(shared', q))
               /\ ~Startless' =>
                     InCharge(q)' /\ shared'.session.target \in {q.target, NoTarget}
    <3>1. q \in redials'
      BY DEF Loops
    <3>2. PICK r \in redials : SameLoop(r, q)
      BY <1>3, <3>1, OrdinaryThreads DEF SameLoop
    <3>3. r \in Loops
      BY <1>3, <2>2, <3>2 DEF Loops, SameLoop
    <3>4. ASSUME NEW s \in redials, Completed(s) PROVE r.target # s.target
      <4>1. s \in Loops /\ q \in redials /\ q # s
        BY <3>1, <3>4 DEF Completed, Loops
      <4>2. q \in Loops
        BY <1>3, <2>2, <4>1 DEF Loops
      <4> QED
        BY <1>0, <3>2, <4>1, <4>2 DEF LoopsApart, SameLoop
    <3>5. /\ InCharge(r)' \/ (Startless' /\ Over(shared', r))
          /\ ~Startless' =>
                InCharge(r)' /\ shared'.session.target \in {r.target, NoTarget}
      BY <1>3, <3>3, <3>4, LoopStays
    <3> QED
      BY <3>2, <3>5 DEF SameLoop, InCharge, Over
  <2> QED
    BY <2>1, <2>2 DEF LoopInv, LoopsApart, LoopsBeforeStart
<1>4. ASSUME \/ shared'.generation = 0
             \/ shared'.generation = FreshGeneration /\ redials' = redials
      PROVE  LoopInv'
  <2>1. \A r \in redials' : r.generation # 0
    BY DEF Base, TypeOK
  <2>2. Loops' = {}
    BY <1>4, <2>1, FreshIsNobodys DEF Loops
  <2> QED
    BY <1>2, <2>2
<1>5. CASE OrdinaryStep
  <2>1. shared'.generation \in {0, shared.generation}
    BY <1>5, OrdinaryContinues DEF Withdrawn, Continues
  <2> QED
    BY <1>3, <1>4, <1>5, <2>1
<1>6. CASE \/ Up
           \/ \E target \in Chosen : Connect(target)
           \/ \E value \in BOOLEAN : SetPorts(value)
  <2>1. redials' = redials
    BY <1>6 DEF Up, Connect, SetPorts
  <2>2. shared'.generation = FreshGeneration
    BY <1>6, UpIs, ConnectIs, SetPortsIs DEF Claimed
  <2> QED
    BY <1>4, <2>1, <2>2
<1>7. ASSUME NEW d \in deaths, ClaimReconnect(d) PROVE LoopInv'
  <2>1. CASE shared' = shared /\ redials' = redials
    <3>1. starts' = starts
      BY <1>7 DEF ClaimReconnect
    <3> QED
      BY <1>0, <2>1, <3>1 DEF LoopInv, LoopsApart, LoopsBeforeStart, Loops,
                              Startless, InCharge, Over
  <2>2. CASE ~(shared' = shared /\ redials' = redials)
    <3> DEFINE g == d.subject.generation
               new == [generation |-> g, target |-> d.target,
                       subject |-> NoSubject, step |-> "waiting"]
    <3>1. /\ MayClaimReconnect(shared, d)
          /\ shared'.session = shared.session /\ shared'.generation = shared.generation
          /\ shared'.override = [kind |-> "reconnecting", target |-> d.target]
          /\ redials' = redials \cup {new}
      BY <1>7, <2>2, ClaimReconnectIs
    <3>2. starts' = starts /\ (Startless' <=> Startless)
      BY <1>7, <3>1 DEF ClaimReconnect, Startless
    <3>3. new.generation = shared.generation /\ new.target = d.target
      BY <3>1 DEF MayClaimReconnect, Current, IsCurrent
    <3> HIDE DEF new
    <3>4. /\ shared.session.target = d.target
          /\ shared.session.status = "exited"
          /\ shared.override # [kind |-> "reconnecting", target |-> d.target]
          /\ d.target # NoTarget
      <4>1. d.target \in Candidate
        BY ThreadsAre DEF Death
      <4> QED
        BY <3>1, <4>1, PolicyAssumption DEF MayClaimReconnect, Candidate, NoTarget
    <3>5. Loops' = Loops \cup {new}
      BY <3>1, <3>3 DEF Loops
    <3>6. InCharge(new)'
      BY <3>1, <3>3 DEF InCharge
    <3>7. ASSUME NEW r \in Loops
          PROVE  Startless /\ Over(shared', r) /\ r.target # d.target
      <4>1. CASE InCharge(r)
        <5>1. r.target # d.target
          BY <3>4, <4>1 DEF InCharge
        <5>2. shared.session.target \notin {r.target, NoTarget}
          BY <3>4, <5>1
        <5> QED
          BY <1>0, <3>1, <5>1, <5>2 DEF LoopsBeforeStart, Over
      <4>2. CASE ~InCharge(r)
        <5>1. Startless /\ Over(shared, r)
          BY <1>0, <4>2 DEF LoopsApart
        <5> QED
          BY <3>1, <3>4, <5>1 DEF Over
      <4> QED
        BY <4>1, <4>2
    <3>8. LoopsApart'
      BY <1>0, <3>2, <3>3, <3>5, <3>6, <3>7 DEF LoopsApart
    <3>9. ASSUME NEW r \in Loops', ~Startless'
          PROVE  InCharge(r)' /\ shared'.session.target \in {r.target, NoTarget}
      <4>1. r = new
        BY <3>2, <3>5, <3>7, <3>9
      <4> QED
        BY <3>1, <3>3, <3>4, <3>6, <4>1
    <3> QED
      BY <3>8, <3>9 DEF LoopInv, LoopsBeforeStart
  <2> QED
    BY <2>1, <2>2
<1> QED
  BY <1>1, <1>5, <1>6, <1>7, NextCases

\* A loop of the current generation only ends with its schedule.
LEMMA LoopRemains ==
    ASSUME Base, OrdinaryStep, shared'.retry # NoRetry, shared.retry # NoRetry,
           NEW r \in Loops
    PROVE  \E q \in redials' : q.generation = r.generation
<1>0. /\ r \in redials /\ r.generation = shared.generation
      /\ shared.retry.generation = shared.generation
      /\ IsCurrent(shared, r.generation)
  <2>1. r.generation = shared.generation /\ r.generation # 0
    BY ThreadsAre DEF Loops, Redial
  <2> QED
    BY <2>1 DEF Loops, Base, Grounded, IsCurrent
<1>1. ASSUME redials' = redials PROVE \E q \in redials' : q.generation = r.generation
  BY <1>0, <1>1
<1>2. CASE EasyStep \/ Sweep \/ WatchRecover \/ Tick
  <2>1. redials' = redials
    BY <1>2, EasyStepIs DEF threads, Sweep, WatchRecover, Tick
  <2> QED
    BY <1>1, <2>1
<1>3. CASE \E c \in starts : ExplicitStart(c)
  BY <1>1, <1>3 DEF ExplicitStart
<1>4. CASE \E d \in deaths : BeginReconnect(d)
  BY <1>1, <1>4 DEF BeginReconnect
<1>5. CASE \E s \in shared.recoverers :
              RecovererDecide(s) \/ RecovererStart(s) \/ RecovererError(s)
  BY <1>1, <1>5 DEF RecovererDecide, RecovererStart, RecovererError, threads
<1>6. ASSUME NEW c \in confirms, Confirm(c)
      PROVE  \E q \in redials' : q.generation = r.generation
  <2>1. PICK answer \in BOOLEAN : Answered(c, answer)
    BY <1>6, ConfirmIs
  <2>2. PICK f \in [redials -> Redial] :
              /\ redials' = {f[s] : s \in redials}
              /\ \A s \in redials : f[s].generation = s.generation /\ f[s].target = s.target
    BY <2>1, AnsweredIs
  <2>3. f[r] \in redials' /\ f[r].generation = r.generation
    BY <1>0, <2>2
  <2> QED
    BY <2>3
<1>8. ASSUME NEW q \in redials', q.generation = r.generation
      PROVE  \E p \in redials' : p.generation = r.generation
  BY <1>8
<1>9. r \in Redial
  BY <1>0, ThreadsAre
<1>10. ASSUME NEW s \in redials, RedialStart(s)
       PROVE  \E q \in redials' : q.generation = r.generation
  <2> DEFINE failed == [s EXCEPT !.step = "failed"]
             awaiting == [s EXCEPT !.step = "awaiting",
                                   !.subject = Captured(shared', s.generation)]
  <2>1. \/ redials' = redials \ {s} /\ (~IsCurrent(shared, s.generation) \/ shared'.retry = NoRetry)
        \/ redials' = (redials \ {s}) \cup {failed}
        \/ redials' = (redials \ {s}) \cup {awaiting}
    BY <1>10, RedialStartIs
  <2>2. s \in Redial
    BY ThreadsAre
  <2>3. failed.generation = s.generation /\ awaiting.generation = s.generation
    BY <2>2 DEF Redial
  <2> HIDE DEF failed, awaiting
  <2> QED
    BY <1>0, <1>8, <2>1, <2>3
<1>11. ASSUME NEW s \in redials, RedialComplete(s)
       PROVE  \E q \in redials' : q.generation = r.generation
  <2> DEFINE failed == [s EXCEPT !.step = "failed"]
  <2>1. redials' = (redials \ {s}) \cup {failed}
    BY <1>11, RedialCompleteIs
  <2>2. s \in Redial
    BY ThreadsAre
  <2>3. failed.generation = s.generation
    BY <2>2 DEF Redial
  <2> HIDE DEF failed
  <2> QED
    BY <1>0, <1>8, <2>1, <2>3
<1>12. ASSUME NEW s \in redials, RedialAgain(s)
       PROVE  \E q \in redials' : q.generation = r.generation
  <2> DEFINE waiting == [s EXCEPT !.step = "waiting", !.subject = NoSubject]
  <2>1. \/ redials' = (redials \ {s}) \cup {waiting}
        \/ redials' = redials \ {s} /\ shared' = CancelRetry(shared, s.generation)
    BY <1>12, RedialAgainIs
  <2>2. s \in Redial
    BY ThreadsAre
  <2>3. waiting.generation = s.generation
    BY <2>2 DEF Redial
  <2>4. ASSUME shared' = CancelRetry(shared, r.generation) PROVE shared'.retry = NoRetry
    <3>1. shared \in Shared
      BY BaseIs
    <3> QED
      BY <1>0, <2>4, <3>1 DEF CancelRetry, Invalidated, OverrideCleared, Shared
  <2> HIDE DEF waiting
  <2> QED
    BY <1>0, <1>8, <2>1, <2>3, <2>4
<1> QED
  BY <1>2, <1>3, <1>4, <1>5, <1>6, <1>10, <1>11, <1>12 DEF OrdinaryStep

LEMMA RetryNext ==
    ASSUME Base, Base', RetryHasLoop, [Next]_vars
    PROVE  RetryHasLoop'
<1> SUFFICES ASSUME shared'.retry # NoRetry
             PROVE  \E q \in redials' : q.generation = shared'.generation
  BY DEF RetryHasLoop, Base, Grounded
<1>1. CASE UNCHANGED vars
  BY <1>1 DEF vars, threads, RetryHasLoop
<1>2. CASE OrdinaryStep
  <2>1. Continues(shared, shared') /\ shared.retry # NoRetry
    <3>1. Continues(shared, shared')
      BY <1>2, OrdinaryContinues DEF Withdrawn
    <3>2. shared'.retry.generation # 0 /\ shared \in Shared
      BY BaseIs, EntryExists DEF Base, TypeOK
    <3> QED
      BY <3>1, <3>2, EntryExists DEF Continues
  <2>2. PICK r \in Loops : r.generation = shared.generation
    BY <2>1 DEF RetryHasLoop, Loops
  <2> QED
    BY <1>2, <2>1, <2>2, LoopRemains DEF Continues
<1>3. CASE Up
  BY <1>3, UpIs DEF Claimed
<1>4. ASSUME NEW target \in Chosen, Connect(target) PROVE FALSE
  BY <1>4, ConnectIs DEF Claimed
<1>5. ASSUME NEW value \in BOOLEAN, SetPorts(value) PROVE FALSE
  BY <1>5, SetPortsIs
<1>6. ASSUME NEW d \in deaths, ClaimReconnect(d)
      PROVE  \E q \in redials' : q.generation = shared'.generation
  <2> DEFINE new == [generation |-> d.subject.generation, target |-> d.target,
                     subject |-> NoSubject, step |-> "waiting"]
  <2>1. \/ shared' = shared /\ redials' = redials
        \/ /\ d.subject.generation = shared'.generation
           /\ redials' = redials \cup {new}
    BY <1>6, ClaimReconnectIs DEF MayClaimReconnect, Current, IsCurrent
  <2>2. new.generation = d.subject.generation
    OBVIOUS
  <2> HIDE DEF new
  <2> QED
    BY <2>1, <2>2 DEF RetryHasLoop
<1> QED
  BY <1>1, <1>2, <1>3, <1>4, <1>5, <1>6, NextCases

\* A retry belongs to the current generation and has a loop behind it, and no
\* death starts a second loop for a target that is being redialed: neither a
\* cancellation, nor a late start of the generation, nor an answer about an
\* earlier core leaves a schedule nobody follows or doubles its loop.
THEOREM RetryFollowed == Spec => []RetryHasOneLoop
<1>1. Init => RetryHasLoop
  BY DEF Init, RetryHasLoop
<1>2. Base /\ [Next]_vars => Base'
  BY BaseNext
<1>3. Base /\ Base' /\ OwnedInv /\ [Next]_vars => OwnedInv'
  BY OwnedNext
<1>4. Base /\ OnceInv /\ [Next]_vars => OnceInv'
  BY OnceNext
<1>5. Base /\ Base' /\ OwnedInv /\ OnceInv /\ LoopInv /\ [Next]_vars => LoopInv'
  BY LoopNext
<1>6. Base /\ Base' /\ RetryHasLoop /\ [Next]_vars => RetryHasLoop'
  BY RetryNext
<1>7. LoopInv /\ RetryHasLoop => RetryHasOneLoop
  BY LoopIsAlone DEF LoopInv, RetryHasOneLoop
<1> QED
  BY <1>1, <1>2, <1>3, <1>4, <1>5, <1>6, <1>7,
     BaseInit, OwnedInit, OnceInit, LoopInit, PTL DEF Spec

\* Termination is for good.
LEMMA ClosedStays ==
    ASSUME Next, closed
    PROVE  closed'
<1>1. ASSUME NEW g PROVE Threads(g) => closed' = closed
  BY DEF Threads, Starting, Confirming, Dying, Redialing, Failing, ExplicitStart, Confirm,
         BeginReconnect, ClaimReconnect, RedialStart, RedialComplete, RedialAgain,
         RecovererDecide, RecovererStart, RecovererError
<1>2. User => closed' = closed
  BY DEF User, Up, Connect, Down, DeleteInterface, SaveProfile, RemoveProfile, EditFile,
         SetSettings, SetPorts, ChangeCatalog
<1> QED
  BY <1>1, <1>2 DEF Next, CoreExits, Sweep, WatchRecover, ReconcileStandby, Tick,
                    BeginTerminal, Shutdown, Ended, vars

\* The reconnecting status only stays with its schedule.
LEMMA ReconnectingStep ==
    ASSUME Base, OrdinaryStep, ~closed', shared'.override.kind = "reconnecting"
    PROVE  /\ shared.override.kind = "reconnecting"
           /\ shared'.retry.generation = shared.retry.generation
<1>0. Eased(shared, shared') => /\ shared'.override = shared.override
                                /\ shared'.retry.generation = shared.retry.generation
  BY DEF Eased, SameTurn, Withdrawn
<1>1. CASE EasyStep \/ Sweep \/ WatchRecover
  BY <1>0, <1>1, EasyStepIs, SweepIs, WatchRecoverIs DEF Noticed
<1>2. CASE Tick
  BY <1>2, TickIs
<1>3. ASSUME NEW origin, NEW target, NEW g,
             \/ Eased(shared, shared')
             \/ GaveUp(shared, shared', origin, target, g)
             \/ Began(shared, shared', origin, target, g)
      PROVE  /\ shared'.override = shared.override
             /\ shared'.retry.generation = shared.retry.generation
  BY <1>0, <1>3 DEF GaveUp, Began, GoesOn
<1>4. CASE \E b \in starts : ExplicitStart(b)
  BY <1>3, <1>4, ExplicitStartIs
<1>5. ASSUME NEW c \in confirms, Confirm(c)
      PROVE  /\ shared.override.kind = "reconnecting"
             /\ shared'.retry.generation = shared.retry.generation
  <2>1. CASE Proved(shared, shared', c)
    BY <2>1 DEF Proved, NoOverride
  <2>2. CASE Disproved(shared, shared', c)
    BY <2>2 DEF Disproved
  <2>3. CASE shared' = shared
    BY <2>3
  <2> QED
    BY <1>0, <1>5, <2>1, <2>2, <2>3, ConfirmIs DEF Denied
<1>6. CASE \E d \in deaths : BeginReconnect(d)
  BY <1>6, BeginReconnectIs DEF Failure, Quiet
<1>7. CASE \E r \in redials : RedialStart(r)
  BY <1>3, <1>7, RedialStartIs
<1>8. CASE \E r \in redials : RedialComplete(r)
  BY <1>8, RedialCompleteIs DEF NoOverride
<1>9. CASE \E r \in redials : RedialAgain(r)
  BY <1>0, <1>9, RedialAgainIs
<1>10. ASSUME NEW r \in shared.recoverers, RecovererDecide(r)
       PROVE  shared'.override = shared.override /\ shared'.retry = shared.retry
  <2>1. ASSUME NEW m \in Candidate, shared' = Gone(r) \/ shared' = At(r, "starting", m)
        PROVE  shared'.override = shared.override /\ shared'.retry = shared.retry
    <3>1. m \in Target /\ "starting" \in {"deciding", "starting", "erring"}
      BY DEF Target
    <3> QED
      BY <2>1, <3>1, WorkerMovesIs DEF SameButWorkers
  <2>2. 0 \in Candidate
    BY PolicyAssumption DEF Candidate
  <2> QED
    BY <1>10, <2>1, <2>2, RecovererDecideIs
<1>11. CASE \E r \in shared.recoverers : RecovererStart(r)
  BY <1>3, <1>11, RecovererStartIs
<1>12. CASE \E r \in shared.recoverers : RecovererError(r)
  BY <1>0, <1>12, RecovererErrorIs
<1> QED
  BY <1>1, <1>2, <1>4, <1>5, <1>6, <1>7, <1>8, <1>9, <1>10, <1>11, <1>12 DEF OrdinaryStep

\* "reconnecting" is shown only while a retry is scheduled or under way, as
\* long as no change of the ports restarts a core behind the retry's back: that
\* one forgets the schedule and keeps the status.
THEOREM ReconnectingIsRetrying ==
    ASSUME ~PortChanges
    PROVE  Spec => []ReconnectingMeansRetrying
<1>1. Init => ReconnectingMeansRetrying
  BY DEF Init, ReconnectingMeansRetrying, Reconnecting, NoOverride
<1>2. Base /\ Base' /\ ReconnectingMeansRetrying /\ [Next]_vars => ReconnectingMeansRetrying'
  <2> SUFFICES ASSUME Base, Base', ReconnectingMeansRetrying, [Next]_vars,
                      ~closed', shared'.override.kind = "reconnecting"
               PROVE  shared'.retry # NoRetry
    BY DEF ReconnectingMeansRetrying, Reconnecting
  <2>0. shared \in Shared /\ shared' \in Shared
    BY DEF Base, TypeOK
  <2>1. CASE UNCHANGED vars
    BY <2>1 DEF vars, ReconnectingMeansRetrying, Reconnecting
  <2>2. CASE OrdinaryStep
    <3>1. ~closed
      <4>1. CASE UNCHANGED vars
        BY <4>1 DEF vars
      <4> QED
        BY <4>1, ClosedStays
    <3>2. shared.retry # NoRetry
      BY <2>2, <3>1, ReconnectingStep DEF ReconnectingMeansRetrying, Reconnecting
    <3> QED
      BY <2>0, <2>2, <3>2, ReconnectingStep, EntryExists
  <2>3. CASE Up
    BY <2>3, UpIs DEF Claimed, NoOverride
  <2>4. ASSUME NEW target \in Chosen, Connect(target) PROVE FALSE
    BY <2>4, ConnectIs DEF Claimed, NoOverride
  <2>5. ASSUME NEW value \in BOOLEAN, SetPorts(value) PROVE FALSE
    BY <2>5 DEF SetPorts
  <2>6. ASSUME NEW d \in deaths, ClaimReconnect(d) PROVE shared'.retry # NoRetry
    <3>1. CASE shared' = shared
      <4>1. closed' = closed
        BY <2>6 DEF ClaimReconnect
      <4> QED
        BY <3>1, <4>1 DEF ReconnectingMeansRetrying, Reconnecting
    <3>2. CASE shared' # shared
      <4> DEFINE g == d.subject.generation
      <4>1. /\ MayClaimReconnect(shared, d)
            /\ shared'.retry = [generation |-> g, attempting |-> FALSE, allowed |-> TRUE]
        BY <2>6, <3>2, ClaimReconnectIs
      <4>2. g # 0
        BY <4>1 DEF MayClaimReconnect, Current, IsCurrent
      <4>3. shared'.retry.generation = g
        BY <4>1
      <4> QED
        BY <2>0, <4>2, <4>3, EntryExists
    <3> QED
      BY <3>1, <3>2
  <2> QED
    BY <2>1, <2>2, <2>3, <2>4, <2>5, <2>6, NextCases
<1> QED
  BY <1>1, <1>2, BaseInit, BaseNext, PTL DEF Spec

-----------------------------------------------------------------------------
(* The direct listeners.                                                   *)

\* They only open where the session was found idle.
LEMMA StandbyOpens ==
    ASSUME Next, ~standby, standby'
    PROVE  ReconcileStandby
<1>0. ASSUME NEW s, NEW origin, NEW target, NEW g,
             \/ Refused(s, origin, target, g)
             \/ Failed(s, origin, target, g)
             \/ Launched(s, origin, target, g)
      PROVE  FALSE
  BY <1>0 DEF Refused, Failed, Launched
<1>1. ASSUME NEW g, Threads(g) PROVE FALSE
  <2>1. ~Starting(g)
    BY <1>0 DEF Starting, ExplicitStart
  <2>2. ~Redialing(g)
    BY <1>0 DEF Redialing, RedialStart, RedialComplete, RedialAgain
  <2>3. ~Failing(g)
    BY <1>0 DEF Failing, RecovererDecide, RecovererStart, RecovererError
  <2>4. ~Confirming(g) /\ ~Dying(g)
    BY DEF Confirming, Dying, Confirm, BeginReconnect, ClaimReconnect
  <2> QED
    BY <1>1, <2>1, <2>2, <2>3, <2>4 DEF Threads
<1>2. User => standby' = standby \/ standby' = FALSE
  BY DEF User, Up, Connect, Down, DeleteInterface, SaveProfile, RemoveProfile, EditFile,
         SetSettings, SetPorts, ChangeCatalog
<1> QED
  BY <1>1, <1>2 DEF Next, CoreExits, Sweep, WatchRecover, Tick, BeginTerminal,
                    Shutdown, Ended, vars

\* An idle session has no generation that failover owns or a loop redials.
LEMMA IdleIsNobodys ==
    ASSUME Base, ~closed, ~Busy(shared)
    PROVE  /\ shared.entry = NoEntry
           /\ \A r \in redials : ~RetryCurrent(shared, r.target, r.generation)
           /\ Present(shared) =>
                 shared.session.status # "connected" /\ ~shared.session.holding
<1>1. shared \in Shared /\ (~Present(shared) => shared.generation = 0)
  BY DEF Base, TypeOK, Grounded, Sound
<1>2. shared.entry = NoEntry
  <2> SUFFICES ASSUME shared.entry # NoEntry PROVE FALSE
    OBVIOUS
  <2>1. shared.entry.generation = shared.generation /\ shared.generation # 0
    BY <1>1, EntryExists DEF Base, Grounded, Sound
  <2> QED
    BY <1>1, <2>1 DEF Busy, Owns
<1>3. ASSUME NEW r \in redials, RetryCurrent(shared, r.target, r.generation) PROVE FALSE
  <2>1. /\ reconnect /\ shared.generation # 0
        /\ shared.override.kind = "reconnecting"
    BY <1>3 DEF RetryCurrent, RetryReceipt, IsCurrent
  <2> QED
    BY <1>1, <2>1 DEF Busy
<1> QED
  BY <1>2, <1>3 DEF Busy

LEMMA StaysShutStep ==
    ASSUME Base, [Next]_vars, ~standby, standby'
    PROVE  /\ shared.entry = NoEntry
           /\ \A r \in redials : ~RetryCurrent(shared, r.target, r.generation)
<1>1. Next
  BY DEF vars
<1>2. ~closed /\ ~Busy(shared)
  BY <1>1, StandbyOpens DEF ReconcileStandby
<1> QED
  BY <1>2, IdleIsNobodys

\* The ports never open while somebody may still start a core unasked: neither
\* through the waits of a loop that is still wanted, nor for as long as failover
\* owns the generation.
THEOREM StandbyWaits == Spec => StandbyStaysShut
<1>1. Base /\ [Next]_vars =>
         [~standby /\ standby' =>
             /\ shared.entry = NoEntry
             /\ \A r \in redials : ~RetryCurrent(shared, r.target, r.generation)]_vars
  BY StaysShutStep
<1> QED
  BY <1>1, BaseInit, BaseNext, PTL DEF Spec, StandbyStaysShut

\* Beside the open ports nothing runs and nothing is held, and a session that
\* failover owns then is the one its Up has just prepared.
StandbyInv ==
    standby =>
        /\ Present(shared) => shared.session.status # "connected" /\ ~shared.session.holding
        /\ shared.entry # NoEntry => shared.session.target = NoTarget

LEMMA StandbyInit == Init => StandbyInv
BY DEF Init, StandbyInv

\* What is owned stays owned, and only Up makes something owned.
LEMMA OwnershipStep ==
    ASSUME Base, Next, shared'.entry # NoEntry
    PROVE  shared.entry # NoEntry \/ Up
<1>1. CASE OrdinaryStep
  BY <1>1, OrdinaryContinues DEF Withdrawn, Continues, SameGrant
<1>2. ASSUME NEW d \in deaths, ClaimReconnect(d) PROVE shared.entry # NoEntry
  BY <1>2, ClaimReconnectIs
<1>3. ASSUME NEW target \in Chosen, Connect(target) PROVE FALSE
  BY <1>3, ConnectIs
<1>4. ASSUME NEW value \in BOOLEAN, SetPorts(value) PROVE FALSE
  BY <1>4, SetPortsIs
<1> QED
  BY <1>1, <1>2, <1>3, <1>4, NextCases

LEMMA StandbyNext ==
    ASSUME ~Tun, Base, Base', StandbyInv, [Next]_vars
    PROVE  StandbyInv'
<1> SUFFICES ASSUME standby'
             PROVE  /\ Present(shared') => /\ shared'.session.status # "connected"
                                           /\ ~shared'.session.holding
                    /\ shared'.entry # NoEntry => shared'.session.target = NoTarget
  BY DEF StandbyInv
<1>1. CASE UNCHANGED vars
  BY <1>1 DEF vars, StandbyInv
<1>2. CASE Next /\ ~standby
  <2>1. ~closed /\ ~Busy(shared) /\ shared' = shared
    BY <1>2, StandbyOpens DEF ReconcileStandby
  <2> QED
    BY <2>1, IdleIsNobodys
<1>3. CASE Next /\ standby
  <2>0. /\ Present(shared) => shared.session.status # "connected" /\ ~shared.session.holding
        /\ shared.entry # NoEntry => shared.session.target = NoTarget
    BY <1>3 DEF StandbyInv
  <2>1. CASE Up
    BY <2>1, UpIs DEF Prepared
  <2>2. ASSUME NEW target \in Chosen, Connect(target)
        PROVE  /\ shared'.session.status # "connected" /\ ~shared'.session.holding
               /\ shared'.entry = NoEntry
    <3>1. CASE Present(shared)
      BY <2>0, <2>2, <3>1, ConnectIs
    <3>2. CASE ~Present(shared)
      BY <2>2, <3>2, ConnectIs DEF Prepared
    <3> QED
      BY <3>1, <3>2
  <2>3. ASSUME NEW value \in BOOLEAN, SetPorts(value) PROVE FALSE
    BY <2>3, SetPortsIs
  <2>4. ASSUME ~Up, Present(shared'), shared'.session = shared.session \/ Weaker(shared, shared')
        PROVE  /\ shared'.session.status # "connected" /\ ~shared'.session.holding
               /\ shared'.entry # NoEntry => shared'.session.target = NoTarget
    <3>1. shared'.entry # NoEntry => shared.entry # NoEntry
      BY <1>3, <2>4, OwnershipStep
    <3>2. CASE shared'.session = shared.session
      BY <2>0, <2>4, <3>1, <3>2 DEF Present
    <3>3. CASE Weaker(shared, shared')
      BY <2>0, <2>4, <3>1, <3>3 DEF Weaker, Calmer, StillBorn
    <3> QED
      BY <2>4, <3>2, <3>3
  <2>5. ASSUME NEW c \in confirms, ProvedBy(c) PROVE FALSE
    BY <2>0, <2>5 DEF ProvedBy, Proved
  <2>6. CASE Unproved
    BY <2>6 DEF Unproved
  <2>7. shared'.entry # NoEntry => Present(shared')
    <3>1. shared' \in Shared
      BY DEF Base, TypeOK
    <3> QED
      BY <3>1, EntryExists DEF Base, Grounded, Sound
  <2>8. CASE OrdinaryStep \/ \E d \in deaths : ClaimReconnect(d)
    <3>1. ~Renewed
      <4>1. shared'.generation \in {0, shared.generation}
        BY <2>8, OrdinaryContinues, ClaimReconnectIs DEF Withdrawn, Continues
      <4> QED
        BY <4>1, FreshIsNobodys DEF Renewed
    <3> QED
      BY <1>3, <2>1, <2>4, <2>5, <2>6, <2>7, <3>1, SessionStep
  <2> QED
    BY <1>3, <2>1, <2>2, <2>3, <2>8, NextCases
<1> QED
  BY <1>1, <1>2, <1>3

\* For a profile without an interface the direct listeners never coexist with a
\* core or with held routes, and they wait for whoever may still start one.
THEOREM StandbyExcluded ==
    ASSUME ~Tun
    PROVE  Spec => StandbyYields
<1>1. Base /\ StandbyInv => StandbyExcludesCore
  BY DEF Base, Grounded, Sound, SoundSession, StandbyInv, StandbyExcludesCore
<1>2. Base /\ Base' /\ StandbyInv /\ [Next]_vars => StandbyInv'
  BY StandbyNext
<1> QED
  BY <1>1, <1>2, BaseInit, BaseNext, StandbyInit, StandbyWaits, PTL
     DEF Spec, StandbyYields

-----------------------------------------------------------------------------
(* Nothing that recovers on its own is left alone.                         *)

\* What the decisions about an activation say of it.
LEMMA KindIs ==
    ASSUME NEW a \in ActivationRecord, NEW backoff \in Nat
    PROVE  /\ Kind(a, backoff) = "attempt" =>
                 /\ a.armed /\ a.episode /\ ~a.inFlight /\ a.cooldown = 0 /\ backoff = 0
                 /\ Kind(Elapsed(a), 0) = "attempt"
           /\ Kind(a, 0) \in {"wait", "attempt"} => a.armed /\ a.episode /\ ~a.inFlight
           /\ Kind(a, backoff) \in {"idle", "exhausted", "disarmed"} =>
                 Kind(a, 0) \notin {"wait", "attempt"}
           /\ Kind(Elapsed(a), 0) \in {"wait", "attempt"} => Kind(a, 0) \in {"wait", "attempt"}
<1>1. /\ Elapsed(a).armed = a.armed /\ Elapsed(a).inFlight = a.inFlight
      /\ Elapsed(a).episode = a.episode /\ Elapsed(a).attempts = a.attempts
      /\ Elapsed(a).visited = a.visited
      /\ Elapsed(a).cooldown = IF a.cooldown > 0 THEN a.cooldown - 1 ELSE 0
  BY DEF Elapsed, ActivationRecord
<1>2. a.cooldown \in Nat /\ a.attempts \in Nat
  BY PolicyAssumption DEF ActivationRecord
<1>3. Kind(a, backoff) = "attempt" =>
         /\ a.armed /\ a.episode /\ ~a.inFlight /\ a.cooldown = 0 /\ backoff = 0
         /\ a.attempts < MaxAttempts /\ ~(Candidate \subseteq a.visited)
  BY <1>2, PolicyAssumption DEF Kind, ActivationRecord
<1>4. Kind(a, 0) \in {"wait", "attempt"} => a.armed /\ a.episode /\ ~a.inFlight
  BY DEF Kind, ActivationRecord
<1>5. Kind(a, backoff) \in {"idle", "exhausted", "disarmed"} =>
         Kind(a, 0) \notin {"wait", "attempt"}
  BY DEF Kind, ActivationRecord
<1>6. Kind(a, backoff) = "attempt" => Kind(Elapsed(a), 0) = "attempt"
  BY <1>1, <1>2, <1>3, PolicyAssumption DEF Kind, ActivationRecord
<1>7. Kind(Elapsed(a), 0) \in {"wait", "attempt"} => Kind(a, 0) \in {"wait", "attempt"}
  BY <1>1 DEF Kind, ActivationRecord
<1> QED
  BY <1>3, <1>4, <1>5, <1>6, <1>7

\* The workers of the entry.
Workers(s) == {r \in s.recoverers : r.generation = s.entry.generation}

\* The entry knows which attempt is automatic, and whom it is for,
Tallied(e) ==
    /\ e.automatic = e.activation.inFlight
    /\ e.activation.inFlight => e.activation.current = e.current

\* an attempt that may still count is bound to the run the session carries,
Bound(s) ==
    s.entry.activation.armed /\ s.entry.activation.inFlight =>
        /\ s.entry.subject = Captured(s, s.generation)
        /\ s.session.target = s.entry.current

\* no episode opens before the explicit start,
Unstarted(s) == ~s.entry.activation.episode /\ s.session.target = NoTarget

\* and the `worker` flag says whether there is a worker, whose decision holds.
Attended(s) ==
    LET a == s.entry.activation IN
    /\ \A p, q \in Workers(s) : p = q
    /\ Workers(s) # {} => s.entry.worker
    /\ a.armed /\ s.entry.worker => Workers(s) # {}
    /\ a.armed =>
          \A r \in Workers(s) : r.step = "starting" => CanAdmit(a, r.target, s.entry.backoff)
    /\ a.armed /\ Kind(a, 0) \in {"wait", "attempt"} => s.entry.worker

EpisodeInv ==
    shared.entry # NoEntry =>
        /\ Tallied(shared.entry) /\ Bound(shared) /\ Attended(shared)
        /\ Startless \/ Unstarted(shared)

Awaited ==
    shared.entry.activation.inFlight =>
        \E c \in confirms : c.subject = shared.entry.subject /\ c.target = shared.entry.current

LEMMA EpisodeInit == Init => EpisodeInv /\ InFlightHasConfirmation
BY DEF Init, EpisodeInv, InFlightHasConfirmation, Armed

\* What is known of an entry, the parts of the induction at once.
EpisodeBase ==
    /\ Base /\ Base' /\ EntryAccounted /\ EpisodeInv /\ InFlightHasConfirmation /\ OnceInv
    /\ shared.entry # NoEntry /\ shared'.entry # NoEntry

LEMMA EpisodeFacts ==
    ASSUME EpisodeBase
    PROVE  LET e == shared.entry
               a == shared.entry.activation
           IN  /\ e \in Entry /\ a \in ActivationRecord /\ Accounted(a)
               /\ e.backoff \in Nat /\ e.current \in Candidate
               /\ shared'.entry \in Entry /\ shared'.entry.activation \in ActivationRecord
               /\ e.generation = shared.generation /\ shared.generation # 0
               /\ shared'.entry.generation = shared'.generation /\ shared'.generation # 0
               /\ Present(shared) /\ Present(shared') /\ ~closed
               /\ Tallied(e) /\ Bound(shared) /\ Attended(shared)
               /\ Startless \/ Unstarted(shared)
               /\ a.armed => Awaited
<1>1. shared \in Shared /\ shared' \in Shared
  BY DEF EpisodeBase, Base, TypeOK
<1>2. shared.entry \in Entry /\ shared'.entry \in Entry
  BY <1>1 DEF EpisodeBase, Shared
<1>3. /\ shared.entry.generation = shared.generation /\ shared.generation # 0
      /\ shared'.entry.generation = shared'.generation /\ shared'.generation # 0
      /\ Present(shared) /\ Present(shared') /\ ~closed
  BY <1>2 DEF EpisodeBase, Base, Grounded, Sound, Entry
<1>4. /\ shared.entry.activation \in ActivationRecord /\ shared.entry.backoff \in Nat
      /\ shared.entry.current \in Candidate
      /\ shared'.entry.activation \in ActivationRecord
  BY <1>2, ConnectionAssumption DEF Entry
<1>5. shared.entry.activation.armed => Awaited
  BY DEF EpisodeBase, InFlightHasConfirmation, Armed, Awaited
<1> QED
  BY <1>2, <1>3, <1>4, <1>5 DEF EpisodeBase, EntryAccounted, EpisodeInv

\* The parts of what is to be shown.
LEMMA EpisodeGoal ==
    ASSUME Tallied(shared'.entry), Bound(shared'), Attended(shared'),
           Startless' \/ Unstarted(shared'),
           shared'.entry.activation.armed => Awaited'
    PROVE  EpisodeInv' /\ InFlightHasConfirmation'
BY DEF EpisodeInv, InFlightHasConfirmation, Armed, Awaited

\* The attempt in flight, if it may still count, goes on.
Undisturbed ==
    Armed(shared') /\ shared.entry.activation.inFlight =>
        /\ shared'.session.run = shared.session.run
        /\ shared'.session.spawned = shared.session.spawned
        /\ shared'.session.target = shared.session.target
        /\ \A c \in confirms \ confirms' :
              ~(c.subject = shared.entry.subject /\ c.target = shared.entry.current)

\* A step that leaves the entry as it is, or only takes its grant away.
LEMMA KeptIsAttended ==
    ASSUME EpisodeBase, Kept(shared.entry, shared'.entry),
           shared'.generation = shared.generation,
           Workers(shared') = Workers(shared), starts' \subseteq starts,
           shared'.session.target \in {shared.session.target, NoTarget},
           Undisturbed
    PROVE  EpisodeInv' /\ InFlightHasConfirmation'
<1> DEFINE e == shared.entry
           f == shared'.entry
           a == e.activation
           b == f.activation
<1>0. /\ e \in Entry /\ a \in ActivationRecord
      /\ Tallied(e) /\ Bound(shared) /\ Attended(shared)
      /\ Startless \/ Unstarted(shared)
      /\ a.armed => Awaited
  BY EpisodeFacts
<1>1. /\ b \in {a, Disarmed(a)}
      /\ f.subject = e.subject /\ f.current = e.current
      /\ f.automatic = e.automatic /\ f.worker = e.worker /\ f.backoff = e.backoff
  BY DEF Kept, EpisodeBase
<1>2. /\ b.inFlight = a.inFlight /\ b.current = a.current /\ b.episode = a.episode
      /\ b.armed => a.armed /\ b = a
      /\ b.armed => Armed(shared')
  BY <1>0, <1>1 DEF Disarmed, ActivationRecord, Armed, EpisodeBase
<1>3. Tallied(f)
  BY <1>0, <1>1, <1>2 DEF Tallied
<1>4. Bound(shared')
  BY <1>0, <1>1, <1>2 DEF Bound, Captured, Undisturbed
<1>5. Attended(shared')
  BY <1>0, <1>1, <1>2 DEF Attended
<1>6. Startless' \/ Unstarted(shared')
  BY <1>0, <1>2 DEF Startless, Unstarted
<1>7. b.armed => Awaited'
  BY <1>0, <1>1, <1>2 DEF Awaited, Undisturbed
<1> QED
  BY <1>3, <1>4, <1>5, <1>6, <1>7, EpisodeGoal

\* Easing, with the confirmations kept.
LEMMA EasedIsAttended ==
    ASSUME EpisodeBase, Eased(shared, shared'),
           Workers(shared') = Workers(shared), starts' \subseteq starts,
           Armed(shared') => confirms \subseteq confirms'
    PROVE  EpisodeInv' /\ InFlightHasConfirmation'
<1>1. Present(shared) /\ Present(shared')
  BY EpisodeFacts
<1>2. SameTurn(shared, shared')
  BY DEF Eased, Withdrawn, EpisodeBase
<1>3. shared'.session.target \in {shared.session.target, NoTarget}
  BY <1>1 DEF Eased, Weaker, Calmer, StillBorn
<1>4. Kept(shared.entry, shared'.entry) /\ shared'.generation = shared.generation
  BY <1>2 DEF SameTurn
<1>5. Undisturbed
  BY <1>2 DEF SameTurn, Undisturbed
<1> QED
  BY <1>3, <1>4, <1>5, KeptIsAttended

\* A step that leaves the entry, the session and the threads alone.
LEMMA SameIsAttended ==
    ASSUME EpisodeBase, shared'.entry = shared.entry, shared'.session = shared.session,
           shared'.generation = shared.generation,
           Workers(shared') = Workers(shared), starts' \subseteq starts,
           confirms \subseteq confirms'
    PROVE  EpisodeInv' /\ InFlightHasConfirmation'
<1>1. Kept(shared.entry, shared'.entry)
  BY DEF Kept, SameGrant
<1>2. Undisturbed
  BY DEF Undisturbed
<1>3. shared'.session.target \in {shared.session.target, NoTarget}
  OBVIOUS
<1> QED
  BY <1>1, <1>2, <1>3, KeptIsAttended

\* The watchdog binds the entry to the run the session carries.
LEMMA NoticedIsAttended ==
    ASSUME EpisodeBase, Noticed(shared, shared'), shared'.recoverers = shared.recoverers,
           starts' = starts, confirms' = confirms
    PROVE  EpisodeInv' /\ InFlightHasConfirmation'
<1> DEFINE e == shared.entry
           f == shared'.entry
           a == e.activation
<1>0. /\ Tallied(e) /\ Bound(shared) /\ Attended(shared)
      /\ Startless \/ Unstarted(shared)
      /\ a.armed => Awaited
  BY EpisodeFacts
<1>1. /\ f.activation = a /\ f.current = e.current
      /\ f.automatic = e.automatic /\ f.worker = e.worker /\ f.backoff = e.backoff
      /\ f.subject = Captured(shared', shared'.generation)
      /\ f.generation = e.generation /\ shared'.generation = shared.generation
      /\ shared'.session.target = shared.session.target
      /\ Captured(shared', shared'.generation) = Captured(shared, shared.generation)
  BY DEF Noticed, SameGrant, Captured
<1>2. Workers(shared') = Workers(shared)
  BY <1>1 DEF Workers
<1>3. Tallied(f) /\ Bound(shared')
  BY <1>0, <1>1 DEF Tallied, Bound
<1>4. Attended(shared')
  BY <1>0, <1>1, <1>2 DEF Attended
<1>5. Startless' \/ Unstarted(shared')
  BY <1>0, <1>1 DEF Startless, Unstarted
<1>6. a.armed => Awaited'
  BY <1>0, <1>1 DEF Awaited, Bound
<1> QED
  BY <1>1, <1>3, <1>4, <1>5, <1>6, EpisodeGoal

\* Time brings nothing that a worker has not foreseen.
LEMMA AgedIsAttended ==
    ASSUME EpisodeBase, Tick
    PROVE  EpisodeInv' /\ InFlightHasConfirmation'
<1> DEFINE e == shared.entry
           f == shared'.entry
           a == e.activation
           b == f.activation
<1>0. /\ e \in Entry /\ a \in ActivationRecord /\ e.backoff \in Nat
      /\ Tallied(e) /\ Bound(shared) /\ Attended(shared)
      /\ Startless \/ Unstarted(shared)
      /\ a.armed => Awaited
  BY EpisodeFacts
<1>1. /\ shared'.generation = shared.generation /\ shared'.session = shared.session
      /\ shared'.recoverers = shared.recoverers
      /\ b = Elapsed(a) /\ f.generation = e.generation
      /\ f.subject = e.subject /\ f.current = e.current
      /\ f.automatic = e.automatic /\ f.worker = e.worker
      /\ f.backoff = IF e.backoff > 0 THEN e.backoff - 1 ELSE 0
      /\ starts' = starts /\ confirms' = confirms
  BY EpisodeFacts, TickIs DEF Aged, SameGrant, Tick, threads, EpisodeBase
<1>2. /\ b.inFlight = a.inFlight /\ b.current = a.current /\ b.episode = a.episode
      /\ b.armed = a.armed /\ b.visited = a.visited
  BY <1>0, <1>1 DEF Elapsed, ActivationRecord
<1>3. Workers(shared') = Workers(shared)
  BY <1>1 DEF Workers
<1>4. Tallied(f) /\ Bound(shared')
  BY <1>0, <1>1, <1>2 DEF Tallied, Bound, Captured
<1>5. ASSUME NEW m, CanAdmit(a, m, e.backoff) PROVE CanAdmit(b, m, f.backoff)
  <2>1. f.backoff = 0 /\ Kind(b, 0) = "attempt"
    BY <1>0, <1>1, <1>5, KindIs DEF CanAdmit
  <2>2. IsNext(b, m)
    BY <1>2, <1>5 DEF CanAdmit, IsNext, Open
  <2> QED
    BY <2>1, <2>2 DEF CanAdmit
<1>6. Kind(b, 0) \in {"wait", "attempt"} => Kind(a, 0) \in {"wait", "attempt"}
  BY <1>0, <1>1, KindIs
<1>7. Attended(shared')
  BY <1>0, <1>1, <1>2, <1>3, <1>5, <1>6 DEF Attended
<1>8. Startless' \/ Unstarted(shared')
  BY <1>0, <1>1, <1>2 DEF Startless, Unstarted
<1>9. b.armed => Awaited'
  BY <1>0, <1>1, <1>2 DEF Awaited
<1> QED
  BY <1>4, <1>7, <1>8, <1>9, EpisodeGoal

\* A failure that was heard: an attempt ends, or an episode begins, and a worker is
\* there to go on; nobody else was about to start.
LEMMA FailureIsAttended ==
    ASSUME EpisodeBase, Armed(shared), SameGrant(shared.entry, shared'.entry),
           FailureOutcome(shared, shared'),
           shared'.generation = shared.generation, starts' \subseteq starts,
           shared.session.target # NoTarget,
           shared'.session.target \in {shared.session.target, NoTarget}
    PROVE  EpisodeInv' /\ InFlightHasConfirmation'
<1> DEFINE e == shared.entry
           f == shared'.entry
           a == e.activation
           b == f.activation
           worker == Worker(e.generation)
<1>0. /\ e \in Entry /\ a \in ActivationRecord /\ Accounted(a) /\ e.backoff \in Nat
      /\ Tallied(e) /\ Bound(shared) /\ Attended(shared)
      /\ Startless \/ Unstarted(shared)
  BY EpisodeFacts
<1>1. /\ IsInFlight(a, e.current) <=> a.inFlight
      /\ e.automatic = a.inFlight /\ a.armed
      /\ f.generation = e.generation
  BY <1>0 DEF Tallied, IsInFlight, Armed, SameGrant, EpisodeBase
<1>2. CASE SameButConfirming(e, f) /\ shared'.recoverers = shared.recoverers /\ ~a.inFlight
  <2>1. Kept(e, f)
    BY <1>2 DEF SameButConfirming, Kept
  <2>2. Workers(shared') = Workers(shared)
    BY <1>1, <1>2 DEF Workers
  <2>3. Undisturbed
    BY <1>2 DEF Undisturbed
  <2> QED
    BY <2>1, <2>2, <2>3, KeptIsAttended
<1>3. CASE /\ b = Disarmed(a)
           /\ f.subject = e.subject /\ f.current = e.current
           /\ f.automatic = e.automatic /\ f.worker = e.worker /\ f.backoff = e.backoff
           /\ shared'.recoverers = shared.recoverers
  <2>1. Kept(e, f)
    BY <1>3 DEF Kept
  <2>2. Workers(shared') = Workers(shared)
    BY <1>1, <1>3 DEF Workers
  <2>3. ~Armed(shared')
    BY <1>0, <1>3 DEF Armed, Disarmed, ActivationRecord
  <2>4. Undisturbed
    BY <2>3 DEF Undisturbed
  <2> QED
    BY <2>1, <2>2, <2>4, KeptIsAttended
<1>4. ASSUME \/ a.inFlight /\ b = AttemptFailed(a)
             \/ ~a.inFlight /\ CanBeginEpisode(a, e.current) /\ b = BegunEpisode(a),
             ~f.automatic, f.worker,
             shared'.recoverers = IF e.worker THEN shared.recoverers
                                  ELSE shared.recoverers \cup {worker}
      PROVE  EpisodeInv' /\ InFlightHasConfirmation'
  <2>1. /\ ~b.inFlight /\ b.armed
        /\ ~a.episode \/ a.inFlight
    BY <1>0, <1>1, <1>4 DEF AttemptFailed, BegunEpisode, CanBeginEpisode, ActivationRecord
  <2>2. ASSUME NEW r \in Workers(shared) PROVE r.step # "starting"
    <3>1. ASSUME NEW m, CanAdmit(a, m, e.backoff) PROVE FALSE
      <4>1. Kind(a, e.backoff) = "attempt"
        BY <3>1 DEF CanAdmit
      <4> QED
        BY <1>0, <2>1, <4>1, KindIs
    <3> QED
      BY <1>0, <1>1, <2>2, <3>1 DEF Attended
  <2>3. Workers(shared') = IF e.worker THEN Workers(shared) ELSE {worker}
    <3>1. ~e.worker => Workers(shared) = {}
      BY <1>0 DEF Attended
    <3>2. worker.generation = e.generation
      BY DEF Worker
    <3> HIDE DEF worker
    <3> QED
      BY <1>1, <1>4, <3>1, <3>2 DEF Workers
  <2>4. worker.step # "starting"
    BY DEF Worker
  <2> HIDE DEF worker
  <2>5. /\ \A p, q \in Workers(shared') : p = q
        /\ Workers(shared') # {}
        /\ \A r \in Workers(shared') : r.step # "starting"
    BY <1>0, <1>1, <2>2, <2>3, <2>4 DEF Attended
  <2>6. Attended(shared')
    BY <1>4, <2>5 DEF Attended
  <2>7. Tallied(f) /\ Bound(shared') /\ (b.armed => Awaited')
    <3>1. f.automatic = FALSE /\ b.inFlight = FALSE
      <4>1. f \in Entry /\ b \in ActivationRecord
        BY EpisodeFacts
      <4> QED
        BY <1>4, <2>1, <4>1 DEF Entry, ActivationRecord
    <3> QED
      BY <3>1 DEF Tallied, Bound, Awaited
  <2>8. Startless'
    BY <1>0 DEF Startless, Unstarted
  <2> QED
    BY <2>6, <2>7, <2>8, EpisodeGoal
<1> HIDE DEF worker
<1> QED
  BY <1>0, <1>1, <1>2, <1>3, <1>4 DEF FailureOutcome, SameButConfirming, worker

\* The entry that is still there after an easing, and its workers.
LEMMA EasedKeepsWorkers ==
    ASSUME EpisodeBase, Eased(shared, shared')
    PROVE  /\ SameTurn(shared, shared')
           /\ shared'.generation = shared.generation
           /\ shared'.entry.generation = shared.entry.generation
           /\ shared'.recoverers = shared.recoverers => Workers(shared') = Workers(shared)
<1>1. SameTurn(shared, shared')
  BY DEF Eased, Withdrawn, EpisodeBase
<1> QED
  BY <1>1 DEF SameTurn, Kept, SameGrant, Workers, EpisodeBase

\* The confirmation an attempt in flight waits for is one about the core that runs, and
\* the only one.
LEMMA AwaitedIsCurrent ==
    ASSUME EpisodeBase, NEW c \in confirms, Armed(shared), shared.entry.activation.inFlight
    PROVE  /\ c.subject = shared.entry.subject /\ c.target = shared.entry.current =>
                 /\ Current(shared, c.subject) /\ Matches(shared, c.target, c.subject)
                 /\ shared.session.target = c.target
                 /\ Owns(shared, c.subject.generation)
           /\ Current(shared, c.subject) /\ shared.session.target = c.target =>
                 Matches(shared, c.target, c.subject)
<1> DEFINE e == shared.entry
<1>1. /\ e.subject = Captured(shared, shared.generation) /\ shared.session.target = e.current
      /\ e.current \in Candidate
      /\ e.generation = shared.generation /\ shared.generation # 0
      /\ Present(shared) /\ ~closed /\ e # NoEntry
  BY EpisodeFacts DEF Bound, Armed, EpisodeBase
<1>2. e.current # NoTarget
  BY <1>1, PolicyAssumption DEF Candidate, NoTarget
<1>3. ASSUME c.subject = e.subject, c.target = e.current
      PROVE  /\ Current(shared, c.subject) /\ Matches(shared, c.target, c.subject)
             /\ shared.session.target = c.target /\ Owns(shared, c.subject.generation)
  BY <1>1, <1>2, <1>3 DEF Current, IsCurrent, Captured, Matches, Owns
<1>4. ASSUME Current(shared, c.subject), shared.session.target = c.target
      PROVE  Matches(shared, c.target, c.subject)
  <2>1. c.subject \in Subject
    BY ThreadsAre DEF EpisodeBase, Confirmation
  <2>2. /\ c.subject.generation = shared.generation
        /\ c.subject.run = shared.session.run /\ c.subject.spawned = shared.session.spawned
    BY <1>4 DEF Current, IsCurrent
  <2>3. c.subject = Captured(shared, shared.generation)
    BY <2>1, <2>2 DEF Captured, Subject
  <2> QED
    BY <1>1, <1>4, <2>2, <2>3 DEF Matches, Owns
<1> QED
  BY <1>3, <1>4

\* The attempt was proved, or some other core of the entry was.
LEMMA ProvedIsAttended ==
    ASSUME EpisodeBase, NEW c \in confirms, confirms' = confirms \ {c}, starts' = starts,
           Proved(shared, shared', c), Matches(shared, c.target, c.subject)
    PROVE  EpisodeInv' /\ InFlightHasConfirmation'
<1> DEFINE e == shared.entry
           f == shared'.entry
           a == e.activation
           b == f.activation
<1>0. /\ e \in Entry /\ a \in ActivationRecord /\ Accounted(a) /\ e.backoff \in Nat
      /\ f \in Entry /\ b \in ActivationRecord
      /\ Tallied(e) /\ Bound(shared) /\ Attended(shared)
      /\ Startless \/ Unstarted(shared)
  BY EpisodeFacts
<1>1. /\ f.generation = e.generation /\ shared'.generation = shared.generation
      /\ shared'.recoverers = shared.recoverers
      /\ f.worker = e.worker /\ f.backoff = e.backoff /\ ~f.automatic
      /\ shared.session.target = c.target
      /\ b = IF e.automatic /\ IsInFlight(a, e.current) THEN ConfirmedSuccess(a) ELSE a
  BY DEF Proved, SameGrant, EpisodeBase
<1>2. /\ a.inFlight => b = ConfirmedSuccess(a)
      /\ ~a.inFlight => b = a
  BY <1>0, <1>1 DEF Tallied, IsInFlight
<1>3. /\ ~b.inFlight /\ b.armed = a.armed
      /\ b.episode => b = a
  BY <1>0, <1>2 DEF ConfirmedSuccess, ActivationRecord
<1>4. Workers(shared') = Workers(shared)
  BY <1>1 DEF Workers
<1>5. ASSUME NEW m, CanAdmit(a, m, e.backoff) PROVE b = a
  <2>1. ~a.inFlight
    BY <1>0, <1>5, KindIs DEF CanAdmit
  <2> QED
    BY <1>2, <2>1
<1>6. Kind(b, 0) \in {"wait", "attempt"} => b = a
  <2>1. Kind(b, 0) \in {"wait", "attempt"} => b.episode
    BY <1>0, KindIs
  <2> QED
    BY <1>3, <2>1
<1>7. Attended(shared')
  BY <1>0, <1>1, <1>3, <1>4, <1>5, <1>6 DEF Attended
<1>8. Tallied(f) /\ Bound(shared') /\ (b.armed => Awaited')
  <2>1. f.automatic = FALSE /\ b.inFlight = FALSE
    BY <1>0, <1>1, <1>3 DEF Entry, ActivationRecord
  <2> QED
    BY <2>1 DEF Tallied, Bound, Awaited
<1>9. Startless'
  <2>1. c.target \in Candidate
    BY ThreadsAre DEF EpisodeBase, Confirmation
  <2>2. c.target # NoTarget
    BY <2>1, PolicyAssumption DEF Candidate, NoTarget
  <2> QED
    BY <1>0, <1>1, <2>2 DEF Startless, Unstarted
<1> QED
  BY <1>7, <1>8, <1>9, EpisodeGoal

LEMMA ConfirmIsAttended ==
    ASSUME EpisodeBase, NEW c, Confirm(c)
    PROVE  EpisodeInv' /\ InFlightHasConfirmation'
<1> DEFINE e == shared.entry
           f == shared'.entry
           a == e.activation
<1>0. Base
  BY DEF EpisodeBase
<1>1. /\ c \in confirms /\ confirms' = confirms \ {c} /\ starts' = starts
      /\ \/ ~Current(shared, c.subject) /\ shared' = shared
         \/ /\ Current(shared, c.subject)
            /\ Proved(shared, shared', c) \/ Denied(shared, shared', c)
  BY <1>0, ConfirmIs DEF Confirm
<1>2. Kept(e, e)
  BY DEF Kept, SameGrant
<1>3. ASSUME Armed(shared), a.inFlight
      PROVE  /\ c.subject = e.subject /\ c.target = e.current =>
                   /\ Current(shared, c.subject) /\ Matches(shared, c.target, c.subject)
                   /\ shared.session.target = c.target
                   /\ Owns(shared, c.subject.generation)
             /\ Current(shared, c.subject) /\ shared.session.target = c.target =>
                   Matches(shared, c.target, c.subject)
  BY <1>1, <1>3, AwaitedIsCurrent
<1>4. CASE shared' = shared /\ ~Current(shared, c.subject)
  <2>1. Undisturbed
    BY <1>1, <1>3, <1>4 DEF Undisturbed
  <2>2. Workers(shared') = Workers(shared)
    BY <1>4 DEF Workers
  <2> QED
    BY <1>1, <1>2, <1>4, <2>1, <2>2, KeptIsAttended
<1>5. CASE Proved(shared, shared', c)
  <2>1. CASE Matches(shared, c.target, c.subject)
    BY <1>1, <1>5, <2>1, ProvedIsAttended
  <2>2. CASE ~Matches(shared, c.target, c.subject)
    <3>1. /\ f = e /\ shared'.generation = shared.generation
          /\ shared'.recoverers = shared.recoverers
          /\ shared'.session.run = shared.session.run
          /\ shared'.session.spawned = shared.session.spawned
          /\ shared'.session.target = shared.session.target
      BY <1>5, <2>2 DEF Proved
    <3>2. Undisturbed
      BY <1>1, <1>3, <2>2, <3>1 DEF Undisturbed, Armed
    <3>3. Workers(shared') = Workers(shared)
      BY <3>1 DEF Workers
    <3> QED
      BY <1>1, <1>2, <3>1, <3>2, <3>3, KeptIsAttended
  <2> QED
    BY <2>1, <2>2
<1>6. CASE Eased(shared, shared') /\ ~Armed(shared') /\ shared'.recoverers = shared.recoverers
  BY <1>1, <1>6, EasedKeepsWorkers, EasedIsAttended
<1>7. CASE shared' = shared /\ ~(Owns(shared, c.subject.generation)
                                   /\ shared.session.target = c.target)
  <2>1. Undisturbed
    BY <1>1, <1>3, <1>7 DEF Undisturbed
  <2>2. Workers(shared') = Workers(shared)
    BY <1>7 DEF Workers
  <2> QED
    BY <1>1, <1>2, <1>7, <2>1, <2>2, KeptIsAttended
<1>8. CASE Disproved(shared, shared', c) /\ Current(shared, c.subject)
  <2>1. /\ shared'.generation = shared.generation
        /\ Present(shared') /\ Weaker(shared, shared')
    BY <1>8 DEF Disproved
  <2>2. shared'.session.target \in {shared.session.target, NoTarget}
    BY <2>1 DEF Weaker, Calmer, StillBorn
  <2>3. CASE /\ shared'.recoverers = shared.recoverers /\ Kept(e, f)
             /\ Armed(shared') =>
                   /\ ~Matches(shared, c.target, c.subject)
                   /\ shared'.session = shared.session \/ shared.session.target = c.target
    <3>1. Armed(shared') => Armed(shared)
      <4>1. a \in ActivationRecord
        BY EpisodeFacts
      <4> QED
        BY <2>3, <4>1 DEF Kept, SameGrant, Armed, Disarmed, ActivationRecord
    <3>2. Undisturbed
      BY <1>1, <1>3, <1>8, <2>3, <3>1 DEF Undisturbed
    <3>3. Workers(shared') = Workers(shared)
      BY <2>3 DEF Workers, Kept, SameGrant, EpisodeBase
    <3> QED
      BY <1>1, <2>1, <2>2, <2>3, <3>2, <3>3, KeptIsAttended
  <2>4. CASE Armed(shared) /\ SameGrant(e, f) /\ FailureOutcome(shared, shared')
    <3>1. shared.session.target # NoTarget
      BY <1>8 DEF Current
    <3> QED
      BY <1>1, <2>1, <2>2, <2>4, <3>1, FailureIsAttended
  <2> QED
    BY <1>8, <2>3, <2>4 DEF Disproved
<1> QED
  BY <1>1, <1>4, <1>5, <1>6, <1>7, <1>8 DEF Denied

\* A step that leaves the entry without its grant.
LEMMA GrantlessIsAttended ==
    ASSUME EpisodeBase, Kept(shared.entry, shared'.entry), ~Armed(shared'),
           shared'.generation = shared.generation,
           \A p, q \in Workers(shared') : p = q,
           Workers(shared') # {} => shared.entry.worker,
           starts' \subseteq starts,
           shared'.session.target \in {shared.session.target, NoTarget}
    PROVE  EpisodeInv' /\ InFlightHasConfirmation'
<1> DEFINE e == shared.entry
           f == shared'.entry
           a == e.activation
           b == f.activation
<1>0. a \in ActivationRecord /\ Tallied(e) /\ (Startless \/ Unstarted(shared))
  BY EpisodeFacts
<1>1. /\ b \in {a, Disarmed(a)} /\ f.current = e.current
      /\ f.automatic = e.automatic /\ f.worker = e.worker
      /\ ~b.armed
  BY DEF Kept, EpisodeBase, Armed
<1>2. b.inFlight = a.inFlight /\ b.current = a.current /\ b.episode = a.episode
  BY <1>0, <1>1 DEF Disarmed, ActivationRecord
<1>3. Tallied(f) /\ Bound(shared')
  BY <1>0, <1>1, <1>2 DEF Tallied, Bound
<1>4. Attended(shared')
  BY <1>1 DEF Attended
<1>5. Startless' \/ Unstarted(shared')
  BY <1>0, <1>2 DEF Startless, Unstarted
<1> QED
  BY <1>1, <1>3, <1>4, <1>5, EpisodeGoal

\* What a death, a claim or a loop does to an entry.
LEMMA DyingIsAttended ==
    ASSUME EpisodeBase, NEW d, BeginReconnect(d) \/ ClaimReconnect(d)
    PROVE  EpisodeInv' /\ InFlightHasConfirmation'
<1>0. Base /\ starts' = starts /\ confirms' = confirms
  BY DEF EpisodeBase, BeginReconnect, ClaimReconnect
<1>1. ASSUME shared'.entry = shared.entry, shared'.session = shared.session,
             shared'.generation = shared.generation,
             shared'.recoverers = shared.recoverers
      PROVE  EpisodeInv' /\ InFlightHasConfirmation'
  BY <1>0, <1>1, SameIsAttended DEF Workers
<1>2. CASE BeginReconnect(d)
  <2>1. CASE shared' = shared
    BY <1>1, <2>1
  <2>2. CASE shared' # shared
    <3>1. Failure(shared, shared')
      BY <1>0, <1>2, <2>2, BeginReconnectIs
    <3>2. shared.session.target # NoTarget
      BY <1>2, <2>2 DEF BeginReconnect, Current
    <3> QED
      BY <1>0, <3>1, <3>2, FailureIsAttended DEF Failure, Quiet
  <2> QED
    BY <2>1, <2>2
<1>3. CASE ClaimReconnect(d)
  BY <1>0, <1>1, <1>3, ClaimReconnectIs
<1> QED
  BY <1>2, <1>3

\* An explicit start: the first core of the generation, on the terms it was given.
LEMMA ExplicitStartIsAttended ==
    ASSUME EpisodeBase, NEW c, ExplicitStart(c)
    PROVE  EpisodeInv' /\ InFlightHasConfirmation'
<1> DEFINE e == shared.entry
           f == shared'.entry
           a == e.activation
           b == f.activation
           origin == "explicit"
<1>0. /\ Base /\ e # NoEntry /\ f # NoEntry
      /\ a \in ActivationRecord /\ Accounted(a)
      /\ e \in Entry /\ f \in Entry /\ b \in ActivationRecord
      /\ Tallied(e) /\ Attended(shared) /\ (Startless \/ Unstarted(shared))
  BY EpisodeFacts DEF EpisodeBase
<1>1. /\ c \in starts /\ starts' = starts \ {c}
      /\ shared'.recoverers = shared.recoverers
      /\ \/ Eased(shared, shared') /\ confirms' = confirms
         \/ GaveUp(shared, shared', origin, c.target, c.generation)
         \/ Began(shared, shared', origin, c.target, c.generation)
  BY <1>0, ExplicitStartIs
<1>2. CASE Eased(shared, shared') /\ confirms' = confirms
  BY <1>1, <1>2, EasedKeepsWorkers, EasedIsAttended
<1>3. CASE \/ GaveUp(shared, shared', origin, c.target, c.generation)
           \/ Began(shared, shared', origin, c.target, c.generation)
  <2>1. /\ c.generation = shared.generation
        /\ shared'.generation = shared.generation
        /\ Restarted(e, f, origin, c.target)
        /\ b \in {a, Disarmed(a)}
    BY <1>0, <1>3 DEF GaveUp, Began, Accepted, IsCurrent, GoesOn
  <2>2. f.generation = e.generation /\ f.automatic = e.automatic
        /\ f.worker = e.worker /\ f.backoff = e.backoff
    BY <1>0, <2>1 DEF Restarted, SameGrant
  <2>3. ~a.inFlight
    BY <1>0, <1>1, <2>1 DEF Startless, Unstarted, Accounted
  <2>4. /\ ~b.inFlight /\ b.armed => b = a
    BY <1>0, <2>1, <2>3 DEF Disarmed, ActivationRecord
  <2>5. Workers(shared') = Workers(shared)
    BY <1>1, <2>2 DEF Workers
  <2>6. Attended(shared')
    BY <1>0, <2>1, <2>2, <2>4, <2>5 DEF Attended, Disarmed, ActivationRecord
  <2>7. ~b.inFlight
    BY <1>0, <2>1, <2>3 DEF Disarmed, ActivationRecord
  <2>8. Tallied(f) /\ Bound(shared') /\ (b.armed => Awaited')
    <3>1. f.automatic = FALSE /\ b.inFlight = FALSE
      BY <1>0, <2>2, <2>3, <2>7 DEF Tallied, Entry, ActivationRecord
    <3> QED
      BY <3>1 DEF Tallied, Bound, Awaited
  <2>9. Startless'
    <3>1. \A p, q \in starts : p.generation = q.generation => p = q
      BY DEF EpisodeBase, OnceInv, StartsOnce
    <3> QED
      BY <1>1, <2>1, <3>1 DEF Startless
  <2> QED
    BY <2>6, <2>8, <2>9, EpisodeGoal
<1> HIDE DEF origin
<1> QED
  BY <1>1, <1>2, <1>3

LEMMA RedialIsAttended ==
    ASSUME EpisodeBase, NEW r, RedialStart(r) \/ RedialComplete(r) \/ RedialAgain(r)
    PROVE  EpisodeInv' /\ InFlightHasConfirmation'
<1>0. Base /\ shared.entry # NoEntry /\ starts' = starts
  BY DEF EpisodeBase, RedialStart, RedialComplete, RedialAgain
<1>1. ASSUME Eased(shared, shared'), shared'.recoverers = shared.recoverers,
             confirms' = confirms
      PROVE  EpisodeInv' /\ InFlightHasConfirmation'
  BY <1>0, <1>1, EasedKeepsWorkers, EasedIsAttended
<1>2. CASE RedialStart(r)
  BY <1>0, <1>1, <1>2, RedialStartIs DEF GaveUp, Began, Accepted
<1>3. CASE RedialComplete(r)
  <2>1. /\ shared'.entry = shared.entry /\ shared'.session = shared.session
        /\ shared'.generation = shared.generation
        /\ shared'.recoverers = shared.recoverers
    BY <1>0, <1>3, RedialCompleteIs
  <2>2. confirms' = confirms
    BY <1>3 DEF RedialComplete
  <2> QED
    BY <1>0, <2>1, <2>2, SameIsAttended DEF Workers
<1>4. CASE RedialAgain(r)
  <2>1. r \in redials /\ confirms' = confirms
    BY <1>4 DEF RedialAgain
  <2>2. Eased(shared, shared') /\ shared'.recoverers = shared.recoverers
    BY <1>0, <1>4, <2>1, RedialAgainIs
  <2> QED
    BY <1>1, <2>1, <2>2
<1> QED
  BY <1>2, <1>3, <1>4

\* A worker about to start whom it decided for: the start is refused, or ends the
\* grant, or puts the attempt in flight.
LEMMA RecovererStartIsAttended ==
    ASSUME EpisodeBase, NEW r, RecovererStart(r)
    PROVE  EpisodeInv' /\ InFlightHasConfirmation'
<1> DEFINE e == shared.entry
           f == shared'.entry
           a == e.activation
           b == f.activation
           g == r.generation
           m == r.target
           others == shared.recoverers \ {r}
           origin == "failover"
           erring == [generation |-> g, target |-> m, step |-> "erring"]
           worker == Worker(g)
<1>0. /\ Base /\ e # NoEntry /\ f # NoEntry
      /\ a \in ActivationRecord /\ Accounted(a) /\ e.backoff \in Nat
      /\ e \in Entry /\ f \in Entry /\ b \in ActivationRecord
      /\ e.generation = shared.generation /\ shared.generation # 0 /\ ~closed
      /\ Tallied(e) /\ Attended(shared) /\ (Startless \/ Unstarted(shared))
  BY EpisodeFacts DEF EpisodeBase
<1>1. /\ r \in shared.recoverers /\ r.step = "starting" /\ starts' = starts
      /\ \/ /\ Eased(shared, shared') /\ confirms' = confirms /\ shared'.recoverers = others
            /\ IsCurrent(shared, g) /\ Owns(shared, g) /\ Armed(shared') =>
                  /\ Armed(shared)
                  /\ ~CanAdmit(a, m, e.backoff)
         \/ /\ GaveUp(shared, shared', origin, m, g)
            /\ m \in Candidate /\ shared'.recoverers = others \cup {erring}
         \/ /\ Began(shared, shared', origin, m, g)
            /\ m \in Candidate /\ shared'.recoverers = others \cup {worker}
  BY <1>0, RecovererStartIs DEF RecovererStart
<1>2. g = e.generation => /\ Workers(shared) = {r} /\ e.worker
                          /\ IsCurrent(shared, g) /\ Owns(shared, g)
  BY <1>0, <1>1 DEF Attended, Workers, IsCurrent, Owns
<1>3. CASE /\ Eased(shared, shared') /\ confirms' = confirms /\ shared'.recoverers = others
           /\ IsCurrent(shared, g) /\ Owns(shared, g) /\ Armed(shared') =>
                 /\ Armed(shared)
                 /\ ~CanAdmit(a, m, e.backoff)
  <2>1. /\ SameTurn(shared, shared') /\ shared'.generation = shared.generation
        /\ f.generation = e.generation
    BY <1>3, EasedKeepsWorkers
  <2>2. CASE g = e.generation
    <3>1. Workers(shared') = {}
      BY <1>2, <1>3, <2>1, <2>2 DEF Workers
    <3>2. ~Armed(shared')
      BY <1>0, <1>1, <1>2, <1>3, <2>2 DEF Attended, Armed
    <3>3. Kept(e, f)
      BY <2>1 DEF SameTurn
    <3>4. shared'.session.target \in {shared.session.target, NoTarget}
      BY <1>3, EpisodeFacts DEF Eased, Weaker, Calmer, StillBorn
    <3> QED
      BY <1>1, <2>1, <3>1, <3>2, <3>3, <3>4, GrantlessIsAttended
  <2>3. CASE g # e.generation
    <3>1. Workers(shared') = Workers(shared)
      BY <1>3, <2>1, <2>3 DEF Workers
    <3> QED
      BY <1>1, <1>3, <3>1, EasedIsAttended
  <2> QED
    BY <2>2, <2>3
<1>4. ASSUME \/ GaveUp(shared, shared', origin, m, g)
             \/ Began(shared, shared', origin, m, g),
             m \in Candidate, NEW w, w.generation = g, w.step # "starting",
             shared'.recoverers = others \cup {w}
      PROVE  EpisodeInv' /\ InFlightHasConfirmation'
  <2>1. /\ g = shared.generation /\ shared'.generation = shared.generation
        /\ CanAdmit(a, m, e.backoff)
        /\ Restarted(e, f, origin, m)
        /\ b \in {Admitted(a, m), Disarmed(Admitted(a, m))}
    BY <1>0, <1>4 DEF GaveUp, Began, Accepted, IsCurrent, GoesOn
  <2>2. /\ f.generation = e.generation /\ f.automatic /\ f.current = m
        /\ f.worker = e.worker /\ f.backoff = e.backoff
    BY <1>0, <2>1 DEF Restarted, SameGrant
  <2>3. b.inFlight /\ b.current = m /\ (b.armed => b = Admitted(a, m))
    BY <1>0, <1>4, <2>1 DEF Admitted, Disarmed, ActivationRecord
  <2>4. Workers(shared') = {w}
    BY <1>0, <1>2, <1>4, <2>1, <2>2 DEF Workers
  <2>5. e.worker
    BY <1>0, <1>2, <2>1
  <2>6. Attended(shared')
    BY <1>4, <2>2, <2>4, <2>5 DEF Attended
  <2>7. Tallied(f)
    <3>1. f.automatic = TRUE /\ b.inFlight = TRUE
      BY <1>0, <2>2, <2>3 DEF Entry, ActivationRecord
    <3> QED
      BY <2>2, <2>3, <3>1 DEF Tallied
  <2>8. Bound(shared') /\ (b.armed => Awaited')
    <3>1. CASE GaveUp(shared, shared', origin, m, g)
      BY <1>0, <3>1 DEF GaveUp, Armed, Bound
    <3>2. CASE Began(shared, shared', origin, m, g)
      <4>1. /\ f.subject = Captured(shared', g) /\ shared'.session.target = m
            /\ confirms' = confirms \cup {NewConfirm(shared', origin, m, g)}
        BY <1>0, <3>2 DEF Began, NewBorn
      <4>2. NewConfirm(shared', origin, m, g) \in confirms'
        BY <4>1
      <4> QED
        BY <2>1, <2>2, <4>1, <4>2 DEF Bound, Awaited, NewConfirm
    <3> QED
      BY <1>4, <3>1, <3>2
  <2>9. Startless'
    <3>1. a.episode
      BY <1>0, <2>1, KindIs DEF CanAdmit
    <3> QED
      BY <1>0, <1>1, <2>1, <3>1 DEF Startless, Unstarted
  <2> QED
    BY <2>6, <2>7, <2>8, <2>9, EpisodeGoal
<1>5. /\ erring.generation = g /\ erring.step # "starting"
      /\ worker.generation = g /\ worker.step # "starting"
  BY DEF Worker
<1> HIDE DEF e, f, a, b, g, m, others, origin, erring, worker
<1> QED
  BY <1>1, <1>3, <1>4, <1>5

\* A worker that decides, and one that reports a start that ended in an error.
LEMMA RecovererIsAttended ==
    ASSUME EpisodeBase, NEW r, RecovererDecide(r) \/ RecovererError(r)
    PROVE  EpisodeInv' /\ InFlightHasConfirmation'
<1> DEFINE e == shared.entry
           f == shared'.entry
           a == e.activation
           g == r.generation
           others == shared.recoverers \ {r}
<1>0. /\ Base /\ e # NoEntry /\ f # NoEntry
      /\ a \in ActivationRecord /\ e.backoff \in Nat
      /\ e.generation = shared.generation /\ shared.generation # 0 /\ ~closed
      /\ Tallied(e) /\ Bound(shared) /\ Attended(shared)
      /\ Startless \/ Unstarted(shared)
      /\ a.armed => Awaited
  BY EpisodeFacts DEF EpisodeBase
<1>1. r \in shared.recoverers /\ starts' = starts /\ confirms' = confirms
  BY DEF RecovererDecide, RecovererError, threads
<1>2. g = e.generation => /\ Workers(shared) = {r} /\ e.worker
                          /\ IsCurrent(shared, g) /\ Owns(shared, g)
  BY <1>0, <1>1 DEF Attended, Workers, IsCurrent, Owns
<1>3. ASSUME RecovererDecide(r), shared' = Gone(r),
             ~(Owns(shared, g) /\ IsCurrent(shared, g))
      PROVE  EpisodeInv' /\ InFlightHasConfirmation'
  <2>1. SameButWorkers(shared, shared') /\ shared'.recoverers = others
    <3>1. "deciding" \in {"deciding", "starting", "erring"} /\ NoTarget \in Target
      BY DEF Target
    <3> QED
      BY <1>0, <1>1, <1>3, <3>1, WorkerMovesIs
  <2>2. Workers(shared') = Workers(shared)
    BY <1>2, <1>3, <2>1 DEF Workers, SameButWorkers
  <2> QED
    BY <1>1, <2>1, <2>2, SameIsAttended DEF SameButWorkers
<1>4. ASSUME Owns(shared, g), Kind(a, e.backoff) \in {"idle", "exhausted", "disarmed"},
             shared'.generation = shared.generation, shared'.session = shared.session,
             shared'.recoverers = others, Unattended(e, f)
      PROVE  EpisodeInv' /\ InFlightHasConfirmation'
  <2>1. /\ f.generation = e.generation /\ f.activation = a
        /\ f.subject = e.subject /\ f.current = e.current
        /\ f.automatic = e.automatic /\ ~f.worker
    BY <1>4 DEF Unattended, SameGrant
  <2>2. Workers(shared') = {}
    BY <1>2, <1>4, <2>1 DEF Workers, Owns
  <2>3. Kind(a, 0) \notin {"wait", "attempt"}
    BY <1>0, <1>4, KindIs
  <2>4. Attended(shared')
    BY <2>1, <2>2, <2>3 DEF Attended
  <2>5. Tallied(f) /\ Bound(shared')
    BY <1>0, <1>4, <2>1 DEF Tallied, Bound, Captured
  <2>6. Startless' \/ Unstarted(shared')
    BY <1>0, <1>1, <1>4, <2>1 DEF Startless, Unstarted
  <2>7. f.activation.armed => Awaited'
    BY <1>0, <1>1, <2>1 DEF Awaited
  <2> QED
    BY <2>4, <2>5, <2>6, <2>7, EpisodeGoal
<1>5. ASSUME NEW m \in Candidate, Owns(shared, g), Kind(a, e.backoff) = "attempt",
             IsNext(a, m), shared' = At(r, "starting", m)
      PROVE  EpisodeInv' /\ InFlightHasConfirmation'
  <2> DEFINE w == [generation |-> g, target |-> m, step |-> "starting"]
  <2>1. SameButWorkers(shared, shared') /\ shared'.recoverers = others \cup {w}
    <3>1. "starting" \in {"deciding", "starting", "erring"} /\ m \in Target
      BY DEF Target
    <3> QED
      BY <1>0, <1>1, <1>5, <3>1, WorkerMovesIs
  <2>2. w.generation = g /\ w.target = m
    OBVIOUS
  <2> HIDE DEF w
  <2>3. Workers(shared') = {w} /\ e.worker
    BY <1>2, <1>5, <2>1, <2>2 DEF Workers, SameButWorkers, Owns
  <2>4. CanAdmit(a, w.target, e.backoff)
    BY <1>5, <2>2 DEF CanAdmit
  <2>5. f = e /\ shared'.session = shared.session /\ shared'.generation = shared.generation
    BY <2>1 DEF SameButWorkers
  <2>6. Attended(shared')
    BY <2>3, <2>4, <2>5 DEF Attended
  <2>7. Tallied(f) /\ Bound(shared')
    BY <1>0, <2>5 DEF Bound, Captured
  <2>8. Startless' \/ Unstarted(shared')
    BY <1>0, <1>1, <2>5 DEF Startless, Unstarted
  <2>9. f.activation.armed => Awaited'
    BY <1>0, <1>1, <2>5 DEF Awaited
  <2> QED
    BY <2>6, <2>7, <2>8, <2>9, EpisodeGoal
<1>6. CASE RecovererError(r)
  <2> DEFINE w == Worker(g)
  <2>1. /\ SameTurn(shared, shared') /\ shared'.session = shared.session
        /\ shared'.recoverers = others \cup {w}
        /\ IsCurrent(shared, g) => ~Armed(shared')
    BY <1>0, <1>6, RecovererErrorIs
  <2>2. /\ Kept(e, f) /\ shared'.generation = shared.generation
        /\ f.generation = e.generation
    BY <2>1 DEF SameTurn, Kept, SameGrant
  <2>3. w.generation = g
    BY DEF Worker
  <2> HIDE DEF w
  <2>4. CASE g = e.generation
    <3>1. Workers(shared') = {w}
      BY <1>2, <2>1, <2>2, <2>3, <2>4 DEF Workers
    <3> QED
      BY <1>1, <1>2, <2>1, <2>2, <2>4, <3>1, GrantlessIsAttended
  <2>5. CASE g # e.generation
    <3>1. Workers(shared') = Workers(shared)
      BY <2>1, <2>2, <2>3, <2>5 DEF Workers
    <3>2. Undisturbed
      BY <1>1, <2>1 DEF Undisturbed
    <3> QED
      BY <1>1, <2>1, <2>2, <3>1, <3>2, KeptIsAttended
  <2> QED
    BY <2>4, <2>5
<1>7. CASE RecovererDecide(r)
  <2>1. \/ ~(Owns(shared, g) /\ IsCurrent(shared, g)) /\ shared' = Gone(r)
        \/ /\ Owns(shared, g) /\ Kind(a, e.backoff) \in {"idle", "exhausted", "disarmed"}
           /\ shared'.generation = shared.generation /\ shared'.session = shared.session
           /\ shared'.recoverers = others /\ Unattended(e, f)
        \/ /\ Owns(shared, g) /\ Kind(a, e.backoff) = "attempt"
           /\ \E m \in Candidate : IsNext(a, m) /\ shared' = At(r, "starting", m)
    BY <1>0, <1>7, RecovererDecideIs
  <2> HIDE DEF e, f, a, g, others
  <2> QED
    BY <1>3, <1>4, <1>5, <1>7, <2>1
<1> QED
  BY <1>6, <1>7

\* A new entry has everything before it.
LEMMA NewEntryIsAttended ==
    ASSUME Base, Up, shared'.entry # NoEntry
    PROVE  EpisodeInv' /\ InFlightHasConfirmation'
<1> DEFINE f == shared'.entry
           b == f.activation
<1>1. /\ NewEntry(f) /\ shared'.recoverers = shared.recoverers
      /\ shared'.session.target = NoTarget
  BY UpIs DEF Claimed, Prepared
<1>2. /\ ~b.inFlight /\ ~b.episode /\ b \in ActivationRecord
      /\ f.automatic = FALSE /\ ~f.worker /\ b.inFlight = FALSE
  BY <1>1 DEF NewEntry, NewActivation, Entry
<1>3. Workers(shared') = {}
  BY <1>1, FreshIsNobodys DEF Workers, NewEntry
<1>4. Kind(b, 0) \notin {"wait", "attempt"}
  BY <1>2, KindIs
<1>5. Attended(shared')
  BY <1>2, <1>3, <1>4 DEF Attended
<1>6. Tallied(f) /\ Bound(shared') /\ Unstarted(shared') /\ (b.armed => Awaited')
  BY <1>1, <1>2 DEF Tallied, Bound, Unstarted, Awaited
<1> QED
  BY <1>5, <1>6, EpisodeGoal

\* The steps of an entry that stays.
LEMMA StayingIsAttended ==
    ASSUME EpisodeBase, OrdinaryStep
    PROVE  EpisodeInv' /\ InFlightHasConfirmation'
<1>0. Base
  BY DEF EpisodeBase
<1>1. ASSUME Eased(shared, shared'), shared'.recoverers = shared.recoverers,
             starts' = starts, confirms' = confirms
      PROVE  EpisodeInv' /\ InFlightHasConfirmation'
  BY <1>1, EasedKeepsWorkers, EasedIsAttended
<1>2. CASE EasyStep
  BY <1>0, <1>1, <1>2, EasyStepIs DEF threads
<1>3. CASE Sweep
  BY <1>0, <1>1, <1>3, SweepIs DEF Sweep
<1>4. CASE WatchRecover
  <2>1. starts' = starts /\ confirms' = confirms
    BY <1>4 DEF WatchRecover
  <2> QED
    BY <1>0, <1>1, <1>4, <2>1, WatchRecoverIs, NoticedIsAttended
<1>5. CASE Tick
  BY <1>5, AgedIsAttended
<1>6. ASSUME NEW c \in starts, ExplicitStart(c)
      PROVE  EpisodeInv' /\ InFlightHasConfirmation'
  BY <1>6, ExplicitStartIsAttended
<1>7. ASSUME NEW c \in confirms, Confirm(c)
      PROVE  EpisodeInv' /\ InFlightHasConfirmation'
  BY <1>7, ConfirmIsAttended
<1>8. ASSUME NEW d \in deaths, BeginReconnect(d)
      PROVE  EpisodeInv' /\ InFlightHasConfirmation'
  BY <1>8, DyingIsAttended
<1>9. ASSUME NEW r \in redials, RedialStart(r) \/ RedialComplete(r) \/ RedialAgain(r)
      PROVE  EpisodeInv' /\ InFlightHasConfirmation'
  BY <1>9, RedialIsAttended
<1>10. ASSUME NEW r \in shared.recoverers,
              RecovererDecide(r) \/ RecovererStart(r) \/ RecovererError(r)
       PROVE  EpisodeInv' /\ InFlightHasConfirmation'
  BY <1>10, RecovererStartIsAttended, RecovererIsAttended
<1> QED
  BY <1>2, <1>3, <1>4, <1>5, <1>6, <1>7, <1>8, <1>9, <1>10 DEF OrdinaryStep

LEMMA EpisodeNext ==
    ASSUME Base, Base', EntryAccounted, OnceInv, EpisodeInv, InFlightHasConfirmation,
           [Next]_vars
    PROVE  EpisodeInv' /\ InFlightHasConfirmation'
<1>1. CASE shared'.entry = NoEntry
  BY <1>1 DEF EpisodeInv, InFlightHasConfirmation, Armed
<1>2. CASE UNCHANGED vars
  BY <1>2 DEF vars, threads, configuration, EpisodeInv, InFlightHasConfirmation, Armed,
              Tallied, Bound, Captured, Attended, Workers, Startless, Unstarted
<1>3. CASE Up /\ shared'.entry # NoEntry
  BY <1>3, NewEntryIsAttended
<1>4. CASE \/ \E target \in Chosen : Connect(target)
           \/ \E value \in BOOLEAN : SetPorts(value)
  BY <1>1, <1>4, ConnectIs, SetPortsIs
<1>5. ASSUME shared'.entry # NoEntry,
             OrdinaryStep \/ \E d \in deaths : ClaimReconnect(d)
      PROVE  EpisodeInv' /\ InFlightHasConfirmation'
  <2>1. shared.entry # NoEntry
    <3>1. CASE OrdinaryStep
      BY <1>5, <3>1, OrdinaryContinues DEF Withdrawn, Continues, SameGrant
    <3>2. CASE \E d \in deaths : ClaimReconnect(d)
      BY <1>5, <3>2, ClaimReconnectIs
    <3> QED
      BY <1>5, <3>1, <3>2
  <2>2. EpisodeBase
    BY <1>5, <2>1 DEF EpisodeBase
  <2> QED
    BY <1>5, <2>2, StayingIsAttended, DyingIsAttended
<1> QED
  BY <1>1, <1>2, <1>3, <1>4, <1>5, NextCases

\* The invariant says no less than the property.
LEMMA EpisodeSuffices ==
    ASSUME Base, EpisodeInv, InFlightHasConfirmation
    PROVE  EpisodeIsAttended
<1> DEFINE workers == Workers(shared)
<1>1. \A p, q \in workers : p = q
  <2>1. CASE shared.entry = NoEntry
    <3>1. \A r \in shared.recoverers : r.generation # 0
      BY ThreadsAre DEF Recoverer
    <3> QED
      BY <2>1, <3>1 DEF Workers, NoEntry
  <2>2. CASE shared.entry # NoEntry
    BY <2>2 DEF EpisodeInv, Attended
  <2> QED
    BY <2>1, <2>2
<1>2. Armed(shared) /\ Kind(shared.entry.activation, 0) \in {"wait", "attempt"}
         => workers # {}
  BY DEF EpisodeInv, Attended, Armed
<1>3. Cardinality(workers) <= 1
  <2>1. CASE workers = {}
    BY <2>1, FS_EmptySet
  <2>2. ASSUME NEW r \in workers PROVE Cardinality(workers) <= 1
    <3>1. workers = {r}
      BY <1>1, <2>2
    <3> HIDE DEF workers
    <3>2. Cardinality({r}) = 1
      BY FS_Singleton
    <3> QED
      BY <3>1, <3>2
  <2> QED
    BY <2>1, <2>2
<1> QED
  BY <1>2, <1>3 DEF EpisodeIsAttended, EpisodeHasWorker, Workers

\* Nothing that recovers on its own is left alone, whatever the interleaving: an
\* automatic attempt in flight has its confirmation out, and an armed episode that may
\* still start someone has exactly one worker.
THEOREM EpisodesAreAttended == Spec => []EpisodeIsAttended
<1> DEFINE Inv == /\ Base /\ EntryAccounted /\ OnceInv
                  /\ EpisodeInv /\ InFlightHasConfirmation
<1>1. Init => Inv
  BY BaseInit, AccountedInit, OnceInit, EpisodeInit
<1>2. Inv /\ [Next]_vars => Inv'
  <2> SUFFICES ASSUME Inv, [Next]_vars PROVE Inv'
    OBVIOUS
  <2>1. Base'
    BY BaseNext
  <2>2. EntryAccounted'
    BY AccountedNext
  <2>3. OnceInv'
    BY <2>1, OnceNext
  <2>4. EpisodeInv' /\ InFlightHasConfirmation'
    BY <2>1, EpisodeNext
  <2> QED
    BY <2>1, <2>2, <2>3, <2>4
<1>3. Inv => EpisodeIsAttended
  BY EpisodeSuffices
<1> HIDE DEF Inv
<1> QED
  BY <1>1, <1>2, <1>3, PTL DEF Spec
=============================================================================
