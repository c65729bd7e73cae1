----------------------- MODULE InterfacesOrderProofs -----------------------
(***************************************************************************)
(* Proofs about the order in which Interfaces puts routes up and takes     *)
(* them down: what sends traffic somewhere is there only while what        *)
(* carries it is, and traffic that is held stays held.                     *)
(***************************************************************************)
EXTENDS InterfacesProofs

-----------------------------------------------------------------------------
(* Traffic captured into an owned interface, and the servers exempt of it. *)

Captured == "capture" \in Objects("owned")
Exempt == "bypass" \in Objects("owned")

CaptureSafe == Captured => Exempt

\* An installation exempts the servers before it captures,
CaptureBuilt ==
    Starting /\ live.kind = "owned" =>
        Exempt \/ Before(work.todo, <<"add", "bypass">>, <<"add", "capture">>)

\* and a removal or a recovery stops capturing before they are exempt no more.
CaptureCleaned ==
    Stage(work.then) \in Cleaning \cup {"recovered"} /\ ObjectKind = "owned" =>
        ~Captured \/ Before(work.todo, <<"delete", "capture">>, <<"delete", "bypass">>)

Exempted == CaptureSafe /\ CaptureBuilt /\ CaptureCleaned

\* A step of the list of an operation, whatever it does.
LEMMA ExemptedMoves ==
    ASSUME Control, Control', Exempted, work.todo # <<>>,
           work' \in {Advanced, Broken} \/ work' = Failed(Advanced), Follows,
           Captured' => Captured
                        \/ (Starting /\ live.kind = "owned" /\ Head(work.todo) = <<"add", "capture">>),
           Exempt => Exempt'
                     \/ /\ Stage(work.then) \in Cleaning \cup {"recovered"} /\ ObjectKind = "owned"
                        /\ Head(work.todo) = <<"delete", "bypass">>,
           Starting /\ live.kind = "owned" /\ work' # Broken /\ Head(work.todo) = <<"add", "bypass">>
               => Exempt',
           Stage(work.then) \in Cleaning \cup {"recovered"} /\ ObjectKind = "owned" /\ work' # Broken
           /\ Head(work.todo) = <<"delete", "capture">>
               => ~Captured'
    PROVE  Exempted'
<1>1. work.todo \in Seq(Steps) /\ work.then \in Thens
  BY DEF Control, Typed, TypedWork
<1>2. /\ \A one, two : Before(work.todo, one, two) => Head(work.todo) # two
      /\ \A one, two : Before(work.todo, one, two) /\ Head(work.todo) # one =>
           Before(Tail(work.todo), one, two)
  BY <1>1, TailKeeps
<1>3. /\ (work' # Broken /\ work'.todo = Tail(work.todo)) \/ work'.todo = <<>>
      /\ Stage(work'.then) \in {"rollback", "stopped", "recovered", "removed", "deleted",
                                "undone", "forget", "plan"} =>
           Stage(work.then) = Stage(work'.then) /\ (work'.then = work.then \/ work' = Broken)
  BY MovedStages, Moves
<1>4. \A one, two : Before(<<>>, one, two)
  BY EmptyIs
<1>5. CaptureSafe'
  <2> SUFFICES ASSUME Captured' PROVE Exempt'
    BY DEF CaptureSafe
  <2>1. CASE Starting /\ live.kind = "owned" /\ Head(work.todo) = <<"add", "capture">>
    <3>1. Exempt
      BY <1>2, <2>1 DEF Exempted, CaptureBuilt
    <3>2. Stage(work.then) \notin Cleaning \cup {"recovered"}
      BY <2>1 DEF Starting, Cleaning
    <3> QED
      BY <3>1, <3>2
  <2>2. CASE Captured
    <3>1. Exempt
      BY <2>2 DEF Exempted, CaptureSafe
    <3>2. ASSUME Stage(work.then) \in Cleaning \cup {"recovered"}, ObjectKind = "owned",
                 Head(work.todo) = <<"delete", "bypass">>
          PROVE  FALSE
      BY <1>2, <2>2, <3>2 DEF Exempted, CaptureCleaned
    <3> QED
      BY <3>1, <3>2
  <2> QED
    BY <2>1, <2>2
<1>6. CaptureBuilt'
  <2> SUFFICES ASSUME Starting', live'.kind = "owned"
               PROVE  Exempt' \/ Before(work'.todo, <<"add", "bypass">>, <<"add", "capture">>)
    BY DEF CaptureBuilt
  <2>1. Starting /\ live.kind = "owned"
    BY <1>3 DEF Starting, Follows
  <2>2. Exempt => Exempt'
    BY <2>1 DEF Starting, Cleaning
  <2>3. CASE work'.todo = <<>>
    BY <1>4, <2>3
  <2>4. CASE work' # Broken /\ work'.todo = Tail(work.todo)
    BY <1>2, <2>1, <2>2, <2>4 DEF Exempted, CaptureBuilt
  <2> QED
    BY <1>3, <2>3, <2>4
<1>7. CaptureCleaned'
  <2> SUFFICES ASSUME Stage(work'.then) \in Cleaning \cup {"recovered"}, ObjectKind' = "owned"
               PROVE  ~Captured' \/ Before(work'.todo, <<"delete", "capture">>, <<"delete", "bypass">>)
    BY DEF CaptureCleaned
  <2>1. Stage(work.then) \in Cleaning \cup {"recovered"} /\ ~Starting
        /\ Stage(work.then) = Stage(work'.then)
    BY <1>3 DEF Starting, Cleaning
  <2>2. ObjectKind = "owned"
    <3>1. /\ work.name = "recover" <=> Recovery
          /\ work'.name = "recover" <=> Recovery
      BY <2>1 DEF Control, Shaped, Recovery
    <3>2. Recovery => saved'.interface.kind = saved.interface.kind
      BY DEF Follows, SameRecord
    <3>3. live'.kind = live.kind
      BY DEF Follows
    <3> QED
      BY <3>1, <3>2, <3>3 DEF ObjectKind
  <2>3. Captured' => Captured
    BY <2>1
  <2>4. CASE work'.todo = <<>>
    BY <1>4, <2>4
  <2>5. CASE work' # Broken /\ work'.todo = Tail(work.todo)
    BY <1>2, <2>1, <2>2, <2>3, <2>5 DEF Exempted, CaptureCleaned
  <2> QED
    BY <1>3, <2>4, <2>5
<1> QED
  BY <1>5, <1>6, <1>7 DEF Exempted

\* A step that leaves the list behind, or begins another.
LEMMA ExemptedEnds ==
    ASSUME Exempted, Objects("owned")' = Objects("owned"),
           Starting' /\ live'.kind = "owned" =>
               Before(work'.todo, <<"add", "bypass">>, <<"add", "capture">>),
           Stage(work'.then) \in Cleaning \cup {"recovered"} =>
               Before(work'.todo, <<"delete", "capture">>, <<"delete", "bypass">>)
    PROVE  Exempted'
  BY DEF Exempted, CaptureSafe, CaptureBuilt, CaptureCleaned, Captured, Exempt

\* What is added is there.
LEMMA Added ==
    ASSUME Control, Create \/ Intend \/ WriteJournal \/ Spawn \/ AddObject \/ Mark,
           NEW part \in Routing, Head(work.todo) = <<"add", part>>, work' # Broken
    PROVE  part \in Objects(live.kind)'
<1>1. work.todo # <<>> /\ live'.kind = live.kind
  BY BuildStep DEF Follows
<1>2. AddObject
  <2>1. \A step : At(step) => Head(work.todo)[1] = step
    BY <1>1, AtStep
  <2>2. \A step \in {"create", "intend", "journal", "spawn", "mark"} : ~At(step)
    BY <2>1
  <2> QED
    BY <2>2 DEF Create, Intend, WriteJournal, Spawn, Mark
<1>3. kernel' = kernel \cup {<<live.kind, part>>}
  BY <1>2 DEF AddObject
<1> QED
  BY <1>1, <1>3 DEF Objects

\* What is deleted of an owned interface is gone.
LEMMA OwnedDeleted ==
    ASSUME Control, DeleteObject, ObjectKind = "owned", work' # Broken,
           NEW part \in Routing, Head(work.todo) = <<"delete", part>>
    PROVE  part \notin Objects("owned")'
<1>1. kernel' = kernel \ {<<"owned", part>>}
  <2>1. Head(work.todo)[2] = part /\ part # "device"
    BY DEF Routing
  <2>2. ~(work.name # "recover" /\ live.kind = "legacy")
    BY DEF ObjectKind
  <2> QED
    BY <2>1, <2>2 DEF DeleteObject
<1> QED
  BY <1>1 DEF Objects

\* A step of an installation.
LEMMA BuildExempted ==
    Control /\ Control' /\ Exempted
    /\ (Create \/ Intend \/ WriteJournal \/ Spawn \/ AddObject \/ Mark) => Exempted'
<1> SUFFICES ASSUME Control, Control', Exempted,
                    Create \/ Intend \/ WriteJournal \/ Spawn \/ AddObject \/ Mark
             PROVE  Exempted'
  OBVIOUS
<1>1. /\ Follows /\ work.todo # <<>> /\ Starting /\ work' \in {Advanced, Broken}
      /\ live.kind \in Kinds
      /\ \/ SameObjects
         \/ \E part \in Routing \cup {"device"} :
              /\ Head(work.todo) = (IF part = "device" THEN <<"create">> ELSE <<"add", part>>)
              /\ Objects(live.kind)' = Objects(live.kind) \cup {part}
              /\ \A kind \in Kinds \ {live.kind} : Objects(kind)' = Objects(kind)
  BY BuildStep
<1>2. \/ Objects("owned")' = Objects("owned")
      \/ \E part \in Routing \cup {"device"} :
           /\ Head(work.todo) = (IF part = "device" THEN <<"create">> ELSE <<"add", part>>)
           /\ live.kind = "owned" /\ Objects("owned")' = Objects("owned") \cup {part}
  <2>1. CASE SameObjects
    BY <2>1 DEF SameObjects, Kinds
  <2>2. ASSUME NEW part \in Routing \cup {"device"},
               Head(work.todo) = (IF part = "device" THEN <<"create">> ELSE <<"add", part>>),
               Objects(live.kind)' = Objects(live.kind) \cup {part},
               \A kind \in Kinds \ {live.kind} : Objects(kind)' = Objects(kind)
        PROVE  \/ Objects("owned")' = Objects("owned")
               \/ live.kind = "owned" /\ Objects("owned")' = Objects("owned") \cup {part}
    <3>1. live'.kind = live.kind
      BY <1>1 DEF Follows
    <3>2. CASE live.kind # "owned"
      BY <2>2, <3>2 DEF Kinds
    <3>3. CASE live.kind = "owned"
      <4>1. Objects("owned")' = Objects(live.kind)'
        BY <3>1, <3>3
      <4> QED
        BY <2>2, <3>3, <4>1
    <3> QED
      BY <3>2, <3>3
  <2> QED
    BY <1>1, <2>1, <2>2
<1>3. /\ Captured' => Captured
                      \/ (Starting /\ live.kind = "owned" /\ Head(work.todo) = <<"add", "capture">>)
      /\ Exempt => Exempt'
  BY <1>1, <1>2 DEF Captured, Exempt
<1>4. live.kind = "owned" /\ work' # Broken /\ Head(work.todo) = <<"add", "bypass">> => Exempt'
  <2>1. live'.kind = live.kind
    BY <1>1 DEF Follows
  <2>2. work' # Broken /\ Head(work.todo) = <<"add", "bypass">> => "bypass" \in Objects(live.kind)'
    BY Added DEF Routing
  <2> QED
    BY <2>1, <2>2 DEF Exempt
<1>5. Stage(work.then) \notin Cleaning \cup {"recovered"}
  BY <1>1 DEF Starting, Cleaning
<1> QED
  BY <1>1, <1>3, <1>4, <1>5, ExemptedMoves

\* A step of a removal, or a deletion of a recovery.
LEMMA CleanExempted ==
    Control /\ Control' /\ Exempted /\ (Identify \/ SetChain \/ Reap \/ DeleteObject) => Exempted'
<1> SUFFICES ASSUME Control, Control', Exempted, Identify \/ SetChain \/ Reap \/ DeleteObject
             PROVE  Exempted'
  OBVIOUS
<1>1. /\ Follows /\ work.todo # <<>> /\ ~Starting /\ Stage(work.then) \in Cleaning \cup {"recovered"}
      /\ work' \in {Advanced, Broken} \/ work' = Failed(Advanced)
      /\ \/ SameObjects /\ \A part : Head(work.todo) # <<"delete", part>>
         \/ /\ DeleteObject
            /\ \E part \in Routing \cup {"device"} :
                 /\ Head(work.todo) = <<"delete", part>>
                 /\ \/ /\ \A kind \in Kinds \ {ObjectKind} : Objects(kind)' = Objects(kind)
                       /\ Objects(ObjectKind) \ {part, "capture"} \subseteq
                            {p \in Routing \cup {"device"} : <<ObjectKind, p>> \in kernel'}
                    \/ SameObjects
  BY CleanStep
<1>2. Captured' => Captured
  BY CleanStep DEF FewerObjects, Captured, Kinds
<1>3. Exempt => Exempt' \/ (ObjectKind = "owned" /\ Head(work.todo) = <<"delete", "bypass">>)
  <2>1. CASE SameObjects
    BY <2>1 DEF SameObjects, Exempt, Kinds
  <2>2. ASSUME NEW part \in Routing \cup {"device"}, Head(work.todo) = <<"delete", part>>,
               \A kind \in Kinds \ {ObjectKind} : Objects(kind)' = Objects(kind),
               Objects(ObjectKind) \ {part, "capture"} \subseteq
                   {p \in Routing \cup {"device"} : <<ObjectKind, p>> \in kernel'}, Exempt
        PROVE  Exempt' \/ (ObjectKind = "owned" /\ Head(work.todo) = <<"delete", "bypass">>)
    <3>1. CASE ObjectKind # "owned"
      BY <2>2, <3>1 DEF Exempt, Kinds
    <3>2. CASE ObjectKind = "owned" /\ part # "bypass"
      <4>1. <<"owned", "bypass">> \in kernel'
        BY <2>2, <3>2 DEF Exempt
      <4> QED
        BY <4>1 DEF Exempt, Objects, Routing
    <3> QED
      BY <2>2, <3>1, <3>2
  <2> QED
    BY <1>1, <2>1, <2>2
<1>4. ObjectKind = "owned" /\ work' # Broken /\ Head(work.todo) = <<"delete", "capture">> => ~Captured'
  BY <1>1, OwnedDeleted DEF Captured, Routing
<1> QED
  BY <1>1, <1>2, <1>3, <1>4, ExemptedMoves

\* A step of a recovery that deletes nothing.
LEMMA RecoveryExempted ==
    Control /\ Control' /\ Exempted
    /\ (RecoverChains \/ IntendAgain \/ Recognise \/ Kill \/ Unchain) => Exempted'
<1> SUFFICES ASSUME Control, Control', Exempted,
                    RecoverChains \/ IntendAgain \/ Recognise \/ Kill \/ Unchain
             PROVE  Exempted'
  OBVIOUS
<1>1. /\ Follows /\ SameObjects /\ work.todo # <<>> /\ Recovery /\ ~Starting
      /\ work.then = Recovering
      /\ \/ work' = [work EXCEPT !.todo = RecoveryOf(saved')]
         \/ /\ work' \in {Advanced, Broken}
            /\ \A part : Head(work.todo) # <<"delete", part>>
  BY RecoveryStep
<1>2. (Captured' <=> Captured) /\ (Exempt' <=> Exempt) /\ Objects("owned")' = Objects("owned")
  BY <1>1 DEF SameObjects, Captured, Exempt, Kinds
<1>3. CASE work' \in {Advanced, Broken} /\ \A part : Head(work.todo) # <<"delete", part>>
  BY <1>1, <1>2, <1>3, ExemptedMoves
<1>4. CASE work' = [work EXCEPT !.todo = RecoveryOf(saved')]
  <2>1. work \in TypedWork /\ saved' \in States
    BY DEF Control, Typed
  <2>2. work'.todo = RecoveryOf(saved') /\ work'.then = Recovering
    BY <1>1, <1>4, <2>1 DEF TypedWork
  <2>3. Before(work'.todo, <<"delete", "capture">>, <<"delete", "bypass">>)
    BY <2>1, <2>2, RecoveryIs
  <2>4. ~Starting'
    BY <2>2, Ends DEF Starting
  <2> QED
    BY <1>2, <2>3, <2>4, ExemptedEnds
<1> QED
  BY <1>1, <1>3, <1>4

\* A rollback takes nothing away, or what an interface has.
LEMMA RollbackList ==
    ASSUME Control, Rollback
    PROVE  /\ work'.then = Rolled /\ Stage(work'.then) = "undone"
           /\ work'.todo = <<>> \/ \E deletes \in BOOLEAN : work'.todo = CleanupOf(deletes)
<1>1. live \in Lives /\ work \in TypedWork
  BY DEF Control, Typed
<1>2. work.todo = <<>> /\ work.then = Rolling /\ Rolling # <<>>
  <2>1. At("rollback")
    BY DEF Rollback
  <2>2. work.todo = <<>> /\ work.then # <<>> /\ Stage(work.then) = "rollback" /\ work.then \in Thens
    BY <2>1, AtStep
  <2> QED
    BY <2>2, StagesAre
<1> DEFINE empty == <<>>
           first == << <<"undone">> >>
           release == "release"
           no == FALSE
           fresh == live.fresh
           nothing == Expanded(empty, first, release, no)
           whole == Expanded(CleanupOf(fresh), first, Verdict, fresh)
<1>3. first \o Advanced.then = Rolled
  <2>1. Advanced.then = Rejecting
    BY <1>2, Moves, Ends
  <2> QED
    BY <2>1, Joined DEF Rejecting, Rolled
<1>4. /\ Rolled \in Thens /\ Rolled # <<>> /\ empty \in Seq(Steps)
      /\ release \in {"release", "block"} /\ no \in BOOLEAN /\ fresh \in BOOLEAN
      /\ Verdict \in {"release", "block"}
  BY <1>1, EmptyIs DEF Thens, Rolled, Lives, Verdict
<1>5. empty = <<>>
  OBVIOUS
<1> HIDE DEF first, empty, release, no, fresh
<1>6. first \o Advanced.then \in Thens /\ first \o Advanced.then # <<>>
  BY <1>3, <1>4
<1>7. nothing \in TypedWork /\ nothing.todo = empty /\ nothing.then = first \o Advanced.then
  BY <1>2, <1>4, <1>6, ExpandedIs
<1>8. CleanupOf(fresh) \in Seq(Steps)
  BY <1>4, CleanupIs
<1>9. whole.todo = CleanupOf(fresh) /\ whole.then = first \o Advanced.then
  BY <1>2, <1>4, <1>6, <1>8, ExpandedIs
<1>10. work' \in {nothing, Failed(nothing), whole}
  BY DEF Rollback, Failed, empty, first, release, no, fresh
<1> HIDE DEF nothing, whole
<1>11. Failed(nothing).todo = nothing.todo /\ Failed(nothing).then = nothing.then
  BY <1>7 DEF Failed, TypedWork
<1>12. work'.then = Rolled
  BY <1>3, <1>7, <1>9, <1>10, <1>11
<1>13. work'.todo = <<>> \/ \E deletes \in BOOLEAN : work'.todo = CleanupOf(deletes)
  BY <1>4, <1>5, <1>7, <1>9, <1>10, <1>11
<1> QED
  BY <1>12, <1>13, Ends

\* A removal begins with everything in its order.
LEMMA StopExempted == Control /\ Control' /\ Exempted /\ Stop => Exempted'
<1> SUFFICES ASSUME Control, Control', Exempted, Stop
             PROVE  Exempted'
  OBVIOUS
<1>1. /\ kernel' = kernel /\ work.todo = << <<"stop">> >>
      /\ \/ /\ work'.todo = <<>> /\ Stage(work'.then) \in {"end", "released", "exit"}
         \/ /\ work'.todo = <<>> /\ work'.then = work.then
            /\ Stage(work.then) \in {"end", "launch", "released", "removed"}
         \/ /\ work'.todo = CleanupOf(work.name = "delete")
            /\ Stage(work'.then) \in {"deleted", "stopped"}
  BY StopStep
<1>2. ~Starting'
  BY <1>1 DEF Starting
<1>3. Before(work'.todo, <<"delete", "capture">>, <<"delete", "bypass">>)
  BY <1>1, CleanupIs, EmptyIs
<1> QED
  BY <1>1, <1>2, <1>3, ExemptedEnds DEF Objects

\* The steps in which an installation or an operation ends.
LEMMA EndExempted ==
    Control /\ Control' /\ Exempted
    /\ (Up \/ Rollback \/ RolledBack \/ Rejected \/ Released \/ Launch) => Exempted'
<1> SUFFICES ASSUME Control, Control', Exempted,
                    Up \/ Rollback \/ RolledBack \/ Rejected \/ Released \/ Launch
             PROVE  Exempted'
  OBVIOUS
<1>1. /\ kernel' = kernel /\ Stage(work'.then) \in {"end", "rejected", "undone", "released"}
      /\ Stage(work'.then) = "undone" <=> Rollback
  BY EndStep
<1>2. ~Starting'
  BY <1>1 DEF Starting
<1>3. Rollback => Before(work'.todo, <<"delete", "capture">>, <<"delete", "bypass">>)
  BY RollbackList, CleanupIs, EmptyIs
<1> QED
  BY <1>1, <1>2, <1>3, ExemptedEnds DEF Objects, Cleaning

\* A removal is reported, and an interface is let go.
LEMMA ReportExempted ==
    Control /\ Control' /\ Exempted
    /\ (Stopped \/ Deleted \/ Replan \/ Forget \/ Removed \/ Recovered) => Exempted'
<1> SUFFICES ASSUME Control, Control', Exempted,
                    Stopped \/ Deleted \/ Replan \/ Forget \/ Removed \/ Recovered
             PROVE  Exempted'
  OBVIOUS
<1>1. /\ kernel' = kernel
      /\ Stage(work'.then) \in {"end", "launch", "forget", "plan", "released", "removed", "exit"}
  BY ReportStep, LeaveStep
<1> QED
  BY <1>1, ExemptedEnds DEF Objects, Cleaning, Starting

\* An installation begins with everything in its order, and a request touches nothing.
LEMMA AskExempted ==
    Control /\ Control' /\ Exempted
    /\ (\/ Restore \/ Rejournal \/ Install \/ StartInterface
        \/ Supervise \/ Confirmed \/ ConfirmationFailed \/ CoreExits \/ ServerGone \/ Down
        \/ DeleteInterface \/ Shutdown \/ Connect \/ RunScope
        \/ \E kind \in Kinds \cup {"none"}, holds \in BOOLEAN : Plan(kind, holds))
       => Exempted'
<1> SUFFICES ASSUME Control, Control', Exempted,
                    \/ Restore \/ Rejournal \/ Install \/ StartInterface
                    \/ Supervise \/ Confirmed \/ ConfirmationFailed \/ CoreExits \/ ServerGone \/ Down
                    \/ DeleteInterface \/ Shutdown \/ Connect \/ RunScope
                    \/ \E kind \in Kinds \cup {"none"}, holds \in BOOLEAN : Plan(kind, holds)
             PROVE  Exempted'
  OBVIOUS
<1>1. CASE Restore \/ Rejournal \/ Install
  <2>1. SameObjects /\ Stage(work'.then) \in {"end", "rejected", "launch"}
    BY <1>1, LoneStep
  <2> QED
    BY <2>1, ExemptedEnds DEF SameObjects, Kinds, Cleaning, Starting
<1>2. ASSUME kernel' = kernel, Requested
      PROVE  Exempted'
  <2>1. Stage(work'.then) \in {"end", "forget", "plan", "released", "removed", "launch",
                               "rejected", "exit"}
    BY <1>2, RequestedStages
  <2> QED
    BY <1>2, <2>1, ExemptedEnds DEF Objects, Cleaning, Starting
<1>3. CASE StartInterface
  <2>1. /\ kernel' = kernel
        /\ \/ Requested
           \/ /\ work'.todo = (IF live.kind = "owned" THEN OwnedStart ELSE LegacyStart)
              /\ work'.then = Rolling
    BY <1>3, StartStep
  <2>2. CASE /\ work'.todo = (IF live.kind = "owned" THEN OwnedStart ELSE LegacyStart)
             /\ work'.then = Rolling
    <3>1. Before(work'.todo, <<"add", "bypass">>, <<"add", "capture">>)
      BY <2>2, StartIs
    <3>2. Stage(work'.then) = "rollback"
      BY <2>2, Ends
    <3> QED
      BY <2>1, <3>1, <3>2, ExemptedEnds DEF Objects, Cleaning
  <2> QED
    BY <1>2, <2>1, <2>2
<1>4. CASE \/ Supervise \/ Confirmed \/ ConfirmationFailed \/ CoreExits \/ ServerGone \/ Down
           \/ DeleteInterface \/ Shutdown \/ Connect
  BY <1>2, <1>4, AskStep
<1>5. CASE RunScope
  BY <1>2, <1>5, ScopeStep
<1>6. CASE \E kind \in Kinds \cup {"none"}, holds \in BOOLEAN : Plan(kind, holds)
  BY <1>2, <1>6, PlanStep
<1> QED
  BY <1>1, <1>3, <1>4, <1>5, <1>6

\* Neither a crash nor the next start touches anything.
LEMMA WorldExempted ==
    Control /\ Control' /\ Exempted /\ (Exit \/ Crash \/ HelperDies \/ SliceEnds \/ Boot) => Exempted'
<1> SUFFICES ASSUME Control, Control', Exempted, Exit \/ Crash \/ HelperDies \/ SliceEnds \/ Boot
             PROVE  Exempted'
  OBVIOUS
<1>1. /\ SameObjects
      /\ \/ UNCHANGED <<kernel, saved, session, live, work, daemon>>
         \/ work' = work /\ work = NoWork
         \/ work' = NoWork
         \/ work'.todo = << <<"chains">> >> /\ work'.then = Recovering
  BY WorldStep
<1>2. Objects("owned")' = Objects("owned")
  BY <1>1 DEF SameObjects, Kinds
<1>3. CASE UNCHANGED <<kernel, saved, session, live, work, daemon>>
  BY <1>3 DEF Exempted, CaptureSafe, CaptureBuilt, CaptureCleaned, Captured, Exempt, Objects, Starting,
              ObjectKind
<1>4. CASE work' = NoWork
  <2>1. Stage(work'.then) = "end"
    BY <1>4, Ends DEF NoWork
  <2> QED
    BY <1>2, <2>1, ExemptedEnds DEF Cleaning, Starting
<1>5. CASE work'.todo = << <<"chains">> >> /\ work'.then = Recovering
  <2>1. Stage(work'.then) = "recovered"
    BY <1>5, Ends
  <2>2. Before(work'.todo, <<"delete", "capture">>, <<"delete", "bypass">>)
    BY <1>5 DEF Before
  <2> QED
    BY <1>2, <2>1, <2>2, ExemptedEnds DEF Starting
<1> QED
  BY <1>1, <1>3, <1>4, <1>5

\* Whatever fails and whenever the daemon dies, an owned interface captures no traffic
\* without the exemption of its servers.
THEOREM CaptureHolds == Spec => []CaptureFollowsBypass
<1>1. Init => Exempted
  <2> SUFFICES ASSUME Init PROVE Exempted
    OBVIOUS
  <2>1. kernel = {} /\ work.then = <<>>
    BY DEF Init, NoWork
  <2>2. Stage(work.then) = "end" /\ ~Captured
    BY <2>1, Ends DEF Captured, Objects
  <2> QED
    BY <2>2 DEF Exempted, CaptureSafe, CaptureBuilt, CaptureCleaned, Starting
<1>2. Control /\ Control' /\ Exempted /\ [Next]_vars => Exempted'
  <2> SUFFICES ASSUME Control, Control', Exempted, [Next]_vars
               PROVE  Exempted'
    OBVIOUS
  <2>1. CASE UNCHANGED vars
    BY <2>1 DEF vars, Exempted, CaptureSafe, CaptureBuilt, CaptureCleaned, Captured, Exempt, Objects,
                Starting, ObjectKind
  <2>2. CASE Next
    BY <2>2, BuildExempted, CleanExempted, RecoveryExempted, StopExempted, EndExempted,
       ReportExempted, AskExempted, WorldExempted DEF Next
  <2> QED
    BY <2>1, <2>2
<1>3. Exempted => CaptureFollowsBypass
  BY DEF Exempted, CaptureSafe, Captured, Exempt, CaptureFollowsBypass, Objects, Routing
<1>4. Spec => []Control
  BY ControlHolds
<1> QED
  BY <1>1, <1>2, <1>3, <1>4, PTL DEF Spec

-----------------------------------------------------------------------------
(* The mark of a cgroup, and the rule and the table it leads to.           *)

Ways == {"rule", "private"}
Carried(kind) == Ways \subseteq Objects(kind)
Marked == chain = "mark" /\ slice

\* An interface that stands carries what is marked, and its cgroup is on record.
UpCarries == live.up => Carried(live.kind)
CgroupBound == live.cgroup => saved.bound /\ live.kind # "none"

\* What is marked is carried, and bound on disk. The daemon knows of the mark, or is
\* about to take it away.
MarkKnown ==
    Marked =>
        /\ disk.bound /\ \E kind \in Kinds : Carried(kind)
        /\ daemon => /\ saved.bound
                     /\ IF Recovery THEN work.todo = << <<"chains">> >>
                        ELSE live.chain = "mark" /\ Carried(live.kind)

Standing == UpCarries /\ CgroupBound /\ MarkKnown

\* An installation has the ways before it marks, and before it stands,
MarkBuilt ==
    Starting =>
        /\ disk.bound = saved.bound
        /\ \A part \in Ways : part \in Objects(live.kind)
                              \/ /\ Before(work.todo, <<"add", part>>, <<"mark">>)
                                 /\ Before(work.todo, <<"add", part>>, <<"up">>)

\* and a removal takes the mark away before them.
MarkCleaned ==
    Stage(work.then) \in Cleaning =>
        \A part \in Ways :
            /\ live.up => Before(work.todo, <<"reap">>, <<"delete", part>>)
            /\ Marked => Before(work.todo, <<"chain">>, <<"delete", part>>)

\* It reports a block only of a cgroup that is bound, and success only without the mark;
MarkReported ==
    Reporting => /\ work.verdict = "block" => saved.bound
                 /\ ~work.failed /\ Marked => Todo(<<"chain">>)

\* the interface is forgotten without it.
MarkGone == Stage(work.then) \in {"plan", "forget", "removed"} /\ work.todo = <<>> => ~Marked

\* A scope is marked once it is bound, on an interface that stands.
Installing == work.todo = << <<"install">> >> => disk.bound /\ saved.bound /\ live.up

Marking == Standing /\ MarkBuilt /\ MarkCleaned /\ MarkReported /\ MarkGone /\ Installing

\* A step that leaves the chain, the binding and the ways alone.
LEMMA StandingKeeps ==
    ASSUME Standing, daemon, daemon', Marked' => Marked, live'.kind = live.kind,
           live'.chain = live.chain, live'.cgroup = live.cgroup, live'.up => live.up \/ Carried(live.kind),
           saved'.bound = saved.bound, disk'.bound \in {disk.bound, saved.bound},
           \A kind \in Kinds \cup {"none"} : Carried(kind) => Carried(kind)',
           live.kind \in Kinds \cup {"none"}, ~Recovery, ~Recovery'
    PROVE  Standing'
<1>1. Carried(live.kind) => Carried(live.kind)'
  <2>1. \A kind \in Kinds \cup {"none"} : live'.kind = kind => (Carried(live.kind)' <=> Carried(kind)')
    BY DEF Carried, Objects
  <2> QED
    BY <2>1
<1>2. UpCarries'
  BY <1>1 DEF Standing, UpCarries
<1>3. CgroupBound'
  BY DEF Standing, CgroupBound
<1>4. MarkKnown'
  <2> SUFFICES ASSUME Marked'
               PROVE  /\ disk'.bound /\ \E kind \in Kinds : Carried(kind)'
                      /\ saved'.bound /\ live'.chain = "mark" /\ Carried(live.kind)'
    BY DEF MarkKnown
  <2>1. /\ disk.bound /\ \E kind \in Kinds : Carried(kind)
        /\ saved.bound /\ live.chain = "mark" /\ Carried(live.kind)
    BY DEF Standing, MarkKnown
  <2> QED
    BY <1>1, <2>1
<1> QED
  BY <1>2, <1>3, <1>4 DEF Standing

\* A step that leaves the list behind, or begins another.
LEMMA MarkingEnds ==
    ASSUME Standing', ~Starting', Stage(work'.then) \notin Cleaning,
           Stage(work'.then) \in {"plan", "forget", "removed"} /\ work'.todo = <<>> => ~Marked',
           work'.todo # << <<"install">> >>
    PROVE  Marking'
<1>1. ~Reporting'
  BY DEF Reporting, Cleaning
<1> QED
  BY <1>1 DEF Marking, MarkBuilt, MarkCleaned, MarkReported, MarkGone, Installing

\* Where there is no interface nothing is carried for it.
LEMMA NoneCarries == ASSUME Control PROVE ~Carried("none") /\ live.kind \in Kinds \cup {"none"}
  BY DEF Control, Typed, Carried, Ways, Objects, Kinds, Lives

\* No operation comes to the installation of a mark; it begins with it.
LEMMA InstallIsFirst ==
    ASSUME Control, work.todo # <<>>
    PROVE  Tail(work.todo) # << <<"install">> >>
<1> SUFFICES ASSUME Tail(work.todo) = << <<"install">> >> PROVE FALSE
  OBVIOUS
<1>1. work.then \in Thens /\ work.todo \in Seq(Steps)
  BY DEF Control, Typed, TypedWork
<1>2. Has(work.todo, <<"install">>)
  <2>1. Has(Tail(work.todo), <<"install">>)
    <3>1. Has(<< <<"install">> >>, <<"install">>)
      BY SingleIs DEF Singles
    <3> QED
      BY <3>1
  <2> QED
    BY <1>1, <2>1, TailKeeps
<1>3. <<"install">> \notin Builds /\ <<"install">> \notin Cleans /\ <<"install">> \notin Recoveries
  BY DEF Builds, Cleans, Recoveries, Additions, Deletions
<1>4. \A steps : Only(work.todo, steps) => <<"install">> \in steps
  BY <1>2 DEF Only, Has
<1>5. work.todo \notin Lone
  BY Words
<1>6. /\ << <<"stop">> >> \in Lone /\ << <<"restore">> >> \in Lone /\ << <<"rejournal">> >> \in Lone
      /\ NoWork.todo = <<>>
  BY DEF Lone, Singles, NoWork
<1> QED
  BY <1>1, <1>3, <1>4, <1>5, <1>6, StagesAre DEF Control, Shaped, Cleaning

\* A step of the list of an operation, whatever it does.
LEMMA MarkingMoves ==
    ASSUME Control, Control', Marking, Standing', work.todo # <<>>,
           Head(work.todo) \notin {<<"stop">>, <<"chains">>},
           work' \in {Advanced, Broken} \/ work' = Failed(Advanced), Follows,
           saved'.bound = saved.bound,
           Starting => disk'.bound \in {disk.bound, saved.bound},
           Starting => Objects(live.kind) \subseteq Objects(live.kind)',
           \A part \in Ways : Starting /\ work' # Broken /\ Head(work.todo) = <<"add", part>>
               => part \in Objects(live.kind)',
           Stage(work.then) \in Cleaning =>
               /\ Marked' => Marked
               /\ live'.up => live.up
               /\ Head(work.todo) = <<"reap">> => ~live'.up
               /\ Head(work.todo) = <<"chain">> /\ work' # Broken => ~Marked'
    PROVE  Marking'
<1>1. work.todo \in Seq(Steps) /\ work.then \in Thens /\ work \in TypedWork
      /\ live'.kind = live.kind
  BY DEF Control, Typed, TypedWork, Follows
<1>2. /\ \A one, two : Before(work.todo, one, two) => Head(work.todo) # two
      /\ \A one, two : Before(work.todo, one, two) /\ Head(work.todo) # one =>
           Before(Tail(work.todo), one, two)
      /\ \A step : Has(work.todo, step) /\ Head(work.todo) # step => Has(Tail(work.todo), step)
  BY <1>1, TailKeeps
<1>3. /\ (work' # Broken /\ work'.todo = Tail(work.todo)) \/ (work' = Broken /\ work'.todo = <<>>)
      /\ Stage(work'.then) \in {"rollback", "stopped", "recovered", "removed", "deleted",
                                "undone", "forget", "plan"} =>
           Stage(work.then) = Stage(work'.then) /\ (work'.then = work.then \/ work' = Broken)
      /\ Stage(work'.then) # "end" /\ work' = Broken => work'.failed
      /\ Stage(work'.then) # "end" /\ work' = Advanced => work'.failed = work.failed
      /\ Stage(work'.then) # "end" /\ ~work'.failed => work' = Advanced /\ ~work.failed
  <2>1. work' = Failed(Advanced) => work'.failed
    <3>1. Advanced \in TypedWork
      BY Moves
    <3> QED
      BY <3>1 DEF Failed, TypedWork
  <2>2. Broken.todo = <<>>
    BY Moves
  <2> QED
    BY <2>1, <2>2, MovedStages
<1>4. \A one, two : Before(<<>>, one, two)
  BY EmptyIs
<1>6. MarkBuilt'
  <2> SUFFICES ASSUME Starting'
               PROVE  /\ disk'.bound = saved'.bound
                      /\ \A part \in Ways : part \in Objects(live.kind)'
                            \/ /\ Before(work'.todo, <<"add", part>>, <<"mark">>)
                               /\ Before(work'.todo, <<"add", part>>, <<"up">>)
    BY DEF MarkBuilt
  <2>1. Starting
    BY <1>3 DEF Starting
  <2>2. disk.bound = saved.bound
    BY <2>1 DEF Marking, MarkBuilt
  <2>3. ASSUME NEW part \in Ways, part \notin Objects(live.kind)'
        PROVE  /\ Before(work'.todo, <<"add", part>>, <<"mark">>)
               /\ Before(work'.todo, <<"add", part>>, <<"up">>)
    <3>1. part \notin Objects(live.kind)
      BY <2>1, <2>3
    <3>2. /\ Before(work.todo, <<"add", part>>, <<"mark">>)
          /\ Before(work.todo, <<"add", part>>, <<"up">>)
      BY <2>1, <3>1 DEF Marking, MarkBuilt
    <3> QED
      BY <1>2, <1>3, <1>4, <2>1, <2>3, <3>2
  <2> QED
    BY <2>1, <2>2, <2>3
<1>7. MarkCleaned'
  <2> SUFFICES ASSUME Stage(work'.then) \in Cleaning, NEW part \in Ways
               PROVE  /\ live'.up => Before(work'.todo, <<"reap">>, <<"delete", part>>)
                      /\ Marked' => Before(work'.todo, <<"chain">>, <<"delete", part>>)
    BY DEF MarkCleaned
  <2>1. Stage(work.then) \in Cleaning
    BY <1>3 DEF Cleaning
  <2>2. CASE work'.todo = <<>>
    BY <1>4, <2>2
  <2>3. CASE work' # Broken /\ work'.todo = Tail(work.todo)
    BY <1>2, <2>1, <2>3 DEF Marking, MarkCleaned
  <2> QED
    BY <1>3, <2>2, <2>3
<1>8. MarkReported'
  <2> SUFFICES ASSUME Reporting'
               PROVE  /\ work'.verdict = "block" => saved'.bound
                      /\ ~work'.failed /\ Marked' => Has(work'.todo, <<"chain">>)
    BY DEF MarkReported, Todo
  <2>1. Reporting /\ Stage(work.then) \in Cleaning /\ Stage(work'.then) # "end"
    BY <1>3 DEF Reporting, Cleaning
  <2>2. work'.verdict = work.verdict
    <3>1. work'.then # <<>>
      BY <2>1, Ends
    <3>2. /\ work' = Advanced => work'.verdict = work.verdict
          /\ work' = Broken => work'.verdict = work.verdict
      BY <3>1, Moves
    <3>3. ASSUME work' = Failed(Advanced)
          PROVE  work'.verdict = work.verdict
      <4>1. /\ Advanced \in TypedWork
            /\ Advanced.then # <<>> => Advanced.verdict = work.verdict
        BY Moves
      <4>2. Failed(Advanced).then = Advanced.then /\ Failed(Advanced).verdict = Advanced.verdict
        BY <4>1 DEF Failed, TypedWork
      <4> QED
        BY <3>1, <3>3, <4>1, <4>2
    <3> QED
      BY <3>2, <3>3
  <2>3. ASSUME ~work'.failed, Marked'
        PROVE  Has(work'.todo, <<"chain">>)
    BY <1>2, <1>3, <2>1, <2>3 DEF Marking, MarkReported, Todo
  <2> QED
    BY <2>1, <2>2, <2>3 DEF Marking, MarkReported
<1>9. MarkGone'
  <2> SUFFICES ASSUME Stage(work'.then) \in {"plan", "forget", "removed"}
               PROVE  FALSE
    BY DEF MarkGone
  <2>1. Stage(work.then) \in {"plan", "forget", "removed"}
    BY <1>3
  <2>2. work.todo = << <<"stop">> >>
    BY <2>1 DEF Control, Shaped
  <2> QED
    BY <2>2
<1>10. Installing'
  <2> SUFFICES ASSUME work'.todo = << <<"install">> >> PROVE FALSE
    BY DEF Installing
  <2>1. Tail(work.todo) # << <<"install">> >> /\ <<>> # << <<"install">> >>
    BY InstallIsFirst
  <2> QED
    BY <1>3, <2>1
<1> QED
  BY <1>6, <1>7, <1>8, <1>9, <1>10 DEF Marking

\* What an installation writes keeps the binding, and only its mark touches the chain.
LEMMA BuildBinds ==
    ASSUME Control, Create \/ Intend \/ WriteJournal \/ Spawn \/ AddObject \/ Mark
    PROVE  /\ saved'.bound = saved.bound /\ disk'.bound \in {disk.bound, saved.bound}
           /\ Mark \/ (chain' = chain /\ live'.chain = live.chain /\ live'.cgroup = live.cgroup)
<1>1. live \in Lives /\ live' \in Lives /\ saved \in States
  <2>1. Control'
    BY BuildControl
  <2> QED
    BY <2>1 DEF Control, Typed
<1>2. CASE Create
  <2>1. live' = live \/ live' = [live EXCEPT !.created = TRUE, !.fresh = TRUE]
    BY <1>2 DEF Create
  <2>2. live'.chain = live.chain /\ live'.cgroup = live.cgroup
    BY <1>1, <2>1 DEF Lives
  <2> QED
    BY <1>2, <2>2 DEF Create
<1>3. CASE Intend
  <2>1. live'.chain = live.chain /\ live'.cgroup = live.cgroup
    BY <1>1, <1>3 DEF Intend, Lives
  <2>2. saved' = Journal(live') /\ disk' \in {disk, saved'} /\ chain' = chain
    BY <1>3 DEF Intend, Saves, SaveFails
  <2> QED
    BY <1>1, <2>1, <2>2, JournalIs
<1>4. CASE WriteJournal
  <2>1. saved' = Journal(live) /\ disk' \in {disk, saved'} /\ chain' = chain /\ live' = live
    BY <1>4 DEF WriteJournal, Saves, SaveFails
  <2> QED
    BY <1>1, <2>1, JournalIs
<1>5. CASE Spawn
  <2>1. live'.chain = live.chain /\ live'.cgroup = live.cgroup
    BY <1>1, <1>5 DEF Spawn, Lives
  <2> QED
    BY <1>5, <2>1 DEF Spawn
<1>6. CASE AddObject \/ Mark
  BY <1>6 DEF AddObject, Mark
<1> QED
  BY <1>2, <1>3, <1>4, <1>5, <1>6

\* A mark is set where it is carried, on a cgroup that is bound.
LEMMA MarkStands ==
    ASSUME Control, Control', Marking, Mark
    PROVE  Standing'
<1>1. /\ Follows /\ work.todo # <<>> /\ Starting /\ SameObjects /\ slice' = slice /\ daemon'
      /\ live'.kind = live.kind /\ live'.up = live.up /\ live.kind \in Kinds
  <2>1. Mark => kernel' = kernel
    BY DEF Mark
  <2> QED
    BY <2>1, BuildStep DEF Follows, SameObjects, Objects
<1>2. live \in Lives /\ work.todo \in Seq(Steps) /\ daemon
  BY <1>1 DEF Control, Typed, TypedWork, Follows
<1>3. ~Recovery /\ ~Recovery'
  <2>1. work'.then \in {work.then, Kept(work.then)} /\ work.then = Rolling
    BY <1>1, BuildStep, MovedStages
  <2> QED
    BY <2>1, Ends DEF Recovery
<1>4. \A kind \in Kinds \cup {"none"} : Carried(kind) => Carried(kind)'
  <2>1. kernel' = kernel
    BY DEF Mark
  <2> QED
    BY <2>1 DEF Carried, Objects
<1>5. saved' = saved /\ disk' = disk /\ saved.bound = disk.bound
  BY <1>1 DEF Mark, Marking, MarkBuilt
<1>6. CASE UNCHANGED <<chain, live>>
  BY <1>1, <1>2, <1>3, <1>4, <1>5, <1>6, StandingKeeps DEF Marking, Marked
<1>7. CASE ~slice /\ ~live'.cgroup
  <2>1. Carried(live.kind) => Carried(live.kind)'
    BY <1>1, <1>4 DEF Carried, Objects
  <2> QED
    BY <1>1, <1>7, <2>1 DEF Marking, Standing, UpCarries, CgroupBound, MarkKnown, Marked
<1>8. CASE live.cgroup /\ live' = [live EXCEPT !.chain = "mark"]
  <2>1. live'.chain = "mark" /\ live'.cgroup = live.cgroup
    BY <1>2, <1>8 DEF Lives
  <2>2. Carried(live.kind)
    <3>1. Head(work.todo) = <<"mark">>
      <4>1. Head(work.todo)[1] = "mark" /\ Head(work.todo) \in Builds
        BY <1>1, AtStep, BuildStep DEF Mark
      <4> QED
        BY <4>1 DEF Builds, Additions
    <3>2. \A part \in Ways : ~Before(work.todo, <<"add", part>>, <<"mark">>)
      BY <1>1, <1>2, <3>1, TailKeeps
    <3> QED
      BY <1>1, <3>2 DEF Marking, MarkBuilt, Carried
  <2>3. Carried(live.kind)' /\ \E kind \in Kinds : Carried(kind)'
    <3>1. Carried(live.kind)'
      BY <1>1, <1>4, <2>2 DEF Carried, Objects
    <3> QED
      BY <1>1, <1>4, <2>2, <3>1
  <2>4. saved.bound /\ disk.bound
    BY <1>5, <1>8 DEF Marking, Standing, CgroupBound
  <2> QED
    BY <1>1, <1>3, <1>5, <2>1, <2>3, <2>4
       DEF Marking, Standing, UpCarries, CgroupBound, MarkKnown
<1>9. \/ UNCHANGED <<chain, live>>
      \/ live.cgroup /\ live' = [live EXCEPT !.chain = "mark"]
      \/ ~slice /\ ~live'.cgroup
  <2>1. CASE live.cgroup /\ ~slice /\ live.kind = "legacy"
    <3>1. live' = [live EXCEPT !.cgroup = FALSE, !.chain = "off"]
      BY <2>1 DEF Mark
    <3> QED
      BY <1>2, <2>1, <3>1 DEF Lives
  <2>2. CASE ~(live.cgroup /\ ~slice /\ live.kind = "legacy")
    BY <2>2 DEF Mark
  <2> QED
    BY <2>1, <2>2
<1> QED
  BY <1>6, <1>7, <1>8, <1>9

\* A step of an installation.
LEMMA BuildMarking ==
    Control /\ Control' /\ Marking
    /\ (Create \/ Intend \/ WriteJournal \/ Spawn \/ AddObject \/ Mark) => Marking'
<1> SUFFICES ASSUME Control, Control', Marking,
                    Create \/ Intend \/ WriteJournal \/ Spawn \/ AddObject \/ Mark
             PROVE  Marking'
  OBVIOUS
<1>1. /\ Follows /\ work.todo # <<>> /\ work.then = Rolling /\ Starting
      /\ Head(work.todo) \in Builds /\ work' \in {Advanced, Broken}
      /\ slice' = slice /\ live.kind \in Kinds /\ live'.up = live.up
      /\ daemon /\ daemon' /\ live'.kind = live.kind
  BY BuildStep DEF Follows
<1>2. \A kind \in Kinds \cup {"none"} : Objects(kind) \subseteq Objects(kind)'
  <2>1. kernel \subseteq kernel'
    BY DEF Create, Intend, WriteJournal, Spawn, AddObject, Mark
  <2> QED
    BY <2>1 DEF Objects
<1>3. Objects(live.kind) \subseteq Objects(live.kind)'
  BY <1>1, <1>2 DEF Objects
<1>4. Standing'
  <2>1. CASE Mark
    BY <2>1, MarkStands
  <2>2. CASE ~Mark
    <3>1. /\ saved'.bound = saved.bound /\ disk'.bound \in {disk.bound, saved.bound}
          /\ chain' = chain /\ live'.chain = live.chain /\ live'.cgroup = live.cgroup
      BY <2>2, BuildBinds
    <3>2. \A kind \in Kinds \cup {"none"} : Carried(kind) => Carried(kind)'
      BY <1>2 DEF Carried
    <3>3. ~Recovery /\ ~Recovery'
      <4>1. work'.then \in {work.then, Kept(work.then)}
        BY <1>1, MovedStages
      <4> QED
        BY <1>1, <4>1, Ends DEF Recovery
    <3> QED
      BY <1>1, <3>1, <3>2, <3>3, StandingKeeps DEF Marking, Marked
  <2> QED
    BY <2>1, <2>2
<1>5. \A part \in Ways : work' # Broken /\ Head(work.todo) = <<"add", part>>
                         => part \in Objects(live.kind)'
  BY Added DEF Ways, Routing
<1>6. <<"stop">> \notin Builds /\ <<"chains">> \notin Builds
  BY DEF Builds, Additions
<1>7. Stage(work.then) \notin Cleaning
  BY <1>1 DEF Starting, Cleaning
<1>8. saved'.bound = saved.bound /\ disk'.bound \in {disk.bound, saved.bound}
  BY BuildBinds
<1> QED
  BY <1>1, <1>3, <1>4, <1>5, <1>6, <1>7, <1>8, MarkingMoves

\* Without an interface, and without a mark, there is nothing to keep.
LEMMA StandingNone ==
    ASSUME Control, Standing, live' = live, live.kind = "none", ~Marked'
    PROVE  Standing'
  BY DEF Control, Hosted, Standing, UpCarries, CgroupBound, MarkKnown

\* What is deleted is the one object that the step names, or what goes with the device.
LEMMA DeletionKeeps ==
    ASSUME Control, DeleteObject, NEW kind, NEW part \in Ways, part \in Objects(kind),
           Head(work.todo) # <<"delete", part>>
    PROVE  part \in Objects(kind)'
<1>1. PICK other \in Routing \cup {"device"} : Head(work.todo) = <<"delete", other>>
  BY CleanStep
<1>2. other # part
  BY <1>1
<1>3. \/ kernel' = kernel
      \/ kernel' = kernel \ {<<ObjectKind, other>>}
      \/ kernel' = kernel \ {<<ObjectKind, p>> : p \in {"device", "capture"}}
  BY <1>1 DEF DeleteObject, WithoutDevice
<1>4. part \notin {"device", "capture"} /\ part \in Routing \cup {"device"}
  BY DEF Ways, Routing
<1> QED
  BY <1>2, <1>3, <1>4 DEF Objects

\* What a teardown does to the chain.
LEMMA CleanMarks ==
    ASSUME Control, Identify \/ SetChain \/ Reap \/ DeleteObject
    PROVE  /\ live'.cgroup = live.cgroup /\ (live'.up => live.up)
           /\ live'.kind = live.kind /\ slice' = slice
           /\ Head(work.todo) = <<"reap">> => ~live'.up
           /\ DeleteObject \/ kernel' \cap (Kinds \X Ways) = kernel \cap (Kinds \X Ways)
           /\ SetChain \/ (chain' = chain /\ live'.chain = live.chain)
           /\ SetChain <=> Head(work.todo) = <<"chain">>
           /\ SetChain => \/ chain' \in {"off", "block"}
                          \/ live.chain # "mark"
                          \/ (work' = Broken /\ chain' = chain /\ live' = live)
           /\ SetChain => chain' \in {chain, "off", "block"}
<1>1. live \in Lives
  BY DEF Control, Typed
<1>2. \E step \in {"identify", "chain", "reap", "delete"} :
          /\ At(step) /\ (step = "chain" <=> SetChain) /\ (step = "reap" => Reap)
  <2>1. \A one, two : At(one) /\ At(two) => one = two
    BY DEF At
  <2> QED
    BY <2>1 DEF Identify, SetChain, Reap, DeleteObject
<1>3. PICK step \in {"identify", "chain", "reap", "delete"} :
          /\ At(step) /\ (step = "chain" <=> SetChain) /\ (step = "reap" => Reap)
  BY <1>2
<1>4. (Head(work.todo)[1] = step /\ Only(work.todo, Cleans)) \/ step = "delete"
  <2>1. step # "delete" => work.todo # <<>> /\ Stage(work.then) \in Cleaning
    BY <1>3, AtStep
  <2> QED
    BY <1>3, <2>1, AtStep DEF Control, Shaped
<1>5. step = "delete" => Head(work.todo)[1] = "delete"
  BY <1>3, AtStep
<1>6. step # "delete" => Head(work.todo) \in Cleans
  <2>1. step # "delete" => work.todo # <<>> /\ work.todo \in Seq(Steps)
    BY <1>3, AtStep
  <2> QED
    BY <1>4, <2>1, TailKeeps
<1>7. SetChain <=> Head(work.todo) = <<"chain">>
  <2>1. \A s \in Cleans : s[1] = "chain" => s = <<"chain">>
    BY DEF Cleans, Deletions
  <2> QED
    BY <1>3, <1>4, <1>5, <1>6, <2>1
<1>8. Head(work.todo) = <<"reap">> => Reap
  BY <1>3, <1>4, <1>5
<1>9. /\ live'.cgroup = live.cgroup /\ (live'.up => live.up) /\ live'.kind = live.kind
      /\ Reap => ~live'.up
      /\ SetChain \/ live'.chain = live.chain
  <2>1. CASE Identify
    BY <1>1, <2>1 DEF Identify, Lives
  <2>2. CASE Reap
    BY <1>1, <2>2 DEF Reap, Lives
  <2>3. CASE SetChain
    <3>1. \/ live' = live \/ live' = [live EXCEPT !.chain = "off"]
          \/ live' = [live EXCEPT !.chain = "block"]
      BY <2>3 DEF SetChain
    <3>2. ~Reap
      BY <1>3, <2>3 DEF SetChain, Reap, At
    <3> QED
      BY <1>1, <2>3, <3>1, <3>2 DEF Lives
  <2>4. CASE DeleteObject
    <3>1. ~Reap
      BY <2>4 DEF DeleteObject, Reap, At
    <3> QED
      BY <2>4, <3>1 DEF DeleteObject
  <2> QED
    BY <2>1, <2>2, <2>3, <2>4
<1>10. slice' = slice /\ (SetChain \/ chain' = chain)
  BY DEF Identify, SetChain, Reap, DeleteObject, UnaffectedByStep
<1>11. DeleteObject \/ kernel' \cap (Kinds \X Ways) = kernel \cap (Kinds \X Ways)
  <2>1. DeleteObject \/ kernel' = kernel \/ kernel' = kernel \ {<<live.kind, "helper">>}
    BY DEF Identify, SetChain, Reap
  <2> QED
    BY <2>1 DEF Ways
<1>12. SetChain => \/ chain' \in {"off", "block"} \/ live.chain # "mark"
                   \/ (work' = Broken /\ chain' = chain /\ live' = live)
  BY DEF SetChain
<1>13. SetChain => chain' \in {chain, "off", "block"}
  BY DEF SetChain
<1> QED
  BY <1>7, <1>8, <1>9, <1>10, <1>11, <1>12, <1>13

\* A step of a teardown, or a deletion of a recovery, keeps what is marked carried.
LEMMA CleanStands ==
    ASSUME Control, Control', Marking, Identify \/ SetChain \/ Reap \/ DeleteObject
    PROVE  Standing'
<1>1. /\ Follows /\ work.todo # <<>> /\ ~Starting /\ Stage(work.then) \in Cleaning \cup {"recovered"}
      /\ saved' = saved /\ disk' = disk /\ work' \in {Advanced, Broken, Failed(Advanced)}
      /\ \/ Stage(work.then) \in Cleaning
         \/ /\ DeleteObject /\ live' = live /\ chain' = chain
            /\ \E part \in Routing \cup {"device"} : Head(work.todo) = <<"delete", part>>
  BY CleanStep
<1>2. /\ live'.cgroup = live.cgroup /\ (live'.up => live.up)
      /\ live'.kind = live.kind /\ slice' = slice
      /\ DeleteObject \/ kernel' \cap (Kinds \X Ways) = kernel \cap (Kinds \X Ways)
      /\ SetChain \/ (chain' = chain /\ live'.chain = live.chain)
      /\ SetChain => \/ chain' \in {"off", "block"}
                     \/ live.chain # "mark"
                     \/ (work' = Broken /\ chain' = chain /\ live' = live)
      /\ SetChain => chain' \in {chain, "off", "block"}
  BY CleanMarks
<1>3. CASE Recovery
  <2>1. live.kind = "none" /\ live' = live /\ chain' = chain
    BY <1>1, <1>3 DEF Recovery, Control, Shaped, Cleaning
  <2>2. ~Marked
    <3>1. work.todo # << <<"chains">> >>
      BY <1>1, <1>3 DEF Recovery, Cleaning
    <3>2. daemon
      BY <1>1 DEF Follows
    <3> QED
      BY <1>3, <3>1, <3>2 DEF Marking, Standing, MarkKnown
  <2> QED
    BY <1>2, <2>1, <2>2, StandingNone DEF Marking, Marked
<1>4. CASE ~Recovery
  <2>1. Stage(work.then) \in Cleaning /\ daemon /\ daemon' /\ live.kind \in Kinds
    BY <1>1, <1>4, NoneCarries DEF Recovery, Follows, Control, Shaped
  <2>2. ~Recovery'
    BY <1>1, <2>1, MovedStages DEF Recovery, Cleaning
  <2>3. DeleteObject \/ \A kind \in Kinds : Carried(kind) => Carried(kind)'
    <3>1. Ways \subseteq Routing \cup {"device"}
      BY DEF Ways, Routing
    <3> QED
      BY <1>2, <3>1 DEF Carried, Objects
  <2>4. DeleteObject /\ (live.up \/ Marked) => \A kind \in Kinds : Carried(kind) => Carried(kind)'
    <3>1. ASSUME DeleteObject, live.up \/ Marked, NEW part \in Ways
          PROVE  Head(work.todo) # <<"delete", part>>
      <4>1. work.todo \in Seq(Steps)
        BY DEF Control, Typed, TypedWork
      <4>2. \/ Before(work.todo, <<"reap">>, <<"delete", part>>)
            \/ Before(work.todo, <<"chain">>, <<"delete", part>>)
        BY <2>1, <3>1 DEF Marking, MarkCleaned
      <4> QED
        BY <1>1, <4>1, <4>2, TailKeeps
    <3> QED
      BY <3>1, DeletionKeeps DEF Carried
  <2>5. live.up \/ Marked => \A kind \in Kinds : Carried(kind) => Carried(kind)'
    BY <2>3, <2>4
  <2>6. UpCarries'
    <3> SUFFICES ASSUME live'.up PROVE Carried(live.kind)'
      BY DEF UpCarries
    <3>0. live.up /\ live.kind \in Kinds
      BY <1>2, <2>1
    <3>1. Carried(live.kind)
      BY <1>2, <3>0 DEF Marking, Standing, UpCarries
    <3>2. \A kind \in Kinds : kind = live.kind => (Carried(kind)' <=> Carried(live.kind)')
      BY <1>2 DEF Carried, Objects
    <3> QED
      BY <1>2, <2>1, <2>5, <3>1, <3>2
  <2>7. CgroupBound'
    BY <1>1, <1>2 DEF Marking, Standing, CgroupBound
  <2>8. MarkKnown'
    <3> SUFFICES ASSUME Marked'
                 PROVE  /\ disk'.bound /\ \E kind \in Kinds : Carried(kind)'
                        /\ saved'.bound /\ live'.chain = "mark" /\ Carried(live.kind)'
      BY <2>2 DEF MarkKnown
    <3>1. Marked /\ chain' = "mark"
      BY <1>2 DEF Marked
    <3>2. /\ disk.bound /\ \E kind \in Kinds : Carried(kind)
          /\ saved.bound /\ live.chain = "mark" /\ Carried(live.kind)
      BY <1>4, <2>1, <3>1 DEF Marking, Standing, MarkKnown
    <3>3. live'.chain = "mark"
      BY <1>2, <3>1, <3>2
    <3>4. \A kind \in Kinds : kind = live.kind => (Carried(kind)' <=> Carried(live.kind)')
      BY <1>2 DEF Carried, Objects
    <3> QED
      BY <1>1, <2>1, <2>5, <3>1, <3>2, <3>3, <3>4
  <2> QED
    BY <2>6, <2>7, <2>8 DEF Standing
<1> QED
  BY <1>3, <1>4

\* A step of a removal, or a deletion of a recovery.
LEMMA CleanMarking ==
    Control /\ Control' /\ Marking /\ (Identify \/ SetChain \/ Reap \/ DeleteObject) => Marking'
<1> SUFFICES ASSUME Control, Control', Marking, Identify \/ SetChain \/ Reap \/ DeleteObject
             PROVE  Marking'
  OBVIOUS
<1>1. /\ Follows /\ work.todo # <<>> /\ ~Starting /\ Stage(work.then) \in Cleaning \cup {"recovered"}
      /\ saved' = saved /\ disk' = disk /\ work' \in {Advanced, Broken, Failed(Advanced)}
      /\ \/ Head(work.todo) \notin {<<"stop">>, <<"intend">>, <<"chains">>}
         \/ \E part : Head(work.todo) = <<"delete", part>>
  BY CleanStep
<1>2. /\ live'.up => live.up
      /\ Head(work.todo) = <<"reap">> => ~live'.up
      /\ SetChain \/ chain' = chain
      /\ SetChain <=> Head(work.todo) = <<"chain">>
      /\ SetChain => \/ chain' \in {"off", "block"} \/ live.chain # "mark" \/ work' = Broken
      /\ SetChain => chain' \in {chain, "off", "block"}
      /\ slice' = slice
  BY CleanMarks
<1>3. Standing'
  BY CleanStands
<1>4. Marked' => Marked
  BY <1>2 DEF Marked
<1>5. ASSUME Stage(work.then) \in Cleaning, Head(work.todo) = <<"chain">>, work' # Broken
      PROVE  ~Marked'
  <2>1. daemon /\ ~Recovery
    BY <1>1, <1>5 DEF Follows, Recovery, Cleaning
  <2>2. Marked => live.chain = "mark"
    BY <2>1 DEF Marking, Standing, MarkKnown
  <2> QED
    BY <1>2, <1>4, <1>5, <2>2 DEF Marked
<1>6. Head(work.todo) \notin {<<"stop">>, <<"chains">>}
  BY <1>1
<1> QED
  BY <1>1, <1>2, <1>3, <1>4, <1>5, <1>6, MarkingMoves

\* A list of other steps is no installation of a mark.
LEMMA OtherList ==
    ASSUME NEW steps \in {Builds, Cleans, Recoveries}, NEW list, Only(list, steps)
    PROVE  list # << <<"install">> >>
<1>1. <<"install">> \notin steps
  BY DEF Builds, Cleans, Recoveries, Additions, Deletions
<1>2. Has(<< <<"install">> >>, <<"install">>)
  BY SingleIs DEF Singles
<1>3. Only(<< <<"install">> >>, steps) => <<"install">> \in steps
  BY <1>2 DEF Only, Has
<1> QED
  BY <1>1, <1>3

\* A recovery blocks what was marked before it takes anything away.
LEMMA RecoveryMarking ==
    ASSUME {"mark", "block"} \cap Faulty = {}, Control, Control', Marking,
           RecoverChains \/ IntendAgain \/ Recognise \/ Kill \/ Unchain
    PROVE  Marking'
<1>1. /\ Follows /\ work.todo # <<>> /\ work.then = Recovering /\ Recovery /\ live.kind = "none"
      /\ live' = live /\ daemon /\ slice' = slice
      /\ \/ /\ RecoverChains /\ work' = [work EXCEPT !.todo = RecoveryOf(saved')]
         \/ /\ ~RecoverChains /\ work' \in {Advanced, Broken}
            /\ Head(work.todo) \notin {<<"chains">>, <<"stop">>, <<"intend">>}
  BY RecoveryStep
<1>2. saved' \in States /\ saved \in States /\ work \in TypedWork
  BY DEF Control, Typed
<1>3. CASE RecoverChains /\ work' = [work EXCEPT !.todo = RecoveryOf(saved')]
  <2>1. work'.todo = RecoveryOf(saved') /\ work'.then = Recovering
    BY <1>1, <1>2, <1>3 DEF TypedWork
  <2>2. ~Marked'
    <3>1. Marked => saved.bound
      BY <1>1 DEF Marking, Standing, MarkKnown
    <3>2. ~Fails("block")
      BY DEF Fails
    <3> QED
      BY <1>1, <1>3, <3>1, <3>2 DEF RecoverChains, Marked
  <2>3. Standing'
    BY <1>1, <2>2, StandingNone DEF Marking
  <2>4. work'.todo # << <<"install">> >>
    BY <1>2, <2>1, RecoveryIs, OtherList
  <2> QED
    BY <2>1, <2>2, <2>3, <2>4, Ends, MarkingEnds DEF Starting, Cleaning
<1>4. CASE /\ ~RecoverChains /\ work' \in {Advanced, Broken}
           /\ Head(work.todo) \notin {<<"chains">>, <<"stop">>, <<"intend">>}
  <2>1. ~Marked
    <3>1. work.todo # << <<"chains">> >>
      BY <1>4
    <3> QED
      BY <1>1, <3>1 DEF Marking, Standing, MarkKnown
  <2>2. chain' \in {chain, "off"}
    BY <1>4 DEF IntendAgain, Recognise, Kill, Unchain
  <2>3. ~Marked'
    BY <1>1, <2>1, <2>2 DEF Marked
  <2>4. Standing'
    BY <1>1, <2>3, StandingNone DEF Marking
  <2>5. work'.then = Recovering
    BY <1>1, <1>4, MovedStages DEF Recovery
  <2>6. work'.todo # << <<"install">> >>
    <3>1. work'.todo \in {Tail(work.todo), <<>>}
      BY <1>1, <1>4, MovedStages
    <3>2. <<>> # << <<"install">> >>
      OBVIOUS
    <3> QED
      BY <1>1, <3>1, <3>2, InstallIsFirst
  <2> QED
    BY <2>3, <2>4, <2>5, <2>6, Ends, MarkingEnds DEF Starting, Cleaning
<1> QED
  BY <1>1, <1>3, <1>4

\* A teardown reaps its helper, and takes the chain away, before the ways.
LEMMA CleanupReaps ==
    ASSUME NEW deletes \in BOOLEAN, NEW part \in Ways
    PROVE  LET list == CleanupOf(deletes)
           IN  /\ Before(list, <<"reap">>, <<"delete", part>>)
               /\ Before(list, <<"chain">>, <<"delete", part>>)
<1> DEFINE owned == << <<"identify">>, <<"chain">>, <<"reap">>, <<"delete", "capture">>,
                       <<"delete", "private">>, <<"delete", "bypass">>, <<"delete", "rule">>,
                       <<"delete", "device">> >>
           legacy == << <<"chain">>, <<"reap">>, <<"delete", "capture">>, <<"delete", "bypass">>,
                        <<"delete", "rule">>, <<"delete", "private">> >>
           rest == IF deletes THEN << <<"delete", "device">> >> ELSE <<>>
<1>1. CleanupOf(deletes) = IF live.kind = "owned" THEN owned ELSE legacy \o rest
  BY DEF CleanupOf
<1>2. Before(CleanupOf(deletes), <<"chain">>, <<"delete", part>>)
  BY CleanupIs DEF Ways
<1>3. Before(owned, <<"reap">>, <<"delete", part>>) /\ Before(legacy, <<"reap">>, <<"delete", part>>)
  BY DEF Before, Ways
<1>4. legacy \in Seq(Steps) /\ rest \in Seq(Steps)
  <2>1. \A d \in Deletions : d \in Cleans
    BY CleansAre
  <2>2. legacy \in Seq(Cleans)
    BY <2>1, CleansAre
  <2>3. <<"delete", "device">> \in Steps
    BY CleansAre, StepsAre
  <2>4. rest \in Seq(Steps)
    BY <2>3, EmptyIs
  <2> QED
    BY <2>2, <2>4, CleansAre
<1>5. Has(legacy, <<"reap">>)
  BY DEF Has
<1> HIDE DEF owned, legacy, rest
<1>6. Before(legacy \o rest, <<"reap">>, <<"delete", part>>)
  BY <1>3, <1>4, <1>5, Joins
<1> QED
  BY <1>1, <1>2, <1>3, <1>6

\* An operation begins with the list it is given,
LEMMA BegunList ==
    ASSUME NEW name, NEW todo, NEW then
    PROVE  Begin(name, todo, then).todo = todo /\ Failed(Begin(name, todo, then)).todo = todo
<1> DEFINE begun == [NoWork EXCEPT !.name = name, !.todo = todo, !.then = then]
<1>1. \A w : Settled(w).todo = w.todo
  BY DEF Settled, Running, NoWork
<1>2. begun.todo = todo /\ Failed(begun).todo = todo
  BY DEF NoWork, Failed
<1>3. Begin(name, todo, then) \in {begun, NoWork}
  BY DEF Begin, Settled
<1>4. Begin(name, todo, then) = Settled(begun)
  BY DEF Begin
<1>5. Failed(NoWork).todo = NoWork.todo
  BY DEF Failed, NoWork
<1> HIDE DEF begun
<1>6. Begin(name, todo, then).todo = todo
  BY <1>1, <1>2, <1>4
<1> QED
  BY <1>2, <1>3, <1>5, <1>6

\* and goes on with the one a step expands to.
LEMMA ExpandedList ==
    ASSUME work \in TypedWork, NEW todo, NEW then, NEW verdict, NEW deletes
    PROVE  Expanded(todo, then, verdict, deletes).todo = todo
<1> DEFINE left == then \o Advanced.then
           w == [work EXCEPT !.todo = todo, !.then = left, !.verdict = verdict,
                             !.deletes = deletes, !.failed = FALSE]
<1>1. Expanded(todo, then, verdict, deletes) = Settled(w)
  BY DEF Expanded
<1> HIDE DEF left
<1>2. w.todo = todo
  BY DEF TypedWork
<1> HIDE DEF w
<1>3. Settled(w).todo = w.todo
  BY DEF Settled, Running, NoWork
<1> QED
  BY <1>1, <1>2, <1>3

\* A removal begins with everything in its order, and takes away what was marked.
LEMMA StopMarking == Control /\ Control' /\ Marking /\ Stop => Marking'
<1> SUFFICES ASSUME Control, Control', Marking, Stop
             PROVE  Marking'
  OBVIOUS
<1>1. /\ daemon /\ daemon' /\ kernel' = kernel /\ chain' = chain /\ slice' = slice
      /\ work.todo = << <<"stop">> >> /\ ~Recovery /\ ~Starting
      /\ live'.kind = live.kind /\ live'.up = live.up
      /\ live'.chain = live.chain /\ live'.cgroup = live.cgroup
      /\ saved' = saved \/ saved' = Journal(live')
      /\ disk' \in {disk, saved'}
      /\ \/ /\ work'.todo = <<>>
            /\ Stage(work'.then) \in {"end", "released", "exit"}
         \/ /\ live.kind = "none" /\ work'.todo = <<>> /\ work'.then = work.then
            /\ Stage(work.then) \in {"end", "launch", "released", "removed"}
         \/ /\ live.kind # "none" /\ work'.todo = CleanupOf(work.name = "delete")
            /\ Stage(work'.then) \in {"deleted", "stopped"}
            /\ work.name = "switch" \/ work'.verdict = Verdict
            /\ work.name = "switch" => work'.verdict = SwitchVerdict
  BY StopStep
<1>2. saved \in States /\ live' \in Lives
  BY DEF Control, Typed
<1>3. saved'.bound = saved.bound /\ disk'.bound \in {disk.bound, saved.bound}
  BY <1>1, <1>2, JournalIs
<1>4. ~Recovery' /\ ~Starting'
  BY <1>1 DEF Recovery, Starting
<1>5. Standing'
  <2>1. \A kind \in Kinds \cup {"none"} : Carried(kind) => Carried(kind)'
    BY <1>1 DEF Carried, Objects
  <2> QED
    BY <1>1, <1>3, <1>4, <2>1, NoneCarries, StandingKeeps DEF Marking, Marked
<1>6. CASE /\ work'.todo = <<>>
           /\ \/ Stage(work'.then) \in {"end", "released", "exit"}
              \/ /\ live.kind = "none"
                 /\ Stage(work'.then) \in {"end", "launch", "released", "removed"}
  <2>1. <<>> # << <<"install">> >>
    OBVIOUS
  <2>2. live.kind = "none" => ~Marked'
    BY <1>1, NoneCarries DEF Marking, Standing, MarkKnown, Marked
  <2> QED
    BY <1>4, <1>5, <1>6, <2>1, <2>2, MarkingEnds DEF Cleaning
<1>7. CASE /\ work'.todo = CleanupOf(work.name = "delete")
           /\ Stage(work'.then) \in {"deleted", "stopped"}
           /\ work.name = "switch" \/ work'.verdict = Verdict
           /\ work.name = "switch" => work'.verdict = SwitchVerdict
  <2> DEFINE deletes == work.name = "delete"
  <2>1. deletes \in BOOLEAN /\ work'.todo = CleanupOf(deletes)
    BY <1>7
  <2> HIDE DEF deletes
  <2>2. MarkBuilt'
    BY <1>4 DEF MarkBuilt
  <2>3. MarkCleaned'
    BY <2>1, CleanupReaps DEF MarkCleaned
  <2>4. MarkReported'
    <3>1. work'.verdict = "block" => saved.bound
      BY <1>7 DEF Verdict, SwitchVerdict
    <3>2. Has(work'.todo, <<"chain">>)
      BY <2>1, CleanupIs
    <3> QED
      BY <1>3, <3>1, <3>2 DEF MarkReported, Todo
  <2>5. MarkGone'
    BY <1>7 DEF MarkGone
  <2>6. Installing'
    BY <2>1, CleanupIs, OtherList DEF Installing
  <2> QED
    BY <1>5, <2>2, <2>3, <2>4, <2>5, <2>6 DEF Marking
<1> QED
  BY <1>1, <1>6, <1>7

\* No end of an operation comes to the installation of a mark.
LEMMA EndList ==
    ASSUME Control, Control', Up \/ RolledBack \/ Rejected \/ Released \/ Launch
    PROVE  work'.todo # << <<"install">> >>
<1>1. work \in TypedWork
  BY DEF Control, Typed
<1>2. << <<"install">> >> \notin {<<>>, << <<"stop">> >>}
  OBVIOUS
<1>3. CASE Up
  <2> DEFINE none == <<>>
             rejecting == << <<"rejected">> >>
  <2>1. work' = Begin("start", none, none) \/ work' = Failed(Begin("start", none, rejecting))
    BY <1>3 DEF Up, Failed
  <2> HIDE DEF none, rejecting
  <2>2. work'.todo = none
    BY <2>1, BegunList
  <2> QED
    BY <1>2, <2>2 DEF none
<1>4. CASE RolledBack \/ Rejected \/ Released \/ Launch
  <2> DEFINE stop == << <<"stop">> >>
             released == << <<"released">> >>
             release == "release"
             no == FALSE
             whole == Expanded(stop, released, release, no)
  <2>1. work' \in {Advanced, Broken, Failed(Advanced), whole}
    BY <1>4 DEF RolledBack, Rejected, Released, Launch, Failed
  <2>2. work.todo = <<>> /\ work.then # <<>>
    <3>1. \/ At("undone") \/ At("rejected") \/ At("released") \/ At("launch")
      BY <1>4 DEF RolledBack, Rejected, Released, Launch
    <3> QED
      BY <3>1, AtStep
  <2>3. Advanced \in TypedWork /\ Advanced.todo = <<>> /\ Broken.todo = <<>>
    BY <2>2, Moves
  <2>4. Failed(Advanced).todo = <<>>
    BY <2>3 DEF Failed, TypedWork
  <2> HIDE DEF stop, released, release, no
  <2>5. whole.todo = stop
    BY <1>1, ExpandedList
  <2> HIDE DEF whole
  <2>6. work'.todo = <<>> \/ work'.todo = stop
    BY <2>1, <2>3, <2>4, <2>5
  <2> QED
    BY <1>2, <2>6 DEF stop
<1> QED
  BY <1>3, <1>4

\* The steps in which an installation or an operation ends: what stands is carried.
LEMMA EndMarking ==
    Control /\ Control' /\ Marking
    /\ (Up \/ Rollback \/ RolledBack \/ Rejected \/ Released \/ Launch) => Marking'
<1> SUFFICES ASSUME Control, Control', Marking,
                    Up \/ Rollback \/ RolledBack \/ Rejected \/ Released \/ Launch
             PROVE  Marking'
  OBVIOUS
<1>1. /\ daemon /\ daemon' /\ kernel' = kernel /\ chain' = chain /\ slice' = slice /\ ~Recovery
      /\ live'.kind = live.kind /\ live'.chain = live.chain /\ live'.cgroup = live.cgroup
      /\ Up \/ live'.up = live.up
      /\ saved'.bound = saved.bound /\ disk' \in {disk, saved'}
      /\ Stage(work'.then) \in {"end", "rejected", "undone", "released"}
      /\ Stage(work'.then) = "undone" <=> Rollback
      /\ Up => work.then = Rolling
  BY EndStep
<1>2. ~Recovery' /\ ~Starting' /\ ~Reporting'
  BY <1>1 DEF Recovery, Starting, Reporting
<1>3. Up => Carried(live.kind)
  <2> SUFFICES ASSUME Up PROVE Carried(live.kind)
    OBVIOUS
  <2>1. Starting
    BY <1>1, Ends DEF Starting
  <2>2. At("up")
    BY DEF Up
  <2>3. /\ work.todo # <<>> /\ work.todo \in Seq(Steps) /\ Only(work.todo, Builds)
        /\ Head(work.todo)[1] = "up"
    BY <2>1, <2>2, AtStep DEF Control, Shaped, Typed, TypedWork, Starting
  <2>4. Head(work.todo) = <<"up">>
    <3>1. Head(work.todo) \in Builds
      BY <2>3, TailKeeps
    <3> QED
      BY <2>3, <3>1 DEF Builds, Additions
  <2>5. \A part \in Ways : ~Before(work.todo, <<"add", part>>, <<"up">>)
    BY <2>3, <2>4, TailKeeps
  <2> QED
    BY <2>1, <2>5 DEF Marking, MarkBuilt, Carried
<1>4. Standing'
  <2>1. \A kind \in Kinds \cup {"none"} : Carried(kind) => Carried(kind)'
    BY <1>1 DEF Carried, Objects
  <2> QED
    BY <1>1, <1>2, <1>3, <2>1, NoneCarries, StandingKeeps DEF Marking, Marked
<1>5. CASE ~Rollback
  <2>1. work'.todo # << <<"install">> >>
    BY <1>5, EndList
  <2> QED
    BY <1>1, <1>2, <1>4, <1>5, <2>1, MarkingEnds DEF Cleaning
<1>6. CASE Rollback
  <2>1. work'.todo = <<>> \/ \E deletes \in BOOLEAN : work'.todo = CleanupOf(deletes)
    BY <1>6, RollbackList
  <2>2. MarkBuilt' /\ MarkReported'
    BY <1>2 DEF MarkBuilt, MarkReported
  <2>3. MarkCleaned'
    BY <2>1, CleanupReaps, EmptyIs DEF MarkCleaned
  <2>4. MarkGone'
    BY <1>1, <1>6 DEF MarkGone
  <2>5. Installing'
    <3>1. <<>> # << <<"install">> >>
      OBVIOUS
    <3> QED
      BY <2>1, <3>1, CleanupIs, OtherList DEF Installing
  <2> QED
    BY <1>4, <2>2, <2>3, <2>4, <2>5 DEF Marking
<1> QED
  BY <1>5, <1>6

\* A removal is reported: the binding goes with the mark.
LEMMA ReportMarking == Control /\ Control' /\ Marking /\ (Stopped \/ Deleted) => Marking'
<1> SUFFICES ASSUME Control, Control', Marking, Stopped \/ Deleted
             PROVE  Marking'
  OBVIOUS
<1>1. /\ daemon /\ daemon' /\ kernel' = kernel /\ chain' = chain /\ slice' = slice
      /\ work.todo = <<>> /\ live.kind \in Kinds /\ Reporting /\ ~Recovery
      /\ work'.todo = <<>>
      /\ Stage(work'.then) \in {"end", "launch", "forget", "plan", "released", "removed", "exit"}
      /\ work' = Broken => Stage(work'.then) \in {"end", "released", "exit"}
      /\ \/ FinishDeletion /\ ~work.failed
         \/ /\ live'.kind = live.kind /\ live'.up = live.up /\ live'.chain = live.chain
            /\ disk' \in {disk, saved'} /\ (work' = Broken \/ ~work.failed)
  BY ReportStep
<1>2. live \in Lives /\ saved \in States /\ session \in Sessions /\ live' \in Lives
  BY DEF Control, Typed
<1>3. ~Recovery' /\ ~Starting'
  BY <1>1 DEF Recovery, Starting
<1>4. ~work.failed => ~Marked /\ ~Marked'
  BY <1>1, EmptyIs DEF Marking, MarkReported, Marked, Todo
<1>5. live'.kind = live.kind => (Carried(live.kind)' <=> Carried(live.kind))
  BY <1>1 DEF Carried, Objects
<1>6. ASSUME FinishDeletion, ~work.failed
      PROVE  Standing'
  <2>1. live' = NoInterface \/ (saved' = Journal(live) /\ live' = live)
    BY <1>6 DEF FinishDeletion
  <2>2. UpCarries' /\ CgroupBound'
    <3>1. CASE live' = NoInterface
      BY <3>1, NothingIs DEF UpCarries, CgroupBound
    <3>2. CASE saved' = Journal(live) /\ live' = live
      <4>1. saved'.bound = saved.bound
        BY <1>2, <3>2, JournalIs
      <4> QED
        BY <1>5, <3>2, <4>1 DEF Marking, Standing, UpCarries, CgroupBound
    <3> QED
      BY <2>1, <3>1, <3>2
  <2> QED
    BY <1>4, <1>6, <2>2 DEF Standing, MarkKnown
<1>7. Standing'
  <2> SUFFICES ASSUME ~(FinishDeletion /\ ~work.failed) PROVE Standing'
    BY <1>6
  <2>0. ~(FinishDeletion /\ ~work.failed)
    OBVIOUS
  <2>1. \/ work.failed /\ live' = live /\ saved'.bound = saved.bound
        \/ /\ ~work.failed /\ live'.cgroup = (work.verdict = "block")
           /\ saved'.bound = (saved.bound /\ work.verdict = "block")
    <3>1. CASE Deleted
      BY <2>0, <3>1 DEF Deleted
    <3>2. CASE Stopped
      <4>1. /\ live' = IF work.failed THEN live ELSE [live EXCEPT !.cgroup = (work.verdict = "block")]
            /\ saved' = [Synced(session.here, live')
                           EXCEPT !.bound = @ /\ (work.failed \/ work.verdict = "block")]
        BY <2>0, <3>2 DEF Stopped
      <4>2. Synced(session.here, live') \in States /\ Synced(session.here, live').bound = saved.bound
        <5>1. session.here \in BOOLEAN
          BY <1>2 DEF Sessions
        <5> QED
          BY <1>2, <5>1, SyncedIs
      <4>3. saved'.bound = (saved.bound /\ (work.failed \/ work.verdict = "block"))
        BY <4>1, <4>2 DEF States
      <4>4. ~work.failed => live'.cgroup = (work.verdict = "block")
        BY <1>2, <4>1 DEF Lives
      <4> QED
        BY <1>2, <4>1, <4>3, <4>4 DEF States
    <3> QED
      BY <3>1, <3>2
  <2>2. CASE work.failed
    <3>1. \A kind \in Kinds \cup {"none"} : Carried(kind) => Carried(kind)'
      BY <1>1 DEF Carried, Objects
    <3> QED
      BY <1>1, <1>3, <2>1, <2>2, <3>1, NoneCarries, StandingKeeps DEF Marking, Marked
  <2>3. CASE ~work.failed
    <3>1. work.verdict = "block" => saved.bound
      BY <1>1 DEF Marking, MarkReported
    <3>2. UpCarries'
      BY <1>1, <1>5, <2>0 DEF Marking, Standing, UpCarries
    <3>3. CgroupBound'
      BY <1>1, <2>0, <2>1, <2>3, <3>1 DEF CgroupBound, Kinds
    <3> QED
      BY <1>4, <2>3, <3>2, <3>3 DEF Standing, MarkKnown
  <2> QED
    BY <2>2, <2>3
<1>8. Stage(work'.then) \in {"plan", "forget", "removed"} => ~Marked'
  BY <1>1, <1>4
<1>9. <<>> # << <<"install">> >>
  OBVIOUS
<1> QED
  BY <1>1, <1>3, <1>7, <1>8, <1>9, MarkingEnds DEF Cleaning

\* An interface is let go without the mark.
LEMMA LeaveMarking ==
    Control /\ Control' /\ Marking /\ (Replan \/ Forget \/ Removed \/ Recovered) => Marking'
<1> SUFFICES ASSUME Control, Control', Marking, Replan \/ Forget \/ Removed \/ Recovered
             PROVE  Marking'
  OBVIOUS
<1>1. /\ daemon /\ daemon' /\ kernel' = kernel /\ chain' = chain /\ slice' = slice
      /\ work.todo = <<>> /\ work'.todo = <<>> /\ Stage(work'.then) \in {"end", "exit"}
      /\ Replan => Stage(work.then) = "plan" /\ live.kind = "legacy"
                   /\ live' \in {live, PlannedInterface("legacy")}
      /\ Forget => live' = NoInterface /\ Stage(work.then) = "forget"
      /\ Removed => live' = NoInterface /\ Stage(work.then) = "removed"
      /\ Recovered => Recovery /\ live' = live /\ live.kind = "none"
  BY LeaveStep
<1>2. live \in Lives /\ saved \in States /\ slice \in BOOLEAN
  BY DEF Control, Typed
<1>3. ~Marked /\ ~Marked'
  <2>1. Replan \/ Forget \/ Removed => ~Marked
    BY <1>1 DEF Marking, MarkGone
  <2>2. <<>> # << <<"chains">> >>
    OBVIOUS
  <2>3. Recovered => ~Marked
    BY <1>1, <2>2 DEF Marking, Standing, MarkKnown
  <2> QED
    BY <1>1, <2>1, <2>3 DEF Marked
<1>4. Standing'
  <2>1. CASE Recovered
    BY <1>1, <1>3, <2>1, StandingNone DEF Marking
  <2>2. CASE Forget \/ Removed
    BY <1>1, <1>3, <2>2, NothingIs DEF Standing, UpCarries, CgroupBound, MarkKnown
  <2>3. CASE Replan
    <3> DEFINE planned == PlannedInterface("legacy")
    <3>1. /\ planned.kind = "legacy" /\ ~planned.up /\ planned.cgroup = (saved.bound /\ slice)
      <4>1. "legacy" \in Kinds
        BY DEF Kinds
      <4> QED
        BY <1>2, <4>1, PlannedIs
    <3>2. live' = planned => (saved.bound /\ slice => saved' = saved)
      BY <2>3 DEF Replan, UnboundIfEnded
    <3>3. (live' = planned /\ (saved.bound /\ slice => saved' = saved))
          \/ (live' = live /\ saved' = saved)
      BY <2>3 DEF Replan, UnboundIfEnded
    <3> HIDE DEF planned
    <3>4. UpCarries' /\ CgroupBound'
      <4>1. ASSUME live' = planned, saved.bound /\ slice => saved' = saved
            PROVE  UpCarries' /\ CgroupBound'
        BY <3>1, <4>1 DEF UpCarries, CgroupBound
      <4>2. ASSUME live' = live, saved' = saved
            PROVE  UpCarries' /\ CgroupBound'
        BY <1>1, <4>2 DEF Marking, Standing, UpCarries, CgroupBound, Carried, Objects
      <4> QED
        BY <3>3, <4>1, <4>2
    <3> QED
      BY <1>3, <3>4 DEF Standing, MarkKnown
  <2> QED
    BY <2>1, <2>2, <2>3
<1>5. <<>> # << <<"install">> >>
  OBVIOUS
<1> QED
  BY <1>1, <1>3, <1>4, <1>5, MarkingEnds DEF Starting, Cleaning

\* What keeps the objects keeps what is carried.
LEMMA SameCarried ==
    ASSUME SameObjects
    PROVE  \A kind \in Kinds : Carried(kind) <=> Carried(kind)'
  BY DEF SameObjects, Carried

\* The mark of a scope is installed on an interface that stands, or not at all.
LEMMA LoneMarking ==
    ASSUME {"mark", "block"} \cap Faulty = {}, Control, Control', Marking,
           Restore \/ Rejournal \/ Install
    PROVE  Marking'
<1>1. /\ daemon /\ daemon' /\ slice' = slice /\ SameObjects
      /\ live'.kind = live.kind /\ live'.up = live.up
      /\ Install \/ (live'.chain = live.chain /\ live'.cgroup = live.cgroup /\ chain' = chain)
      /\ Install \/ saved'.bound = saved.bound
      /\ disk' \in {disk, saved'} \/ (Install /\ ~slice)
      /\ Stage(work'.then) \in {"end", "rejected", "launch"}
      /\ Stage(work.then) \in {"end", "rejected", "launch"}
  <2>1. ~Fails("mark")
    BY DEF Fails
  <2> QED
    BY <2>1, LoneStep
<1>2. live \in Lives /\ work \in TypedWork
  BY DEF Control, Typed
<1>3. ~Recovery /\ ~Recovery' /\ ~Starting'
  BY <1>1 DEF Recovery, Starting
<1>4. \A kind \in Kinds \cup {"none"} : Carried(kind) => Carried(kind)'
  <2>1. \A kind \in Kinds : Carried(kind) => Carried(kind)'
    BY <1>1, SameCarried
  <2> QED
    BY <2>1, NoneCarries
<1>5. work'.todo # << <<"install">> >>
  <2>1. PICK step \in {"restore", "rejournal", "install"} : At(step)
    BY DEF Restore, Rejournal, Install
  <2>2. work.todo # <<>> /\ Tail(work.todo) = <<>>
    BY <2>1, AtStep, Words
  <2>3. Advanced.todo = <<>> /\ Broken.todo = <<>>
    BY <2>2, Moves
  <2>4. work' \in {Advanced, Broken, [work EXCEPT !.todo = << <<"rejournal">> >>]}
    BY DEF Restore, Rejournal, Install
  <2> DEFINE rejournal == << <<"rejournal">> >>
  <2>5. rejournal # << <<"install">> >> /\ <<>> # << <<"install">> >>
    OBVIOUS
  <2>6. work' \in {Advanced, Broken, [work EXCEPT !.todo = rejournal]}
    BY <2>4
  <2> HIDE DEF rejournal
  <2>7. [work EXCEPT !.todo = rejournal].todo = rejournal
    BY <1>2 DEF TypedWork
  <2> QED
    BY <2>3, <2>5, <2>6, <2>7
<1>6. Standing'
  <2>1. CASE ~Install
    <3>1. saved'.bound = saved.bound /\ disk'.bound \in {disk.bound, saved.bound}
      BY <1>1, <2>1
    <3> QED
      BY <1>1, <1>3, <1>4, <2>1, <3>1, NoneCarries, StandingKeeps DEF Marking, Marked
  <2>2. CASE Install
    <3>1. disk.bound /\ saved.bound /\ live.up
      <4>1. At("install")
        BY <2>2 DEF Install
      <4>2. work.todo = << <<"install">> >>
        BY <4>1, AtStep
      <4> QED
        BY <4>2 DEF Marking, Installing
    <3>2. live.kind \in Kinds /\ Carried(live.kind)
      BY <3>1, NoneCarries DEF Marking, Standing, UpCarries
    <3>3. \A kind \in Kinds : kind = live.kind => (Carried(kind)' <=> Carried(live.kind)')
      BY <1>1 DEF Carried, Objects
    <3>4. Carried(live.kind)' /\ \E kind \in Kinds : Carried(kind)'
      BY <1>4, <3>2, <3>3
    <3>5. CASE /\ slice /\ chain' = "mark" /\ live' = [live EXCEPT !.chain = "mark"]
               /\ saved' = saved /\ disk' = disk
      <4>1. live'.chain = "mark" /\ live'.cgroup = live.cgroup
        BY <1>2, <3>5 DEF Lives
      <4> QED
        BY <1>1, <1>3, <3>1, <3>2, <3>4, <3>5, <4>1
           DEF Marking, Standing, UpCarries, CgroupBound, MarkKnown
    <3>6. CASE ~slice /\ live' = [live EXCEPT !.chain = "off", !.cgroup = FALSE]
      <4>1. ~live'.cgroup
        BY <1>2, <3>6 DEF Lives
      <4> QED
        BY <1>1, <3>4, <3>6, <4>1 DEF Standing, UpCarries, CgroupBound, MarkKnown, Marked
    <3>7. ~Fails("mark")
      BY DEF Fails
    <3> QED
      BY <2>2, <3>5, <3>6, <3>7 DEF Install
  <2> QED
    BY <2>1, <2>2
<1> QED
  BY <1>1, <1>3, <1>5, <1>6, MarkingEnds DEF Cleaning

\* Of the requests only the scope of a command installs a mark.
LEMMA AskList ==
    ASSUME Control,
           \/ Supervise \/ Confirmed \/ ConfirmationFailed \/ CoreExits \/ ServerGone \/ Down
           \/ DeleteInterface \/ Shutdown \/ Connect
           \/ \E kind \in Kinds \cup {"none"}, holds \in BOOLEAN : Plan(kind, holds)
    PROVE  work'.todo # << <<"install">> >>
<1> DEFINE none == <<>>
           stop == << <<"stop">> >>
           restore == << <<"restore">> >>
           install == << <<"install">> >>
<1>1. none # install /\ stop # install /\ restore # install
  OBVIOUS
<1>2. ASSUME work' = work PROVE work'.todo # install
  <2>1. work.todo = none
    BY IdleIs DEF Supervise, Confirmed, ConfirmationFailed, CoreExits, ServerGone, Down,
                  DeleteInterface, Shutdown, Connect, Plan
  <2> QED
    BY <1>1, <1>2, <2>1
<1> HIDE DEF none, stop, restore, install
<1>3. ASSUME NEW name, NEW then, NEW todo \in {none, stop, restore},
             work' = Begin(name, todo, then) \/ work' = Failed(Begin(name, todo, then))
      PROVE  work'.todo # install
  <2>1. work'.todo = todo
    BY <1>3, BegunList
  <2> QED
    BY <1>1, <2>1
<1> DEFINE end == <<>>
           rejecting == << <<"rejected">> >>
           released == << <<"released">> >>
           removed == << <<"removed">> >>
           last == << <<"removed">>, <<"exit">> >>
           exit == << <<"exit">> >>
           launch == << <<"launch">> >>
           forget == << <<"forget">> >>
           plan == << <<"plan">> >>
           first == IF live.kind = "owned" /\ live.up THEN restore
                    ELSE IF ~session.holding /\ live.kind = "legacy" /\ (live.up \/ live.helper)
                    THEN stop ELSE none
<1>4. \/ work' = work
      \/ work' = Begin("supervise", restore, end)
      \/ work' = Failed(Begin("fail", none, rejecting))
      \/ work' = Begin("release", stop, end)
      \/ work' = Begin("stop", stop, released)
      \/ work' = Begin("down", stop, removed)
      \/ work' = Begin("delete", stop, end)
      \/ work' = Begin("down", stop, last)
      \/ work' = Begin("down", none, exit)
      \/ work' = Begin("connect", first, launch)
      \/ work' = Begin("disable", stop, forget)
      \/ work' = Begin("switch", stop, plan)
  BY DEF Supervise, Confirmed, ConfirmationFailed, CoreExits, ServerGone, Down, DeleteInterface,
         Shutdown, Connect, Plan, Failed, none, stop, restore
<1>5. first \in {none, stop, restore}
  OBVIOUS
<1> HIDE DEF end, rejecting, released, removed, last, exit, launch, forget, plan, first
<1>6. work'.todo # install
  BY <1>2, <1>3, <1>4, <1>5
<1> QED
  BY <1>6 DEF install

\* An installation begins with the ways before the mark and the end.
LEMMA StartMarking == Control /\ Control' /\ Marking /\ StartInterface => Marking'
<1> SUFFICES ASSUME Control, Control', Marking, StartInterface
             PROVE  Marking'
  OBVIOUS
<1> DEFINE list == IF live.kind = "owned" THEN OwnedStart ELSE LegacyStart
<1>1. /\ Idle /\ daemon' /\ kernel' = kernel /\ chain' = chain /\ slice' = slice
      /\ live' = live /\ live.kind \in Kinds
      /\ saved' \in {saved, Journal(live)} /\ disk' \in {disk, saved'}
      /\ \/ Requested
         \/ work'.todo = list /\ work'.then = Rolling /\ disk' = saved'
  BY StartStep
<1>2. daemon /\ work.todo = <<>> /\ Stage(work.then) = "end" /\ saved \in States /\ live \in Lives
  BY <1>1, IdleIs, Ends DEF Control, Typed
<1>3. saved'.bound = saved.bound /\ disk'.bound \in {disk.bound, saved.bound}
  BY <1>1, <1>2, JournalIs
<1>4. Standing'
  <2>1. ~Recovery'
    BY <1>1, RequestedStages, Ends DEF Recovery
  <2>2. \A kind \in Kinds \cup {"none"} : Carried(kind) => Carried(kind)'
    BY <1>1 DEF Carried, Objects
  <2> QED
    BY <1>1, <1>2, <1>3, <2>1, <2>2, StandingKeeps DEF Marking, Marked, Recovery
<1>5. list \in {OwnedStart, LegacyStart}
  OBVIOUS
<1>6. work'.todo # << <<"install">> >>
  <2> DEFINE none == <<>>
             restore == << <<"restore">> >>
             install == << <<"install">> >>
             rejecting == << <<"rejected">> >>
             rolling == << <<"rollback">>, <<"rejected">> >>
  <2>1. \/ work' = Begin("start", restore, rejecting)
        \/ work' = Begin("start", list, rolling)
        \/ work' = Failed(Begin("start", none, rejecting))
    BY DEF StartInterface, Failed
  <2>2. none # install /\ restore # install
    OBVIOUS
  <2>3. list # install
    BY <1>5, StartIs, OtherList
  <2> HIDE DEF none, restore, install, rejecting, rolling, list
  <2>4. work'.todo \in {restore, list, none}
    BY <2>1, BegunList
  <2>5. work'.todo # install
    BY <2>2, <2>3, <2>4
  <2> QED
    BY <2>5 DEF install
<1>7. CASE Requested
  <2>1. /\ Stage(work'.then) \in {"end", "forget", "plan", "released", "removed", "launch",
                                  "rejected", "exit"}
        /\ Stage(work'.then) \in {"forget", "plan", "released", "removed"} =>
             work'.todo = << <<"stop">> >>
    BY <1>7, RequestedStages
  <2>2. << <<"stop">> >> # <<>>
    OBVIOUS
  <2> QED
    BY <1>4, <1>6, <2>1, <2>2, MarkingEnds DEF Starting, Cleaning
<1>8. CASE work'.todo = list /\ work'.then = Rolling /\ disk' = saved'
  <2>1. Stage(work'.then) = "rollback"
    BY <1>8, Ends
  <2>2. MarkBuilt'
    <3>1. \A part \in Ways : /\ Before(list, <<"add", part>>, <<"mark">>)
                             /\ Before(list, <<"add", part>>, <<"up">>)
      BY <1>5, StartIs DEF Ways
    <3> HIDE DEF list
    <3> QED
      BY <1>8, <3>1 DEF MarkBuilt
  <2>3. MarkCleaned' /\ MarkReported' /\ MarkGone'
    BY <2>1 DEF MarkCleaned, MarkReported, MarkGone, Cleaning, Reporting
  <2>4. Installing'
    BY <1>6 DEF Installing
  <2> QED
    BY <1>4, <2>2, <2>3, <2>4 DEF Marking
<1> QED
  BY <1>1, <1>7, <1>8

\* Any other request leaves the chain and the ways alone, or plans an interface anew.
LEMMA AskMarking ==
    Control /\ Control' /\ Marking
    /\ (\/ Supervise \/ Confirmed \/ ConfirmationFailed \/ CoreExits \/ ServerGone \/ Down
        \/ DeleteInterface \/ Shutdown \/ Connect
        \/ \E kind \in Kinds \cup {"none"}, holds \in BOOLEAN : Plan(kind, holds))
       => Marking'
<1> DEFINE asks == \/ Supervise \/ Confirmed \/ ConfirmationFailed \/ CoreExits \/ ServerGone \/ Down
                   \/ DeleteInterface \/ Shutdown \/ Connect
           plans == \E kind \in Kinds \cup {"none"}, holds \in BOOLEAN : Plan(kind, holds)
<1> SUFFICES ASSUME Control, Control', Marking, asks \/ plans
             PROVE  Marking'
  OBVIOUS
<1>1. Idle /\ daemon' /\ kernel' = kernel /\ chain' = chain /\ slice' = slice /\ Requested
  BY AskStep, PlanStep
<1>2. /\ daemon /\ Stage(work.then) = "end" /\ saved \in States /\ live \in Lives
      /\ slice \in BOOLEAN /\ live.kind \in Kinds \cup {"none"} /\ ~Carried("none")
  BY <1>1, IdleIs, Ends, NoneCarries DEF Control, Typed
<1>3. /\ Stage(work'.then) \in {"end", "forget", "plan", "released", "removed", "launch",
                                "rejected", "exit"}
      /\ Stage(work'.then) \in {"forget", "plan", "released", "removed"} =>
           work'.todo = << <<"stop">> >>
  BY <1>1, RequestedStages
<1>4. work'.todo # << <<"install">> >> /\ << <<"stop">> >> # <<>>
  BY AskList
<1>5. Standing'
  <2>1. ASSUME live' = live, saved'.bound = saved.bound, disk' \in {disk, saved'}
        PROVE  Standing'
    <3>1. ~Recovery /\ ~Recovery'
      BY <1>2, <1>3 DEF Recovery
    <3>2. \A kind \in Kinds \cup {"none"} : Carried(kind) => Carried(kind)'
      BY <1>1 DEF Carried, Objects
    <3> QED
      BY <1>1, <1>2, <2>1, <3>1, <3>2, StandingKeeps DEF Marking, Marked
  <2>2. CASE asks
    BY <2>1, <2>2, AskStep
  <2>3. CASE plans
    <3>1. CASE UNCHANGED <<live, saved, disk>>
      BY <2>1, <3>1
    <3>2. CASE /\ live.kind = "none"
               /\ saved.bound /\ slice => saved' = saved
               /\ live' = NoInterface \/ \E kind \in Kinds : live' = PlannedInterface(kind)
      <4>1. ~Marked /\ ~Marked'
        <5>1. ~Recovery
          BY <1>2 DEF Recovery
        <5> QED
          BY <1>1, <1>2, <3>2, <5>1 DEF Marking, Standing, MarkKnown, Marked
      <4>2. ~live'.up /\ (live'.cgroup => saved.bound /\ slice /\ live'.kind # "none")
        <5>1. "none" \notin Kinds
          BY DEF Kinds
        <5>2. ASSUME NEW kind \in Kinds, live' = PlannedInterface(kind)
              PROVE  ~live'.up /\ live'.kind = kind /\ live'.cgroup = (saved.bound /\ slice)
          BY <1>2, <5>2, PlannedIs
        <5>3. CASE live' = NoInterface
          BY <5>3, NothingIs
        <5> QED
          BY <3>2, <5>1, <5>2, <5>3
      <4> QED
        BY <3>2, <4>1, <4>2 DEF Standing, UpCarries, CgroupBound, MarkKnown
    <3> QED
      BY <2>3, <3>1, <3>2, PlanStep
  <2> QED
    BY <2>2, <2>3
<1> HIDE DEF asks, plans
<1> QED
  BY <1>3, <1>4, <1>5, MarkingEnds DEF Starting, Cleaning

\* The scope of a command is bound before it is marked.
LEMMA ScopeMarking == Control /\ Control' /\ Marking /\ RunScope => Marking'
<1> SUFFICES ASSUME Control, Control', Marking, RunScope
             PROVE  Marking'
  OBVIOUS
<1>1. /\ Idle /\ daemon' /\ kernel' = kernel
      /\ chain' = (IF ~slice /\ chain # "off" THEN "stale" ELSE chain)
      /\ Requested
      /\ live.up /\ live'.up /\ live'.kind = live.kind /\ live'.chain = live.chain
      /\ saved'.bound /\ (disk' = disk \/ disk'.bound)
  BY ScopeStep
<1>2. daemon /\ work.todo = <<>> /\ Stage(work.then) = "end" /\ live.kind # "none"
  BY <1>1, IdleIs, Ends DEF Control, Hosted
<1>3. /\ Stage(work'.then) \in {"end", "forget", "plan", "released", "removed", "launch",
                                "rejected", "exit"}
      /\ Stage(work'.then) \in {"forget", "plan", "released", "removed"} =>
           work'.todo = << <<"stop">> >>
  BY <1>1, RequestedStages
<1>4. Standing'
  <2>1. Marked' => Marked
    BY <1>1 DEF Marked
  <2>2. ~Recovery /\ ~Recovery'
    BY <1>2, <1>3 DEF Recovery
  <2>3. \A kind \in Kinds : Carried(kind)' <=> Carried(kind)
    BY <1>1 DEF Carried, Objects
  <2>4. Carried(live.kind)' <=> Carried(live.kind)
    BY <1>1 DEF Carried, Objects
  <2> QED
    BY <1>1, <1>2, <2>1, <2>2, <2>3, <2>4 DEF Marking, Standing, UpCarries, CgroupBound, MarkKnown
<1>5. Installing'
  <2> SUFFICES ASSUME work'.todo = << <<"install">> >>
               PROVE  disk'.bound
    BY <1>1 DEF Installing
  <2>1. <<>> # << <<"install">> >>
    OBVIOUS
  <2>2. work' # work
    BY <1>2, <2>1
  <2>3. disk' = saved'
    BY <2>2 DEF RunScope, Saves
  <2> QED
    BY <1>1, <2>3
<1>6. << <<"stop">> >> # <<>>
  OBVIOUS
<1>7. ~Starting' /\ Stage(work'.then) \notin Cleaning /\ ~Reporting'
  BY <1>3 DEF Starting, Cleaning, Reporting
<1>8. MarkBuilt' /\ MarkCleaned' /\ MarkReported' /\ MarkGone'
  BY <1>3, <1>6, <1>7 DEF MarkBuilt, MarkCleaned, MarkReported, MarkGone
<1> QED
  BY <1>4, <1>5, <1>8 DEF Marking

\* A crash loses what the daemon knows of the mark, and not what the disk does.
LEMMA WorldMarking ==
    Control /\ Control' /\ Marking /\ (Exit \/ Crash \/ HelperDies \/ SliceEnds \/ Boot) => Marking'
<1> SUFFICES ASSUME Control, Control', Marking, Exit \/ Crash \/ HelperDies \/ SliceEnds \/ Boot
             PROVE  Marking'
  OBVIOUS
<1>1. /\ SameObjects /\ chain' = chain /\ disk' = disk /\ (slice' => slice)
      /\ \/ UNCHANGED <<kernel, saved, session, live, work, daemon>> /\ ~slice'
         \/ /\ UNCHANGED <<saved, session, work, daemon, slice>> /\ work = NoWork
            /\ live'.kind = live.kind /\ live'.up = live.up
            /\ live'.chain = live.chain /\ live'.cgroup = live.cgroup
         \/ ~daemon' /\ work' = NoWork /\ live' = NoInterface
         \/ /\ daemon' /\ saved' = disk /\ live' = live /\ live = NoInterface
            /\ work'.todo = << <<"chains">> >> /\ work'.then = Recovering
  BY WorldStep
<1>2. /\ Marked' => Marked
      /\ Marked' => disk'.bound /\ \E kind \in Kinds : Carried(kind)'
  <2>1. Marked' => Marked
    BY <1>1 DEF Marked
  <2>2. \A kind \in Kinds : Carried(kind) <=> Carried(kind)'
    BY <1>1, SameCarried
  <2> QED
    BY <1>1, <2>1, <2>2 DEF Marking, Standing, MarkKnown
<1>3. << <<"chains">> >> # << <<"install">> >> /\ <<>> # << <<"install">> >>
  OBVIOUS
<1>4. CASE UNCHANGED <<kernel, saved, session, live, work, daemon>> /\ ~slice'
  <2>1. ~Marked'
    BY <1>4 DEF Marked
  <2>2. Standing'
    BY <1>4, <2>1 DEF Marking, Standing, UpCarries, CgroupBound, MarkKnown, Carried, Objects
  <2>3. MarkBuilt' /\ MarkCleaned' /\ MarkReported' /\ MarkGone' /\ Installing'
    BY <1>1, <1>4, <2>1
       DEF Marking, MarkBuilt, MarkCleaned, MarkReported, MarkGone, Installing, Starting, Reporting,
           Objects, Todo
  <2> QED
    BY <2>2, <2>3 DEF Marking
<1>5. CASE /\ UNCHANGED <<saved, session, work, daemon, slice>> /\ work = NoWork
           /\ live'.kind = live.kind /\ live'.up = live.up
           /\ live'.chain = live.chain /\ live'.cgroup = live.cgroup
  <2>1. work'.todo = <<>> /\ Stage(work'.then) = "end"
    BY <1>5, Ends DEF NoWork
  <2>2. Carried(live.kind) => Carried(live.kind)'
    <3>1. live.kind \in Kinds \/ ~Carried(live.kind)
      BY NoneCarries
    <3>2. \A kind \in Kinds : kind = live.kind => (Carried(kind)' <=> Carried(live.kind)')
      BY <1>5 DEF Carried, Objects
    <3> QED
      BY <1>1, <3>1, <3>2, SameCarried
  <2>3. Standing'
    BY <1>1, <1>2, <1>5, <2>2
       DEF Marking, Standing, UpCarries, CgroupBound, MarkKnown, Recovery
  <2> QED
    BY <1>3, <2>1, <2>3, MarkingEnds DEF Starting, Cleaning
<1>6. CASE ~daemon' /\ work' = NoWork /\ live' = NoInterface
  <2>1. work'.todo = <<>> /\ Stage(work'.then) = "end"
    BY <1>6, Ends DEF NoWork
  <2>2. Standing'
    BY <1>2, <1>6, NothingIs DEF Standing, UpCarries, CgroupBound, MarkKnown
  <2> QED
    BY <1>3, <2>1, <2>2, MarkingEnds DEF Starting, Cleaning
<1>7. CASE /\ daemon' /\ saved' = disk /\ live' = live /\ live = NoInterface
           /\ work'.todo = << <<"chains">> >> /\ work'.then = Recovering
  <2>1. Stage(work'.then) = "recovered"
    BY <1>7, Ends
  <2>2. Standing'
    BY <1>1, <1>2, <1>7, <2>1, NothingIs DEF Standing, UpCarries, CgroupBound, MarkKnown, Recovery
  <2> QED
    BY <1>3, <1>7, <2>1, <2>2, MarkingEnds DEF Starting, Cleaning
<1> QED
  BY <1>1, <1>4, <1>5, <1>6, <1>7

\* As long as a mark can be replaced and a block can be put back, a running cgroup that
\* is marked finds the rule and the table its mark leads to: through installations that
\* fail, removals, crashes and recoveries.
THEOREM RoutesHold ==
    ASSUME {"mark", "block"} \cap Faulty = {}
    PROVE  Spec => []RoutesInOrder
<1>1. Init => Marking
  <2> SUFFICES ASSUME Init PROVE Marking
    OBVIOUS
  <2>1. /\ chain = "off" /\ live = NoInterface /\ work.then = <<>> /\ work.todo = <<>>
    BY DEF Init, NoWork
  <2>2. Stage(work.then) = "end" /\ ~Marked
    BY <2>1, Ends DEF Marked
  <2>3. Standing
    BY <2>1, <2>2, NothingIs DEF Standing, UpCarries, CgroupBound, MarkKnown
  <2>4. <<>> # << <<"install">> >>
    OBVIOUS
  <2> QED
    BY <2>1, <2>2, <2>3, <2>4
       DEF Marking, MarkBuilt, MarkCleaned, MarkReported, MarkGone, Installing, Starting, Reporting,
           Cleaning
<1>2. Control /\ Control' /\ Marking /\ [Next]_vars => Marking'
  <2> SUFFICES ASSUME Control, Control', Marking, [Next]_vars
               PROVE  Marking'
    OBVIOUS
  <2>1. CASE UNCHANGED vars
    BY <2>1 DEF vars, Marking, Standing, UpCarries, CgroupBound, MarkKnown, MarkBuilt, MarkCleaned,
                MarkReported, MarkGone, Installing, Marked, Carried, Objects, Starting, Reporting,
                Recovery, Todo
  <2>2. CASE Next
    BY <2>2, BuildMarking, CleanMarking, RecoveryMarking, StopMarking, EndMarking, ReportMarking,
       LeaveMarking, LoneMarking, StartMarking, AskMarking, ScopeMarking, WorldMarking DEF Next
  <2> QED
    BY <2>1, <2>2
<1>3. Control /\ Marking => MarkIsCarried
  <2> SUFFICES ASSUME Control, Marking, Marked
               PROVE  \E kind \in Kinds : {kind} \X {"rule", "private"} \subseteq kernel
    BY DEF MarkIsCarried, Marked
  <2>1. PICK kind \in Kinds : Carried(kind)
    BY DEF Marking, Standing, MarkKnown
  <2>2. {kind} \X {"rule", "private"} \subseteq kernel
    BY <2>1 DEF Carried, Ways, Objects
  <2> QED
    BY <2>2
<1>4. Spec => []Control
  BY ControlHolds
<1>5. Spec => []CaptureFollowsBypass
  BY CaptureHolds
<1>6. MarkIsCarried /\ CaptureFollowsBypass => RoutesInOrder
  BY DEF RoutesInOrder
<1> QED
  BY <1>1, <1>2, <1>3, <1>4, <1>5, <1>6, PTL DEF Spec

-----------------------------------------------------------------------------
(* Traffic that is held.                                                   *)

\* A step that was done, or that failed.
Going == work' \in {Advanced, Broken} \/ work' = Failed(Advanced)

\* The stages that no other stage leads to.
Firsts == {"rollback", "stopped", "deleted", "undone", "recovered"}

\* After it the operation is the same, and in the same stage, or it is over.
LEMMA GoingKeeps ==
    ASSUME Control, work.todo # <<>> \/ work.then # <<>>, Going
    PROVE  /\ work'.name \in {work.name, "idle"}
           /\ Stage(work'.then) # "end" => /\ work'.name = work.name
                                           /\ work'.verdict = work.verdict
                                           /\ work'.deletes = work.deletes
           /\ Stage(work'.then) \in Firsts => work.todo # <<>> /\ Stage(work.then) = Stage(work'.then)
<1>1. /\ Advanced \in TypedWork /\ Broken \in TypedWork
      /\ Advanced.then # <<>> => /\ Advanced.name = work.name /\ Advanced.verdict = work.verdict
                                 /\ Advanced.deletes = work.deletes
      /\ Broken.then # <<>> => /\ Broken.name = work.name /\ Broken.verdict = work.verdict
                               /\ Broken.deletes = work.deletes
      /\ Advanced.name \in {work.name, "idle"} /\ Broken.name \in {work.name, "idle"}
  BY Moves DEF NoWork
<1>2. /\ Failed(Advanced).name = Advanced.name /\ Failed(Advanced).verdict = Advanced.verdict
      /\ Failed(Advanced).deletes = Advanced.deletes /\ Failed(Advanced).then = Advanced.then
  BY <1>1 DEF Failed, TypedWork
<1>3. work'.then \in {Advanced.then, Broken.then} /\ work.then \in Thens
  BY <1>2 DEF Going, Control, Typed, TypedWork
<1>4. Stage(work'.then) # "end" => work'.then # <<>>
  BY Ends
<1>5. ASSUME Stage(work'.then) \in Firsts
      PROVE  work.todo # <<>> /\ Stage(work.then) = Stage(work'.then)
  <2>1. CASE work.todo # <<>>
    BY <1>5, <2>1, MovedStages DEF Going, Firsts
  <2>2. CASE work.todo = <<>>
    <3>1. /\ work'.then \in {Tail(work.then), Kept(Tail(work.then))} /\ work.then # <<>>
      BY <1>3, <2>2, Moves
    <3>2. \/ Tail(work.then) \in After /\ Kept(Tail(work.then)) \in After
          \/ work'.then = Rejecting
      BY <1>3, <3>1, StageEnds, StagesAre DEF After
    <3>3. \A after \in After : Stage(after) \notin Firsts
      BY Ends DEF After, Firsts
    <3>4. Stage(Rejecting) \notin Firsts
      BY Ends DEF Firsts
    <3> QED
      BY <1>5, <3>1, <3>2, <3>3, <3>4
  <2> QED
    BY <2>1, <2>2
<1> QED
  BY <1>1, <1>2, <1>4, <1>5 DEF Going

\* The steps that only go on with the operation they belong to.
Steady ==
    \/ Create \/ Intend \/ WriteJournal \/ Spawn \/ AddObject \/ Mark
    \/ Identify \/ SetChain \/ Reap \/ DeleteObject \/ Stopped \/ Deleted
    \/ RolledBack \/ Released \/ Replan \/ Forget \/ Launch \/ Rejournal \/ Removed \/ Install
    \/ IntendAgain \/ Recognise \/ Kill \/ Unchain \/ Recovered

\* They neither begin to hold the traffic of a session nor change its policy.
LEMMA SteadyGoes ==
    ASSUME Control, Steady
    PROVE  /\ daemon /\ Going /\ (work.todo # <<>> \/ work.then # <<>>)
           /\ slice' = slice /\ faults' \in {faults, faults + 1}
           /\ session'.holding => session.holding
           /\ session'.holds = session.holds \/ Removed
<1>1. (work.todo # <<>> \/ work.then # <<>>) /\ daemon
  <2>1. \E step : At(step)
    BY DEF Steady, Create, Intend, WriteJournal, Spawn, AddObject, Mark, Identify, SetChain, Reap,
           DeleteObject, Stopped, Deleted, RolledBack, Released, Replan, Forget, Launch, Rejournal,
           Removed, Install, IntendAgain, Recognise, Kill, Unchain, Recovered
  <2> QED
    BY <2>1, AtIs DEF Control, Typed
<1>2. session \in Sessions /\ NoSession \in Sessions /\ ~NoSession.holding
  BY NothingIs DEF Control, Typed
<1>3. CASE Create \/ Intend \/ WriteJournal \/ Spawn \/ AddObject \/ Mark
  BY <1>1, <1>3, BuildStep DEF Going
<1>4. CASE Identify \/ SetChain \/ Reap \/ DeleteObject
  BY <1>1, <1>4, CleanStep DEF Going
<1>5. CASE IntendAgain \/ Recognise \/ Kill \/ Unchain
  <2>1. work' \in {Advanced, Broken}
    BY <1>5 DEF IntendAgain, Recognise, Kill, Unchain
  <2> QED
    BY <1>1, <1>5, <2>1, RecoveryStep DEF Going
<1>6. CASE Stopped \/ Deleted
  <2>1. work' \in {Advanced, Broken}
    BY <1>6 DEF Stopped, Deleted, FinishDeletion
  <2>2. slice' = slice /\ session' = session
    BY <1>6 DEF Stopped, Deleted, UnaffectedByStep
  <2>3. faults' \in {faults, faults + 1}
    BY <1>6 DEF Stopped, Deleted, FinishDeletion, Works, Fails, Saves, SaveFails
  <2> QED
    BY <1>1, <2>1, <2>2, <2>3 DEF Going
<1>7. CASE Replan \/ Forget \/ Rejournal \/ Install
  <2>1. work' \in {Advanced, Broken}
    BY <1>7 DEF Replan, Forget, Rejournal, Install
  <2>2. slice' = slice /\ session' = session
    BY <1>7 DEF Replan, Forget, Rejournal, Install, UnaffectedByStep
  <2>3. faults' \in {faults, faults + 1}
    BY <1>7 DEF Replan, Forget, Rejournal, Install, Works, Fails, Saves, SaveFails,
                UnboundIfEnded, TriesToSave
  <2> QED
    BY <1>1, <2>1, <2>2, <2>3 DEF Going
<1>8. CASE RolledBack
  BY <1>1, <1>8 DEF RolledBack, Going, Failed, UnaffectedByStep, TriesToSave, Saves, SaveFails,
                    Works, Fails
<1>9. CASE Released \/ Launch
  <2>1. work' \in {Advanced, Broken}
    BY <1>9 DEF Released, Launch
  <2>2. /\ session' \in {[session EXCEPT !.core = FALSE, !.holding = FALSE],
                         [session EXCEPT !.core = TRUE], [session EXCEPT !.core = FALSE]}
        /\ slice' = slice
    BY <1>9 DEF Released, Launch
  <2>3. (session'.holding => session.holding) /\ session'.holds = session.holds
    BY <1>2, <2>2 DEF Sessions
  <2>4. faults' \in {faults, faults + 1}
    BY <1>9 DEF Released, Launch, TriesToSave, Saves, SaveFails, Works, Fails
  <2> QED
    BY <1>1, <2>1, <2>2, <2>3, <2>4 DEF Going
<1>10. CASE Removed
  <2>1. work' \in {Advanced, Broken} /\ session' = NoSession /\ slice' = slice
    BY <1>10 DEF Removed
  <2>2. faults' \in {faults, faults + 1}
    BY <1>10 DEF Removed, Saves, SaveFails, Works, Fails
  <2> QED
    BY <1>1, <1>2, <1>10, <2>1, <2>2 DEF Going
<1>11. CASE Recovered
  <2>1. work' = Advanced /\ slice' = slice
    BY <1>11 DEF Recovered
  <2>2. PICK adopted : \/ session' = session
                       \/ session' = [session EXCEPT !.here = @ /\ (adopted \/ work.failed),
                                                     !.core = adopted]
    BY <1>11 DEF Recovered
  <2>3. session'.holding = session.holding /\ session'.holds = session.holds
    BY <1>2, <2>2 DEF Sessions
  <2>4. faults' \in {faults, faults + 1}
    BY <1>11 DEF Recovered, TriesToSave, Saves, SaveFails, Works, Fails
  <2> QED
    BY <1>1, <2>1, <2>3, <2>4 DEF Going
<1> QED
  BY <1>3, <1>4, <1>5, <1>6, <1>7, <1>8, <1>9, <1>10, <1>11 DEF Steady

\* What they write of the binding: it is only dropped when its cgroup is released or gone.
LEMMA SteadyBinds ==
    ASSUME Control, Control', Steady
    PROVE  /\ saved'.bound => saved.bound
           /\ saved'.bound = saved.bound \/ disk' = saved' \/ faults' = faults + 1 \/ ~slice
           /\ \/ saved'.bound = saved.bound \/ ~slice \/ faults' = faults + 1
              \/ Reporting /\ work.verdict = "release"
           /\ disk'.bound \in {disk.bound, saved.bound, saved'.bound} \/ faults' = faults + 1
<1>1. /\ saved \in States /\ live \in Lives /\ live' \in Lives /\ session \in Sessions
      /\ work \in TypedWork
  BY DEF Control, Typed
<1>2. CASE Create \/ Intend \/ WriteJournal \/ Spawn \/ AddObject \/ Mark
  BY <1>2, BuildBinds
<1>3. CASE Identify \/ SetChain \/ Reap \/ DeleteObject
  BY <1>3, CleanStep
<1>4. CASE IntendAgain \/ Recognise \/ Kill \/ Unchain
  <2>1. \/ saved' = saved /\ disk' = disk
        \/ saved' = [saved EXCEPT !.interface.dirty = TRUE] /\ disk' \in {disk, saved'}
    BY <1>4 DEF IntendAgain, Recognise, Kill, Unchain, Saves, SaveFails
  <2>2. saved'.bound = saved.bound
    BY <1>1, <2>1 DEF States
  <2> QED
    BY <2>1, <2>2
<1>5. CASE RolledBack \/ Released \/ Launch
  BY <1>5, EndStep
<1>6. CASE Rejournal
  BY <1>6, LoneStep DEF Rejournal, Install, At
<1>7. CASE Replan
  <2>1. \/ saved' = saved /\ disk' = disk
        \/ saved' = [saved EXCEPT !.bound = FALSE] /\ ~slice /\ disk' \in {disk, saved'}
    BY <1>7 DEF Replan, UnboundIfEnded, TriesToSave, Saves, SaveFails
  <2>2. saved' = [saved EXCEPT !.bound = FALSE] => ~saved'.bound
    BY <1>1 DEF States
  <2> QED
    BY <2>1, <2>2
<1>8. CASE Forget
  BY <1>8 DEF Forget
<1>9. CASE Removed
  <2>1. \/ saved' = saved /\ disk' = disk
        \/ saved' = [saved EXCEPT !.session = FALSE, !.interface = NoRecord] /\ disk' = saved'
    BY <1>9 DEF Removed, Saves, SaveFails
  <2>2. saved'.bound = saved.bound
    BY <1>1, <2>1 DEF States
  <2> QED
    BY <2>1, <2>2
<1>10. CASE Install
  <2>1. \/ saved' = saved /\ disk' = disk
        \/ /\ ~slice \/ faults' = faults + 1
           /\ saved' = [Journal(live') EXCEPT !.bound = FALSE]
           /\ \/ disk' \in {disk, saved'}
              \/ disk' = [saved EXCEPT !.bound = FALSE]
    BY <1>10 DEF Install, Fails
  <2>2. [Journal(live') EXCEPT !.bound = FALSE].bound = FALSE /\ [saved EXCEPT !.bound = FALSE].bound = FALSE
    BY <1>1, JournalIs DEF States
  <2>3. CASE saved' = saved /\ disk' = disk
    BY <2>3
  <2>4. CASE /\ ~slice \/ faults' = faults + 1
             /\ saved' = [Journal(live') EXCEPT !.bound = FALSE]
             /\ \/ disk' \in {disk, saved'}
                \/ disk' = [saved EXCEPT !.bound = FALSE]
    <3>1. saved'.bound = FALSE
      BY <2>2, <2>4
    <3>2. disk'.bound \in {disk.bound, saved'.bound}
      BY <2>2, <2>4, <3>1
    <3> QED
      BY <2>4, <3>1, <3>2
  <2> QED
    BY <2>1, <2>3, <2>4
<1>11. CASE Recovered
  <2>1. PICK adopted :
          \/ saved' = saved /\ disk' \in {disk, saved}
          \/ /\ saved' = [saved EXCEPT !.session = @ /\ (adopted \/ work.failed),
                                       !.interface = IF work.failed THEN @ ELSE NoRecord]
             /\ disk' \in {disk, saved'}
    BY <1>11 DEF Recovered, TriesToSave, Saves, SaveFails
  <2>2. saved'.bound = saved.bound
    BY <1>1, <2>1 DEF States
  <2> QED
    BY <2>1, <2>2
<1>12. CASE Stopped \/ Deleted
  <2>1. Reporting
    BY <1>12, ReportStep
  <2> DEFINE gone == [saved EXCEPT !.interface = NoRecord]
  <2>2. /\ gone \in States /\ gone.bound = saved.bound
    BY <1>1, NothingIs DEF States
  <2>3. CASE FinishDeletion
    <3> DEFINE unbound == IF work.verdict = "release" THEN [gone EXCEPT !.bound = FALSE] ELSE gone
    <3>1. unbound.bound = (saved.bound /\ work.verdict # "release")
      <4>1. [gone EXCEPT !.bound = FALSE].bound = FALSE
        BY <2>2 DEF States
      <4> HIDE DEF gone
      <4> QED
        BY <1>1, <2>2, <4>1 DEF States
    <3>2. \/ saved' = unbound /\ disk' = unbound
          \/ faults' = faults + 1 /\ saved' \in {Journal(live), unbound}
      BY <2>3 DEF FinishDeletion, Saves, Fails
    <3>3. Journal(live).bound = saved.bound
      BY <1>1, JournalIs
    <3> HIDE DEF unbound
    <3> QED
      BY <1>1, <2>1, <3>1, <3>2, <3>3 DEF States
  <2>4. CASE ~FinishDeletion
    <3>1. CASE Deleted
      BY <2>4, <3>1 DEF Deleted
    <3>2. CASE Stopped
      <4>1. /\ saved' = [Synced(session.here, live')
                           EXCEPT !.bound = @ /\ (work.failed \/ work.verdict = "block")]
            /\ disk' = saved' \/ (disk' = disk /\ faults' = faults + 1)
        BY <2>4, <3>2 DEF Stopped, Saves, SaveFails, Fails
      <4>2. Synced(session.here, live') \in States /\ Synced(session.here, live').bound = saved.bound
        <5>1. session.here \in BOOLEAN
          BY <1>1 DEF Sessions
        <5> QED
          BY <1>1, <5>1, SyncedIs
      <4>3. saved'.bound = (saved.bound /\ (work.failed \/ work.verdict = "block"))
        BY <4>1, <4>2 DEF States
      <4>4. work.verdict \in {"release", "block"}
        BY <1>1 DEF TypedWork
      <4> QED
        BY <1>1, <2>1, <4>1, <4>3, <4>4 DEF States
    <3> QED
      BY <1>12, <3>1, <3>2
  <2> QED
    BY <2>3, <2>4
<1> QED
  BY <1>2, <1>3, <1>4, <1>5, <1>6, <1>7, <1>8, <1>9, <1>10, <1>11, <1>12 DEF Steady

\* A connection stops the interface only of a session that holds nothing.
ConnectHolds ==
    work.name = "connect" =>
        /\ work.then \in {Launching, Stopping(Launching), Stopping(<<>>)}
        /\ session.holding => work.then = Launching /\ work.todo # << <<"stop">> >>

\* Of what is bound on disk the daemon knows,
BoundKnown == faults = 0 /\ daemon /\ slice /\ disk.bound => saved.bound

\* and no removal releases it under a policy of holding, or to plan the interface anew.
VerdictKept ==
    Reporting /\ saved.bound /\ slice /\ (session.holds \/ work.name = "switch")
        => work.verdict = "block"

Holding == ConnectHolds /\ BoundKnown /\ VerdictKept

\* A step that goes on with a connection neither comes to a stop nor begins to hold.
LEMMA ConnectKeeps ==
    ASSUME Control, ConnectHolds, work.todo # <<>> \/ work.then # <<>>, Going,
           session'.holding => session.holding
    PROVE  ConnectHolds'
<1> SUFFICES ASSUME work'.name = "connect"
             PROVE  /\ work'.then \in {Launching, Stopping(Launching), Stopping(<<>>)}
                    /\ session'.holding => work'.then = Launching /\ work'.todo # << <<"stop">> >>
  BY DEF ConnectHolds
<1>1. /\ work.then \in {Launching, Stopping(Launching), Stopping(<<>>)}
      /\ session.holding => work.then = Launching /\ work.todo # << <<"stop">> >>
  BY GoingKeeps DEF ConnectHolds
<1>2. /\ Advanced \in TypedWork /\ Failed(Advanced).name = Advanced.name
      /\ Failed(Advanced).then = Advanced.then /\ Failed(Advanced).todo = Advanced.todo
  BY Moves DEF Failed, TypedWork
<1>3. /\ work' # NoWork /\ work' # Failed(NoWork)
  BY DEF NoWork, Failed
<1>4. \/ work'.todo = Advanced.todo /\ work'.then = Advanced.then /\ Advanced # NoWork
      \/ work'.todo = <<>> /\ work'.then = Broken.then /\ Broken.then # <<>>
  BY <1>2, <1>3, Moves DEF Going
<1>5. /\ Launching \in After /\ <<>> \in After /\ Kept(Launching) = <<>> /\ Tail(Launching) = <<>>
      /\ Kept(<<>>) = <<>>
  BY Ends DEF After
<1>6. /\ Tail(Stopping(Launching)) = Launching /\ Tail(Stopping(<<>>)) = <<>>
      /\ Kept(Stopping(Launching)) = Stopping(<<>>) /\ Kept(Stopping(<<>>)) = Stopping(<<>>)
  BY <1>5, StopEnds
<1>7. CASE work.todo # <<>>
  <2>1. work.then = Launching => Tail(work.todo) = <<>>
    <3>1. Stage(Launching) = "launch"
      BY Ends
    <3>2. work.then = Launching => work.todo \in Lone
      BY <1>7, <3>1 DEF Control, Shaped
    <3> QED
      BY <3>2, Words
  <2>2. <<>> # << <<"stop">> >>
    OBVIOUS
  <2> QED
    BY <1>1, <1>4, <1>5, <1>6, <1>7, <2>1, <2>2, Moves
<1>8. CASE work.todo = <<>>
  <2>1. Advanced # NoWork => Advanced.then # <<>>
    BY <1>8, Moves
  <2>2. <<>> # << <<"stop">> >>
    OBVIOUS
  <2> QED
    BY <1>1, <1>4, <1>5, <1>6, <1>8, <2>1, <2>2, Moves
<1> QED
  BY <1>7, <1>8

\* A step that goes on with an operation.
LEMMA SteadyHolding == Control /\ Control' /\ Holding /\ Steady => Holding'
<1> SUFFICES ASSUME Control, Control', Holding, Steady
             PROVE  Holding'
  OBVIOUS
<1>1. /\ daemon /\ Going /\ (work.todo # <<>> \/ work.then # <<>>)
      /\ slice' = slice /\ faults' \in {faults, faults + 1}
      /\ session'.holding => session.holding
      /\ session'.holds = session.holds \/ Removed
  BY SteadyGoes
<1>2. /\ work'.name \in {work.name, "idle"}
      /\ Stage(work'.then) # "end" => work'.name = work.name /\ work'.verdict = work.verdict
      /\ Stage(work'.then) \in Firsts => work.todo # <<>> /\ Stage(work.then) = Stage(work'.then)
  BY <1>1, GoingKeeps
<1>3. BoundKnown'
  <2>1. faults \in Nat
    BY InterfacesAssumption DEF Control, Typed
  <2>2. faults' = 0 => faults = 0 /\ faults' # faults + 1
    BY <1>1, <2>1
  <2> QED
    BY <1>1, <2>2, SteadyBinds DEF Holding, BoundKnown
<1>4. VerdictKept'
  <2>1. Reporting' => Reporting /\ work'.verdict = work.verdict /\ work'.name = work.name /\ ~Removed
    <3>1. Reporting' => /\ Stage(work'.then) \in Firsts /\ Stage(work'.then) # "end"
                        /\ work.todo # <<>>
      BY <1>2 DEF Reporting, Firsts
    <3>2. Removed => work.todo = <<>>
      BY AtStep DEF Removed
    <3> QED
      BY <1>2, <3>1, <3>2 DEF Reporting
  <2> QED
    BY <1>1, <2>1, SteadyBinds DEF Holding, VerdictKept
<1>5. ConnectHolds'
  BY <1>1, ConnectKeeps DEF Holding
<1> QED
  BY <1>3, <1>4, <1>5 DEF Holding

\* An operation has the name it begins with,
LEMMA BegunName ==
    ASSUME NEW name, NEW todo, NEW then
    PROVE  /\ Begin(name, todo, then).name \in {name, "idle"}
           /\ Failed(Begin(name, todo, then)).name \in {name, "idle"}
<1> DEFINE begun == [NoWork EXCEPT !.name = name, !.todo = todo, !.then = then]
<1>1. /\ begun.name = name /\ Failed(begun).name = name
      /\ NoWork.name = "idle" /\ Failed(NoWork).name = "idle"
  BY DEF NoWork, Failed
<1>2. Begin(name, todo, then) \in {begun, NoWork}
  BY DEF Begin, Settled
<1> HIDE DEF begun
<1> QED
  BY <1>1, <1>2

\* and keeps it when a step expands.
LEMMA ExpandedName ==
    ASSUME work \in TypedWork, NEW todo, NEW then, NEW verdict, NEW deletes
    PROVE  LET w == Expanded(todo, then, verdict, deletes)
           IN  /\ w.name \in {work.name, "idle"} /\ Failed(w).name = w.name
               /\ todo # <<>> => w.then = then \o Advanced.then /\ w.name = work.name
<1> DEFINE left == then \o Advanced.then
           w == [work EXCEPT !.todo = todo, !.then = left, !.verdict = verdict,
                             !.deletes = deletes, !.failed = FALSE]
<1>1. Expanded(todo, then, verdict, deletes) = Settled(w)
  BY DEF Expanded
<1> HIDE DEF left
<1>2. w.todo = todo /\ w.then = left /\ w.name = work.name /\ Failed(w).name = w.name
  BY DEF TypedWork, Failed
<1> HIDE DEF w
<1>3. /\ Settled(w) \in {w, NoWork} /\ (w.todo # <<>> => Settled(w) = w)
      /\ NoWork.name = "idle" /\ Failed(NoWork).name = "idle"
  BY DEF Settled, Running, NoWork, Failed
<1> QED
  BY <1>1, <1>2, <1>3 DEF left

\* A step that leaves the list behind, or begins another.
LEMMA HoldingEnds ==
    ASSUME BoundKnown', ~Reporting', work'.name # "connect"
    PROVE  Holding'
  BY DEF Holding, VerdictKept, ConnectHolds

\* What is bound stays known as long as the daemon writes what it holds.
LEMMA BoundKeeps ==
    ASSUME Control, BoundKnown, daemon, slice' => slice, faults' \in {faults, faults + 1},
           saved'.bound = saved.bound, disk'.bound \in {disk.bound, saved.bound}
    PROVE  BoundKnown'
<1>1. faults \in Nat
  BY InterfacesAssumption DEF Control, Typed
<1>2. faults' = 0 => faults = 0
  BY <1>1
<1> QED
  BY <1>2 DEF BoundKnown

\* A stop takes its verdict from what is bound.
LEMMA StopHolding == Control /\ Control' /\ Holding /\ Stop => Holding'
<1> SUFFICES ASSUME Control, Control', Holding, Stop
             PROVE  Holding'
  OBVIOUS
<1>1. /\ daemon /\ daemon' /\ session' = session /\ slice' = slice
      /\ faults' \in {faults, faults + 1} /\ work.todo = << <<"stop">> >>
      /\ saved' = saved \/ saved' = Journal(live')
      /\ disk' \in {disk, saved'}
      /\ \/ Stage(work'.then) \in {"end", "launch", "released", "removed", "exit"}
         \/ /\ work.name = "switch" \/ work'.verdict = Verdict
            /\ work.name = "switch" => work'.verdict = SwitchVerdict
  BY StopStep
<1>2. saved \in States /\ live' \in Lives /\ work \in TypedWork
  BY DEF Control, Typed
<1>3. saved'.bound = saved.bound /\ disk'.bound \in {disk.bound, saved.bound}
  BY <1>1, <1>2, JournalIs
<1>4. work.todo # <<>> /\ At("stop")
  BY <1>1 DEF Stop
<1> DEFINE deletes == work.name = "delete"
           ends == IF deletes THEN "deleted" ELSE "stopped"
           verdict == IF work.name = "switch" THEN SwitchVerdict ELSE Verdict
           list == CleanupOf(deletes)
           ending == << <<ends>> >>
           whole == Expanded(list, ending, verdict, deletes)
<1>5. work' \in {Advanced, Broken, whole}
  BY DEF Stop, Removal
<1>6. list # <<>>
  <2>1. deletes \in BOOLEAN
    OBVIOUS
  <2> HIDE DEF deletes
  <2> QED
    BY <2>1, CleanupIs
<1> HIDE DEF list, ending, verdict
<1>7. whole.name \in {work.name, "idle"} /\ whole.then = ending \o Advanced.then
  <2> HIDE DEF deletes
  <2> QED
    BY <1>2, <1>6, ExpandedName
<1>8. BoundKnown'
  BY <1>1, <1>3, BoundKeeps DEF Holding
<1>9. work'.name \in {work.name, "idle"}
  <2> HIDE DEF whole
  <2> QED
    BY <1>4, <1>5, <1>7, GoingKeeps DEF Going
<1>10. VerdictKept'
  <2> SUFFICES ASSUME Reporting', saved.bound, slice, session.holds \/ work'.name = "switch"
               PROVE  work'.verdict = "block"
    BY <1>1, <1>3 DEF VerdictKept
  <2>1. /\ work.name = "switch" \/ work'.verdict = Verdict
        /\ work.name = "switch" => work'.verdict = SwitchVerdict
    BY <1>1 DEF Reporting
  <2>2. SwitchVerdict = "block" /\ (session.holds => Verdict = "block")
    BY DEF Verdict, SwitchVerdict
  <2> QED
    BY <1>9, <2>1, <2>2
<1>11. ConnectHolds'
  <2>1. CASE work' \in {Advanced, Broken}
    BY <1>1, <1>4, <2>1, ConnectKeeps DEF Going, Holding
  <2>2. CASE work' = whole
    <3> SUFFICES ASSUME work'.name = "connect"
                 PROVE  /\ work'.then \in {Launching, Stopping(Launching), Stopping(<<>>)}
                        /\ ~session'.holding
      BY DEF ConnectHolds
    <3>1. work.name = "connect"
      BY <1>9
    <3>2. ~session.holding /\ work.then \in {Launching, Stopping(Launching), Stopping(<<>>)}
      BY <1>1, <3>1 DEF Holding, ConnectHolds
    <3>3. /\ Stage(Stopping(Launching)) = "stopped" /\ Stage(Stopping(<<>>)) = "stopped"
      BY StopEnds DEF After
    <3>4. Stage(work.then) # "stopped"
      BY <1>4, AtStep
    <3>5. work.then = Launching
      BY <3>2, <3>3, <3>4
    <3>6. ending = << <<"stopped">> >>
      BY <3>1 DEF ending
    <3>7. Advanced.then = Launching
      BY <1>4, <3>5, Moves
    <3>8. work'.then = Stopping(Launching)
      BY <1>7, <2>2, <3>6, <3>7 DEF Stopping
    <3> QED
      BY <1>1, <3>2, <3>8
  <2> QED
    BY <1>5, <2>1, <2>2
<1> QED
  BY <1>8, <1>10, <1>11 DEF Holding

\* The steps in which a start ends, and what follows it.
LEMMA EndHolding ==
    Control /\ Control' /\ Holding /\ (Up \/ Rollback \/ Rejected) => Holding'
<1> SUFFICES ASSUME Control, Control', Holding, Up \/ Rollback \/ Rejected
             PROVE  Holding'
  OBVIOUS
<1>1. /\ daemon /\ slice' = slice /\ faults' \in {faults, faults + 1}
      /\ saved'.bound = saved.bound /\ disk' \in {disk, saved'}
      /\ Stage(work'.then) \in {"end", "rejected", "undone", "released"}
  BY EndStep
<1>2. BoundKnown'
  BY <1>1, BoundKeeps DEF Holding
<1>3. ~Reporting'
  BY <1>1 DEF Reporting
<1>4. work \in TypedWork /\ \A word \in {"rollback", "rejected"} : At(word) => work.name # "connect"
  <2>1. \A word \in {"rollback", "rejected"} : At(word) => Stage(work.then) = word
    BY AtStep
  <2>2. /\ Stage(Launching) = "launch" /\ Stage(Stopping(Launching)) = "stopped"
        /\ Stage(Stopping(<<>>)) = "stopped"
    BY Ends, StopEnds DEF After
  <2> QED
    BY <2>1, <2>2 DEF Holding, ConnectHolds, Control, Typed
<1>5. CASE Up
  <2> DEFINE none == <<>>
             rejecting == << <<"rejected">> >>
             start == "start"
  <2>1. work' = Begin(start, none, none) \/ work' = Failed(Begin(start, none, rejecting))
    BY <1>5 DEF Up, Failed
  <2>2. start \notin {"connect"}
    OBVIOUS
  <2> HIDE DEF none, rejecting, start
  <2>3. work'.name \in {start, "idle"}
    BY <2>1, BegunName
  <2> QED
    BY <1>2, <1>3, <2>2, <2>3, HoldingEnds
<1>6. CASE Rollback \/ Rejected
  <2>1. work.name # "connect"
    BY <1>4, <1>6 DEF Rollback, Rejected
  <2> DEFINE none == <<>>
             stop == << <<"stop">> >>
             undone == << <<"undone">> >>
             released == << <<"released">> >>
             release == "release"
             no == FALSE
             one == Expanded(none, undone, release, no)
             two == Expanded(CleanupOf(live.fresh), undone, Verdict, live.fresh)
             three == Expanded(stop, released, release, no)
  <2>2. work' \in {one, two, Failed(one), three, Advanced}
    BY <1>6 DEF Rollback, Rejected, Failed
  <2> HIDE DEF none, stop, undone, released, release, no
  <2>3. /\ one.name \in {work.name, "idle"} /\ two.name \in {work.name, "idle"}
        /\ Failed(one).name = one.name /\ three.name \in {work.name, "idle"}
    BY <1>4, ExpandedName
  <2> HIDE DEF one, two, three
  <2>4. Advanced.name \in {work.name, "idle"}
    <3>1. work.todo # <<>> \/ work.then # <<>>
      BY <1>6, AtIs DEF Rollback, Rejected, Control, Typed
    <3> QED
      BY <3>1, Moves DEF NoWork
  <2> QED
    BY <1>2, <1>3, <2>1, <2>2, <2>3, <2>4, HoldingEnds
<1> QED
  BY <1>5, <1>6

\* A helper is restored, and an installation begins.
LEMMA BeginHolding ==
    Control /\ Control' /\ Holding /\ (Restore \/ StartInterface) => Holding'
<1> SUFFICES ASSUME Control, Control', Holding, Restore \/ StartInterface
             PROVE  Holding'
  OBVIOUS
<1>1. work \in TypedWork /\ saved \in States /\ live \in Lives
  BY DEF Control, Typed
<1>2. CASE Restore
  <2>1. /\ daemon /\ slice' = slice /\ faults' \in {faults, faults + 1} /\ session' = session
        /\ Stage(work'.then) \in {"end", "rejected", "launch"}
        /\ disk' \in {disk, saved'}
    <3>1. ~Install
      BY <1>2 DEF Restore, Install, At
    <3> QED
      BY <1>2, <3>1, LoneStep
  <2>2. saved' = saved
    BY <1>2 DEF Restore
  <2>3. BoundKnown' /\ ~Reporting'
    BY <2>1, <2>2, BoundKeeps DEF Holding, Reporting
  <2> DEFINE rejournal == << <<"rejournal">> >>
             next == [work EXCEPT !.todo = rejournal]
  <2>4. work' \in {Advanced, Broken, next}
    BY <1>2 DEF Restore
  <2>5. rejournal # << <<"stop">> >>
    OBVIOUS
  <2>6. At("restore")
    BY <1>2 DEF Restore
  <2> HIDE DEF rejournal
  <2>7. next.name = work.name /\ next.then = work.then /\ next.todo = rejournal
    BY <1>1 DEF TypedWork
  <2>8. ConnectHolds'
    <3>1. CASE work' = next
      BY <2>1, <2>5, <2>7, <3>1 DEF Holding, ConnectHolds
    <3>2. CASE work' \in {Advanced, Broken}
      <4>1. work.todo # <<>>
        BY <2>6, AtStep, Words
      <4> QED
        BY <2>1, <3>2, <4>1, ConnectKeeps DEF Going, Holding
    <3> QED
      BY <2>4, <3>1, <3>2
  <2> QED
    BY <2>3, <2>8 DEF Holding, VerdictKept
<1>3. CASE StartInterface
  <2>1. /\ Idle /\ daemon' /\ slice' = slice /\ faults' \in {faults, faults + 1}
        /\ saved' \in {saved, Journal(live)} /\ disk' \in {disk, saved'}
        /\ Requested \/ work'.then = Rolling
    BY <1>3, StartStep
  <2>2. saved'.bound = saved.bound /\ daemon
    BY <1>1, <2>1, JournalIs, IdleIs
  <2>3. BoundKnown'
    BY <2>1, <2>2, BoundKeeps DEF Holding
  <2>4. ~Reporting'
    BY <2>1, RequestedStages, Ends DEF Reporting
  <2> DEFINE start == "start"
             none == <<>>
             restore == << <<"restore">> >>
             rejecting == << <<"rejected">> >>
             list == IF live.kind = "owned" THEN OwnedStart ELSE LegacyStart
             rolling == << <<"rollback">>, <<"rejected">> >>
  <2>5. work' \in {Begin(start, restore, rejecting), Begin(start, list, rolling),
                   Failed(Begin(start, none, rejecting))}
    BY <1>3 DEF StartInterface, Failed
  <2>6. start \notin {"connect"}
    OBVIOUS
  <2> HIDE DEF start, none, restore, rejecting, list, rolling
  <2>7. work'.name \in {start, "idle"}
    BY <2>5, BegunName
  <2> QED
    BY <2>3, <2>4, <2>6, <2>7, HoldingEnds
<1> QED
  BY <1>2, <1>3

\* Of the requests only a connection goes by its name, and it leaves what is held.
LEMMA AskName ==
    ASSUME Control,
           \/ Supervise \/ Confirmed \/ ConfirmationFailed \/ CoreExits \/ ServerGone \/ Down
           \/ DeleteInterface \/ Shutdown \/ Connect
           \/ \E kind \in Kinds \cup {"none"}, holds \in BOOLEAN : Plan(kind, holds)
    PROVE  \/ work'.name # "connect"
           \/ Connect /\ work'.then = Launching
              /\ (session.holding => work'.todo \in {<<>>, << <<"restore">> >>})
<1> DEFINE none == <<>>
           stop == << <<"stop">> >>
           restore == << <<"restore">> >>
           rejecting == << <<"rejected">> >>
           releasing == << <<"released">> >>
           removing == << <<"removed">> >>
           last == << <<"removed">>, <<"exit">> >>
           exiting == << <<"exit">> >>
           forgetting == << <<"forget">> >>
           planning == << <<"plan">> >>
           launching == << <<"launch">> >>
<1>1. CASE Connect
  <2> DEFINE list == IF live.kind = "owned" /\ live.up THEN restore
                     ELSE IF ~session.holding /\ live.kind = "legacy" /\ (live.up \/ live.helper)
                     THEN stop ELSE none
             connect == "connect"
  <2>1. work' = Begin(connect, list, launching)
    BY <1>1 DEF Connect
  <2>2. session.holding => list \in {<<>>, << <<"restore">> >>}
    OBVIOUS
  <2>3. launching # <<>>
    OBVIOUS
  <2> HIDE DEF list, launching, connect
  <2>4. [NoWork EXCEPT !.name = connect, !.todo = list, !.then = launching].then = launching
        /\ [NoWork EXCEPT !.name = connect, !.todo = list, !.then = launching].todo = list
    BY DEF NoWork
  <2>5. work'.todo = list /\ work'.then = launching
    BY <2>1, <2>3, <2>4 DEF Begin, Settled, Running
  <2> QED
    BY <1>1, <2>2, <2>5 DEF launching, Launching
<1>2. ASSUME NEW name \in {"start", "fail", "supervise", "release", "stop", "down", "delete",
                           "disable", "switch"},
             \E todo, then : work' \in {Begin(name, todo, then), Failed(Begin(name, todo, then))}
      PROVE  work'.name # "connect"
  <2>1. name # "connect"
    OBVIOUS
  <2> HIDE DEF none, stop, restore, rejecting, releasing, removing, last, exiting, forgetting,
               planning, launching
  <2> QED
    BY <1>2, <2>1, BegunName
<1>3. CASE \/ Supervise \/ Down \/ DeleteInterface \/ ConfirmationFailed
  <2>1. \/ work' = Begin("supervise", restore, none)
        \/ work' = Begin("down", stop, removing)
        \/ work' = Begin("delete", stop, none)
        \/ work' = Failed(Begin("fail", none, rejecting))
    BY <1>3 DEF Supervise, Down, DeleteInterface, ConfirmationFailed, Failed
  <2> HIDE DEF none, stop, restore, rejecting, removing
  <2> QED
    BY <1>2, <2>1
<1>4. CASE Shutdown
  <2>1. \/ work' = Begin("down", stop, last)
        \/ work' = Begin("down", none, exiting)
    BY <1>4 DEF Shutdown
  <2> HIDE DEF none, stop, last, exiting
  <2> QED
    BY <1>2, <2>1
<1>5. CASE Confirmed \/ CoreExits \/ ServerGone
  <2>1. \/ work' = work /\ Idle
        \/ work' = Begin("release", stop, none)
        \/ work' = Begin("stop", stop, releasing)
    BY <1>5 DEF Confirmed, CoreExits, ServerGone
  <2>2. Idle => work.name = "idle"
    BY IdleIs DEF NoWork
  <2> HIDE DEF none, stop, releasing
  <2> QED
    BY <1>2, <2>1, <2>2
<1>6. CASE \E kind \in Kinds \cup {"none"}, holds \in BOOLEAN : Plan(kind, holds)
  <2>1. \/ work' = work /\ Idle
        \/ work' = Begin("disable", stop, forgetting)
        \/ work' = Begin("switch", stop, planning)
    BY <1>6 DEF Plan
  <2>2. Idle => work.name = "idle"
    BY IdleIs DEF NoWork
  <2> HIDE DEF stop, forgetting, planning
  <2> QED
    BY <1>2, <2>1, <2>2
<1> QED
  BY <1>1, <1>3, <1>4, <1>5, <1>6

\* A request touches no binding but that of a cgroup that ended.
LEMMA AskHolding ==
    Control /\ Control' /\ Holding
    /\ (\/ Supervise \/ Confirmed \/ ConfirmationFailed \/ CoreExits \/ ServerGone \/ Down
        \/ DeleteInterface \/ Shutdown \/ Connect
        \/ \E kind \in Kinds \cup {"none"}, holds \in BOOLEAN : Plan(kind, holds))
       => Holding'
<1> DEFINE asks == \/ Supervise \/ Confirmed \/ ConfirmationFailed \/ CoreExits \/ ServerGone \/ Down
                   \/ DeleteInterface \/ Shutdown \/ Connect
           plans == \E kind \in Kinds \cup {"none"}, holds \in BOOLEAN : Plan(kind, holds)
<1> SUFFICES ASSUME Control, Control', Holding, asks \/ plans
             PROVE  Holding'
  OBVIOUS
<1>1. Idle /\ daemon' /\ slice' = slice /\ faults' \in {faults, faults + 1} /\ Requested
  BY AskStep, PlanStep
<1>2. daemon
  BY <1>1, IdleIs
<1>3. ~Reporting'
  BY <1>1, RequestedStages DEF Reporting
<1>4. BoundKnown'
  <2>1. ASSUME saved'.bound = saved.bound, disk' \in {disk, saved'}
        PROVE  BoundKnown'
    BY <1>1, <1>2, <2>1, BoundKeeps DEF Holding
  <2>2. CASE asks
    BY <2>1, <2>2, AskStep
  <2>3. CASE plans
    <3>1. UNCHANGED <<live, saved, disk>>
          \/ /\ disk' \in {disk, saved'} /\ (saved'.bound => saved.bound)
             /\ saved.bound /\ slice => saved' = saved /\ disk' = disk
      BY <2>3, PlanStep
    <3>2. faults \in Nat
      BY InterfacesAssumption DEF Control, Typed
    <3>3. faults' = 0 => faults = 0
      BY <1>1, <3>2
    <3> QED
      BY <1>1, <1>2, <2>1, <3>1, <3>3 DEF Holding, BoundKnown
  <2> QED
    BY <2>2, <2>3
<1>5. ConnectHolds'
  <2>1. \/ work'.name # "connect"
        \/ Connect /\ work'.then = Launching
           /\ (session.holding => work'.todo \in {<<>>, << <<"restore">> >>})
    BY AskName
  <2>2. <<>> # << <<"stop">> >> /\ << <<"restore">> >> # << <<"stop">> >>
    OBVIOUS
  <2>3. Connect => session' = session
    BY DEF Connect, UnaffectedByStep
  <2> QED
    BY <2>1, <2>2, <2>3 DEF ConnectHolds
<1> QED
  BY <1>3, <1>4, <1>5 DEF Holding, VerdictKept

\* The scope of a command is bound, and what recovery finds of it.
LEMMA WorldHolding ==
    Control /\ Control' /\ Holding
    /\ (RunScope \/ RecoverChains \/ Exit \/ Crash \/ HelperDies \/ SliceEnds \/ Boot) => Holding'
<1> SUFFICES ASSUME Control, Control', Holding,
                    RunScope \/ RecoverChains \/ Exit \/ Crash \/ HelperDies \/ SliceEnds \/ Boot
             PROVE  Holding'
  OBVIOUS
<1>1. work \in TypedWork /\ saved \in States
  BY DEF Control, Typed
<1>2. CASE RunScope
  <2>1. Idle /\ Requested /\ saved'.bound
    BY <1>2, ScopeStep
  <2>2. ~Reporting' /\ BoundKnown'
    BY <2>1, RequestedStages DEF Reporting, BoundKnown
  <2> DEFINE run == "run"
             install == << <<"install">> >>
             none == <<>>
  <2>3. work' = work \/ work' = Begin(run, install, none)
    BY <1>2 DEF RunScope
  <2>4. run # "connect" /\ work.name = "idle"
    BY <2>1, IdleIs DEF NoWork
  <2> HIDE DEF run, install, none
  <2>5. work'.name \in {run, "idle"}
    BY <2>3, <2>4, BegunName
  <2> QED
    BY <2>2, <2>4, <2>5, HoldingEnds
<1>3. CASE RecoverChains
  <2>1. /\ work.then = Recovering /\ Recovery /\ daemon /\ slice' = slice
        /\ faults' \in {faults, faults + 1} /\ disk' = disk
        /\ work' = [work EXCEPT !.todo = RecoveryOf(saved')]
    BY <1>3, RecoveryStep
  <2>2. saved' = [saved EXCEPT !.bound = @ /\ slice]
    BY <1>3 DEF RecoverChains
  <2>3. saved'.bound = (saved.bound /\ slice)
    BY <1>1, <2>2 DEF States
  <2>4. work'.name = "recover" /\ work'.then = Recovering
    <3>1. work.name = "recover"
      BY <2>1 DEF Recovery, Control, Shaped
    <3> DEFINE list == RecoveryOf(saved')
    <3> HIDE DEF list
    <3>2. [work EXCEPT !.todo = list].name = work.name /\ [work EXCEPT !.todo = list].then = work.then
      BY <1>1 DEF TypedWork
    <3> QED
      BY <2>1, <3>1, <3>2 DEF list
  <2>5. ~Reporting'
    BY <2>4, Ends DEF Reporting
  <2>6. BoundKnown'
    <3>1. faults \in Nat
      BY InterfacesAssumption DEF Control, Typed
    <3>2. faults' = 0 => faults = 0
      BY <2>1, <3>1
    <3> QED
      BY <2>1, <2>3, <3>2 DEF Holding, BoundKnown
  <2> QED
    BY <2>4, <2>5, <2>6, HoldingEnds
<1>4. CASE Exit \/ Crash \/ HelperDies \/ SliceEnds \/ Boot
  <2>1. /\ disk' = disk /\ faults' = faults
        /\ \/ UNCHANGED <<kernel, saved, session, live, work, daemon>> /\ ~slice'
           \/ UNCHANGED <<saved, session, work, daemon, slice>> /\ work = NoWork
           \/ ~daemon' /\ work' = NoWork
           \/ daemon' /\ saved' = disk /\ work'.then = Recovering
    BY <1>4, WorldStep
  <2>2. CASE UNCHANGED <<kernel, saved, session, live, work, daemon>> /\ ~slice'
    BY <2>2 DEF Holding, BoundKnown, VerdictKept, ConnectHolds, Reporting
  <2>3. NoWork.name = "idle" /\ Stage(NoWork.then) = "end"
    BY Ends DEF NoWork
  <2>4. CASE UNCHANGED <<saved, session, work, daemon, slice>> /\ work = NoWork
    BY <2>1, <2>3, <2>4, HoldingEnds DEF Holding, BoundKnown, Reporting
  <2>5. CASE ~daemon' /\ work' = NoWork
    BY <2>3, <2>5, HoldingEnds DEF BoundKnown, Reporting
  <2>6. CASE daemon' /\ saved' = disk /\ work'.then = Recovering
    <3>1. Stage(work'.then) = "recovered"
      BY <2>6, Ends
    <3>2. work'.name # "connect"
      BY <3>1 DEF Control, Shaped
    <3> QED
      BY <2>1, <2>6, <3>1, <3>2, HoldingEnds DEF BoundKnown, Reporting
  <2> QED
    BY <2>1, <2>2, <2>4, <2>5, <2>6
<1> QED
  BY <1>2, <1>3, <1>4

\* What holds traffic is inductive.
LEMMA HoldingHolds == Spec => [](Control /\ Holding)
<1>1. Init => Holding
  <2> SUFFICES ASSUME Init PROVE Holding
    OBVIOUS
  <2>1. ~disk.bound /\ work.name = "idle" /\ Stage(work.then) = "end"
    BY Ends, NothingIs DEF Init, NoWork
  <2> QED
    BY <2>1 DEF Holding, ConnectHolds, BoundKnown, VerdictKept, Reporting
<1>2. Control /\ Control' /\ Holding /\ [Next]_vars => Holding'
  <2> SUFFICES ASSUME Control, Control', Holding, [Next]_vars
               PROVE  Holding'
    OBVIOUS
  <2>1. CASE UNCHANGED vars
    BY <2>1 DEF vars, Holding, ConnectHolds, BoundKnown, VerdictKept, Reporting
  <2>2. CASE Next
    BY <2>2, SteadyHolding, StopHolding, EndHolding, BeginHolding, AskHolding, WorldHolding
       DEF Next, Steady
  <2> QED
    BY <2>1, <2>2
<1>3. Spec => []Control
  BY ControlHolds
<1> QED
  BY <1>1, <1>2, <1>3, PTL DEF Spec

\* Routes stay where the objects of each kind of interface do.
LEMMA ObjectsStay ==
    ASSUME \A kind \in Kinds : Objects(kind) \subseteq Objects(kind)'
    PROVE  kernel \cap (Kinds \X Routing) \subseteq kernel'
<1> SUFFICES ASSUME NEW object \in kernel \cap (Kinds \X Routing)
             PROVE  object \in kernel'
  OBVIOUS
<1>1. PICK kind \in Kinds, part \in Routing : object = <<kind, part>>
  OBVIOUS
<1>2. part \in Objects(kind)
  BY <1>1 DEF Objects
<1>3. part \in Objects(kind)'
  BY <1>2
<1> QED
  BY <1>1, <1>3 DEF Objects

\* A connection of a session that holds its traffic takes no route away.
LEMMA ConnectionStays ==
    ASSUME Control, Control', ConnectHolds, Next, work.name = "connect", session.holding
    PROVE  kernel \cap (Kinds \X Routing) \subseteq kernel'
<1>1. CASE Create \/ Intend \/ WriteJournal \/ Spawn \/ AddObject \/ Mark
  <2>1. \/ SameObjects
        \/ /\ Objects(live.kind) \subseteq Objects(live.kind)' /\ live'.kind = live.kind
           /\ \A kind \in Kinds \ {live.kind} : Objects(kind)' = Objects(kind)
    BY <1>1, BuildStep DEF Follows
  <2>2. \A kind \in Kinds : Objects(kind) \subseteq Objects(kind)'
    <3>1. ASSUME NEW kind \in Kinds, kind = live.kind, live'.kind = live.kind,
                 Objects(live.kind) \subseteq Objects(live.kind)'
          PROVE  Objects(kind) \subseteq Objects(kind)'
      BY <3>1 DEF Objects
    <3> QED
      BY <2>1, <3>1 DEF SameObjects
  <2> QED
    BY <2>2, ObjectsStay
<1>2. ~(Identify \/ SetChain \/ Reap \/ DeleteObject)
  <2>1. Stage(work.then) = "launch"
    BY Ends DEF ConnectHolds
  <2>2. Identify \/ SetChain \/ Reap \/ DeleteObject =>
          Stage(work.then) \in Cleaning \cup {"recovered"}
    BY CleanStep
  <2> QED
    BY <2>1, <2>2 DEF Cleaning
<1>3. CASE \/ RecoverChains \/ IntendAgain \/ Recognise \/ Kill \/ Unchain
           \/ Restore \/ Rejournal \/ Install \/ Exit \/ Crash \/ HelperDies \/ SliceEnds \/ Boot
  <2>1. SameObjects
    BY <1>3, RecoveryStep, LoneStep, WorldStep
  <2> QED
    BY <2>1, ObjectsStay DEF SameObjects
<1>4. CASE \/ Stop \/ Up \/ Rollback \/ RolledBack \/ Rejected \/ Released \/ Launch
           \/ Stopped \/ Deleted \/ Replan \/ Forget \/ Removed \/ Recovered
           \/ StartInterface \/ RunScope
           \/ Supervise \/ Confirmed \/ ConfirmationFailed \/ CoreExits \/ ServerGone \/ Down
           \/ DeleteInterface \/ Shutdown \/ Connect
           \/ \E kind \in Kinds \cup {"none"}, holds \in BOOLEAN : Plan(kind, holds)
  <2>1. kernel' = kernel
    BY <1>4, StopStep, EndStep, ReportStep, LeaveStep, StartStep, ScopeStep, AskStep, PlanStep
  <2> QED
    BY <2>1
<1> QED
  BY <1>1, <1>2, <1>3, <1>4 DEF Next

\* What is bound under a policy of holding is not released.
LEMMA BindingStays ==
    ASSUME Control, Control', Holding, Next, faults' = 0, disk.bound, slice, slice', session.holds
    PROVE  disk'.bound
<1>1. faults' \in {faults, faults + 1} => faults = 0 /\ faults' # faults + 1
  <2>1. faults \in Nat
    BY InterfacesAssumption DEF Control, Typed
  <2> QED
    BY <2>1
<1>2. ASSUME daemon, faults = 0
      PROVE  saved.bound
  BY <1>2 DEF Holding, BoundKnown
<1>3. live \in Lives /\ live' \in Lives /\ saved \in States
  BY DEF Control, Typed
<1>4. CASE Steady
  <2>1. daemon /\ faults = 0 /\ faults' # faults + 1
    BY <1>1, <1>4, SteadyGoes
  <2>2. saved.bound
    BY <1>2, <2>1
  <2>3. ~(Reporting /\ work.verdict = "release")
    BY <2>2 DEF Holding, VerdictKept
  <2> QED
    BY <1>4, <2>1, <2>2, <2>3, SteadyBinds
<1>5. CASE \/ Stop \/ Up \/ Rollback \/ Rejected \/ Restore \/ StartInterface
           \/ Supervise \/ Confirmed \/ ConfirmationFailed \/ CoreExits \/ ServerGone \/ Down
           \/ DeleteInterface \/ Shutdown \/ Connect
  <2>1. daemon /\ faults' \in {faults, faults + 1} /\ disk' \in {disk, saved'}
    <3>1. Restore => ~Install
      BY DEF Restore, Install, At
    <3> QED
      BY <1>5, <3>1, StopStep, EndStep, LoneStep, StartStep, AskStep, IdleIs
  <2>2. saved'.bound = saved.bound
    <3>1. CASE Stop \/ StartInterface
      <4>1. saved' \in {saved, Journal(live), Journal(live')}
        BY <3>1, StopStep, StartStep
      <4> QED
        BY <1>3, <4>1, JournalIs
    <3>2. CASE Restore
      BY <3>2 DEF Restore
    <3> QED
      BY <1>5, <3>1, <3>2, EndStep, AskStep
  <2>3. saved.bound
    BY <1>1, <1>2, <2>1
  <2> QED
    BY <2>1, <2>2, <2>3
<1>6. CASE \E kind \in Kinds \cup {"none"}, holds \in BOOLEAN : Plan(kind, holds)
  <2>1. /\ Idle /\ faults' \in {faults, faults + 1}
        /\ disk' = disk \/ (saved.bound /\ slice => disk' = disk)
    BY <1>6, PlanStep
  <2>2. saved.bound
    BY <1>1, <1>2, <2>1, IdleIs
  <2> QED
    BY <2>1, <2>2
<1>7. CASE RunScope \/ RecoverChains \/ Exit \/ Crash \/ HelperDies \/ SliceEnds \/ Boot
  BY <1>7, ScopeStep, RecoveryStep, WorldStep
<1> QED
  BY <1>4, <1>5, <1>6, <1>7 DEF Next, Steady

\* Traffic that is held stays held: a reconnect of a session that holds leaves every route
\* where it was, and, as long as nothing failed, a running cgroup that is bound under a
\* policy of holding stays bound, through switches, `down`, crashes and recoveries.
THEOREM HoldHolds == Spec => HoldStands
<1>1. Control /\ Control' /\ Holding /\ [Next]_vars =>
        [work.name = "connect" /\ session.holding /\ daemon' =>
           kernel \cap (Kinds \X Routing) \subseteq kernel']_vars
  BY ConnectionStays DEF Holding
<1>2. Control /\ Control' /\ Holding /\ [Next]_vars =>
        [faults' = 0 /\ disk.bound /\ slice /\ slice' /\ session.here /\ session.holds
           => disk'.bound]_vars
  BY BindingStays
<1>3. Spec => []Control
  BY ControlHolds
<1>4. Spec => [](Control /\ Holding)
  BY HoldingHolds
<1> QED
  BY <1>1, <1>2, <1>3, <1>4, PTL DEF Spec, HoldStands, HeldRoutesStay, HeldStaysBound

-----------------------------------------------------------------------------
(* A cgroup that is bound is marked or blocked.                            *)

\* The steps of a removal are those of its list.
LEMMA RemovalSteps ==
    ASSUME Control, Steady, Stage(work.then) \in Cleaning, work.todo # <<>>
    PROVE  Identify \/ SetChain \/ Reap \/ DeleteObject
<1>1. /\ Stage(Rolling) = "rollback" /\ Stage(Recovering) = "recovered"
  BY Ends
<1>2. ~(Create \/ Intend \/ WriteJournal \/ Spawn \/ Mark)
  BY <1>1, AtStep DEF Create, Intend, WriteJournal, Spawn, Mark, Cleaning
<1>3. ~AddObject
  BY <1>1, AtStep DEF AddObject, Cleaning
<1>4. ~(IntendAgain \/ Recognise \/ Kill \/ Unchain)
  BY <1>1, AtStep DEF IntendAgain, Recognise, Kill, Unchain, Cleaning
<1>5. ~(Rejournal \/ Install)
  BY AtStep DEF Rejournal, Install, Cleaning
<1>6. ~(Stopped \/ Deleted \/ RolledBack \/ Released \/ Replan \/ Forget \/ Launch \/ Removed
        \/ Recovered)
  BY AtStep DEF Stopped, Deleted, RolledBack, Released, Replan, Forget, Launch, Removed, Recovered
<1> QED
  BY <1>2, <1>3, <1>4, <1>5, <1>6 DEF Steady

\* and those of a recovery of its.
LEMMA RecoverySteps ==
    ASSUME Control, Steady, Recovery, work.todo # <<>>
    PROVE  /\ DeleteObject \/ IntendAgain \/ Recognise \/ Kill \/ Unchain
           /\ saved'.bound = saved.bound
<1>0. work.then = Recovering /\ Stage(Recovering) = "recovered" /\ Stage(Rolling) = "rollback"
      /\ saved \in States
  BY Ends, StagesAre DEF Recovery, Control, Typed, TypedWork
<1>1. ~(Create \/ Intend \/ WriteJournal \/ Spawn \/ AddObject \/ Mark)
  BY <1>0, BuildStep
<1>2. ~(Identify \/ SetChain \/ Reap)
  BY AtStep DEF Identify, SetChain, Reap, Recovery, Cleaning
<1>3. ~(Rejournal \/ Install)
  BY AtStep DEF Rejournal, Install, Recovery
<1>4. ~(Stopped \/ Deleted \/ RolledBack \/ Released \/ Replan \/ Forget \/ Launch \/ Removed
        \/ Recovered)
  BY AtStep DEF Stopped, Deleted, RolledBack, Released, Replan, Forget, Launch, Removed, Recovered
<1>5. DeleteObject \/ IntendAgain \/ Recognise \/ Kill \/ Unchain
  BY <1>1, <1>2, <1>3, <1>4 DEF Steady
<1>6. saved' \in {saved, [saved EXCEPT !.interface.dirty = TRUE]}
  BY <1>5 DEF DeleteObject, IntendAgain, Recognise, Kill, Unchain
<1>7. saved'.bound = saved.bound
  BY <1>0, <1>6 DEF States
<1> QED
  BY <1>5, <1>7

\* A step keeps the kind of interface, or drops the interface, or plans a legacy one.
LEMMA SteadyKind ==
    ASSUME Control, Control', Steady
    PROVE  live'.kind \in {live.kind, "none", "legacy"} /\ (Removed => live'.kind = "none")
<1>1. NoInterface.kind = "none" /\ PlannedInterface("legacy").kind = "legacy"
  <2>1. "legacy" \in Kinds /\ live \in Lives /\ saved \in States /\ slice \in BOOLEAN
    BY DEF Kinds, Control, Typed
  <2> QED
    BY <2>1, NothingIs, PlannedIs
<1>2. CASE Create \/ Intend \/ WriteJournal \/ Spawn \/ AddObject \/ Mark
  <2>1. live'.kind = live.kind /\ work.todo # <<>>
    BY <1>2, BuildStep DEF Follows
  <2> QED
    BY <2>1, AtStep DEF Removed
<1>3. CASE Identify \/ SetChain \/ Reap \/ DeleteObject
  <2>1. live'.kind = live.kind /\ work.todo # <<>>
    BY <1>3, CleanStep DEF Follows
  <2> QED
    BY <2>1, AtStep DEF Removed
<1>4. CASE IntendAgain \/ Recognise \/ Kill \/ Unchain
  <2>1. live'.kind = live.kind /\ work.todo # <<>>
    BY <1>4, RecoveryStep DEF Follows
  <2> QED
    BY <2>1, AtStep DEF Removed
<1>5. CASE Rejournal \/ Install
  <2>1. live'.kind = live.kind
    BY <1>5, LoneStep DEF Follows
  <2>2. work.todo # <<>>
    BY <1>5, AtStep, Words DEF Rejournal, Install
  <2> QED
    BY <2>1, <2>2, AtStep DEF Removed
<1>6. CASE RolledBack \/ Released \/ Launch
  <2>1. live'.kind = live.kind
    BY <1>6, EndStep
  <2>2. /\ Removed => Stage(work.then) = "removed"
        /\ Stage(work.then) \in {"undone", "released", "launch"}
    BY <1>6, AtStep DEF RolledBack, Released, Launch, Removed
  <2> QED
    BY <2>1, <2>2
<1>7. CASE Stopped \/ Deleted
  <2>1. live'.kind \in {live.kind, "none"}
    BY <1>1, <1>7, ReportStep DEF FinishDeletion
  <2>2. ~Removed
    BY <1>7, AtStep DEF Stopped, Deleted, Removed
  <2> QED
    BY <2>1, <2>2
<1>8. CASE Replan \/ Forget \/ Removed \/ Recovered
  BY <1>1, <1>8, LeaveStep
<1> QED
  BY <1>2, <1>3, <1>4, <1>5, <1>6, <1>7, <1>8 DEF Steady

\* What a stop begins.
LEMMA StopBegins ==
    ASSUME Control, Control', Stop
    PROVE  /\ Reporting' =>
                /\ work'.name = work.name /\ work'.todo = CleanupOf(work.name = "delete")
                /\ work.name # "delete" => work'.then = Stopping(work.then)
                /\ ~work'.failed /\ live.kind # "none"
           /\ live.kind = "legacy" => Reporting'
           /\ ~Reporting' => Going
<1>1. /\ work.todo = << <<"stop">> >> /\ work.todo # <<>> /\ At("stop") /\ work \in TypedWork
      /\ live'.kind = live.kind
  <2>1. work.todo = << <<"stop">> >> /\ live'.kind = live.kind
    BY StopStep
  <2> QED
    BY <2>1 DEF Stop, Control, Typed
<1>2. Stage(work.then) \notin Firsts
  BY <1>1, AtStep DEF Firsts
<1> DEFINE deletes == work.name = "delete"
           ends == IF deletes THEN "deleted" ELSE "stopped"
           verdict == IF work.name = "switch" THEN SwitchVerdict ELSE Verdict
           list == CleanupOf(deletes)
           ending == << <<ends>> >>
           whole == Expanded(list, ending, verdict, deletes)
<1>3. /\ work' \in {Advanced, Broken, whole}
      /\ live.kind = "legacy" => work' = whole
  BY DEF Stop, Removal
<1>4. list # <<>>
  <2>1. deletes \in BOOLEAN
    OBVIOUS
  <2> HIDE DEF deletes
  <2> QED
    BY <2>1, CleanupIs
<1>5. /\ whole.todo = list /\ whole.name = work.name /\ whole.then = ending \o Advanced.then
      /\ ~whole.failed
  <2>1. whole.todo = list /\ whole.name = work.name /\ whole.then = ending \o Advanced.then
    <3> HIDE DEF deletes, list, ending, verdict
    <3> QED
      BY <1>1, <1>4, ExpandedList, ExpandedName
  <2>2. ~whole.failed
    <3> DEFINE left == ending \o Advanced.then
               w == [work EXCEPT !.todo = list, !.then = left, !.verdict = verdict,
                                 !.deletes = deletes, !.failed = FALSE]
    <3>1. whole = Settled(w)
      BY DEF Expanded
    <3> HIDE DEF whole, list, left, verdict, deletes
    <3>2. w.failed = FALSE
      BY <1>1 DEF TypedWork
    <3> HIDE DEF w
    <3> QED
      BY <3>1, <3>2 DEF Settled, NoWork
  <2> QED
    BY <2>1, <2>2
<1>6. Advanced.then = work.then /\ work.then \in Thens
  BY <1>1, Moves DEF TypedWork
<1>7. CASE work' = whole
  <2>1. CASE deletes
    <3>1. work.then = <<>>
      <4>1. Stage(work.then) \in {"deleted", "end"}
        BY <2>1 DEF Control, Shaped
      <4> QED
        BY <1>2, <1>6, <4>1, StagesAre DEF Firsts
    <3>2. << <<"deleted">> >> \o <<>> = << <<"deleted">> >>
      BY Joined
    <3>3. work'.then = Deleting
      BY <1>5, <1>6, <1>7, <2>1, <3>1, <3>2 DEF Deleting
    <3>4. Reporting'
      BY <3>3, Ends DEF Reporting
    <3>5. live.kind # "none"
      BY <1>1, <3>4 DEF Reporting, Cleaning, Control, Shaped
    <3>6. /\ work'.name = work.name /\ work'.todo = list /\ ~work'.failed
      BY <1>5, <1>7
    <3> HIDE DEF whole, ends, ending
    <3> QED
      BY <2>1, <3>4, <3>5, <3>6
  <2>2. CASE ~deletes
    <3>1. work'.then = Stopping(work.then)
      BY <1>5, <1>6, <1>7, <2>2 DEF Stopping
    <3>2. work.then \in After
      <4>1. work.then \notin Stoppings
        BY <1>2, StopEnds DEF Stoppings, Firsts
      <4>2. work.then \notin {Rolling, Rolled, Deleting, Recovering, Rejecting}
        <5>1. work.then \notin {Rolling, Rolled, Deleting, Recovering}
          BY <1>2, Ends DEF Firsts
        <5>2. << <<"stop">> >> \notin {<<>>, << <<"restore">> >>, << <<"rejournal">> >>}
          OBVIOUS
        <5>3. Stage(work.then) # "rejected"
          BY <1>1, <5>2 DEF Control, Shaped
        <5>4. work.then # Rejecting
          BY <5>3, Ends
        <5> QED
          BY <5>1, <5>4
      <4> QED
        BY <1>6, <4>1, <4>2 DEF Thens
    <3>3. Reporting'
      BY <3>1, <3>2, StopEnds DEF Reporting
    <3>5. live.kind # "none"
      BY <1>1, <3>3 DEF Reporting, Cleaning, Control, Shaped
    <3>6. /\ work'.name = work.name /\ work'.todo = list /\ ~work'.failed
      BY <1>5, <1>7
    <3> HIDE DEF whole, ends, ending
    <3> QED
      BY <2>2, <3>1, <3>3, <3>5, <3>6
  <2> QED
    BY <2>1, <2>2
<1>8. CASE work' \in {Advanced, Broken}
  <2>1. Going
    BY <1>8 DEF Going
  <2>2. ~Reporting'
    BY <1>1, <1>2, <2>1, GoingKeeps DEF Reporting, Firsts
  <2> QED
    BY <1>3, <1>7, <2>1, <2>2
<1> QED
  BY <1>3, <1>7, <1>8

-----------------------------------------------------------------------------
\* What is true of the lists and the verdicts by which an interface is removed, whatever
\* fails: an interface of failover holds, a mark is written for an interface that stands,
\* recovery removes a chain that is not bound, only a deletion takes the device of a legacy
\* interface, and a chain goes first and while nothing failed.
OwnedListed == live.kind = "owned" => session.holds
InstallListed == work.todo = << <<"install">> >> => live.up
UnchainListed == Recovery /\ Todo(<<"unchain">>) => ~saved.bound
DeviceKept ==
    live.kind = "legacy" /\ Reporting /\ work.name # "delete" => ~Todo(<<"delete", "device">>)
ChainFirst ==
    Reporting /\ Todo(<<"chain">>) =>
        /\ ~work.failed
        /\ live.kind = "legacy" => /\ Head(work.todo) = <<"chain">>
                                   /\ ~Has(Tail(work.todo), <<"chain">>)
                                   /\ Before(work.todo, <<"reap">>, <<"delete", "device">>)
SwitchListed ==
    work.name = "switch" =>
        /\ work.then \in {Planning, Stopping(Planning), Stopping(<<>>)}
        /\ work.then = Stopping(<<>>) => work.failed
BlockMeant == Reporting /\ work.verdict = "block" /\ saved.bound => session.holds \/ work.name = "switch"
Listed ==
    /\ OwnedListed /\ InstallListed /\ UnchainListed /\ DeviceKept /\ ChainFirst
    /\ SwitchListed /\ BlockMeant

\* The stages a switch goes through.
LEMMA SwitchStages ==
    /\ Stage(Planning) = "plan" /\ Stage(Stopping(Planning)) = "stopped"
    /\ Stage(Stopping(<<>>)) = "stopped" /\ Planning \in After /\ <<>> \in After
    /\ Kept(Planning) = <<>> /\ Tail(Planning) = <<>> /\ Kept(<<>>) = <<>>
    /\ Tail(Stopping(Planning)) = Planning /\ Tail(Stopping(<<>>)) = <<>>
    /\ Kept(Stopping(Planning)) = Stopping(<<>>) /\ Kept(Stopping(<<>>)) = Stopping(<<>>)
<1>1. Planning \in After /\ <<>> \in After
  BY DEF After
<1>2. /\ Stage(Planning) = "plan" /\ Kept(Planning) = <<>> /\ Tail(Planning) = <<>>
      /\ Kept(<<>>) = <<>>
  BY Ends
<1> QED
  BY <1>1, <1>2, StopEnds

\* A switch goes on through them.
LEMMA SwitchKeeps ==
    ASSUME Control, SwitchListed, work.todo # <<>> \/ work.then # <<>>, Going
    PROVE  SwitchListed'
<1> SUFFICES ASSUME work'.name = "switch"
             PROVE  /\ work'.then \in {Planning, Stopping(Planning), Stopping(<<>>)}
                    /\ work'.then = Stopping(<<>>) => work'.failed
  BY DEF SwitchListed
<1>1. /\ work.then \in {Planning, Stopping(Planning), Stopping(<<>>)}
      /\ work.then = Stopping(<<>>) => work.failed
  BY GoingKeeps DEF SwitchListed
<1>2. /\ Advanced \in TypedWork /\ Failed(Advanced).name = Advanced.name
      /\ Failed(Advanced).then = Advanced.then /\ Failed(Advanced).failed
  BY Moves DEF Failed, TypedWork
<1>3. /\ work' # NoWork /\ work' # Failed(NoWork)
  BY DEF NoWork, Failed
<1>4. \/ work'.then = Advanced.then /\ Advanced # NoWork /\ (work.failed => work'.failed)
      \/ work'.then = Broken.then /\ Broken.then # <<>> /\ work'.failed
  BY <1>2, <1>3, Moves DEF Going
<1>5. Stopping(Planning) # Stopping(<<>>) /\ Planning # Stopping(<<>>)
  <2>1. Planning # <<>>
    BY DEF Planning
  <2> QED
    BY <2>1, SwitchStages
<1>6. CASE work.todo # <<>>
  BY <1>1, <1>4, <1>5, <1>6, SwitchStages, Moves
<1>7. CASE work.todo = <<>>
  <2>1. Advanced # NoWork => Advanced.then # <<>>
    BY <1>7, Moves
  <2> QED
    BY <1>1, <1>4, <1>5, <1>7, <2>1, SwitchStages, Moves
<1> QED
  BY <1>6, <1>7

\* A step of a removal, what it leaves of its list and of what failed.
LEMMA RemovalGoes ==
    ASSUME Control, Steady, Reporting'
    PROVE  /\ Reporting /\ work.todo # <<>> /\ (Identify \/ SetChain \/ Reap \/ DeleteObject)
           /\ work'.name = work.name /\ work'.verdict = work.verdict /\ live'.kind = live.kind
           /\ live.kind \in Kinds /\ session' = session /\ slice' = slice /\ saved' = saved
           /\ work'.todo = Tail(work.todo) \/ (work'.todo = <<>> /\ work'.failed)
           /\ work' = Broken => work'.todo = <<>> /\ work'.failed
           /\ live.kind = "owned" /\ ~work.failed /\ work'.todo # <<>> => ~work'.failed
<1>1. /\ Going /\ (work.todo # <<>> \/ work.then # <<>>)
  BY SteadyGoes
<1>2. /\ Stage(work'.then) \in Firsts /\ Stage(work'.then) # "end"
  BY DEF Reporting, Firsts
<1>3. /\ work.todo # <<>> /\ Stage(work.then) = Stage(work'.then) /\ work'.name = work.name
      /\ work'.verdict = work.verdict
  BY <1>1, <1>2, GoingKeeps
<1>4. Reporting
  BY <1>3 DEF Reporting
<1>5. Identify \/ SetChain \/ Reap \/ DeleteObject
  BY <1>3, <1>4, RemovalSteps DEF Reporting, Cleaning
<1>6. /\ live'.kind = live.kind /\ session' = session /\ slice' = slice /\ saved' = saved
  BY <1>5, CleanStep DEF Follows
<1>7. live.kind \in Kinds
  BY <1>4 DEF Reporting, Cleaning, Control, Shaped, Typed, Lives
<1>8. /\ \/ work' = Advanced /\ work'.todo = Tail(work.todo)
         \/ work' = Failed(Advanced) /\ work'.todo = Tail(work.todo) /\ work'.failed
         \/ work' = Broken /\ work'.todo = <<>>
      /\ work' = Broken => work'.failed
      /\ work' = Advanced => work'.failed = work.failed
  BY <1>1, <1>2, <1>3, MovedStages DEF Going
<1>9. live.kind = "owned" => work' \in {Advanced, Broken}
  BY <1>5 DEF Identify, SetChain, Reap, DeleteObject
<1>10. Broken.todo = <<>>
  BY <1>1, Moves
<1> QED
  BY <1>3, <1>4, <1>5, <1>6, <1>7, <1>8, <1>9, <1>10

\* A step that goes on with an operation.
LEMMA SteadyListed == Control /\ Control' /\ Listed /\ Steady => Listed'
<1> SUFFICES ASSUME Control, Control', Listed, Steady
             PROVE  Listed'
  OBVIOUS
<1>1. /\ Going /\ (work.todo # <<>> \/ work.then # <<>>)
      /\ session'.holds = session.holds \/ Removed
  BY SteadyGoes
<1>2. work \in TypedWork /\ work.todo \in Seq(Steps)
  BY DEF Control, Typed, TypedWork
<1>3. OwnedListed'
  BY <1>1, SteadyKind DEF Listed, OwnedListed
<1>4. InstallListed'
  <2> SUFFICES work'.todo # << <<"install">> >>
    BY DEF InstallListed
  <2>1. work'.todo \in {Advanced.todo, <<>>}
    <3>1. Failed(Advanced).todo = Advanced.todo
      BY <1>1, Moves DEF Failed, TypedWork
    <3> QED
      BY <1>1, <3>1, Moves DEF Going
  <2>2. <<>> # << <<"install">> >>
    OBVIOUS
  <2>3. Advanced.todo = <<>> \/ (work.todo # <<>> /\ Advanced.todo = Tail(work.todo))
    BY <1>1, Moves
  <2> QED
    BY <2>1, <2>2, <2>3, InstallIsFirst
<1>5. UnchainListed'
  <2> SUFFICES ASSUME Recovery', Has(work'.todo, <<"unchain">>)
               PROVE  ~saved'.bound
    BY DEF UnchainListed, Todo
  <2>1. Stage(work'.then) \in Firsts /\ Stage(work'.then) # "end"
    BY DEF Recovery, Firsts
  <2>2. work.todo # <<>> /\ Recovery
    BY <1>1, <2>1, GoingKeeps DEF Recovery
  <2>3. saved'.bound = saved.bound
    BY <2>2, RecoverySteps
  <2>4. work'.todo \in {Tail(work.todo), <<>>}
    BY <1>1, <2>2, MovedStages DEF Going
  <2>5. Has(work.todo, <<"unchain">>)
    BY <1>2, <2>2, <2>4, TailKeeps, EmptyIs
  <2> QED
    BY <2>2, <2>3, <2>5 DEF Listed, UnchainListed, Todo
<1>6. ASSUME Reporting'
      PROVE  DeviceKept' /\ ChainFirst' /\ BlockMeant'
  <2>1. /\ Reporting /\ work.todo # <<>>
        /\ work'.name = work.name /\ work'.verdict = work.verdict /\ live'.kind = live.kind
        /\ live.kind \in Kinds /\ session' = session /\ slice' = slice /\ saved' = saved
        /\ work'.todo = Tail(work.todo) \/ work'.todo = <<>>
        /\ live.kind = "owned" /\ ~work.failed /\ work'.todo # <<>> => ~work'.failed
    BY <1>6, RemovalGoes
  <2>2. \A step : Has(work'.todo, step) =>
            Has(work.todo, step) /\ work'.todo = Tail(work.todo) /\ work'.todo # <<>>
    BY <1>2, <2>1, TailKeeps, EmptyIs
  <2>3. DeviceKept'
    BY <2>1, <2>2 DEF Listed, DeviceKept, Todo
  <2>4. ChainFirst'
    <3> SUFFICES ASSUME Has(work'.todo, <<"chain">>)
                 PROVE  live.kind = "owned" /\ ~work'.failed
      BY <2>1 DEF ChainFirst, Todo
    <3>1. Has(work.todo, <<"chain">>) /\ Has(Tail(work.todo), <<"chain">>) /\ work'.todo # <<>>
      BY <2>2
    <3>2. ~work.failed /\ live.kind # "legacy"
      BY <2>1, <3>1 DEF Listed, ChainFirst, Todo
    <3> QED
      BY <2>1, <3>1, <3>2 DEF Kinds
  <2>5. BlockMeant'
    BY <2>1 DEF Listed, BlockMeant
  <2> QED
    BY <2>3, <2>4, <2>5
<1>8. DeviceKept' /\ ChainFirst' /\ BlockMeant'
  BY <1>6 DEF DeviceKept, ChainFirst, BlockMeant
<1>9. SwitchListed'
  BY <1>1, SwitchKeeps DEF Listed
<1> QED
  BY <1>3, <1>4, <1>5, <1>8, <1>9 DEF Listed

\* A legacy interface loses its chain first, and its device only when it is deleted.
LEMMA LegacyCleanup ==
    ASSUME live.kind = "legacy", NEW deletes \in BOOLEAN
    PROVE  LET list == CleanupOf(deletes)
           IN  /\ Head(list) = <<"chain">> /\ ~Has(Tail(list), <<"chain">>)
               /\ Before(list, <<"reap">>, <<"delete", "device">>)
               /\ ~deletes => ~Has(list, <<"delete", "device">>)
<1> DEFINE legacy == << <<"chain">>, <<"reap">>, <<"delete", "capture">>, <<"delete", "bypass">>,
                        <<"delete", "rule">>, <<"delete", "private">> >>
           rest == IF deletes THEN << <<"delete", "device">> >> ELSE <<>>
           list == CleanupOf(deletes)
           chain0 == <<"chain">>
           reap == <<"reap">>
           device == <<"delete", "device">>
<1>1. list = legacy \o rest
  BY DEF CleanupOf
<1>2. legacy \in Seq(Steps) /\ rest \in Seq(Steps)
  <2>1. \A d \in Deletions : d \in Cleans
    BY CleansAre
  <2>2. legacy \in Seq(Cleans)
    BY <2>1, CleansAre
  <2>3. <<"delete", "device">> \in Steps
    BY CleansAre, StepsAre
  <2>4. rest \in Seq(Steps)
    BY <2>3, EmptyIs
  <2> QED
    BY <2>2, <2>4, CleansAre
<1>3. /\ legacy # <<>> /\ Head(legacy) = chain0 /\ ~Has(Tail(legacy), chain0)
      /\ Has(legacy, reap) /\ ~Has(legacy, device)
  <2>1. legacy # <<>> /\ Head(legacy) = chain0
    OBVIOUS
  <2>2. Tail(legacy) = << <<"reap">>, <<"delete", "capture">>, <<"delete", "bypass">>,
                          <<"delete", "rule">>, <<"delete", "private">> >>
    OBVIOUS
  <2>3. ~Has(Tail(legacy), chain0)
    BY <2>2 DEF Has
  <2>4. Has(legacy, reap) /\ ~Has(legacy, device)
    BY DEF Has
  <2> QED
    BY <2>1, <2>3, <2>4
<1>4. ~Has(rest, chain0) /\ (~deletes => ~Has(rest, device))
  BY DEF Has
<1> HIDE DEF legacy, rest, list, chain0, reap, device
<1>5. Head(list) = chain0
  BY <1>1, <1>2, <1>3, HeadOfBoth
<1>6. ~Has(Tail(list), chain0)
  <2>1. Tail(list) = Tail(legacy) \o rest
    BY <1>1, <1>2, <1>3
  <2> DEFINE front == Tail(legacy)
  <2>2. front \in Seq(Steps)
    BY <1>2, <1>3
  <2>3. ~Has(front, chain0)
    BY <1>3
  <2> HIDE DEF front
  <2>4. ~Has(front \o rest, chain0)
    BY <1>2, <1>4, <2>2, <2>3, Joins
  <2> QED
    BY <2>1, <2>4 DEF front
<1>7. Before(list, reap, device)
  <2>1. Before(legacy, reap, device)
    BY <1>3 DEF Before, Has
  <2> QED
    BY <1>1, <1>2, <1>3, <2>1, Joins
<1>8. ~deletes => ~Has(list, device)
  BY <1>1, <1>2, <1>3, <1>4, Joins
<1> QED
  BY <1>5, <1>6, <1>7, <1>8 DEF list, chain0, reap, device

\* A stop begins with the whole list.
LEMMA StopListed == Control /\ Control' /\ Listed /\ Stop => Listed'
<1> SUFFICES ASSUME Control, Control', Listed, Stop
             PROVE  Listed'
  OBVIOUS
<1>1. /\ session' = session /\ slice' = slice /\ live'.kind = live.kind /\ live'.up = live.up
      /\ work.todo = << <<"stop">> >>
      /\ saved' = saved \/ saved' = Journal(live')
      /\ \/ work'.todo = <<>> /\ Stage(work'.then) \in {"end", "launch", "released", "removed", "exit"}
         \/ /\ live.kind # "none" /\ work'.todo = CleanupOf(work.name = "delete")
            /\ Stage(work'.then) \in {"deleted", "stopped"}
            /\ work.name = "switch" \/ work'.verdict = Verdict
  BY StopStep
<1>2. saved \in States /\ live' \in Lives /\ work \in TypedWork /\ live.kind \in Kinds \cup {"none"}
  BY DEF Control, Typed, Lives
<1>3. saved'.bound = saved.bound
  BY <1>1, <1>2, JournalIs
<1>4. work.todo # <<>> /\ Stage(work.then) \notin Firsts /\ Stage(work.then) # "stopped"
  <2>1. work.todo # <<>> /\ At("stop")
    BY <1>1 DEF Stop
  <2> QED
    BY <2>1, AtStep DEF Firsts
<1> DEFINE deletes == work.name = "delete"
           list == CleanupOf(deletes)
<1>5. deletes \in BOOLEAN
  OBVIOUS
<1>6. /\ Reporting' => /\ work'.name = work.name /\ work'.todo = list
                       /\ work.name # "delete" => work'.then = Stopping(work.then)
                       /\ ~work'.failed /\ live.kind # "none"
      /\ live.kind = "legacy" => Reporting'
      /\ ~Reporting' => Going
  BY StopBegins
<1>7. OwnedListed'
  BY <1>1 DEF Listed, OwnedListed
<1>8. InstallListed'
  <2>1. Only(list, Cleans)
    <3> HIDE DEF deletes
    <3> QED
      BY <1>5, CleanupIs
  <2>2. list # << <<"install">> >>
    <3> HIDE DEF list
    <3> QED
      BY <2>1, OtherList
  <2>3. <<>> # << <<"install">> >>
    OBVIOUS
  <2>4. work'.todo \in {<<>>, list}
    BY <1>1
  <2> QED
    BY <2>2, <2>3, <2>4 DEF InstallListed
<1>9. UnchainListed'
  BY <1>1 DEF UnchainListed, Recovery
<1>10. live.kind = "legacy" =>
          /\ Head(list) = <<"chain">> /\ ~Has(Tail(list), <<"chain">>)
          /\ Before(list, <<"reap">>, <<"delete", "device">>)
          /\ ~deletes => ~Has(list, <<"delete", "device">>)
  <2> HIDE DEF deletes
  <2> QED
    BY <1>5, LegacyCleanup
<1>11. DeviceKept'
  BY <1>1, <1>6, <1>10 DEF DeviceKept, Todo
<1>12. ChainFirst'
  <2> HIDE DEF list
  <2> QED
    BY <1>1, <1>6, <1>10 DEF ChainFirst, Todo
<1>13. SwitchListed'
  <2>1. CASE ~Reporting'
    <3>1. SwitchListed
      BY DEF Listed
    <3> QED
      BY <1>4, <1>6, <2>1, <3>1, SwitchKeeps
  <2>2. CASE Reporting'
    <3> SUFFICES ASSUME work'.name = "switch"
                 PROVE  work'.then = Stopping(Planning)
      <4>1. Stopping(Planning) # Stopping(<<>>)
        <5>1. Planning # <<>>
          BY DEF Planning
        <5> QED
          BY <5>1, SwitchStages
      <4> QED
        BY <4>1 DEF SwitchListed
    <3>1. work.name = "switch" /\ work'.then = Stopping(work.then)
      BY <1>6, <2>2
    <3>2. work.then = Planning
      BY <1>4, <3>1, SwitchStages DEF Listed, SwitchListed
    <3> QED
      BY <3>1, <3>2
  <2> QED
    BY <2>1, <2>2
<1>14. BlockMeant'
  <2> SUFFICES ASSUME Reporting', work'.verdict = "block", work.name # "switch"
               PROVE  session.holds
    BY <1>1, <1>6 DEF BlockMeant
  <2>1. work'.verdict = Verdict
    BY <1>1 DEF Reporting
  <2> QED
    BY <2>1 DEF Verdict
<1> QED
  BY <1>7, <1>8, <1>9, <1>11, <1>12, <1>13, <1>14 DEF Listed

\* The steps that end or begin an operation are none of a switch.
LEMMA SwitchLeft ==
    ASSUME Control, SwitchListed,
           Up \/ Rollback \/ Rejected \/ Restore \/ StartInterface \/ RunScope \/ RecoverChains
    PROVE  work.name # "switch" /\ work'.name # "switch"
<1>1. work \in TypedWork
  BY DEF Control, Typed
<1>2. CASE StartInterface
  <2> DEFINE start == "start"
             none == <<>>
             restore == << <<"restore">> >>
             rejecting == << <<"rejected">> >>
             list == IF live.kind = "owned" THEN OwnedStart ELSE LegacyStart
             rolling == << <<"rollback">>, <<"rejected">> >>
  <2>1. work' \in {Begin(start, restore, rejecting), Begin(start, list, rolling),
                   Failed(Begin(start, none, rejecting))}
    BY <1>2 DEF StartInterface, Failed
  <2>2. start \notin {"switch"}
    OBVIOUS
  <2> HIDE DEF start, none, restore, rejecting, list, rolling
  <2>3. work'.name \in {start, "idle"}
    BY <2>1, BegunName
  <2>4. work.name = "idle"
    BY <1>2, IdleIs DEF StartInterface, NoWork
  <2> QED
    BY <2>2, <2>3, <2>4
<1>3. CASE RunScope
  <2> DEFINE run == "run"
             install == << <<"install">> >>
             none == <<>>
  <2>1. Idle /\ (work' = work \/ work' = Begin(run, install, none))
    BY <1>3 DEF RunScope
  <2>2. run # "switch" /\ (Idle => work.name = "idle")
    BY IdleIs DEF NoWork
  <2> HIDE DEF run, install, none
  <2>3. work'.name \in {run, "idle"}
    BY <2>1, <2>2, BegunName
  <2> QED
    BY <2>1, <2>2, <2>3
<1>4. CASE Up
  <2> DEFINE none == <<>>
             rejecting == << <<"rejected">> >>
             start == "start"
  <2>1. work' = Begin(start, none, none) \/ work' = Failed(Begin(start, none, rejecting))
    BY <1>4 DEF Up, Failed
  <2>2. start \notin {"switch"}
    OBVIOUS
  <2> HIDE DEF none, rejecting, start
  <2>3. work'.name \in {start, "idle"}
    BY <2>1, BegunName
  <2>4. work.name # "switch"
    <3>1. Stage(work.then) = "rollback"
      BY <1>4, AtStep, Ends DEF Up
    <3> QED
      BY <3>1, SwitchStages DEF SwitchListed
  <2> QED
    BY <2>2, <2>3, <2>4
<1>5. CASE Rollback \/ Rejected
  <2>1. work.name # "switch" /\ (work.todo # <<>> \/ work.then # <<>>)
    <3>1. Stage(work.then) \in {"rollback", "rejected"} /\ work.then # <<>>
      BY <1>5, AtStep DEF Rollback, Rejected
    <3> QED
      BY <3>1, SwitchStages DEF SwitchListed
  <2> DEFINE none == <<>>
             stop == << <<"stop">> >>
             undone == << <<"undone">> >>
             released == << <<"released">> >>
             release == "release"
             no == FALSE
             one == Expanded(none, undone, release, no)
             two == Expanded(CleanupOf(live.fresh), undone, Verdict, live.fresh)
             three == Expanded(stop, released, release, no)
  <2>2. work' \in {one, two, Failed(one), three, Advanced}
    BY <1>5 DEF Rollback, Rejected, Failed
  <2> HIDE DEF none, stop, undone, released, release, no
  <2>3. /\ one.name \in {work.name, "idle"} /\ two.name \in {work.name, "idle"}
        /\ Failed(one).name = one.name /\ three.name \in {work.name, "idle"}
    BY <1>1, ExpandedName
  <2> HIDE DEF one, two, three
  <2>4. Advanced.name \in {work.name, "idle"}
    BY <2>1, Moves DEF NoWork
  <2> QED
    BY <2>1, <2>2, <2>3, <2>4
<1>6. CASE Restore
  <2> DEFINE rejournal == << <<"rejournal">> >>
             next == [work EXCEPT !.todo = rejournal]
  <2>1. work' \in {Advanced, Broken, next} /\ At("restore")
    BY <1>6 DEF Restore
  <2>2. /\ work.todo = << <<"restore">> >> /\ work.todo # <<>>
        /\ Stage(work.then) \in {"end", "rejected", "launch", "released", "removed", "forget", "plan"}
    BY <2>1, AtStep, Words
  <2>3. work.name # "switch"
    <3>1. Stage(work.then) # "plan"
      <4>1. << <<"restore">> >> \notin {<<>>, << <<"stop">> >>}
        OBVIOUS
      <4> QED
        BY <2>2, <4>1 DEF Control, Shaped
    <3> QED
      BY <2>2, <3>1, SwitchStages DEF SwitchListed
  <2> HIDE DEF rejournal
  <2>4. next.name = work.name
    BY <1>1 DEF TypedWork
  <2> HIDE DEF next
  <2>5. /\ Advanced.name \in {work.name, "idle"} /\ Broken.name \in {work.name, "idle"}
    BY <2>2, Moves DEF NoWork
  <2> QED
    BY <2>1, <2>3, <2>4, <2>5
<1>7. CASE RecoverChains
  <2>1. Recovery /\ work' = [work EXCEPT !.todo = RecoveryOf(saved')]
    BY <1>7, RecoveryStep
  <2>2. work.name = "recover"
    BY <2>1 DEF Recovery, Control, Shaped
  <2> DEFINE list == RecoveryOf(saved')
  <2> HIDE DEF list
  <2>3. [work EXCEPT !.todo = list].name = work.name
    BY <1>1 DEF TypedWork
  <2> QED
    BY <2>1, <2>2, <2>3 DEF list
<1> QED
  BY <1>2, <1>3, <1>4, <1>5, <1>6, <1>7

\* Of the requests only a plan for another interface is a switch.
LEMMA AskSwitches ==
    ASSUME Control,
           \/ Supervise \/ Confirmed \/ ConfirmationFailed \/ CoreExits \/ ServerGone \/ Down
           \/ DeleteInterface \/ Shutdown \/ Connect
           \/ \E kind \in Kinds \cup {"none"}, holds \in BOOLEAN : Plan(kind, holds)
    PROVE  \/ work'.name # "switch" /\ ~(\E kind \in Kinds \cup {"none"}, holds \in BOOLEAN : Plan(kind, holds))
           \/ work' = work /\ Idle /\ work.name = "idle" /\ live.kind = "none"
           \/ /\ work'.name = "switch" /\ work'.todo = << <<"stop">> >> /\ work'.then = Planning
              /\ Idle /\ live' = live /\ live.kind = "legacy"
           \/ /\ work'.name = "disable" /\ work'.todo = << <<"stop">> >> /\ work'.then = Forgetting
              /\ Idle /\ live' = live /\ live.kind = "legacy"
<1> DEFINE none == <<>>
           stop == << <<"stop">> >>
           restore == << <<"restore">> >>
           rejecting == << <<"rejected">> >>
           releasing == << <<"released">> >>
           removing == << <<"removed">> >>
           last == << <<"removed">>, <<"exit">> >>
           exiting == << <<"exit">> >>
           forgetting == << <<"forget">> >>
           planning == << <<"plan">> >>
           launching == << <<"launch">> >>
           plans == \E kind \in Kinds \cup {"none"}, holds \in BOOLEAN : Plan(kind, holds)
<1>1. live.kind \in Kinds \cup {"none"}
  BY DEF Control, Typed, Lives
<1>2. CASE plans
  <2>1. PICK kind \in Kinds \cup {"none"}, holds \in BOOLEAN : Plan(kind, holds)
    BY <1>2
  <2>2. Idle /\ live.kind # "owned"
    BY <2>1 DEF Plan
  <2>3. work.name = "idle"
    BY <2>2, IdleIs DEF NoWork
  <2>4. CASE live.kind = "none"
    <3>1. work' = work
      BY <2>1, <2>4 DEF Plan
    <3> QED
      BY <2>2, <2>3, <2>4, <3>1
  <2>5. CASE live.kind # "none"
    <3>1. live' = live /\ live.kind = "legacy"
      BY <1>1, <2>1, <2>2, <2>5 DEF Plan, Kinds
    <3> DEFINE switch == "switch"
               disable == "disable"
    <3>2. work' = Begin(disable, stop, forgetting) \/ work' = Begin(switch, stop, planning)
      BY <2>1, <2>5 DEF Plan
    <3>3. stop # <<>>
      OBVIOUS
    <3> HIDE DEF stop, forgetting, planning, switch, disable
    <3>4. ASSUME NEW name, NEW then
          PROVE  LET w == Begin(name, stop, then)
                 IN  w.name = name /\ w.todo = stop /\ w.then = then
      <4> DEFINE begun == [NoWork EXCEPT !.name = name, !.todo = stop, !.then = then]
      <4>1. begun.name = name /\ begun.todo = stop /\ begun.then = then
        BY DEF NoWork
      <4> HIDE DEF begun
      <4>2. Settled(begun) = begun
        BY <3>3, <4>1 DEF Settled, Running
      <4> QED
        BY <4>1, <4>2 DEF Begin, begun
    <3>5. \/ work'.name = switch /\ work'.todo = stop /\ work'.then = planning
          \/ work'.name = disable /\ work'.todo = stop /\ work'.then = forgetting
      BY <3>2, <3>4
    <3> QED
      BY <2>2, <3>1, <3>5 DEF switch, disable, stop, planning, forgetting, Planning, Forgetting
  <2> QED
    BY <2>4, <2>5
<1>3. ASSUME ~plans
      PROVE  work'.name # "switch"
  <2>1. ASSUME NEW name \in {"connect", "start", "fail", "supervise", "release", "stop", "down", "delete"},
               \E todo, then : work' \in {Begin(name, todo, then), Failed(Begin(name, todo, then))}
        PROVE  work'.name # "switch"
    <3>1. name # "switch"
      OBVIOUS
    <3> HIDE DEF none, stop, restore, rejecting, releasing, removing, last, exiting, forgetting,
                 planning, launching
    <3> QED
      BY <2>1, <3>1, BegunName
  <2>2. CASE \/ Supervise \/ Down \/ DeleteInterface \/ ConfirmationFailed
    <3>1. \/ work' = Begin("supervise", restore, none)
          \/ work' = Begin("down", stop, removing)
          \/ work' = Begin("delete", stop, none)
          \/ work' = Failed(Begin("fail", none, rejecting))
      BY <2>2 DEF Supervise, Down, DeleteInterface, ConfirmationFailed, Failed
    <3> HIDE DEF none, stop, restore, rejecting, removing
    <3> QED
      BY <2>1, <3>1
  <2>3. CASE Shutdown
    <3>1. \/ work' = Begin("down", stop, last)
          \/ work' = Begin("down", none, exiting)
      BY <2>3 DEF Shutdown
    <3> HIDE DEF none, stop, last, exiting
    <3> QED
      BY <2>1, <3>1
  <2>4. CASE Confirmed \/ CoreExits \/ ServerGone
    <3>1. \/ work' = work /\ Idle
          \/ work' = Begin("release", stop, none)
          \/ work' = Begin("stop", stop, releasing)
      BY <2>4 DEF Confirmed, CoreExits, ServerGone
    <3>2. Idle => work.name = "idle"
      BY IdleIs DEF NoWork
    <3> HIDE DEF none, stop, releasing
    <3> QED
      BY <2>1, <3>1, <3>2
  <2>5. CASE Connect
    <3> DEFINE list == IF live.kind = "owned" /\ live.up THEN restore
                       ELSE IF ~session.holding /\ live.kind = "legacy" /\ (live.up \/ live.helper)
                       THEN stop ELSE none
               connect == "connect"
    <3>1. work' = Begin(connect, list, launching)
      BY <2>5 DEF Connect
    <3> HIDE DEF list, launching
    <3> QED
      BY <2>1, <3>1
  <2> QED
    BY <1>3, <2>2, <2>3, <2>4, <2>5
<1> QED
  BY <1>2, <1>3

\* A step that leaves the list of a removal behind, or begins another operation.
LEMMA ListedEnds ==
    ASSUME OwnedListed', InstallListed', UnchainListed', ~Reporting', SwitchListed'
    PROVE  Listed'
  BY DEF Listed, DeviceKept, ChainFirst, BlockMeant

\* Recovery removes the chain of an interface only when no cgroup is bound.
LEMMA UnchainMeant ==
    ASSUME NEW state \in States, state.bound
    PROVE  ~Has(RecoveryOf(state), <<"unchain">>)
<1> DEFINE record == state.interface
           chained == record.nft /\ ~state.bound
           unchain == IF chained THEN << <<"unchain">> >> ELSE <<>>
           device == << <<"delete", "device">> >>
           last == IF record.created THEN device ELSE <<>>
           front == << <<"reintend">>, <<"recognise">>, <<"kill">> >>
           routes == << <<"delete", "capture">>, <<"delete", "private">>, <<"delete", "bypass">>,
                        <<"delete", "rule">> >>
           names == << <<"kill">>, <<"delete", "capture">>, <<"delete", "bypass">>,
                       <<"delete", "rule">>, <<"delete", "private">> >>
           owned == ((front \o unchain) \o routes) \o device
           legacy == (unchain \o names) \o last
           U == <<"unchain">>
<1>1. RecoveryOf(state) = IF record.kind = "owned" THEN owned
                          ELSE IF record.kind = "legacy" THEN legacy ELSE <<>>
  BY DEF RecoveryOf
<1>2. unchain = <<>>
  OBVIOUS
<1>3. /\ <<"delete", "capture">> \in Steps /\ <<"delete", "bypass">> \in Steps
      /\ <<"delete", "rule">> \in Steps /\ <<"delete", "private">> \in Steps
      /\ <<"delete", "device">> \in Steps /\ <<"reintend">> \in Steps
      /\ <<"recognise">> \in Steps /\ <<"kill">> \in Steps
  BY CleansAre, StepsAre
<1>4. /\ device \in Seq(Steps) /\ front \in Seq(Steps) /\ routes \in Seq(Steps)
      /\ names \in Seq(Steps) /\ <<>> \in Seq(Steps)
  <2> HIDE DEF Steps
  <2> QED
    BY <1>3
<1>5. last \in Seq(Steps)
  BY <1>4
<1>6. ~Has(front, U) /\ ~Has(routes, U) /\ ~Has(names, U) /\ ~Has(device, U) /\ ~Has(last, U) /\ ~Has(<<>>, U)
  BY DEF Has
<1> HIDE DEF unchain, device, last, front, routes, names, U, record, chained
<1>7. ~Has(owned, U)
  <2> DEFINE s == front \o unchain
             t == s \o routes
  <2>1. s \in Seq(Steps) /\ ~Has(s, U)
    BY <1>2, <1>4, <1>6, Joins
  <2> HIDE DEF s
  <2>2. t \in Seq(Steps) /\ ~Has(t, U)
    BY <1>4, <1>6, <2>1, Joins
  <2> HIDE DEF t
  <2>3. ~Has(t \o device, U)
    BY <1>4, <1>6, <2>2, Joins
  <2> QED
    BY <2>3 DEF t, s
<1>8. ~Has(legacy, U)
  <2> DEFINE s == unchain \o names
  <2>1. s \in Seq(Steps) /\ ~Has(s, U)
    BY <1>2, <1>4, <1>6, Joins
  <2> HIDE DEF s
  <2>2. ~Has(s \o last, U)
    BY <1>5, <1>6, <2>1, Joins
  <2> QED
    BY <2>2 DEF s
<1> HIDE DEF owned, legacy
<1>9. ~Has(RecoveryOf(state), U)
  BY <1>1, <1>6, <1>7, <1>8
<1> QED
  BY <1>9 DEF U

\* The steps in which an installation ends or begins.
LEMMA EndListed ==
    Control /\ Control' /\ Listed /\ (Up \/ Rollback \/ Rejected \/ Restore \/ StartInterface)
       => Listed'
<1> SUFFICES ASSUME Control, Control', Listed,
                    Up \/ Rollback \/ Rejected \/ Restore \/ StartInterface
             PROVE  Listed'
  OBVIOUS
<1>1. /\ live'.kind = live.kind /\ session'.holds = session.holds
      /\ Stage(work'.then) \in {"end", "rejected", "undone", "released", "launch", "rollback"}
         \/ (StartInterface /\ Requested)
  <2>1. CASE Up \/ Rollback \/ Rejected
    BY <2>1, EndStep
  <2>2. CASE Restore
    BY <2>2, LoneStep
  <2>3. CASE StartInterface
    BY <2>3, StartStep, Ends
  <2> QED
    BY <2>1, <2>2, <2>3
<1>2. ~Reporting' /\ ~Recovery'
  BY <1>1, RequestedStages DEF Reporting, Recovery
<1>3. OwnedListed'
  BY <1>1 DEF Listed, OwnedListed
<1>4. UnchainListed'
  BY <1>2 DEF UnchainListed
<1>5. SwitchListed'
  <2>1. SwitchListed
    BY DEF Listed
  <2>2. work'.name # "switch"
    BY <2>1, SwitchLeft
  <2> QED
    BY <2>2 DEF SwitchListed
<1>6. work'.todo # << <<"install">> >>
  <2>0. <<>> # << <<"install">> >>
    OBVIOUS
  <2>1. CASE Up \/ Rejected
    BY <2>1, EndList
  <2>2. CASE Rollback
    <3>1. work'.todo = <<>> \/ \E deletes \in BOOLEAN : work'.todo = CleanupOf(deletes)
      BY <2>2, RollbackList
    <3>2. \A deletes \in BOOLEAN : Only(CleanupOf(deletes), Cleans)
      BY CleanupIs
    <3> QED
      BY <2>0, <3>1, <3>2, OtherList
  <2>3. CASE Restore
    <3> DEFINE rejournal == << <<"rejournal">> >>
               next == [work EXCEPT !.todo = rejournal]
    <3>1. work' \in {Advanced, Broken, next} /\ At("restore") /\ work \in TypedWork
      BY <2>3 DEF Restore, Control, Typed
    <3>2. rejournal # << <<"install">> >>
      OBVIOUS
    <3>3. work.todo # <<>> /\ Tail(work.todo) = <<>>
      BY <3>1, AtStep, Words
    <3> HIDE DEF rejournal
    <3>4. next.todo = rejournal
      BY <3>1 DEF TypedWork
    <3> HIDE DEF next
    <3> QED
      BY <2>0, <3>1, <3>2, <3>3, <3>4, Moves
  <2>4. CASE StartInterface
    <3> DEFINE start == "start"
               none == <<>>
               restore == << <<"restore">> >>
               rejecting == << <<"rejected">> >>
               list == IF live.kind = "owned" THEN OwnedStart ELSE LegacyStart
               rolling == << <<"rollback">>, <<"rejected">> >>
    <3>1. work' \in {Begin(start, restore, rejecting), Begin(start, list, rolling),
                     Failed(Begin(start, none, rejecting))}
      BY <2>4 DEF StartInterface, Failed
    <3>2. restore # << <<"install">> >> /\ none # << <<"install">> >>
      OBVIOUS
    <3>3. list # << <<"install">> >>
      BY StartIs, OtherList
    <3> HIDE DEF start, none, restore, rejecting, list, rolling
    <3> QED
      BY <3>1, <3>2, <3>3, BegunList
  <2> QED
    BY <2>1, <2>2, <2>3, <2>4
<1>7. InstallListed'
  BY <1>6 DEF InstallListed
<1> QED
  BY <1>2, <1>3, <1>4, <1>5, <1>7, ListedEnds

\* A request, and the plan of an interface of failover, which holds.
LEMMA AskListed ==
    Control /\ Control' /\ Listed
    /\ (\/ Supervise \/ Confirmed \/ ConfirmationFailed \/ CoreExits \/ ServerGone \/ Down
        \/ DeleteInterface \/ Shutdown \/ Connect
        \/ \E kind \in Kinds \cup {"none"}, holds \in BOOLEAN : Plan(kind, holds))
       => Listed'
<1> DEFINE asks == \/ Supervise \/ Confirmed \/ ConfirmationFailed \/ CoreExits \/ ServerGone \/ Down
                   \/ DeleteInterface \/ Shutdown \/ Connect
           plans == \E kind \in Kinds \cup {"none"}, holds \in BOOLEAN : Plan(kind, holds)
<1> SUFFICES ASSUME Control, Control', Listed, asks \/ plans
             PROVE  Listed'
  OBVIOUS
<1>1. Idle /\ Requested
  BY AskStep, PlanStep
<1>2. ~Reporting' /\ ~Recovery'
  BY <1>1, RequestedStages DEF Reporting, Recovery
<1>3. OwnedListed'
  <2>1. CASE asks
    BY <2>1, AskStep DEF Listed, OwnedListed
  <2>2. CASE plans
    <3>1. PICK kind \in Kinds \cup {"none"}, holds \in BOOLEAN : Plan(kind, holds)
      BY <2>2
    <3>2. /\ live.kind # "owned" /\ (kind = "owned" => holds)
          /\ session' = [session EXCEPT !.here = TRUE, !.holds = holds]
          /\ live' = live \/ live' = NoInterface \/ (kind # "none" /\ live' = PlannedInterface(kind))
      BY <3>1 DEF Plan
    <3>3. session'.holds = holds
      BY <3>2 DEF Control, Typed, Sessions
    <3>4. NoInterface.kind = "none" /\ (kind # "none" => PlannedInterface(kind).kind = kind)
      <4>1. kind # "none" => kind \in Kinds
        OBVIOUS
      <4> QED
        BY <4>1, NothingIs, PlannedIs DEF Control, Typed
    <3> QED
      BY <3>2, <3>3, <3>4 DEF OwnedListed
  <2> QED
    BY <2>1, <2>2
<1>4. UnchainListed' /\ InstallListed'
  BY <1>2, AskList DEF UnchainListed, InstallListed
<1>5. SwitchListed'
  <2>1. \/ work'.name # "switch" \/ (work' = work /\ Idle /\ work.name = "idle")
        \/ work'.name = "switch" /\ work'.then = Planning
    BY AskSwitches
  <2>2. Planning # Stopping(<<>>)
    BY SwitchStages
  <2> QED
    BY <2>1, <2>2 DEF SwitchListed
<1> QED
  BY <1>2, <1>3, <1>4, <1>5, ListedEnds

\* The scope of a command, what recovery finds of it, and what happens to the daemon.
LEMMA WorldListed ==
    Control /\ Control' /\ Listed
    /\ (RunScope \/ RecoverChains \/ Exit \/ Crash \/ HelperDies \/ SliceEnds \/ Boot) => Listed'
<1> SUFFICES ASSUME Control, Control', Listed,
                    RunScope \/ RecoverChains \/ Exit \/ Crash \/ HelperDies \/ SliceEnds \/ Boot
             PROVE  Listed'
  OBVIOUS
<1>1. work \in TypedWork /\ saved \in States /\ SwitchListed
  BY DEF Control, Typed, Listed
<1>2. CASE RunScope
  <2>1. Idle /\ Requested /\ session' = session /\ live'.up /\ live'.kind = live.kind
    BY <1>2, ScopeStep
  <2>2. ~Reporting' /\ ~Recovery'
    BY <2>1, RequestedStages DEF Reporting, Recovery
  <2>3. OwnedListed' /\ UnchainListed' /\ InstallListed'
    BY <2>1, <2>2 DEF Listed, OwnedListed, UnchainListed, InstallListed
  <2>4. SwitchListed'
    BY <1>1, <1>2, SwitchLeft DEF SwitchListed
  <2> QED
    BY <2>2, <2>3, <2>4, ListedEnds
<1>3. CASE RecoverChains
  <2>1. /\ work.then = Recovering /\ live' = live /\ session' = session
        /\ work' = [work EXCEPT !.todo = RecoveryOf(saved')]
    BY <1>3, RecoveryStep
  <2>2. saved' \in States
    BY DEF Control, Typed
  <2>3. work'.todo = RecoveryOf(saved') /\ work'.then = Recovering
    <3> DEFINE list == RecoveryOf(saved')
    <3> HIDE DEF list
    <3>1. [work EXCEPT !.todo = list].todo = list /\ [work EXCEPT !.todo = list].then = work.then
      BY <1>1 DEF TypedWork
    <3> QED
      BY <2>1, <3>1 DEF list
  <2>4. ~Reporting'
    BY <2>3, Ends DEF Reporting
  <2>5. UnchainListed'
    <3>1. saved'.bound => ~Has(RecoveryOf(saved'), <<"unchain">>)
      BY <2>2, UnchainMeant
    <3> QED
      BY <2>3, <3>1 DEF UnchainListed, Todo
  <2>6. OwnedListed'
    BY <2>1 DEF Listed, OwnedListed
  <2>7. InstallListed'
    <3>1. Only(RecoveryOf(saved'), Recoveries)
      BY <2>2, RecoveryIs
    <3>2. RecoveryOf(saved') # << <<"install">> >>
      BY <3>1, OtherList
    <3> QED
      BY <2>3, <3>2 DEF InstallListed
  <2>8. SwitchListed'
    BY <1>1, <1>3, SwitchLeft DEF SwitchListed
  <2> QED
    BY <2>4, <2>5, <2>6, <2>7, <2>8, ListedEnds
<1>4. CASE SliceEnds
  <2>1. UNCHANGED <<kernel, saved, session, live, work, daemon>>
    BY <1>4 DEF SliceEnds
  <2> QED
    BY <2>1 DEF Listed, OwnedListed, InstallListed, UnchainListed, DeviceKept, ChainFirst,
                SwitchListed, BlockMeant, Reporting, Recovery, Todo
<1> DEFINE dies == /\ UNCHANGED <<saved, session, work, daemon, slice>> /\ work = NoWork
                   /\ live'.kind = live.kind /\ live'.up = live.up
           ends == work' = NoWork /\ live' = NoInterface
           boots == /\ live' = live /\ live = NoInterface /\ work'.todo = << <<"chains">> >>
                    /\ work'.then = Recovering /\ Boot
<1>5. CASE dies
  <2>1. dies
    BY <1>5
  <2>2. work.then = <<>>
    BY <2>1 DEF NoWork
  <2>3. ~Reporting' /\ ~Recovery'
    BY <2>1, <2>2, Ends DEF Reporting, Recovery
  <2>4. OwnedListed' /\ UnchainListed' /\ InstallListed' /\ SwitchListed'
    BY <2>1, <2>3 DEF Listed, OwnedListed, UnchainListed, InstallListed, SwitchListed
  <2> QED
    BY <2>3, <2>4, ListedEnds
<1>6. CASE ends
  <2>1. ends
    BY <1>6
  <2>2. work'.then = <<>> /\ work'.todo = <<>> /\ work'.name = "idle" /\ live'.kind = "none"
    BY <2>1, NothingIs DEF NoWork
  <2>3. ~Reporting' /\ ~Recovery'
    BY <2>2, Ends DEF Reporting, Recovery
  <2>4. <<>> # << <<"install">> >>
    OBVIOUS
  <2>5. OwnedListed' /\ UnchainListed' /\ InstallListed' /\ SwitchListed'
    BY <2>2, <2>3, <2>4 DEF OwnedListed, UnchainListed, InstallListed, SwitchListed
  <2> QED
    BY <2>3, <2>5, ListedEnds
<1>7. CASE boots
  <2>1. boots
    BY <1>7
  <2>2. work'.name = "recover" /\ live'.kind = "none"
    BY <1>7, <2>1, NothingIs DEF Boot, NoWork
  <2>3. ~Reporting'
    BY <2>1, Ends DEF Reporting
  <2>4. << <<"chains">> >> # << <<"install">> >> /\ ~Has(<< <<"chains">> >>, <<"unchain">>)
    BY DEF Has
  <2>5. OwnedListed' /\ UnchainListed' /\ InstallListed' /\ SwitchListed'
    BY <2>1, <2>2, <2>4 DEF OwnedListed, UnchainListed, InstallListed, SwitchListed, Todo
  <2> QED
    BY <2>3, <2>5, ListedEnds
<1>8. Exit \/ Crash \/ HelperDies \/ SliceEnds \/ Boot => SliceEnds \/ dies \/ ends \/ boots
  BY WorldStep
<1> QED
  BY <1>2, <1>3, <1>4, <1>5, <1>6, <1>7, <1>8

\* All of it holds.
LEMMA ListedHolds == Spec => [](Control /\ Listed)
<1>1. Init => Listed
  <2> SUFFICES ASSUME Init PROVE Listed
    OBVIOUS
  <2>1. /\ live.kind = "none" /\ work.todo = <<>> /\ Stage(work.then) = "end" /\ work.name = "idle"
    BY Ends, NothingIs DEF Init, NoWork
  <2>2. <<>> # << <<"install">> >>
    OBVIOUS
  <2> QED
    BY <2>1, <2>2 DEF Listed, OwnedListed, InstallListed, UnchainListed, DeviceKept, ChainFirst,
                      SwitchListed, BlockMeant, Reporting, Recovery
<1>2. Control /\ Control' /\ Listed /\ [Next]_vars => Listed'
  <2> SUFFICES ASSUME Control, Control', Listed, [Next]_vars
               PROVE  Listed'
    OBVIOUS
  <2>1. CASE UNCHANGED vars
    BY <2>1 DEF vars, Listed, OwnedListed, InstallListed, UnchainListed, DeviceKept, ChainFirst,
                SwitchListed, BlockMeant, Reporting, Recovery, Todo
  <2>2. CASE Next
    BY <2>2, SteadyListed, StopListed, EndListed, AskListed, WorldListed DEF Next, Steady
  <2> QED
    BY <2>1, <2>2
<1>3. Spec => []Control
  BY ControlHolds
<1> QED
  BY <1>1, <1>2, <1>3, PTL DEF Spec

\* The daemon knows of the helper of a legacy interface that runs.
HelperKnown == <<"legacy", "helper">> \in kernel => live.helper

\* What a step does to a legacy interface that stays: unless something failed, the daemon
\* goes on knowing its helper, and a chain is remembered when it is written.
LEMMA LegacyKeeps ==
    ASSUME Control, Control', Next, ~Replan, faults' = faults,
           live.kind = "legacy", live'.kind = "legacy"
    PROVE  /\ HelperKnown => HelperKnown'
           /\ live'.up => live.up \/ Up
           /\ live'.chain = "mark" => live.chain = "mark" \/ Mark \/ Install
           /\ live'.chain = "block" => live.chain = "block" \/ (SetChain /\ work.verdict = "block")
<1>1. /\ live \in Lives /\ saved \in States /\ slice \in BOOLEAN /\ faults \in Nat
      /\ \A what : ~Fails(what)
  <2>1. live \in Lives /\ saved \in States /\ slice \in BOOLEAN /\ faults \in Nat
    BY InterfacesAssumption DEF Control, Typed
  <2> QED
    BY <2>1 DEF Fails
<1>2. NoInterface.kind = "none"
  BY NothingIs
<1> DEFINE H == <<"legacy", "helper">>
           same == /\ live'.helper = live.helper /\ live'.up = live.up /\ live'.chain = live.chain
                   /\ (H \in kernel' => H \in kernel)
           keeps == /\ HelperKnown => HelperKnown'
                    /\ live'.up => live.up \/ Up
                    /\ live'.chain = "mark" => live.chain = "mark" \/ Mark \/ Install
                    /\ live'.chain = "block" => live.chain = "block" \/ (SetChain /\ work.verdict = "block")
<1>3. same => keeps
  BY DEF HelperKnown
<1>4. CASE Create \/ Intend \/ WriteJournal
  <2>1. same
    BY <1>1, <1>4 DEF Create, Intend, WriteJournal, Lives
  <2> QED
    BY <2>1, <1>3
<1>5. CASE AddObject
  <2>1. Head(work.todo) \in Builds /\ work.todo # <<>> /\ At("add")
    BY <1>5, BuildStep DEF AddObject
  <2>2. Head(work.todo)[1] = "add"
    BY <2>1, AtStep
  <2>3. PICK part \in Routing : Head(work.todo) = <<"add", part>>
    <3>1. <<"intend">>[1] # "add" /\ <<"create">>[1] # "add" /\ <<"spawn">>[1] # "add"
          /\ <<"journal">>[1] # "add" /\ <<"mark">>[1] # "add" /\ <<"up">>[1] # "add"
      OBVIOUS
    <3> QED
      BY <2>1, <2>2, <3>1 DEF Builds, Additions
  <2>4. Head(work.todo)[2] # "helper"
    BY <2>3 DEF Routing
  <2>5. same
    BY <1>1, <1>5, <2>4 DEF AddObject
  <2> QED
    BY <2>5, <1>3
<1>6. CASE Spawn
  BY <1>1, <1>6 DEF Spawn, Lives, HelperKnown
<1>7. CASE Mark
  BY <1>1, <1>7 DEF Mark, Lives, HelperKnown
<1>8. CASE Up
  BY <1>1, <1>8 DEF Up, Lives, HelperKnown
<1>9. CASE Identify \/ SetChain
  BY <1>1, <1>9 DEF Identify, SetChain, Lives, HelperKnown
<1>10. CASE Reap
  BY <1>1, <1>10 DEF Reap, Lives, HelperKnown
<1>11. CASE DeleteObject
  <2>1. live' = live /\ kernel' \subseteq kernel
    BY <1>11 DEF DeleteObject, WithoutDevice
  <2> QED
    BY <1>3, <2>1
<1>12. CASE Stop
  <2>1. live' = live /\ kernel' = kernel
    BY <1>12 DEF Stop, Removal
  <2> QED
    BY <1>3, <2>1
<1>13. CASE Stopped \/ Deleted
  <2>1. same
    BY <1>1, <1>2, <1>13 DEF Stopped, Deleted, FinishDeletion, Lives
  <2> QED
    BY <1>3, <2>1
<1>14. CASE Rollback \/ RolledBack
  <2>1. same
    BY <1>1, <1>14 DEF Rollback, RolledBack, Lives
  <2> QED
    BY <1>3, <2>1
<1>15. CASE Rejected \/ Released \/ Launch
  <2>1. same
    BY <1>15 DEF Rejected, Released, Launch
  <2> QED
    BY <1>3, <2>1
<1>16. CASE Forget \/ Removed
  BY <1>2, <1>16 DEF Forget, Removed
<1>17. CASE IntendAgain \/ Recognise \/ Kill \/ Unchain \/ RecoverChains \/ Recovered
  <2>1. Recovery
    BY <1>17, RecoveryStep, LeaveStep
  <2> QED
    BY <2>1 DEF Recovery, Control, Shaped
<1>18. CASE Restore
  BY <1>1, <1>18 DEF Restore, Lives, HelperKnown
<1>19. CASE Rejournal
  <2>1. same
    BY <1>1, <1>19 DEF Rejournal, SaveFails
  <2> QED
    BY <1>3, <2>1
<1>20. CASE Install
  BY <1>1, <1>20 DEF Install, Lives, HelperKnown
<1>21. CASE StartInterface
  <2>1. same
    BY <1>21 DEF StartInterface
  <2> QED
    BY <1>3, <2>1
<1>22. CASE \/ Supervise \/ Confirmed \/ ConfirmationFailed \/ CoreExits \/ ServerGone \/ Down
            \/ DeleteInterface \/ Shutdown \/ Connect
  <2>1. live' = live /\ kernel' = kernel
    BY <1>22, AskStep
  <2> QED
    BY <1>3, <2>1
<1>23. CASE \E kind \in Kinds \cup {"none"}, holds \in BOOLEAN : Plan(kind, holds)
  <2>1. live' = live /\ kernel' = kernel
    BY <1>23, PlanStep
  <2> QED
    BY <1>3, <2>1
<1>24. CASE RunScope
  <2>1. same
    BY <1>1, <1>24 DEF RunScope, Lives
  <2> QED
    BY <1>3, <2>1
<1>25. CASE HelperDies
  BY <1>1, <1>25 DEF HelperDies, Lives, HelperKnown, Kinds
<1>26. CASE SliceEnds
  <2>1. same
    BY <1>26 DEF SliceEnds
  <2> QED
    BY <1>3, <2>1
<1>27. CASE Exit \/ Crash
  BY <1>2, <1>27 DEF Exit, Crash, Gone
<1>28. CASE Boot
  BY <1>28 DEF Boot, Control, Hosted, NoInterface
<1> QED
  BY <1>4, <1>5, <1>6, <1>7, <1>8, <1>9, <1>10, <1>11, <1>12, <1>13, <1>14, <1>15, <1>16, <1>17,
     <1>18, <1>19, <1>20, <1>21, <1>22, <1>23, <1>24, <1>25, <1>26, <1>27, <1>28 DEF Next

-----------------------------------------------------------------------------
\* What else is true of a legacy interface as long as nothing failed. Its start runs to its
\* end, and spawns the helper before the mark and the end; a mark or a block it remembers,
\* under which its helper may be looked for, has its helper known; a switch removes it as a
\* whole.
StartKnown ==
    live.kind = "legacy" /\ Starting =>
        /\ Todo(<<"up">>)
        /\ HelperKnown \/ (/\ Before(work.todo, <<"spawn">>, <<"mark">>)
                           /\ Before(work.todo, <<"spawn">>, <<"up">>))
StartStands == live.kind = "legacy" => Stage(work.then) # "undone"
UpKnown == live.kind = "legacy" /\ (live.up \/ live.chain = "mark") => HelperKnown
UndoneBlocks ==
    Stage(work.then) = "undone" /\ saved.bound /\ slice /\ work.todo # <<>> => work.verdict = "block"
SwitchStands == work.name = "switch" /\ Reporting /\ slice => ~work.failed
BlockKnown ==
    live.kind = "legacy" /\ live.chain = "block" /\ saved.bound /\ slice =>
        \/ session.holds \/ HelperKnown \/ work.name = "switch"
        \/ work.name = "disable"
           /\ (work.todo = << <<"stop">> >> \/ (Reporting /\ Todo(<<"chain">>)))
Helped ==
    faults = 0 => /\ StartKnown /\ StartStands /\ UpKnown /\ UndoneBlocks /\ SwitchStands
                  /\ BlockKnown

\* A step of a removal in a switch, and one that builds, succeed when nothing fails.
LEMMA NothingBreaks ==
    ASSUME Control, Control', faults' = faults, live.kind = "legacy"
    PROVE  /\ Create \/ Intend \/ WriteJournal \/ Spawn \/ AddObject \/ Mark => work' = Advanced
           /\ /\ Identify \/ SetChain \/ Reap \/ DeleteObject
              /\ work.verdict = "block" => slice
              /\ Head(work.todo) # <<"delete", "device">>
              => work' = Advanced
<1>1. faults \in Nat /\ live \in Lives
  BY InterfacesAssumption DEF Control, Typed
<1>2. \A what : ~Fails(what)
  BY <1>1 DEF Fails
<1>3. Create \/ Intend \/ WriteJournal \/ Spawn \/ AddObject \/ Mark => work' = Advanced
  BY <1>1, <1>2 DEF Create, Intend, WriteJournal, Spawn, AddObject, Mark, SaveFails
<1>4. ASSUME Identify \/ SetChain \/ Reap, work.verdict = "block" => slice
      PROVE  work' = Advanced
  BY <1>1, <1>2, <1>4 DEF Identify, SetChain, Reap
<1>5. ASSUME DeleteObject, Head(work.todo) # <<"delete", "device">>
      PROVE  work' = Advanced
  <2>1. PICK part \in Routing \cup {"device"} : Head(work.todo) = <<"delete", part>>
    BY <1>5, CleanStep DEF Identify, SetChain, Reap
  <2>2. Head(work.todo)[2] # "device"
    BY <1>5, <2>1
  <2> QED
    BY <1>2, <1>5, <2>2 DEF DeleteObject, Busy
<1> QED
  BY <1>3, <1>4, <1>5

\* The step at which an operation that goes on stands.
LEMMA SteadyAt ==
    ASSUME Control, Steady
    PROVE  /\ ~At("up") /\ ~At("stop")
           /\ work.todo # <<>> => Head(work.todo)[1] # "chains"
           /\ work.todo # <<>> /\ Head(work.todo)[1] = "install" => Install
           /\ work.todo = <<>> /\ Stage(work.then) = "plan" => Replan
           /\ work.todo = <<>> /\ Stage(work.then) = "stopped" => Stopped
           /\ work.todo = <<>> /\ Stage(work.then) = "deleted" => Deleted
<1> DEFINE words == {"create", "intend", "journal", "spawn", "add", "mark", "identify", "chain", "reap",
                     "delete", "undone", "released", "forget", "launch", "rejournal",
                     "removed", "reintend", "recognise", "kill", "unchain", "recovered"}
<1>1. \/ (Replan /\ At("plan")) \/ (Stopped /\ At("stopped")) \/ (Deleted /\ At("deleted"))
      \/ (Install /\ At("install")) \/ \E word \in words : At(word)
  <2>1. CASE Replan \/ Stopped \/ Deleted \/ Install
    BY <2>1 DEF Replan, Stopped, Deleted, Install
  <2>2. CASE Create \/ Intend \/ WriteJournal \/ Spawn \/ AddObject \/ Mark
    BY <2>2 DEF Create, Intend, WriteJournal, Spawn, AddObject, Mark
  <2>3. CASE Identify \/ SetChain \/ Reap \/ DeleteObject
    BY <2>3 DEF Identify, SetChain, Reap, DeleteObject
  <2>4. CASE IntendAgain \/ Recognise \/ Kill \/ Unchain \/ Recovered
    BY <2>4 DEF IntendAgain, Recognise, Kill, Unchain, Recovered
  <2>5. CASE RolledBack \/ Released \/ Forget \/ Launch \/ Rejournal \/ Removed
    BY <2>5 DEF RolledBack, Released, Forget, Launch, Rejournal, Removed
  <2> QED
    BY <2>1, <2>2, <2>3, <2>4, <2>5 DEF Steady
<1>2. /\ "up" \notin words /\ "stop" \notin words /\ "plan" \notin words /\ "stopped" \notin words
      /\ "deleted" \notin words /\ "install" \notin words /\ "chains" \notin words
  OBVIOUS
<1> HIDE DEF words
<1>3. \A one, two : At(one) /\ At(two) => one = two
  BY DEF At
<1>4. work \in TypedWork /\ \A word : At(word) /\ work.todo = <<>> => Stage(work.then) = word
  BY AtIs DEF Control, Typed
<1>5. \A word : At(word) /\ work.todo # <<>> => Head(work.todo)[1] = word
  BY <1>4, AtIs
<1> QED
  BY <1>1, <1>2, <1>3, <1>4, <1>5

\* A step that goes on with an operation.
LEMMA SteadyHelped ==
    Control /\ Control' /\ Holding /\ Listed /\ Helped /\ Next /\ Steady => Helped'
<1> SUFFICES ASSUME Control, Control', Holding, Listed, Helped, Next, Steady, faults' = 0
             PROVE  StartKnown' /\ StartStands' /\ UpKnown' /\ UndoneBlocks' /\ SwitchStands' /\ BlockKnown'
  BY DEF Helped
<1>1. /\ daemon /\ Going /\ (work.todo # <<>> \/ work.then # <<>>)
      /\ slice' = slice /\ faults' \in {faults, faults + 1}
      /\ session'.holds = session.holds \/ Removed
  BY SteadyGoes
<1>2. faults = 0 /\ faults' = faults /\ faults \in Nat
  BY <1>1, InterfacesAssumption DEF Control, Typed
<1>3. StartKnown /\ StartStands /\ UpKnown /\ UndoneBlocks /\ SwitchStands /\ BlockKnown
  BY <1>2 DEF Helped
<1>4. /\ work'.name \in {work.name, "idle"}
      /\ Stage(work'.then) # "end" => work'.name = work.name /\ work'.verdict = work.verdict
      /\ Stage(work'.then) \in Firsts => work.todo # <<>> /\ Stage(work.then) = Stage(work'.then)
  BY <1>1, GoingKeeps
<1>5. live'.kind \in {live.kind, "none", "legacy"} /\ (Removed => live'.kind = "none")
  BY SteadyKind
<1>6. ~Replan /\ live.kind = "legacy" /\ live'.kind = "legacy" =>
         /\ HelperKnown => HelperKnown'
         /\ live'.up => live.up \/ Up
         /\ live'.chain = "mark" => live.chain = "mark" \/ Mark \/ Install
         /\ live'.chain = "block" => live.chain = "block" \/ (SetChain /\ work.verdict = "block")
  BY <1>2, LegacyKeeps
<1>7. Replan => ~live'.up /\ live'.chain = "off" /\ Stage(work.then) = "plan"
  <2>1. ASSUME Replan
        PROVE  live' = PlannedInterface("legacy") /\ Stage(work.then) = "plan"
    BY <1>2, <2>1, LeaveStep DEF Replan, Fails
  <2>2. "legacy" \in Kinds /\ live \in Lives /\ saved \in States /\ slice \in BOOLEAN
    BY DEF Kinds, Control, Typed
  <2> QED
    BY <2>1, <2>2, PlannedIs
<1>8. ASSUME ~Replan, live'.kind = "legacy"
      PROVE  live.kind = "legacy"
  <2>1. CASE Create \/ Intend \/ WriteJournal \/ Spawn \/ AddObject \/ Mark
    BY <1>8, <2>1, BuildStep DEF Follows
  <2>2. CASE Identify \/ SetChain \/ Reap \/ DeleteObject
    BY <1>8, <2>2, CleanStep DEF Follows
  <2>3. CASE IntendAgain \/ Recognise \/ Kill \/ Unchain
    BY <1>8, <2>3, RecoveryStep DEF Follows
  <2>4. CASE Rejournal \/ Install
    BY <1>8, <2>4, LoneStep DEF Follows
  <2>5. CASE RolledBack \/ Released \/ Launch
    BY <1>8, <2>5, EndStep
  <2>6. CASE Stopped \/ Deleted
    BY <1>8, <2>6, ReportStep, NothingIs DEF FinishDeletion
  <2>7. CASE Forget \/ Removed \/ Recovered
    BY <1>8, <2>7, LeaveStep, NothingIs
  <2> QED
    BY <1>8, <2>1, <2>2, <2>3, <2>4, <2>5, <2>6, <2>7 DEF Steady
<1>9. work.todo \in Seq(Steps)
  BY DEF Control, Typed, TypedWork
<1>10. StartKnown'
  <2> SUFFICES ASSUME live'.kind = "legacy", Stage(work'.then) = "rollback"
               PROVE  /\ Has(work'.todo, <<"up">>)
                      /\ HelperKnown' \/ (/\ Before(work'.todo, <<"spawn">>, <<"mark">>)
                                          /\ Before(work'.todo, <<"spawn">>, <<"up">>))
    BY DEF StartKnown, Starting, Todo
  <2>1. work.todo # <<>> /\ Starting
    BY <1>4 DEF Firsts, Starting
  <2>2. Create \/ Intend \/ WriteJournal \/ Spawn \/ AddObject \/ Mark
    <3>1. ~(Identify \/ SetChain \/ Reap \/ DeleteObject \/ IntendAgain \/ Recognise \/ Kill \/ Unchain)
      <4>1. "rollback" \notin Cleaning \cup {"recovered"}
        BY DEF Cleaning
      <4> QED
        BY <2>1, <4>1, CleanStep, RecoveryStep, Ends DEF Starting
    <3>2. ~(Rejournal \/ Install)
      BY <2>1, LoneStep DEF Starting
    <3>3. ~(Stopped \/ Deleted \/ RolledBack \/ Released \/ Replan \/ Forget \/ Launch \/ Removed
            \/ Recovered)
      BY <2>1, AtStep DEF Stopped, Deleted, RolledBack, Released, Replan, Forget, Launch, Removed,
                          Recovered
    <3> QED
      BY <3>1, <3>2, <3>3 DEF Steady
  <2>3. ~Replan
    BY <2>1, AtStep DEF Replan
  <2>4. live.kind = "legacy"
    BY <1>8, <2>3
  <2>5. work'.todo = Tail(work.todo)
    BY <1>1, <1>2, <2>1, <2>2, <2>4, NothingBreaks, Moves
  <2>6. Head(work.todo) # <<"up">> /\ (Head(work.todo) = <<"spawn">> => Spawn)
    <3>1. Head(work.todo)[1] \in {"intend", "create", "spawn", "journal", "mark", "add"}
          /\ (Head(work.todo)[1] = "spawn" => Spawn)
      BY <2>2, AtStep DEF Create, Intend, WriteJournal, Spawn, AddObject, Mark
    <3>2. <<"up">>[1] = "up" /\ <<"spawn">>[1] = "spawn"
      OBVIOUS
    <3> QED
      BY <3>1, <3>2
  <2>7. Has(work'.todo, <<"up">>)
    BY <1>3, <1>9, <2>1, <2>4, <2>5, <2>6, TailKeeps DEF StartKnown, Todo
  <2>8. CASE HelperKnown
    BY <1>6, <2>3, <2>4, <2>7, <2>8
  <2>9. CASE Spawn
    <3>0. live \in Lives /\ \A what : ~Fails(what)
      BY <1>2 DEF Control, Typed, Fails
    <3>1. live'.helper
      BY <2>9, <3>0 DEF Spawn, Lives
    <3> QED
      BY <2>7, <3>1 DEF HelperKnown
  <2>10. CASE ~HelperKnown /\ ~Spawn
    BY <1>3, <1>9, <2>1, <2>4, <2>5, <2>6, <2>7, <2>10, TailKeeps DEF StartKnown
  <2> QED
    BY <2>8, <2>9, <2>10
<1>11. StartStands'
  <2> SUFFICES ASSUME live'.kind = "legacy", Stage(work'.then) = "undone"
               PROVE  FALSE
    BY DEF StartStands
  <2>1. Stage(work.then) = "undone" /\ ~Replan
    BY <1>4, <1>7 DEF Firsts
  <2> QED
    BY <1>3, <1>8, <2>1 DEF StartStands
<1>12. UpKnown'
  <2> SUFFICES ASSUME live'.kind = "legacy", live'.up \/ live'.chain = "mark"
               PROVE  HelperKnown'
    BY DEF UpKnown
  <2>1. ~Replan /\ live.kind = "legacy"
    BY <1>7, <1>8
  <2> SUFFICES HelperKnown
    BY <1>6, <2>1
  <2>2. ~Up
    BY SteadyAt DEF Up
  <2>3. CASE live.up \/ live.chain = "mark"
    BY <1>3, <2>1, <2>3 DEF UpKnown
  <2>4. CASE Mark
    <3>1. Starting /\ work.todo # <<>> /\ Head(work.todo) \in Builds /\ At("mark")
      BY <2>4, BuildStep DEF Mark
    <3>2. Head(work.todo) = <<"mark">>
      <4>1. Head(work.todo)[1] = "mark"
        BY <3>1, AtStep
      <4>2. \A part : <<"add", part>>[1] = "add"
        OBVIOUS
      <4>3. <<"intend">>[1] # "mark" /\ <<"create">>[1] # "mark" /\ <<"spawn">>[1] # "mark"
            /\ <<"journal">>[1] # "mark" /\ <<"up">>[1] # "mark"
        OBVIOUS
      <4> QED
        BY <3>1, <4>1, <4>2, <4>3 DEF Builds, Additions
    <3>3. ~Before(work.todo, <<"spawn">>, <<"mark">>)
      BY <1>9, <3>1, <3>2, TailKeeps
    <3> QED
      BY <1>3, <2>1, <3>1, <3>3 DEF StartKnown
  <2>5. CASE Install
    <3>1. work.todo = << <<"install">> >>
      BY <2>5, AtStep DEF Install
    <3>2. live.up
      BY <3>1 DEF Listed, InstallListed
    <3> QED
      BY <1>3, <2>1, <3>2 DEF UpKnown
  <2> QED
    BY <1>6, <2>1, <2>2, <2>3, <2>4, <2>5
<1>13. UndoneBlocks'
  <2> SUFFICES ASSUME Stage(work'.then) = "undone", saved'.bound, slice, work'.todo # <<>>
               PROVE  work'.verdict = "block"
    BY <1>1 DEF UndoneBlocks
  <2>1. /\ work.todo # <<>> /\ Stage(work.then) = "undone" /\ work'.verdict = work.verdict
        /\ saved.bound
    BY <1>4, SteadyBinds DEF Firsts
  <2> QED
    BY <1>3, <2>1 DEF UndoneBlocks
<1>14. SwitchStands'
  <2> SUFFICES ASSUME work'.name = "switch", Reporting', slice
               PROVE  ~work'.failed
    BY <1>1 DEF SwitchStands
  <2>1. /\ Reporting /\ work.todo # <<>> /\ (Identify \/ SetChain \/ Reap \/ DeleteObject)
        /\ work.name = "switch"
    BY RemovalGoes
  <2>2. ~work.failed
    BY <1>3, <2>1 DEF SwitchStands
  <2>3. live.kind = "legacy"
    <3>1. work.then = Stopping(Planning)
      BY <2>1, <2>2, SwitchStages DEF Listed, SwitchListed, Reporting
    <3> QED
      BY <3>1 DEF Control, Shaped
  <2>4. Head(work.todo) # <<"delete", "device">>
    <3>1. ~Has(work.todo, <<"delete", "device">>)
      BY <2>1, <2>3 DEF Listed, DeviceKept, Todo
    <3>2. Has(work.todo, Head(work.todo))
      BY <1>9, <2>1 DEF Has
    <3> QED
      BY <3>1, <3>2
  <2>5. work' = Advanced
    BY <1>2, <2>1, <2>3, <2>4, NothingBreaks
  <2>6. Stage(work'.then) # "end"
    BY DEF Reporting
  <2> QED
    BY <1>1, <2>1, <2>2, <2>5, <2>6, MovedStages
<1>15. BlockKnown'
  <2> SUFFICES ASSUME live'.kind = "legacy", live'.chain = "block", saved'.bound, slice
               PROVE  session'.holds \/ HelperKnown' \/ work'.name = "switch"
    BY <1>1 DEF BlockKnown
  <2>1. ~Replan /\ live.kind = "legacy" /\ ~Removed
    BY <1>5, <1>7, <1>8
  <2>2. saved.bound /\ session'.holds = session.holds
    BY <1>1, <2>1, SteadyBinds
  <2>3. CASE SetChain
    <3>1. work.verdict = "block"
      <4>1. work.verdict \in {"release", "block"} /\ \A what : ~Fails(what)
        BY <1>2 DEF Control, Typed, TypedWork, Fails
      <4> QED
        BY <2>3, <2>1, <4>1 DEF SetChain, Control, Typed, Lives
    <3>2. work.todo # <<>> /\ Stage(work.then) \in Cleaning
      BY <2>3, AtStep DEF SetChain
    <3>3. Reporting
      BY <1>3, <2>1, <3>2 DEF StartStands, Cleaning, Reporting
    <3>4. session.holds \/ work.name = "switch"
      BY <2>2, <3>1, <3>3 DEF Listed, BlockMeant
    <3>5. work'.name = work.name
      <4>1. work' \in {Advanced, Broken}
        BY <2>3 DEF SetChain
      <4>2. Stage(work.then) \in {"stopped", "deleted"}
        BY <3>3 DEF Reporting
      <4>3. work' = Advanced
        <5>1. Head(work.todo) # <<"delete", "device">>
          <6>1. ~DeleteObject
            BY <2>3, AtStep, <3>2 DEF SetChain, DeleteObject
          <6> QED
            BY <2>3, CleanStep, <6>1
        <5> QED
          BY <1>2, <2>1, <2>3, <5>1, NothingBreaks
      <4>4. Stage(work'.then) = Stage(work.then)
        BY <1>1, <3>2, <4>3, Moves
      <4> QED
        BY <1>4, <4>2, <4>4
    <3> QED
      BY <2>2, <3>4, <3>5
  <2>4. CASE ~SetChain
    <3>1. live.chain = "block"
      BY <1>6, <2>1, <2>4
    <3>2. \/ session.holds \/ HelperKnown \/ work.name = "switch"
          \/ work.name = "disable"
             /\ (work.todo = << <<"stop">> >> \/ (Reporting /\ Todo(<<"chain">>)))
      BY <1>3, <2>1, <2>2, <3>1 DEF BlockKnown
    <3>3. ~(Reporting /\ Todo(<<"chain">>))
      <4> SUFFICES ASSUME Reporting, Todo(<<"chain">>)
                   PROVE  FALSE
        OBVIOUS
      <4>1. Head(work.todo) = <<"chain">>
        BY <2>1 DEF Listed, ChainFirst
      <4>2. work.todo # <<>>
        BY EmptyIs DEF Todo
      <4>3. Identify \/ SetChain \/ Reap \/ DeleteObject
        BY <4>2, RemovalSteps DEF Reporting, Cleaning
      <4> QED
        BY <2>4, <4>1, <4>3, CleanMarks
    <3>4. work.todo # << <<"stop">> >>
      <4> SUFFICES ASSUME work.todo = << <<"stop">> >>
                   PROVE  FALSE
        OBVIOUS
      <4>1. work.todo # <<>> /\ work.todo \in Seq(Steps) /\ work.then \in Seq(Following)
        BY <1>9, ThensAreLists DEF Control, Typed, TypedWork
      <4>2. Head(work.todo \o work.then) = <<"stop">>
        <5>1. Head(<< <<"stop">> >>) = <<"stop">>
          OBVIOUS
        <5> DEFINE all == Steps \cup Following
        <5>2. work.todo \in Seq(all) /\ work.then \in Seq(all)
          BY <4>1
        <5> HIDE DEF all
        <5> QED
          BY <4>1, <5>1, <5>2, HeadOfBoth
      <4>3. At("stop")
        BY <1>1, <4>1, <4>2 DEF At, Running
      <4> QED
        BY <4>3, SteadyAt
    <3>5. ASSUME work.name = "switch"
          PROVE  work'.name = "switch"
      <4>1. work.then \in {Planning, Stopping(Planning), Stopping(<<>>)}
            /\ (work.then = Stopping(<<>>) => work.failed)
        BY <3>5 DEF Listed, SwitchListed
      <4>2. CASE Stage(work.then) = "stopped"
        <5>1. Reporting /\ ~work.failed
          BY <1>3, <3>5, <4>2 DEF SwitchStands, Reporting
        <5>2. work.then = Stopping(Planning)
          BY <4>1, <4>2, <5>1, SwitchStages
        <5>3. CASE work.todo # <<>>
          <6>1. Advanced.then = work.then /\ Broken.then = Stopping(<<>>)
                /\ Failed(Advanced).then = Advanced.then
            BY <1>1, <5>2, <5>3, Moves, SwitchStages DEF Failed, TypedWork
          <6>2. Stage(work'.then) = "stopped"
            BY <1>1, <4>2, <6>1, SwitchStages DEF Going
          <6> QED
            BY <1>4, <3>5, <6>2
        <5>4. CASE work.todo = <<>>
          <6>1. Stopped
            BY <4>2, <5>4, SteadyAt
          <6>2. work' = Advanced
            <7>1. \A what : ~Fails(what)
              BY <1>2 DEF Fails
            <7> QED
              BY <2>1, <5>1, <6>1, <7>1 DEF Stopped, SaveFails
          <6>3. work'.then = Planning
            BY <1>1, <5>2, <5>4, <6>2, Moves, SwitchStages
          <6> QED
            BY <1>4, <3>5, <6>3, SwitchStages
        <5> QED
          BY <5>3, <5>4
      <4>3. CASE Stage(work.then) # "stopped"
        <5>1. work.then = Planning
          BY <4>1, <4>3, SwitchStages
        <5>2. work.todo = <<>>
          <6>1. work.todo \in {<<>>, << <<"stop">> >>}
            BY <5>1, SwitchStages DEF Control, Shaped
          <6> QED
            BY <3>4, <6>1
        <5>3. Stage(work.then) = "plan"
          BY <5>1, SwitchStages
        <5> QED
          BY <2>1, <5>2, <5>3, SteadyAt
      <4> QED
        BY <4>2, <4>3
    <3> QED
      BY <1>6, <2>1, <2>2, <3>2, <3>3, <3>4, <3>5
  <2> QED
    BY <2>3, <2>4
<1> QED
  BY <1>10, <1>11, <1>12, <1>13, <1>14, <1>15

\* A step that leaves every list of an interface behind.
LEMMA HelpedEnds ==
    ASSUME ~Starting', Stage(work'.then) # "undone", ~Reporting', UpKnown', BlockKnown'
    PROVE  Helped'
  BY DEF Helped, StartKnown, StartStands, UndoneBlocks, SwitchStands

\* A stop removes the interface as a whole.
LEMMA StopHelped ==
    Control /\ Control' /\ Holding /\ Listed /\ Helped /\ Next /\ Stop => Helped'
<1> SUFFICES ASSUME Control, Control', Holding, Listed, Helped, Next, Stop, faults' = 0
             PROVE  StartKnown' /\ StartStands' /\ UpKnown' /\ UndoneBlocks' /\ SwitchStands' /\ BlockKnown'
  BY DEF Helped
<1>1. /\ kernel' = kernel /\ session' = session /\ slice' = slice /\ live'.kind = live.kind
      /\ faults' \in {faults, faults + 1} /\ live'.up = live.up /\ live'.chain = live.chain
      /\ saved' = saved \/ saved' = Journal(live')
      /\ Stage(work'.then) \in {"end", "launch", "released", "removed", "exit", "deleted", "stopped"}
  BY StopStep
<1>2. faults = 0 /\ faults' = faults /\ faults \in Nat /\ saved \in States /\ live' \in Lives
  BY <1>1, InterfacesAssumption DEF Control, Typed
<1>3. UpKnown /\ BlockKnown
  BY <1>2 DEF Helped
<1>4. saved'.bound = saved.bound
  BY <1>1, <1>2, JournalIs
<1>5. live.kind = "legacy" => live' = live
  BY DEF Stop, Removal
<1>6. StartKnown' /\ StartStands' /\ UndoneBlocks'
  BY <1>1 DEF StartKnown, StartStands, UndoneBlocks, Starting
<1>7. live.kind = "legacy" => (HelperKnown <=> HelperKnown')
  BY <1>1, <1>5 DEF HelperKnown
<1>8. UpKnown'
  BY <1>1, <1>3, <1>7 DEF UpKnown
<1> DEFINE deletes == work.name = "delete"
           list == CleanupOf(deletes)
<1>9. /\ Reporting' => work'.name = work.name /\ work'.todo = list /\ ~work'.failed
      /\ live.kind = "legacy" => Reporting'
  BY StopBegins
<1>10. Has(list, <<"chain">>)
  <2>1. deletes \in BOOLEAN
    OBVIOUS
  <2> HIDE DEF deletes
  <2> QED
    BY <2>1, CleanupIs
<1> HIDE DEF list
<1>11. SwitchStands'
  BY <1>9 DEF SwitchStands
<1>12. BlockKnown'
  BY <1>1, <1>3, <1>4, <1>7, <1>9, <1>10 DEF BlockKnown, Todo
<1> QED
  BY <1>6, <1>8, <1>11, <1>12

\* The steps in which an installation ends or begins.
LEMMA EndHelped ==
    Control /\ Control' /\ Holding /\ Listed /\ Helped /\ Next
    /\ (Up \/ Rollback \/ Rejected \/ Restore \/ StartInterface) => Helped'
<1> SUFFICES ASSUME Control, Control', Holding, Listed, Helped, Next, faults' = 0,
                    Up \/ Rollback \/ Rejected \/ Restore \/ StartInterface
             PROVE  StartKnown' /\ StartStands' /\ UpKnown' /\ UndoneBlocks' /\ SwitchStands' /\ BlockKnown'
  BY DEF Helped
<1>1. /\ live'.kind = live.kind /\ session'.holds = session.holds /\ slice' = slice
      /\ faults' \in {faults, faults + 1} /\ live'.chain = live.chain
      /\ saved'.bound = saved.bound
      /\ Stage(work'.then) \in {"end", "rejected", "undone", "released", "launch"}
         \/ (StartInterface /\ Requested)
         \/ /\ StartInterface /\ Stage(work'.then) = "rollback"
            /\ work'.todo = (IF live.kind = "owned" THEN OwnedStart ELSE LegacyStart)
      /\ Stage(work'.then) = "undone" => Rollback
  <2>1. CASE Up \/ Rollback \/ Rejected
    <3>1. /\ live'.kind = live.kind /\ session'.holds = session.holds /\ slice' = slice
          /\ faults' \in {faults, faults + 1} /\ live'.chain = live.chain
          /\ saved'.bound = saved.bound
      BY <2>1, EndStep
    <3>2. Stage(work'.then) \in {"end", "rejected", "undone", "released"}
      BY <2>1, EndStep
    <3>3. Stage(work'.then) = "undone" <=> Rollback
      BY <2>1, EndStep
    <3> QED
      BY <3>1, <3>2, <3>3
  <2>2. CASE Restore
    <3>1. ~Install
      BY <2>2 DEF Restore, Install, At
    <3>2. Stage(work'.then) \in {"end", "rejected", "launch"}
      BY <2>2, LoneStep
    <3> QED
      BY <2>2, <3>1, <3>2, LoneStep
  <2>3. CASE StartInterface
    <3>1. saved \in States /\ live \in Lives
      BY DEF Control, Typed
    <3> QED
      BY <2>3, <3>1, StartStep, JournalIs, Ends, RequestedStages
  <2> QED
    BY <2>1, <2>2, <2>3
<1>2. faults = 0 /\ faults' = faults /\ faults \in Nat
  BY <1>1, InterfacesAssumption DEF Control, Typed
<1>3. StartKnown /\ StartStands /\ UpKnown /\ UndoneBlocks /\ SwitchStands /\ BlockKnown
  BY <1>2 DEF Helped
<1>4. work.todo \in Seq(Steps) /\ work.name # "switch"
  BY SwitchLeft DEF Control, Typed, TypedWork, Listed
<1>5. ~Reporting'
  BY <1>1, RequestedStages DEF Reporting
<1>6. Rollback => live.kind # "legacy"
  <2>1. Rollback => work.todo = <<>> /\ Starting
    BY AtStep DEF Rollback, Starting
  <2> QED
    BY <1>3, <2>1, EmptyIs DEF StartKnown, Todo
<1>7. ~Replan
  <2>1. Replan => At("plan")
    BY DEF Replan
  <2>2. Idle \/ At("up") \/ At("rollback") \/ At("rejected") \/ At("restore")
    BY DEF Up, Rollback, Rejected, Restore, StartInterface
  <2> QED
    BY <2>1, <2>2 DEF At, Idle
<1>8. live.kind = "legacy" =>
         /\ HelperKnown => HelperKnown'
         /\ live'.up => live.up \/ Up
  BY <1>1, <1>2, <1>7, LegacyKeeps
<1>9. StartKnown'
  <2> SUFFICES ASSUME live.kind = "legacy", Stage(work'.then) = "rollback"
               PROVE  /\ Has(work'.todo, <<"up">>)
                      /\ Before(work'.todo, <<"spawn">>, <<"mark">>)
                      /\ Before(work'.todo, <<"spawn">>, <<"up">>)
    BY <1>1 DEF StartKnown, Starting, Todo
  <2>1. work'.todo = LegacyStart
    BY <1>1, RequestedStages
  <2>2. /\ Has(LegacyStart, <<"up">>) /\ Before(LegacyStart, <<"spawn">>, <<"mark">>)
        /\ Before(LegacyStart, <<"spawn">>, <<"up">>)
    BY DEF LegacyStart, Has, Before
  <2> QED
    BY <2>1, <2>2
<1>10. StartStands'
  <2>1. Stage(work'.then) = "undone" => Rollback
    BY <1>1
  <2> QED
    BY <1>1, <1>6, <2>1 DEF StartStands
<1>11. UpKnown'
  <2> SUFFICES ASSUME live.kind = "legacy", live'.up \/ live'.chain = "mark"
               PROVE  HelperKnown
    BY <1>1, <1>8 DEF UpKnown
  <2>1. CASE ~Up
    BY <1>1, <1>3, <1>8, <2>1 DEF UpKnown
  <2>2. CASE Up
    <3>1. work.todo # <<>> /\ Starting /\ Head(work.todo)[1] = "up" /\ Head(work.todo) \in Builds
      <4>1. At("up")
        BY <2>2 DEF Up
      <4>2. work.todo # <<>> /\ work.then = Rolling /\ Head(work.todo)[1] = "up"
        BY <4>1, AtStep
      <4>3. Only(work.todo, Builds)
        BY <4>2, Ends DEF Control, Shaped
      <4> QED
        BY <1>4, <4>2, <4>3, TailKeeps, Ends DEF Starting
    <3>2. Head(work.todo) = <<"up">>
      <4>1. \A part : <<"add", part>>[1] = "add"
        OBVIOUS
      <4>2. <<"intend">>[1] # "up" /\ <<"create">>[1] # "up" /\ <<"spawn">>[1] # "up"
            /\ <<"journal">>[1] # "up" /\ <<"mark">>[1] # "up"
        OBVIOUS
      <4> QED
        BY <3>1, <4>1, <4>2 DEF Builds, Additions
    <3>3. ~Before(work.todo, <<"spawn">>, <<"up">>)
      BY <1>4, <3>1, <3>2, TailKeeps
    <3> QED
      BY <1>3, <3>1, <3>3 DEF StartKnown
  <2> QED
    BY <2>1, <2>2
<1>12. UndoneBlocks'
  <2> SUFFICES ASSUME Stage(work'.then) = "undone", saved.bound, slice, work'.todo # <<>>
               PROVE  work'.verdict = "block"
    BY <1>1 DEF UndoneBlocks
  <2>1. Rollback /\ live.kind = "owned"
    <3>1. Rollback /\ work.then # <<>>
      BY <1>1, AtStep DEF Rollback
    <3>2. live.kind # "none" /\ live.kind \in Kinds \cup {"none"}
      BY <3>1, AtStep DEF Rollback, Control, Shaped, Typed, Lives
    <3> QED
      BY <1>6, <3>1, <3>2 DEF Kinds
  <2>2. Verdict = "block"
    BY <2>1 DEF Listed, OwnedListed, Verdict
  <2> DEFINE none == <<>>
             undone == << <<"undone">> >>
             release == "release"
             no == FALSE
             one == Expanded(none, undone, release, no)
             list == CleanupOf(live.fresh)
             two == Expanded(list, undone, Verdict, live.fresh)
  <2>3. work' \in {one, two, Failed(one)}
    BY <2>1 DEF Rollback, Failed
  <2>4. none = <<>> /\ work \in TypedWork
    BY DEF Control, Typed
  <2> HIDE DEF none, undone, release, no, list
  <2>5. one.todo = <<>> /\ Failed(one).todo = one.todo /\ two.todo = list
    <3>1. one.todo = <<>> /\ two.todo = list
      BY <2>4, ExpandedList
    <3> HIDE DEF one
    <3>2. Failed(one).todo = one.todo
      BY DEF Failed
    <3> QED
      BY <3>1, <3>2
  <2> HIDE DEF one
  <2>6. work' = two /\ list # <<>>
    BY <2>3, <2>5
  <2>7. two.verdict = Verdict
    <3> DEFINE left == undone \o Advanced.then
               w == [work EXCEPT !.todo = list, !.then = left, !.verdict = Verdict,
                                 !.deletes = live.fresh, !.failed = FALSE]
    <3>1. two = Settled(w)
      BY DEF Expanded
    <3> HIDE DEF left, two
    <3>2. w.todo = list /\ w.verdict = Verdict
      BY <2>4 DEF TypedWork
    <3> HIDE DEF w
    <3> QED
      BY <2>6, <3>1, <3>2 DEF Settled, Running
  <2> QED
    BY <2>2, <2>6, <2>7
<1>13. SwitchStands'
  BY <1>5 DEF SwitchStands
<1>14. BlockKnown'
  <2> SUFFICES ASSUME live.kind = "legacy", live.chain = "block", saved.bound, slice
               PROVE  session.holds \/ HelperKnown'
    BY <1>1 DEF BlockKnown
  <2>1. \/ session.holds \/ HelperKnown
        \/ work.todo = << <<"stop">> >> \/ (Reporting /\ Todo(<<"chain">>))
    BY <1>3, <1>4 DEF BlockKnown
  <2>2. work.todo # << <<"stop">> >> /\ ~Reporting
    <3>0. <<>> # << <<"stop">> >> /\ << <<"restore">> >> # << <<"stop">> >>
          /\ Head(<< <<"stop">> >>)[1] = "stop"
      OBVIOUS
    <3>1. CASE Up
      <4>1. At("up")
        BY <3>1 DEF Up
      <4>2. work.todo # <<>> /\ work.then = Rolling /\ Head(work.todo)[1] = "up"
        BY <4>1, AtStep
      <4> QED
        BY <3>0, <4>2, Ends DEF Reporting
    <3>2. CASE Rollback \/ Rejected
      <4>1. At("rollback") \/ At("rejected")
        BY <3>2 DEF Rollback, Rejected
      <4>2. work.todo = <<>> /\ Stage(work.then) \in {"rollback", "rejected"}
        BY <4>1, AtStep
      <4> QED
        BY <3>0, <4>2 DEF Reporting
    <3>3. CASE Restore
      BY <3>0, <3>3, AtStep DEF Restore, Reporting
    <3>4. CASE StartInterface
      BY <3>0, <3>4, IdleIs, Ends DEF StartInterface, Reporting
    <3> QED
      BY <3>1, <3>2, <3>3, <3>4
  <2> QED
    BY <1>8, <2>1, <2>2
<1> QED
  BY <1>9, <1>10, <1>11, <1>12, <1>13, <1>14

\* A request, and a plan of a legacy interface.
LEMMA AskHelped ==
    Control /\ Control' /\ Holding /\ Listed /\ Helped
    /\ (\/ Supervise \/ Confirmed \/ ConfirmationFailed \/ CoreExits \/ ServerGone \/ Down
        \/ DeleteInterface \/ Shutdown \/ Connect
        \/ \E kind \in Kinds \cup {"none"}, holds \in BOOLEAN : Plan(kind, holds))
       => Helped'
<1> DEFINE asks == \/ Supervise \/ Confirmed \/ ConfirmationFailed \/ CoreExits \/ ServerGone \/ Down
                   \/ DeleteInterface \/ Shutdown \/ Connect
           plans == \E kind \in Kinds \cup {"none"}, holds \in BOOLEAN : Plan(kind, holds)
<1> SUFFICES ASSUME Control, Control', Holding, Listed, Helped, asks \/ plans, faults' = 0
             PROVE  Helped'
  BY DEF Helped
<1>1. /\ Idle /\ Requested /\ kernel' = kernel /\ slice' = slice
      /\ faults' \in {faults, faults + 1}
  BY AskStep, PlanStep
<1>2. ~Reporting' /\ ~Starting' /\ Stage(work'.then) # "undone"
  BY <1>1, RequestedStages DEF Reporting, Starting
<1>3. faults = 0 /\ UpKnown /\ BlockKnown
  <2>1. faults = 0
    BY <1>1, InterfacesAssumption DEF Control, Typed
  <2> QED
    BY <2>1 DEF Helped
<1>4. work.name = "idle" /\ ~Reporting
  BY <1>1, IdleIs, Ends DEF NoWork, Reporting
<1>5. CASE live' = live
  <2>1. HelperKnown <=> HelperKnown'
    BY <1>1, <1>5 DEF HelperKnown
  <2>2. UpKnown'
    BY <1>3, <1>5, <2>1 DEF UpKnown
  <2>3. BlockKnown'
    <3> SUFFICES ASSUME live.kind = "legacy", live.chain = "block", saved'.bound, slice
                 PROVE  BlockKnown'
      BY <1>1, <1>5 DEF BlockKnown
    <3>1. CASE asks
      <4>1. session'.holds = session.holds /\ saved'.bound = saved.bound
        BY <3>1, AskStep
      <4> QED
        BY <1>3, <1>4, <2>1, <4>1 DEF BlockKnown
    <3>2. CASE plans
      <4>1. \/ work'.name = "switch"
            \/ work'.name = "disable" /\ work'.todo = << <<"stop">> >>
        BY <3>2, AskSwitches
      <4> QED
        BY <4>1 DEF BlockKnown
    <3> QED
      BY <3>1, <3>2
  <2> QED
    BY <1>2, <2>2, <2>3, HelpedEnds
<1>6. CASE live' # live
  <2>1. live' = NoInterface \/ \E kind \in Kinds : live' = PlannedInterface(kind)
    <3>1. plans
      BY <1>6, AskStep
    <3> QED
      BY <1>6, <3>1, PlanStep
  <2>2. ~live'.up /\ live'.chain = "off"
    BY <2>1, NothingIs, PlannedIs DEF Control, Typed
  <2>3. UpKnown' /\ BlockKnown'
    BY <2>2 DEF UpKnown, BlockKnown
  <2> QED
    BY <1>2, <2>3, HelpedEnds
<1> QED
  BY <1>5, <1>6

\* The scope of a command, what recovery finds of it, and what happens to the daemon.
LEMMA WorldHelped ==
    Control /\ Control' /\ Holding /\ Listed /\ Helped /\ Next
    /\ (RunScope \/ RecoverChains \/ Exit \/ Crash \/ HelperDies \/ SliceEnds \/ Boot) => Helped'
<1> SUFFICES ASSUME Control, Control', Holding, Listed, Helped, Next, faults' = 0,
                    RunScope \/ RecoverChains \/ Exit \/ Crash \/ HelperDies \/ SliceEnds \/ Boot
             PROVE  Helped'
  BY DEF Helped
<1>1. faults = 0 /\ faults' = faults
  <2>1. faults' \in {faults, faults + 1}
    BY ScopeStep, RecoveryStep, WorldStep
  <2> QED
    BY <2>1, InterfacesAssumption DEF Control, Typed
<1>2. StartKnown /\ StartStands /\ UpKnown /\ UndoneBlocks /\ SwitchStands /\ BlockKnown
  BY <1>1 DEF Helped
<1>3. ASSUME live'.kind # "legacy", ~Starting', Stage(work'.then) # "undone", ~Reporting'
      PROVE  Helped'
  BY <1>3, HelpedEnds DEF UpKnown, BlockKnown
<1>4. CASE RunScope
  <2>1. /\ Idle /\ Requested /\ live.up /\ live'.kind = live.kind /\ live'.chain = live.chain
    BY <1>4, ScopeStep
  <2>2. ~Reporting' /\ ~Starting' /\ Stage(work'.then) # "undone"
    BY <2>1, RequestedStages DEF Reporting, Starting
  <2>3. live.kind = "legacy" => HelperKnown
    BY <1>2, <2>1 DEF UpKnown
  <2>4. live.kind = "legacy" => HelperKnown'
    <3>1. live'.helper = live.helper /\ kernel' = kernel
      BY <1>4 DEF RunScope, Control, Typed, Lives
    <3> QED
      BY <2>3, <3>1 DEF HelperKnown
  <2>5. UpKnown' /\ BlockKnown'
    BY <2>1, <2>4 DEF UpKnown, BlockKnown
  <2> QED
    BY <2>2, <2>5, HelpedEnds
<1>5. CASE RecoverChains
  <2>1. /\ work.then = Recovering /\ live' = live /\ live.kind = "none"
        /\ work' = [work EXCEPT !.todo = RecoveryOf(saved')]
    BY <1>5, RecoveryStep
  <2>2. work'.then = Recovering
    <3> DEFINE list == RecoveryOf(saved')
    <3> HIDE DEF list
    <3>1. [work EXCEPT !.todo = list].then = work.then
      BY DEF Control, Typed, TypedWork
    <3> QED
      BY <2>1, <3>1 DEF list
  <2> QED
    BY <1>3, <2>1, <2>2, Ends DEF Reporting, Starting
<1>6. CASE SliceEnds
  <2>1. UNCHANGED <<kernel, saved, session, live, work, daemon>> /\ ~slice'
    BY <1>6 DEF SliceEnds
  <2>2. StartKnown' /\ StartStands' /\ UpKnown'
    BY <1>2, <2>1 DEF StartKnown, StartStands, UpKnown, HelperKnown, Starting, Todo
  <2>3. UndoneBlocks' /\ SwitchStands' /\ BlockKnown'
    BY <2>1 DEF UndoneBlocks, SwitchStands, BlockKnown
  <2> QED
    BY <2>2, <2>3 DEF Helped
<1>7. CASE HelperDies
  <2>1. work = NoWork /\ work' = work /\ saved' = saved /\ session' = session /\ slice' = slice
    <3>1. work = NoWork
      BY <1>7, IdleIs DEF HelperDies, Control, Hosted
    <3> QED
      BY <1>7, <3>1 DEF HelperDies, UnaffectedByStep
  <2>2. ~Reporting' /\ ~Starting' /\ Stage(work'.then) # "undone" /\ work.name = "idle" /\ ~Reporting
    BY <2>1, Ends DEF Reporting, Starting, NoWork
  <2>3. live'.kind = live.kind /\ live'.up = live.up /\ live'.chain = live.chain
    BY <1>7 DEF HelperDies, Control, Typed, Lives
  <2>4. live.kind = "legacy" => (HelperKnown => HelperKnown')
    <3>1. ~Replan
      BY <2>1 DEF Replan, At, Running, NoWork
    <3> QED
      BY <1>1, <2>3, <3>1, LegacyKeeps
  <2>5. UpKnown' /\ BlockKnown'
    BY <1>2, <2>1, <2>2, <2>3, <2>4 DEF UpKnown, BlockKnown
  <2> QED
    BY <2>2, <2>5, HelpedEnds
<1>8. CASE Exit \/ Crash
  <2>1. work' = NoWork /\ live' = NoInterface
    BY <1>8 DEF Exit, Crash, Gone
  <2> QED
    BY <1>3, <2>1, NothingIs, Ends DEF Reporting, Starting, NoWork
<1>9. CASE Boot
  <2>1. live' = live /\ live = NoInterface /\ work'.then = Recovering
    BY <1>9 DEF Boot, Control, Hosted, NoWork, Recovering
  <2> QED
    BY <1>3, <2>1, NothingIs, Ends DEF Reporting, Starting
<1> QED
  BY <1>4, <1>5, <1>6, <1>7, <1>8, <1>9

\* All of it holds.
LEMMA HelpedHolds == Spec => [](Control /\ Holding /\ Listed /\ Helped)
<1>1. Init => Helped
  <2> SUFFICES ASSUME Init PROVE Helped
    OBVIOUS
  <2>1. /\ live.kind = "none" /\ Stage(work.then) = "end"
    BY Ends, NothingIs DEF Init, NoWork
  <2> QED
    BY <2>1 DEF Helped, StartKnown, StartStands, UpKnown, UndoneBlocks, SwitchStands, BlockKnown,
                Reporting
<1>2. Control /\ Control' /\ Holding /\ Listed /\ Helped /\ [Next]_vars => Helped'
  <2> SUFFICES ASSUME Control, Control', Holding, Listed, Helped, [Next]_vars
               PROVE  Helped'
    OBVIOUS
  <2>1. CASE UNCHANGED vars
    BY <2>1 DEF vars, Helped, StartKnown, StartStands, UpKnown, UndoneBlocks, SwitchStands, BlockKnown,
                Reporting, Starting, Todo, HelperKnown
  <2>2. CASE Next
    BY <2>2, SteadyHelped, StopHelped, EndHelped, AskHelped, WorldHelped DEF Next, Steady
  <2> QED
    BY <2>1, <2>2
<1>3. Spec => [](Control /\ Holding) /\ [](Control /\ Listed)
  BY HoldingHolds, ListedHolds
<1> QED
  BY <1>1, <1>2, <1>3, PTL DEF Spec

-----------------------------------------------------------------------------
\* What a removal under way takes from a cgroup on purpose: the removal goes through,
Loose == Reporting /\ ~work.failed /\ work.verdict = "release"

\* and what is bound is protected, was not looked at by this daemon yet, is about to be
\* marked, or is taken from a cgroup by such a removal.
Guarded ==
    daemon /\ saved.bound /\ slice =>
        \/ chain \in {"mark", "block"}
        \/ Recovery /\ work.todo = << <<"chains">> >>
        \/ work.todo = << <<"install">> >>
        \/ Loose

\* Nothing keeps the device busy that such a removal deletes.
Loosed ==
    Loose /\ saved.bound /\ slice /\ chain \notin {"mark", "block"} /\ work.name = "delete" =>
        \/ <<"legacy", "helper">> \notin kernel
        \/ live.helper /\ Before(work.todo, <<"reap">>, <<"delete", "device">>)

\* Both hold as long as nothing failed.
Protected == faults = 0 => Guarded /\ Loosed

\* Only four of the steps that go on write a chain.
LEMMA SteadyChains ==
    ASSUME Steady
    PROVE  chain' = chain \/ Mark \/ SetChain \/ Unchain \/ Install
<1>1. CASE Create \/ Intend \/ WriteJournal \/ Spawn \/ AddObject \/ Mark
  BY <1>1 DEF Create, Intend, WriteJournal, Spawn, AddObject
<1>2. CASE Identify \/ SetChain \/ Reap \/ DeleteObject
  BY <1>2 DEF Identify, Reap, DeleteObject
<1>3. CASE IntendAgain \/ Recognise \/ Kill \/ Unchain \/ Recovered
  BY <1>3 DEF IntendAgain, Recognise, Kill, Recovered
<1>4. CASE Stopped \/ Deleted \/ RolledBack \/ Released \/ Replan \/ Forget
  BY <1>4 DEF Stopped, Deleted, RolledBack, Released, Replan, Forget
<1>5. CASE Launch \/ Rejournal \/ Removed \/ Install
  BY <1>5 DEF Launch, Rejournal, Removed
<1> QED
  BY <1>1, <1>2, <1>3, <1>4, <1>5 DEF Steady

\* A step that leaves chain and cgroup alone, outside of a removal.
LEMMA ProtectedStays ==
    ASSUME Protected, faults = 0, chain' = chain, slice' => slice, saved'.bound => saved.bound, daemon,
           work.todo # << <<"chains">> >>, work.todo # << <<"install">> >>, ~Reporting
    PROVE  Protected'
<1>1. saved.bound /\ slice => chain \in {"mark", "block"}
  BY DEF Protected, Guarded, Loose
<1> QED
  BY <1>1 DEF Protected, Guarded, Loosed

\* Removals that release a bound cgroup are those of legacy interfaces, and unlike a
\* plan they may delete the device.
LEMMA LooseIs ==
    ASSUME Control, Holding, Listed, Loose, saved.bound, slice
    PROVE  live.kind = "legacy" /\ work.name # "switch" /\ ~session.holds
<1>1. work.verdict # "block"
  BY DEF Loose
<1>2. ~session.holds /\ work.name # "switch"
  BY <1>1 DEF Holding, VerdictKept, Loose
<1>3. live.kind \in Kinds
  BY DEF Loose, Reporting, Cleaning, Control, Shaped, Typed, Lives
<1> QED
  BY <1>2, <1>3 DEF Listed, OwnedListed, Kinds

\* A step of such a removal goes on with it, as long as nothing fails.
LEMMA LooseGoes ==
    ASSUME Control, Control', Holding, Listed, Steady, Loose, saved.bound, slice, faults' = faults,
           chain \notin {"mark", "block"} => Loosed, work.todo # <<>>
    PROVE  \/ Loose' /\ work' = Advanced
           \/ chain \in {"mark", "block"} /\ chain' = chain
<1>1. live.kind = "legacy" /\ work.name # "switch"
  BY LooseIs
<1>2. Stage(work.then) \in Cleaning /\ Reporting /\ ~work.failed /\ work.verdict = "release"
  BY DEF Loose, Reporting, Cleaning
<1>3. Identify \/ SetChain \/ Reap \/ DeleteObject
  BY <1>2, RemovalSteps
<1>4. ASSUME work' = Advanced PROVE Loose'
  <2>1. Advanced.todo = Tail(work.todo) /\ Advanced.then = work.then /\ work.then # <<>>
    BY <1>2, Moves, Ends DEF Reporting
  <2>2. Advanced.failed = work.failed /\ Advanced.verdict = work.verdict
    BY <2>1, Moves
  <2> QED
    BY <1>2, <1>4, <2>1, <2>2 DEF Loose, Reporting
<1>5. CASE Head(work.todo) # <<"delete", "device">>
  <2>1. work' = Advanced
    BY <1>1, <1>2, <1>3, <1>5, NothingBreaks
  <2> QED
    BY <1>4, <2>1
<1>6. CASE Head(work.todo) = <<"delete", "device">>
  <2>1. DeleteObject
    <3>1. At("delete")
      <4>1. At("identify") \/ At("chain") \/ At("reap") \/ At("delete")
        BY <1>3 DEF Identify, SetChain, Reap, DeleteObject
      <4>2. \A word : At(word) => Head(work.todo)[1] = word
        BY AtStep
      <4>3. Head(work.todo)[1] = "delete"
        BY <1>6
      <4> QED
        BY <4>1, <4>2, <4>3
    <3>2. \A one, two : At(one) /\ At(two) => one = two
      BY DEF At
    <3> QED
      BY <1>3, <3>1, <3>2 DEF Identify, SetChain, Reap
  <2>2. chain' = chain
    BY <2>1 DEF DeleteObject
  <2>3. CASE chain \notin {"mark", "block"}
    <3>1. work.name = "delete"
      <4>1. work.todo \in Seq(Steps)
        BY DEF Control, Typed, TypedWork
      <4>2. Todo(<<"delete", "device">>)
        BY <1>6, <4>1 DEF Todo, Has
      <4> QED
        BY <1>1, <1>2, <4>2 DEF Listed, DeviceKept
    <3>2. ~Before(work.todo, <<"reap">>, <<"delete", "device">>)
      BY <1>6, TailKeeps DEF Control, Typed, TypedWork
    <3>3. <<"legacy", "helper">> \notin kernel
      BY <2>3, <3>1, <3>2 DEF Loosed
    <3>4. \A what : ~Fails(what)
      BY InterfacesAssumption DEF Fails, Control, Typed
    <3>5. work' = Advanced
      BY <2>1, <3>3, <3>4 DEF DeleteObject, Busy
    <3> QED
      BY <1>4, <3>5
  <2> QED
    BY <2>2, <2>3
<1> QED
  BY <1>5, <1>6

\* Where the chain is written.
LEMMA ChainIsNext ==
    ASSUME Control, SetChain
    PROVE  Head(work.todo) = <<"chain">> /\ Todo(<<"chain">>)
<1>1. Stage(work.then) \in Cleaning /\ work.todo # <<>> /\ Head(work.todo)[1] = "chain"
  BY AtStep DEF SetChain
<1>2. work.todo \in Seq(Steps) /\ Only(work.todo, Cleans)
  BY <1>1 DEF Control, Typed, TypedWork, Shaped
<1>3. Head(work.todo) \in Cleans
  BY <1>1, <1>2, TailKeeps
<1>4. Head(work.todo) = <<"chain">>
  <2>1. \A part : <<"delete", part>>[1] # "chain"
    OBVIOUS
  <2>2. <<"identify">>[1] # "chain" /\ <<"reap">>[1] # "chain"
    OBVIOUS
  <2> QED
    BY <1>1, <1>3, <2>1, <2>2 DEF Cleans, Deletions
<1> QED
  BY <1>1, <1>2, <1>4 DEF Todo, Has

\* A chain is taken away while the cgroup is bound only by such a removal.
LEMMA SetChainLooses ==
    ASSUME Control, Control', Holding, Listed, Helped, SetChain, faults = 0, faults' = faults,
           saved.bound, slice, chain' \notin {"mark", "block"}
    PROVE  \/ chain' = chain
           \/ Loose /\ (work.name = "delete" => HelperKnown)
<1> SUFFICES ASSUME chain' # chain
             PROVE  Loose /\ (work.name = "delete" => HelperKnown)
  OBVIOUS
<1>1. work.verdict = "release" /\ live.chain # "off"
  BY DEF SetChain
<1>2. Stage(work.then) \in Cleaning /\ work.todo # <<>> /\ Head(work.todo)[1] = "chain"
  BY AtStep DEF SetChain
<1>3. Stage(work.then) # "undone"
  BY <1>1, <1>2 DEF Helped, UndoneBlocks
<1>4. Reporting
  BY <1>2, <1>3 DEF Reporting, Cleaning
<1>5. Todo(<<"chain">>)
  BY ChainIsNext
<1>6. Loose
  BY <1>1, <1>4, <1>5 DEF Loose, Listed, ChainFirst
<1>7. live.kind = "legacy" /\ ~session.holds
  BY <1>6, LooseIs
<1>8. live.chain \in {"mark", "block"}
  BY <1>1 DEF Control, Typed, Lives
<1>9. work.name = "delete" => HelperKnown
  BY <1>7, <1>8 DEF Helped, UpKnown, BlockKnown
<1> QED
  BY <1>6, <1>9

\* A step that goes on.
LEMMA SteadyProtected ==
    Control /\ Control' /\ Holding /\ Listed /\ Helped /\ Protected /\ Next /\ Steady => Protected'
<1> SUFFICES ASSUME Control, Control', Holding, Listed, Helped, Protected, Next, Steady, faults' = 0,
                    saved'.bound, slice'
             PROVE  Guarded' /\ Loosed'
  BY DEF Protected, Guarded, Loosed
<1>1. /\ daemon /\ slice /\ saved.bound /\ faults = 0 /\ faults' = faults
      /\ (work.todo # <<>> \/ work.then # <<>>) /\ Going
  <2>1. /\ daemon /\ slice' = slice /\ faults' \in {faults, faults + 1} /\ Going
        /\ (work.todo # <<>> \/ work.then # <<>>)
    BY SteadyGoes
  <2>2. faults \in Nat
    BY InterfacesAssumption DEF Control, Typed
  <2>3. saved'.bound => saved.bound
    BY SteadyBinds
  <2> QED
    BY <2>1, <2>2, <2>3
<1>2. Guarded /\ Loosed
  BY <1>1 DEF Protected
<1>3. \A what : ~Fails(what)
  BY <1>1, InterfacesAssumption DEF Fails, Control, Typed
<1>4. work.todo # << <<"chains">> >>
  <2>1. << <<"chains">> >> # <<>> /\ Head(<< <<"chains">> >>)[1] = "chains"
    OBVIOUS
  <2> QED
    BY <2>1, SteadyAt
<1>5. ASSUME work.todo = << <<"install">> >>
      PROVE  chain' \in {"mark", "block"}
  <2>1. << <<"install">> >> # <<>> /\ Head(<< <<"install">> >>)[1] = "install"
    OBVIOUS
  <2>2. Install
    BY <1>5, <2>1, SteadyAt
  <2>3. \/ chain' = "mark"
        \/ saved' = [Journal(live') EXCEPT !.bound = FALSE]
    BY <1>1, <1>3, <2>2 DEF Install
  <2>4. ~[Journal(live') EXCEPT !.bound = FALSE].bound
    <3>1. saved \in States /\ live' \in Lives
      BY DEF Control, Typed
    <3> QED
      BY <3>1, JournalIs DEF States
  <2> QED
    BY <2>3, <2>4
\* A removal that is at its end forgets the cgroup.
<1>6. ~(Loose /\ work.todo = <<>>)
  <2> SUFFICES ASSUME Loose, work.todo = <<>>
               PROVE  ~saved'.bound
    OBVIOUS
  <2>1. live.kind = "legacy" /\ ~work.failed /\ work.verdict = "release"
    BY <1>1, LooseIs DEF Loose
  <2>2. Stopped \/ Deleted
    BY SteadyAt DEF Loose, Reporting
  <2>3. saved \in States /\ live' \in Lives /\ session \in Sessions
    BY DEF Control, Typed
  <2>4. CASE Stopped
    <3>1. saved' = [Synced(session.here, live') EXCEPT !.bound = @ /\ (work.failed \/ work.verdict = "block")]
      BY <2>1, <2>4 DEF Stopped
    <3>2. Synced(session.here, live') \in States
      BY <2>3, SyncedIs DEF Sessions
    <3> DEFINE was == Synced(session.here, live')
               stays == work.failed \/ work.verdict = "block"
    <3>3. ~stays
      BY <2>1
    <3> HIDE DEF was, stays
    <3>4. saved' = [was EXCEPT !.bound = @ /\ stays]
      BY <3>1 DEF was, stays
    <3> QED
      BY <3>2, <3>3, <3>4 DEF was, States
  <2>5. CASE Deleted
    <3>1. FinishDeletion
      BY <2>1, <2>5 DEF Deleted
    <3> DEFINE gone == [saved EXCEPT !.interface = NoRecord]
    <3>2. saved' = [gone EXCEPT !.bound = FALSE]
      BY <1>3, <2>1, <3>1 DEF FinishDeletion
    <3>3. gone \in States
      BY <2>3, NothingIs DEF States
    <3> HIDE DEF gone
    <3> QED
      BY <3>2, <3>3 DEF States
  <2> QED
    BY <2>2, <2>4, <2>5

<1>7. Guarded'
  <2> SUFFICES ASSUME chain' \notin {"mark", "block"}
               PROVE  Loose'
    BY DEF Guarded
  <2>1. chain \in {"mark", "block"} \/ Loose
    BY <1>1, <1>2, <1>4, <1>5 DEF Guarded
  <2>2. CASE Loose
    BY <1>1, <1>2, <1>6, <2>2, LooseGoes
  <2>3. CASE ~Loose
    <3>1. chain \in {"mark", "block"} /\ chain' # chain
      BY <2>1, <2>3
    <3>2. Mark \/ SetChain \/ Unchain \/ Install
      BY <3>1, SteadyChains
    <3>3. ~Mark
      BY <1>1, <1>3, <3>1 DEF Mark
    <3>4. ~Unchain
      <4> SUFFICES ASSUME Unchain PROVE FALSE
        OBVIOUS
      <4>1. Recovery /\ Todo(<<"unchain">>)
        <5>1. work.then = Recovering /\ work.todo # <<>> /\ Head(work.todo)[1] = "unchain"
              /\ work.todo \in Seq(Steps)
          BY AtStep DEF Unchain
        <5>2. Only(work.todo, Recoveries)
          BY <5>1, Ends DEF Control, Shaped
        <5>3. Head(work.todo) \in Recoveries
          BY <5>1, <5>2, TailKeeps
        <5>4. Head(work.todo) = <<"unchain">>
          <6>1. \A part : <<"delete", part>>[1] # "unchain"
            OBVIOUS
          <6>2. /\ <<"chains">>[1] # "unchain" /\ <<"reintend">>[1] # "unchain"
                /\ <<"recognise">>[1] # "unchain" /\ <<"kill">>[1] # "unchain"
            OBVIOUS
          <6> QED
            BY <5>1, <5>3, <6>1, <6>2 DEF Recoveries, Deletions
        <5> QED
          BY <5>1, <5>4, Ends DEF Recovery, Todo, Has
      <4> QED
        BY <1>1, <4>1 DEF Listed, UnchainListed
    <3>5. ~Install
      <4>1. Install => chain' = "mark" \/ chain' = chain
        BY DEF Install
      <4> QED
        BY <3>1, <4>1
    <3> QED
      BY <1>1, <2>3, <3>1, <3>2, <3>3, <3>4, <3>5, SetChainLooses
  <2> QED
    BY <2>2, <2>3
<1>8. Loosed'
  <2> SUFFICES ASSUME Loose', chain' \notin {"mark", "block"}, work'.name = "delete"
               PROVE  \/ <<"legacy", "helper">> \notin kernel'
                      \/ live'.helper /\ Before(work'.todo, <<"reap">>, <<"delete", "device">>)
    BY DEF Loosed
  <2>1. /\ Reporting /\ work.todo # <<>> /\ (Identify \/ SetChain \/ Reap \/ DeleteObject)
        /\ work.name = "delete" /\ work.verdict = "release" /\ live.kind \in Kinds
        /\ work'.todo = Tail(work.todo)
    BY RemovalGoes DEF Loose
  <2>2. ~work.failed
    <3>1. work' # Broken
      BY RemovalGoes DEF Loose
    <3>2. Failed(Advanced).failed
      BY <1>1, Moves DEF Failed, TypedWork
    <3>3. work' = Advanced
      BY <1>1, <3>1, <3>2 DEF Going, Loose
    <3> QED
      BY <1>1, <3>3, Moves, Ends DEF Loose, Reporting, NoWork
  <2>3. Loose
    BY <2>1, <2>2 DEF Loose
  <2>4. live.kind = "legacy"
    BY <1>1, <2>3, LooseIs
  <2>5. work.todo \in Seq(Steps)
    BY DEF Control, Typed, TypedWork
  <2>6. \/ <<"legacy", "helper">> \notin kernel
        \/ live.helper /\ Before(work.todo, <<"reap">>, <<"delete", "device">>)
    <3>1. CASE chain \notin {"mark", "block"}
      BY <1>1, <1>2, <2>1, <2>3, <3>1 DEF Loosed
    <3>2. CASE chain \in {"mark", "block"}
      <4>1. SetChain
        BY <2>1, <3>2 DEF Identify, Reap, DeleteObject
      <4>2. HelperKnown
        <5>1. chain' # chain
          BY <3>2
        <5> QED
          BY <1>1, <2>1, <4>1, <5>1, SetChainLooses
      <4>3. Todo(<<"chain">>)
        BY <4>1, ChainIsNext
      <4>4. Before(work.todo, <<"reap">>, <<"delete", "device">>)
        BY <2>1, <2>4, <4>3 DEF Listed, ChainFirst
      <4> QED
        BY <4>2, <4>4 DEF HelperKnown
    <3> QED
      BY <3>1, <3>2
  <2>7. kernel' \subseteq kernel
    BY <2>1 DEF Identify, SetChain, Reap, DeleteObject, WithoutDevice
  <2>8. CASE Reap
    BY <2>4, <2>6, <2>7, <2>8 DEF Reap
  <2>9. CASE Identify \/ SetChain \/ DeleteObject
    <3>1. live'.helper = live.helper
      BY <2>9 DEF Identify, SetChain, DeleteObject, Control, Typed, Lives
    <3>2. Head(work.todo) # <<"reap">>
      <4>1. Head(work.todo)[1] \in {"identify", "chain", "delete"}
        BY <2>1, <2>9, AtStep DEF Identify, SetChain, DeleteObject
      <4>2. <<"reap">>[1] = "reap"
        OBVIOUS
      <4> QED
        BY <4>1, <4>2
    <3>3. Before(work.todo, <<"reap">>, <<"delete", "device">>)
             => Before(Tail(work.todo), <<"reap">>, <<"delete", "device">>)
      BY <2>1, <2>5, <3>2, TailKeeps
    <3> QED
      BY <2>1, <2>6, <2>7, <3>1, <3>3
  <2> QED
    BY <2>1, <2>8, <2>9
<1> QED
  BY <1>7, <1>8

\* A removal, an installation or a request begins only where the cgroup is protected, and
\* leaves its chain alone.
LEMMA BeginProtected ==
    Control /\ Control' /\ Protected
    /\ (\/ Stop \/ Up \/ Rollback \/ Rejected \/ Restore \/ StartInterface
        \/ Supervise \/ Confirmed \/ ConfirmationFailed \/ CoreExits \/ ServerGone \/ Down
        \/ DeleteInterface \/ Shutdown \/ Connect
        \/ \E kind \in Kinds \cup {"none"}, holds \in BOOLEAN : Plan(kind, holds)) => Protected'
<1> DEFINE asks == \/ Supervise \/ Confirmed \/ ConfirmationFailed \/ CoreExits \/ ServerGone \/ Down
                   \/ DeleteInterface \/ Shutdown \/ Connect
           plans == \E kind \in Kinds \cup {"none"}, holds \in BOOLEAN : Plan(kind, holds)
           ends == Up \/ Rollback \/ Rejected \/ Restore \/ StartInterface
<1> SUFFICES ASSUME Control, Control', Protected, faults' = 0, Stop \/ ends \/ asks \/ plans
             PROVE  Protected'
  BY DEF Protected
<1> DEFINE starts == << <<"chains">> >>
           installs == << <<"install">> >>
<1>1. /\ chain' = chain /\ slice' = slice /\ faults' \in {faults, faults + 1} /\ daemon
      /\ saved'.bound => saved.bound
  <2>1. CASE Stop
    <3>1. saved \in States /\ live' \in Lives
      BY DEF Control, Typed
    <3> QED
      BY <2>1, <3>1, StopStep, JournalIs
  <2>2. CASE Up \/ Rollback \/ Rejected
    BY <2>2, EndStep
  <2>3. CASE Restore
    <3>1. ~Install
      BY <2>3 DEF Restore, Install, At
    <3> QED
      BY <2>3, <3>1, LoneStep
  <2>4. CASE StartInterface
    <3>1. saved \in States /\ live \in Lives
      BY DEF Control, Typed
    <3>2. Idle => daemon
      BY DEF Idle
    <3> QED
      BY <2>4, <3>1, <3>2, StartStep, JournalIs
  <2>5. CASE asks
    <3>1. Idle => daemon
      BY DEF Idle
    <3> QED
      BY <2>5, <3>1, AskStep
  <2>6. CASE plans
    <3>1. Idle => daemon
      BY DEF Idle
    <3> QED
      BY <2>6, <3>1, PlanStep
  <2> QED
    BY <2>1, <2>2, <2>3, <2>4, <2>5, <2>6
<1>2. faults = 0
  BY <1>1, InterfacesAssumption DEF Control, Typed
<1>3. work.todo # starts /\ work.todo # installs /\ ~Reporting
  <2>0. /\ starts # <<>> /\ Head(starts)[1] = "chains"
        /\ installs # <<>> /\ Head(installs)[1] = "install"
    OBVIOUS
  <2> HIDE DEF starts, installs
  <2>1. CASE Idle
    BY <2>0, <2>1, IdleIs, Ends DEF Reporting
  <2>2. CASE ~Idle
    <3>1. At("stop") \/ At("restore") \/ At("up") \/ At("rollback") \/ At("rejected")
      <4>1. ~asks /\ ~plans /\ ~StartInterface
        BY <2>2, AskStep, PlanStep, StartStep
      <4> HIDE DEF asks, plans
      <4> QED
        BY <4>1 DEF Stop, Restore, Up, Rollback, Rejected
    <3>2. CASE At("stop") \/ At("restore")
      BY <2>0, <3>2, AtStep DEF Reporting
    <3>3. CASE At("up")
      BY <2>0, <3>3, AtStep, Ends DEF Reporting
    <3>4. CASE At("rollback") \/ At("rejected")
      BY <2>0, <3>4, AtStep DEF Reporting
    <3> QED
      BY <3>1, <3>2, <3>3, <3>4
  <2> QED
    BY <2>1, <2>2
<1> QED
  BY <1>1, <1>2, <1>3, ProtectedStays

\* The cgroup is bound, or ends; the daemon ends, or starts again.
LEMMA WorldProtected ==
    Control /\ Control' /\ Protected
    /\ (RunScope \/ RecoverChains \/ Exit \/ Crash \/ HelperDies \/ SliceEnds \/ Boot) => Protected'
<1> SUFFICES ASSUME Control, Control', Protected, faults' = 0,
                    RunScope \/ RecoverChains \/ Exit \/ Crash \/ HelperDies \/ SliceEnds \/ Boot
             PROVE  Protected'
  BY DEF Protected
<1>1. faults = 0 /\ faults' = faults
  <2>1. faults' \in {faults, faults + 1}
    BY ScopeStep, RecoveryStep, WorldStep
  <2> QED
    BY <2>1, InterfacesAssumption DEF Control, Typed
<1>2. \A what : ~Fails(what)
  BY <1>1, InterfacesAssumption DEF Fails, Control, Typed
<1>3. ASSUME ~daemon' \/ ~slice'
      PROVE  Protected'
  <2>1. ~(daemon' /\ saved'.bound /\ slice') /\ Guarded'
    BY <1>3 DEF Guarded
  <2>2. ASSUME Loose', saved'.bound, slice'
        PROVE  FALSE
    <3>1. ~daemon' => work' = NoWork
      BY DEF Control, Hosted
    <3> QED
      BY <1>3, <2>2, <3>1, Ends DEF Loose, Reporting, NoWork
  <2> QED
    BY <2>1, <2>2 DEF Protected, Loosed
<1>4. CASE RunScope
  <2>1. work' = Begin("run", << <<"install">> >>, <<>>)
    BY <1>2, <1>4 DEF RunScope
  <2> DEFINE list == << <<"install">> >>
             none == <<>>
             name == "run"
  <2>2. list # <<>> /\ none = <<>> /\ name = "run"
    OBVIOUS
  <2> HIDE DEF list, none, name
  <2>3. Begin(name, list, none).todo = list /\ Begin(name, list, none).then = none
    BY <2>2 DEF Begin, Settled, Running, NoWork
  <2>4. work'.todo = list /\ work'.then = <<>>
    BY <2>1, <2>2, <2>3 DEF list, none, name
  <2>5. ~Loose'
    BY <2>4, Ends DEF Loose, Reporting
  <2> QED
    BY <2>4, <2>5 DEF Protected, Guarded, Loosed, list
<1>5. CASE RecoverChains
  <2>1. chain' = (IF ~saved.bound THEN chain ELSE IF slice THEN "block" ELSE "off")
        /\ saved' = [saved EXCEPT !.bound = @ /\ slice] /\ slice' = slice
    BY <1>2, <1>5 DEF RecoverChains, UnaffectedByStep
  <2>2. saved'.bound => saved.bound
    BY <2>1 DEF Control, Typed, States
  <2> QED
    BY <2>1, <2>2 DEF Protected, Guarded, Loosed
<1>6. CASE SliceEnds
  BY <1>3, <1>6 DEF SliceEnds
<1>7. CASE HelperDies
  <2>1. CASE daemon
    <3>1. work = NoWork
      BY <1>7, <2>1, IdleIs DEF HelperDies
    <3>2. /\ work.todo # << <<"chains">> >> /\ work.todo # << <<"install">> >> /\ ~Reporting
      BY <3>1, Ends DEF NoWork, Reporting
    <3> QED
      BY <1>1, <1>7, <2>1, <3>2, ProtectedStays DEF HelperDies, UnaffectedByStep
  <2>2. CASE ~daemon
    BY <1>3, <1>7, <2>2 DEF HelperDies, UnaffectedByStep
  <2> QED
    BY <2>1, <2>2
<1>8. CASE Exit \/ Crash
  BY <1>3, <1>8 DEF Exit, Crash, Gone
<1>9. CASE Boot
  <2>1. work'.todo = << <<"chains">> >> /\ work'.then = Recovering
    BY <1>9, WorldStep DEF Boot, Recovering
  <2> QED
    BY <2>1, Ends DEF Protected, Guarded, Loosed, Loose, Reporting, Recovery
<1> QED
  BY <1>4, <1>5, <1>6, <1>7, <1>8, <1>9

\* All of it holds.
LEMMA ProtectedHolds == Spec => [](Control /\ Protected)
<1>1. Init => Protected
  <2> SUFFICES ASSUME Init PROVE Protected
    OBVIOUS
  <2>1. ~saved.bound
    BY NothingIs DEF Init
  <2> QED
    BY <2>1 DEF Protected, Guarded, Loosed
<1>2. /\ Control /\ Control' /\ Holding /\ Listed /\ Helped /\ Protected /\ [Next]_vars
      => Protected'
  <2> SUFFICES ASSUME Control, Control', Holding, Listed, Helped, Protected, [Next]_vars
               PROVE  Protected'
    OBVIOUS
  <2>1. CASE UNCHANGED vars
    BY <2>1 DEF vars, Protected, Guarded, Loosed, Loose, Reporting, Recovery
  <2>2. CASE Next
    BY <2>2, SteadyProtected, BeginProtected, WorldProtected DEF Next, Steady
  <2> QED
    BY <2>1, <2>2
<1> QED
  BY <1>1, <1>2, HelpedHolds, PTL DEF Spec

\* Between operations, as long as nothing failed, a running cgroup that is bound is marked
\* or blocked: whatever was asked for and in whatever order, and however often the daemon
\* crashed in between.
THEOREM BoundHolds == Spec => []BoundIsProtected
<1>1. Control /\ Protected => BoundIsProtected
  <2> SUFFICES ASSUME Control, Protected, Idle, faults = 0, saved.bound, slice
               PROVE  chain \in {"mark", "block"}
    BY DEF BoundIsProtected
  <2>1. daemon /\ work.todo = <<>> /\ work.then = <<>>
    BY IdleIs
  <2>2. /\ work.todo # << <<"chains">> >> /\ work.todo # << <<"install">> >> /\ ~Reporting
    BY <2>1, Ends DEF Reporting
  <2> QED
    BY <2>1, <2>2 DEF Protected, Guarded, Loose
<1> QED
  BY <1>1, ProtectedHolds, PTL
=============================================================================
