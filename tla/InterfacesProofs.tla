-------------------------- MODULE InterfacesProofs --------------------------
(***************************************************************************)
(* Proofs about Interfaces, for any number of failures and of crashes.     *)
(***************************************************************************)
EXTENDS Interfaces, SequenceTheorems, TLAPS

Records ==
    [kind : Kinds \cup {"none"}, dirty : BOOLEAN, planned : BOOLEAN, created : BOOLEAN,
     helper : BOOLEAN, nft : BOOLEAN]
States == [session : BOOLEAN, interface : Records, bound : BOOLEAN]
Lives ==
    [kind : Kinds \cup {"none"}, dirty : BOOLEAN, planned : BOOLEAN, created : BOOLEAN,
     fresh : BOOLEAN, up : BOOLEAN, helper : BOOLEAN, tried : BOOLEAN, restarts : 0 .. 1,
     cgroup : BOOLEAN, chain : {"off", "mark", "block"}]
Sessions == [here : BOOLEAN, holds : BOOLEAN, holding : BOOLEAN, core : BOOLEAN]

\* What `todo` is made of, by what the operation is about.
Additions == {<<"add", part>> : part \in Routing}
Deletions == {<<"delete", part>> : part \in Routing \cup {"device"}}
Builds ==
    {<<"intend">>, <<"create">>, <<"spawn">>, <<"journal">>, <<"mark">>, <<"up">>} \cup Additions
Cleans == {<<"identify">>, <<"chain">>, <<"reap">>} \cup Deletions
Recoveries ==
    {<<"chains">>, <<"reintend">>, <<"recognise">>, <<"kill">>, <<"unchain">>} \cup Deletions
Singles == {<<"stop">>, <<"restore">>, <<"rejournal">>, <<"install">>}
Steps == Builds \cup Cleans \cup Recoveries \cup Singles

\* What `then` may be: what follows a start, a rollback, a recovery,
Rolling == << <<"rollback">>, <<"rejected">> >>
Rolled == << <<"undone">>, <<"rejected">> >>
Deleting == << <<"deleted">> >>
Recovering == << <<"recovered">> >>
Rejecting == << <<"rejected">> >>
Launching == << <<"launch">> >>
Forgetting == << <<"forget">> >>
Planning == << <<"plan">> >>
Releasing == << <<"released">> >>
Removing == << <<"removed">> >>
RemovingLast == << <<"removed">>, <<"exit">> >>
Exiting == << <<"exit">> >>

\* what may be left after the interface was stopped,
After == {<<>>, Launching, Forgetting, Planning, Releasing, Removing, RemovingLast, Exiting}

\* and a stop that goes on with it.
Stopping(after) == << <<"stopped">> >> \o after
Stoppings == {Stopping(after) : after \in After}

Thens == After \cup Stoppings \cup {Rolling, Rolled, Deleting, Recovering, Rejecting}

\* What an operation is called.
Names ==
    {"idle", "start", "supervise", "connect", "disable", "switch", "release", "fail", "stop",
     "down", "delete", "run", "recover"}

TypedWork ==
    [name : Names, todo : Seq(Steps), then : Thens, verdict : {"release", "block"},
     deletes : BOOLEAN, failed : BOOLEAN]

\* The values of the variables.
Typed ==
    /\ kernel \subseteq Kinds \X Parts
    /\ chain \in {"off", "mark", "block", "stale"}
    /\ slice \in BOOLEAN /\ daemon \in BOOLEAN
    /\ saved \in States /\ disk \in States
    /\ session \in Sessions /\ live \in Lives
    /\ work \in TypedWork
    /\ faults \in 0 .. MaxFaults /\ crashes \in 0 .. MaxCrashes

-----------------------------------------------------------------------------
(* Lists of steps.                                                         *)

Only(list, steps) == \A i \in DOMAIN list : list[i] \in steps
Has(list, step) == \E i \in DOMAIN list : list[i] = step

\* Whenever `later` is still to come, so is `earlier`, before it.
Before(list, earlier, later) ==
    \A i \in DOMAIN list : list[i] = later => \E j \in DOMAIN list : j < i /\ list[j] = earlier

\* Every kind of step is a step.
LEMMA StepsAre ==
    /\ Builds \subseteq Steps /\ Cleans \subseteq Steps /\ Recoveries \subseteq Steps
    /\ Singles \subseteq Steps
  BY DEF Steps

\* What is left when the first step was done.
LEMMA TailKeeps ==
    ASSUME NEW list \in Seq(Steps), list # <<>>
    PROVE  /\ Head(list) \in Steps /\ Tail(list) \in Seq(Steps)
           /\ \A steps : Only(list, steps) => Head(list) \in steps /\ Only(Tail(list), steps)
           /\ \A step : Has(Tail(list), step) => Has(list, step)
           /\ \A step : Has(list, step) /\ Head(list) # step => Has(Tail(list), step)
           /\ \A one, two : Before(list, one, two) => Head(list) # two
           /\ \A one, two : Before(list, one, two) /\ Head(list) # one => Before(Tail(list), one, two)
<1>1. /\ Head(list) \in Steps /\ Head(list) = list[1] /\ Tail(list) \in Seq(Steps)
      /\ Len(list) \in Nat \ {0} /\ DOMAIN list = 1 .. Len(list)
      /\ DOMAIN Tail(list) = 1 .. Len(list) - 1
      /\ \A i \in DOMAIN Tail(list) : i + 1 \in DOMAIN list /\ Tail(list)[i] = list[i + 1]
  OBVIOUS
<1>2. \A i \in DOMAIN list : i # 1 => i - 1 \in DOMAIN Tail(list) /\ Tail(list)[i - 1] = list[i]
  BY <1>1
<1>3. \A steps : Only(list, steps) => Head(list) \in steps /\ Only(Tail(list), steps)
  BY <1>1 DEF Only
<1>4. \A step : Has(Tail(list), step) => Has(list, step)
  BY <1>1 DEF Has
<1>5. \A step : Has(list, step) /\ Head(list) # step => Has(Tail(list), step)
  BY <1>1, <1>2 DEF Has
<1>6. \A one, two : Before(list, one, two) => Head(list) # two
  BY <1>1 DEF Before
<1>7. ASSUME NEW one, NEW two, Before(list, one, two), Head(list) # one,
             NEW i \in DOMAIN Tail(list), Tail(list)[i] = two
      PROVE  \E j \in DOMAIN Tail(list) : j < i /\ Tail(list)[j] = one
  <2>1. i + 1 \in DOMAIN list /\ list[i + 1] = two
    BY <1>1, <1>7
  <2>2. PICK j \in DOMAIN list : j < i + 1 /\ list[j] = one
    BY <1>7, <2>1 DEF Before
  <2>3. j # 1 /\ j \in Nat /\ i \in Nat
    BY <1>1, <1>7, <2>2
  <2>4. j - 1 \in DOMAIN Tail(list) /\ Tail(list)[j - 1] = one /\ j - 1 < i
    BY <1>2, <2>2, <2>3
  <2> QED
    BY <2>4
<1>8. \A one, two : Before(list, one, two) /\ Head(list) # one => Before(Tail(list), one, two)
  BY <1>7 DEF Before
<1> QED
  BY <1>1, <1>3, <1>4, <1>5, <1>6, <1>8

\* Nothing is in the empty list.
LEMMA EmptyIs ==
    /\ <<>> \in Seq(Steps)
    /\ \A steps : Only(<<>>, steps)
    /\ \A step : ~Has(<<>>, step)
    /\ \A one, two : Before(<<>>, one, two)
  BY DEF Only, Has, Before

\* The list of one step.
LEMMA SingleIs ==
    ASSUME NEW step \in Singles
    PROVE  /\ <<step>> \in Seq(Steps) /\ <<step>> # <<>> /\ Head(<<step>>) = step
           /\ Tail(<<step>>) = <<>>
           /\ \A other : Has(<<step>>, other) <=> other = step
           /\ \A one, two : two # step => Before(<<step>>, one, two)
<1>1. step \in Steps
  BY StepsAre
<1> QED
  BY <1>1 DEF Has, Before

-----------------------------------------------------------------------------
(* What comes after the list: `then`.                                      *)

\* What is kept of one step.
Keeping(step) == IF step[1] \in Unconditional THEN <<step>> ELSE <<>>

\* What a failure leaves of lists of up to three steps, whatever the steps are.
LEMMA KeptNone ==
    Kept(<<>>) = <<>>
<1> DEFINE s == <<>>
           kept[n \in 0 .. Len(s)] ==
               IF n = 0 THEN <<>>
               ELSE kept[n - 1] \o (IF s[n][1] \in Unconditional THEN <<s[n]>> ELSE <<>>)
           g == [n \in 0 .. Len(s) |-> <<>>]
<1>1. Len(s) = 0 /\ 0 .. Len(s) = {0}
  OBVIOUS
<1>2. /\ g[0] = <<>>
  BY <1>1
<1>3. g = [n \in 0 .. Len(s) |-> g[n]]
  OBVIOUS
<1>5. g = [n \in 0 .. Len(s) |->
                IF n = 0 THEN <<>>
                ELSE g[n - 1] \o (IF s[n][1] \in Unconditional THEN <<s[n]>> ELSE <<>>)]
  <2> HIDE DEF g
  <2> SUFFICES ASSUME NEW n \in 0 .. Len(s)
               PROVE  g[n] = IF n = 0 THEN <<>>
                             ELSE g[n - 1] \o (IF s[n][1] \in Unconditional THEN <<s[n]>> ELSE <<>>)
    BY <1>3
  <2>1. CASE n = 0
    BY <2>1, <1>2
  <2> HIDE DEF s
  <2> QED
    BY <1>1, <2>1
<1>6. kept = [n \in 0 .. Len(s) |->
                IF n = 0 THEN <<>>
                ELSE kept[n - 1] \o (IF s[n][1] \in Unconditional THEN <<s[n]>> ELSE <<>>)]
  <2> HIDE DEF g
  <2> QED
    BY <1>5
<1>7. Kept(s) = kept[Len(s)]
  BY DEF Kept
<1> HIDE DEF kept
<1>8. \A n \in 0 .. Len(s) : kept[n] =
          IF n = 0 THEN <<>>
          ELSE kept[n - 1] \o (IF s[n][1] \in Unconditional THEN <<s[n]>> ELSE <<>>)
  BY <1>6
<1>9. /\ kept[0] = <<>>
  <2>1. kept[0] = <<>>
    BY <1>8, <1>1
  <2> QED
    BY <2>1
<1> QED
  BY <1>1, <1>7, <1>9

\* Of one step.
LEMMA KeptOne ==
    ASSUME NEW a
    PROVE  Kept(<<a>>) = <<>> \o Keeping(a)
<1> DEFINE s == <<a>>
           kept[n \in 0 .. Len(s)] ==
               IF n = 0 THEN <<>>
               ELSE kept[n - 1] \o (IF s[n][1] \in Unconditional THEN <<s[n]>> ELSE <<>>)
           g == [n \in 0 .. Len(s) |-> IF n = 0 THEN <<>> ELSE <<>> \o Keeping(a)]
<1>1. Len(s) = 1 /\ 0 .. Len(s) = {0, 1}
  OBVIOUS
<1>2. /\ g[0] = <<>>
      /\ g[1] = <<>> \o Keeping(a)
  BY <1>1
<1>3. g = [n \in 0 .. Len(s) |-> g[n]]
  OBVIOUS
<1>4. /\ Keeping(a) = IF s[1][1] \in Unconditional THEN <<s[1]>> ELSE <<>>
  BY DEF Keeping
<1>5. g = [n \in 0 .. Len(s) |->
                IF n = 0 THEN <<>>
                ELSE g[n - 1] \o (IF s[n][1] \in Unconditional THEN <<s[n]>> ELSE <<>>)]
  <2> HIDE DEF g
  <2> SUFFICES ASSUME NEW n \in 0 .. Len(s)
               PROVE  g[n] = IF n = 0 THEN <<>>
                             ELSE g[n - 1] \o (IF s[n][1] \in Unconditional THEN <<s[n]>> ELSE <<>>)
    BY <1>3
  <2>1. CASE n = 0
    BY <2>1, <1>2
  <2>2. CASE n = 1
    <3>1. n - 1 = 0 /\ n # 0
      BY <2>2
    <3>2. g[n] = g[n - 1] \o Keeping(a)
      BY <2>2, <3>1, <1>2
    <3>3. Keeping(a) = IF s[n][1] \in Unconditional THEN <<s[n]>> ELSE <<>>
      BY <2>2, <1>4
    <3> QED
      BY <3>1, <3>2, <3>3
  <2> HIDE DEF s
  <2> QED
    BY <1>1, <2>1, <2>2
<1>6. kept = [n \in 0 .. Len(s) |->
                IF n = 0 THEN <<>>
                ELSE kept[n - 1] \o (IF s[n][1] \in Unconditional THEN <<s[n]>> ELSE <<>>)]
  <2> HIDE DEF g
  <2> QED
    BY <1>5
<1>7. Kept(s) = kept[Len(s)]
  BY DEF Kept
<1> HIDE DEF kept
<1>8. \A n \in 0 .. Len(s) : kept[n] =
          IF n = 0 THEN <<>>
          ELSE kept[n - 1] \o (IF s[n][1] \in Unconditional THEN <<s[n]>> ELSE <<>>)
  BY <1>6
<1>9. /\ kept[0] = <<>>
      /\ kept[1] = kept[0] \o Keeping(a)
  <2>1. kept[0] = <<>>
    BY <1>8, <1>1
  <2>2. kept[1] = kept[0] \o Keeping(a)
    <3>1. 1 \in 0 .. Len(s) /\ 1 - 1 = 0 /\ 1 # 0
      BY <1>1
    <3> QED
      BY <3>1, <1>8, <1>4
  <2> QED
    BY <2>1, <2>2
<1> QED
  BY <1>1, <1>7, <1>9

\* Of two steps.
LEMMA KeptTwo ==
    ASSUME NEW a, NEW b
    PROVE  Kept(<<a, b>>) = (<<>> \o Keeping(a)) \o Keeping(b)
<1> DEFINE s == <<a, b>>
           kept[n \in 0 .. Len(s)] ==
               IF n = 0 THEN <<>>
               ELSE kept[n - 1] \o (IF s[n][1] \in Unconditional THEN <<s[n]>> ELSE <<>>)
           g == [n \in 0 .. Len(s) |->
                    IF n = 0 THEN <<>> ELSE IF n = 1 THEN <<>> \o Keeping(a)
                    ELSE (<<>> \o Keeping(a)) \o Keeping(b)]
<1>1. Len(s) = 2 /\ 0 .. Len(s) = {0, 1, 2}
  OBVIOUS
<1>2. /\ g[0] = <<>>
      /\ g[1] = <<>> \o Keeping(a)
      /\ g[2] = (<<>> \o Keeping(a)) \o Keeping(b)
  BY <1>1
<1>3. g = [n \in 0 .. Len(s) |-> g[n]]
  OBVIOUS
<1>4. /\ Keeping(a) = IF s[1][1] \in Unconditional THEN <<s[1]>> ELSE <<>>
      /\ Keeping(b) = IF s[2][1] \in Unconditional THEN <<s[2]>> ELSE <<>>
  BY DEF Keeping
<1>5. g = [n \in 0 .. Len(s) |->
                IF n = 0 THEN <<>>
                ELSE g[n - 1] \o (IF s[n][1] \in Unconditional THEN <<s[n]>> ELSE <<>>)]
  <2> HIDE DEF g
  <2> SUFFICES ASSUME NEW n \in 0 .. Len(s)
               PROVE  g[n] = IF n = 0 THEN <<>>
                             ELSE g[n - 1] \o (IF s[n][1] \in Unconditional THEN <<s[n]>> ELSE <<>>)
    BY <1>3
  <2>1. CASE n = 0
    BY <2>1, <1>2
  <2>2. CASE n = 1
    <3>1. n - 1 = 0 /\ n # 0
      BY <2>2
    <3>2. g[n] = g[n - 1] \o Keeping(a)
      BY <2>2, <3>1, <1>2
    <3>3. Keeping(a) = IF s[n][1] \in Unconditional THEN <<s[n]>> ELSE <<>>
      BY <2>2, <1>4
    <3> QED
      BY <3>1, <3>2, <3>3
  <2>3. CASE n = 2
    <3>1. n - 1 = 1 /\ n # 0
      BY <2>3
    <3>2. g[n] = g[n - 1] \o Keeping(b)
      BY <2>3, <3>1, <1>2
    <3>3. Keeping(b) = IF s[n][1] \in Unconditional THEN <<s[n]>> ELSE <<>>
      BY <2>3, <1>4
    <3> QED
      BY <3>1, <3>2, <3>3
  <2> HIDE DEF s
  <2> QED
    BY <1>1, <2>1, <2>2, <2>3
<1>6. kept = [n \in 0 .. Len(s) |->
                IF n = 0 THEN <<>>
                ELSE kept[n - 1] \o (IF s[n][1] \in Unconditional THEN <<s[n]>> ELSE <<>>)]
  <2> HIDE DEF g
  <2> QED
    BY <1>5
<1>7. Kept(s) = kept[Len(s)]
  BY DEF Kept
<1> HIDE DEF kept
<1>8. \A n \in 0 .. Len(s) : kept[n] =
          IF n = 0 THEN <<>>
          ELSE kept[n - 1] \o (IF s[n][1] \in Unconditional THEN <<s[n]>> ELSE <<>>)
  BY <1>6
<1>9. /\ kept[0] = <<>>
      /\ kept[1] = kept[0] \o Keeping(a)
      /\ kept[2] = kept[1] \o Keeping(b)
  <2>1. kept[0] = <<>>
    BY <1>8, <1>1
  <2>2. kept[1] = kept[0] \o Keeping(a)
    <3>1. 1 \in 0 .. Len(s) /\ 1 - 1 = 0 /\ 1 # 0
      BY <1>1
    <3> QED
      BY <3>1, <1>8, <1>4
  <2>3. kept[2] = kept[1] \o Keeping(b)
    <3>1. 2 \in 0 .. Len(s) /\ 2 - 1 = 1 /\ 2 # 0
      BY <1>1
    <3> QED
      BY <3>1, <1>8, <1>4
  <2> QED
    BY <2>1, <2>2, <2>3
<1> QED
  BY <1>1, <1>7, <1>9

\* How short lists are joined.
LEMMA Joined ==
    ASSUME NEW x, NEW y
    PROVE  /\ <<>> \o <<>> = <<>> /\ <<>> \o <<x>> = <<x>> /\ <<x>> \o <<>> = <<x>>
           /\ <<x>> \o <<y>> = <<x, y>>
<1> DEFINE S == {x, y}
<1>1. <<x>> \in Seq(S) /\ <<y>> \in Seq(S) /\ <<x, y>> \in Seq(S) /\ <<>> \in Seq(S)
  OBVIOUS
<1>2. <<>> \o <<>> = <<>> /\ <<>> \o <<x>> = <<x>> /\ <<x>> \o <<>> = <<x>>
  BY <1>1, ConcatEmptySeq
<1>3. Len(<<x>> \o <<y>>) = 2 /\ <<x>> \o <<y>> \in Seq(S)
  BY <1>1, ConcatProperties
<1>4. (<<x>> \o <<y>>)[1] = x /\ (<<x>> \o <<y>>)[2] = y
  BY <1>1
<1>5. Len(<<x, y>>) = 2 /\ \A i \in 1 .. 2 : (<<x>> \o <<y>>)[i] = <<x, y>>[i]
  BY <1>4
<1>6. <<x>> \o <<y>> = <<x, y>>
  BY <1>1, <1>3, <1>5, SeqEqual
<1> QED
  BY <1>2, <1>6

\* What is kept of lists as long as those of this module.
LEMMA KeptOfOne ==
    ASSUME NEW a
    PROVE  Kept(<<a>>) = IF a[1] \in Unconditional THEN <<a>> ELSE <<>>
<1>1. Kept(<<a>>) = <<>> \o Keeping(a)
  BY KeptOne
<1>2. <<>> \o <<>> = <<>> /\ <<>> \o <<a>> = <<a>>
  BY Joined
<1> QED
  BY <1>1, <1>2 DEF Keeping

\* A first step that is not dropped.
LEMMA KeptOfTwo ==
    ASSUME NEW a, NEW b, a[1] \in Unconditional
    PROVE  Kept(<<a, b>>) = IF b[1] \in Unconditional THEN <<a, b>> ELSE <<a>>
<1>1. Kept(<<a, b>>) = (<<>> \o Keeping(a)) \o Keeping(b)
  BY KeptTwo
<1>2. <<>> \o <<a>> = <<a>> /\ <<a>> \o <<>> = <<a>> /\ <<a>> \o <<b>> = <<a, b>>
  BY Joined
<1>3. Keeping(a) = <<a>> /\ Keeping(b) = IF b[1] \in Unconditional THEN <<b>> ELSE <<>>
  BY DEF Keeping
<1> QED
  BY <1>1, <1>2, <1>3

\* A first step that is dropped.
LEMMA KeptOfLast ==
    ASSUME NEW a, NEW b, a[1] \notin Unconditional, b[1] \in Unconditional
    PROVE  Kept(<<a, b>>) = <<b>>
<1>1. Kept(<<a, b>>) = (<<>> \o Keeping(a)) \o Keeping(b)
  BY KeptTwo
<1>2. <<>> \o <<b>> = <<b>> /\ <<>> \o <<>> = <<>>
  BY Joined
<1>3. Keeping(a) = <<>> /\ Keeping(b) = <<b>>
  BY DEF Keeping
<1> QED
  BY <1>1, <1>2, <1>3

\* A step that is dropped between two that are not.
LEMMA KeptOfThree ==
    ASSUME NEW a, NEW b, NEW c,
           a[1] \in Unconditional, b[1] \notin Unconditional, c[1] \in Unconditional
    PROVE  Kept(<<a, b, c>>) = <<a, c>>
<1> DEFINE s == <<a, b, c>>
           kept[n \in 0 .. Len(s)] ==
               IF n = 0 THEN <<>>
               ELSE kept[n - 1] \o (IF s[n][1] \in Unconditional THEN <<s[n]>> ELSE <<>>)
           g == [n \in 0 .. Len(s) |->
                    IF n = 0 THEN <<>> ELSE IF n = 1 THEN <<>> \o Keeping(a)
                    ELSE IF n = 2 THEN (<<>> \o Keeping(a)) \o Keeping(b)
                    ELSE ((<<>> \o Keeping(a)) \o Keeping(b)) \o Keeping(c)]
<1>1. Len(s) = 3 /\ 0 .. Len(s) = {0, 1, 2, 3}
  OBVIOUS
<1>2. /\ g[0] = <<>>
      /\ g[1] = <<>> \o Keeping(a)
      /\ g[2] = (<<>> \o Keeping(a)) \o Keeping(b)
      /\ g[3] = ((<<>> \o Keeping(a)) \o Keeping(b)) \o Keeping(c)
  BY <1>1
<1>3. g = [n \in 0 .. Len(s) |-> g[n]]
  OBVIOUS
<1>4. /\ Keeping(a) = IF s[1][1] \in Unconditional THEN <<s[1]>> ELSE <<>>
      /\ Keeping(b) = IF s[2][1] \in Unconditional THEN <<s[2]>> ELSE <<>>
      /\ Keeping(c) = IF s[3][1] \in Unconditional THEN <<s[3]>> ELSE <<>>
  BY DEF Keeping
<1>5. g = [n \in 0 .. Len(s) |->
                IF n = 0 THEN <<>>
                ELSE g[n - 1] \o (IF s[n][1] \in Unconditional THEN <<s[n]>> ELSE <<>>)]
  <2> HIDE DEF g
  <2> SUFFICES ASSUME NEW n \in 0 .. Len(s)
               PROVE  g[n] = IF n = 0 THEN <<>>
                             ELSE g[n - 1] \o (IF s[n][1] \in Unconditional THEN <<s[n]>> ELSE <<>>)
    BY <1>3
  <2>1. CASE n = 0
    BY <2>1, <1>2
  <2>2. CASE n = 1
    <3>1. n - 1 = 0 /\ n # 0
      BY <2>2
    <3>2. g[n] = g[n - 1] \o Keeping(a)
      BY <2>2, <3>1, <1>2
    <3>3. Keeping(a) = IF s[n][1] \in Unconditional THEN <<s[n]>> ELSE <<>>
      BY <2>2, <1>4
    <3> QED
      BY <3>1, <3>2, <3>3
  <2>3. CASE n = 2
    <3>1. n - 1 = 1 /\ n # 0
      BY <2>3
    <3>2. g[n] = g[n - 1] \o Keeping(b)
      BY <2>3, <3>1, <1>2
    <3>3. Keeping(b) = IF s[n][1] \in Unconditional THEN <<s[n]>> ELSE <<>>
      BY <2>3, <1>4
    <3> QED
      BY <3>1, <3>2, <3>3
  <2>4. CASE n = 3
    <3>1. n - 1 = 2 /\ n # 0
      BY <2>4
    <3>2. g[n] = g[n - 1] \o Keeping(c)
      BY <2>4, <3>1, <1>2
    <3>3. Keeping(c) = IF s[n][1] \in Unconditional THEN <<s[n]>> ELSE <<>>
      BY <2>4, <1>4
    <3> QED
      BY <3>1, <3>2, <3>3
  <2> HIDE DEF s
  <2> QED
    BY <1>1, <2>1, <2>2, <2>3, <2>4
<1>6. kept = [n \in 0 .. Len(s) |->
                IF n = 0 THEN <<>>
                ELSE kept[n - 1] \o (IF s[n][1] \in Unconditional THEN <<s[n]>> ELSE <<>>)]
  <2> HIDE DEF g
  <2> QED
    BY <1>5
<1>7. Kept(s) = kept[Len(s)]
  BY DEF Kept
<1> HIDE DEF kept
<1>8. \A n \in 0 .. Len(s) : kept[n] =
          IF n = 0 THEN <<>>
          ELSE kept[n - 1] \o (IF s[n][1] \in Unconditional THEN <<s[n]>> ELSE <<>>)
  BY <1>6
<1>9. /\ kept[0] = <<>>
      /\ kept[1] = kept[0] \o Keeping(a)
      /\ kept[2] = kept[1] \o Keeping(b)
      /\ kept[3] = kept[2] \o Keeping(c)
  <2>1. kept[0] = <<>>
    BY <1>8, <1>1
  <2>2. kept[1] = kept[0] \o Keeping(a)
    <3>1. 1 \in 0 .. Len(s) /\ 1 - 1 = 0 /\ 1 # 0
      BY <1>1
    <3> QED
      BY <3>1, <1>8, <1>4
  <2>3. kept[2] = kept[1] \o Keeping(b)
    <3>1. 2 \in 0 .. Len(s) /\ 2 - 1 = 1 /\ 2 # 0
      BY <1>1
    <3> QED
      BY <3>1, <1>8, <1>4
  <2>4. kept[3] = kept[2] \o Keeping(c)
    <3>1. 3 \in 0 .. Len(s) /\ 3 - 1 = 2 /\ 3 # 0
      BY <1>1
    <3> QED
      BY <3>1, <1>8, <1>4
  <2> QED
    BY <2>1, <2>2, <2>3, <2>4
<1>10. Keeping(a) = <<a>> /\ Keeping(b) = <<>> /\ Keeping(c) = <<c>>
  BY DEF Keeping
<1>11. <<>> \o <<a>> = <<a>> /\ <<a>> \o <<>> = <<a>>
  BY Joined
<1>12. <<a>> \o <<c>> = <<a, c>>
  BY Joined
<1> QED
  BY <1>1, <1>7, <1>9, <1>10, <1>11, <1>12

\* The step that comes once the list is empty.
Stage(then) == IF then = <<>> THEN "end" ELSE Head(then)[1]

\* Where an operation is when its list is empty, and what is left of it after a failure.
LEMMA Ends ==
    /\ Stage(<<>>) = "end" /\ Kept(<<>>) = <<>>
    /\ Stage(Rolling) = "rollback" /\ Tail(Rolling) = Rejecting /\ Kept(Rolling) = Rolling
    /\ Stage(Rolled) = "undone" /\ Tail(Rolled) = Rejecting /\ Kept(Rolled) = Rolled
    /\ Stage(Deleting) = "deleted" /\ Tail(Deleting) = <<>> /\ Kept(Deleting) = <<>>
    /\ Stage(Recovering) = "recovered" /\ Tail(Recovering) = <<>> /\ Kept(Recovering) = Recovering
    /\ Stage(Rejecting) = "rejected" /\ Tail(Rejecting) = <<>> /\ Kept(Rejecting) = Rejecting
    /\ Stage(Launching) = "launch" /\ Tail(Launching) = <<>> /\ Kept(Launching) = <<>>
    /\ Stage(Forgetting) = "forget" /\ Tail(Forgetting) = <<>> /\ Kept(Forgetting) = <<>>
    /\ Stage(Planning) = "plan" /\ Tail(Planning) = <<>> /\ Kept(Planning) = <<>>
    /\ Stage(Releasing) = "released" /\ Tail(Releasing) = <<>> /\ Kept(Releasing) = Releasing
    /\ Stage(Removing) = "removed" /\ Tail(Removing) = <<>> /\ Kept(Removing) = <<>>
    /\ Stage(RemovingLast) = "removed" /\ Tail(RemovingLast) = Exiting
    /\ Kept(RemovingLast) = Exiting
    /\ Stage(Exiting) = "exit" /\ Tail(Exiting) = <<>> /\ Kept(Exiting) = Exiting
<1>1. Stage(<<>>) = "end" /\ Kept(<<>>) = <<>>
  BY KeptNone DEF Stage
<1>2. Stage(Rolling) = "rollback" /\ Tail(Rolling) = Rejecting /\ Kept(Rolling) = Rolling
  <2>1. Stage(Rolling) = "rollback" /\ Tail(Rolling) = Rejecting
    BY DEF Stage, Rolling, Rejecting
  <2>2. <<"rollback">>[1] \in Unconditional /\ <<"rejected">>[1] \in Unconditional
    BY DEF Unconditional
  <2> QED
    BY <2>1, <2>2, KeptOfTwo DEF Rolling, Rejecting
<1>3. Stage(Rolled) = "undone" /\ Tail(Rolled) = Rejecting /\ Kept(Rolled) = Rolled
  <2>1. Stage(Rolled) = "undone"
    BY DEF Stage, Rolled
  <2>3. Tail(Rolled) = Rejecting
    BY DEF Rolled, Rejecting
  <2>2. <<"undone">>[1] \in Unconditional /\ <<"rejected">>[1] \in Unconditional
    BY DEF Unconditional
  <2> QED
    BY <2>1, <2>2, <2>3, KeptOfTwo DEF Rolled, Rejecting
<1>4. Stage(Deleting) = "deleted" /\ Tail(Deleting) = <<>> /\ Kept(Deleting) = <<>>
  <2>1. Stage(Deleting) = "deleted" /\ Tail(Deleting) = <<>>
    BY DEF Stage, Deleting
  <2>2. <<"deleted">>[1] \notin Unconditional
    BY DEF Unconditional
  <2> QED
    BY <2>1, <2>2, KeptOfOne DEF Deleting
<1>5. Stage(Recovering) = "recovered" /\ Tail(Recovering) = <<>> /\ Kept(Recovering) = Recovering
  <2>1. Stage(Recovering) = "recovered" /\ Tail(Recovering) = <<>>
    BY DEF Stage, Recovering
  <2>2. <<"recovered">>[1] \in Unconditional
    BY DEF Unconditional
  <2> QED
    BY <2>1, <2>2, KeptOfOne DEF Recovering
<1>6. Stage(Rejecting) = "rejected" /\ Tail(Rejecting) = <<>> /\ Kept(Rejecting) = Rejecting
  <2>1. Stage(Rejecting) = "rejected" /\ Tail(Rejecting) = <<>>
    BY DEF Stage, Rejecting
  <2>2. <<"rejected">>[1] \in Unconditional
    BY DEF Unconditional
  <2> QED
    BY <2>1, <2>2, KeptOfOne DEF Rejecting
<1>7. Stage(Launching) = "launch" /\ Tail(Launching) = <<>> /\ Kept(Launching) = <<>>
  <2>1. Stage(Launching) = "launch" /\ Tail(Launching) = <<>>
    BY DEF Stage, Launching
  <2>2. <<"launch">>[1] \notin Unconditional
    BY DEF Unconditional
  <2> QED
    BY <2>1, <2>2, KeptOfOne DEF Launching
<1>8. Stage(Forgetting) = "forget" /\ Tail(Forgetting) = <<>> /\ Kept(Forgetting) = <<>>
  <2>1. Stage(Forgetting) = "forget" /\ Tail(Forgetting) = <<>>
    BY DEF Stage, Forgetting
  <2>2. <<"forget">>[1] \notin Unconditional
    BY DEF Unconditional
  <2> QED
    BY <2>1, <2>2, KeptOfOne DEF Forgetting
<1>9. Stage(Planning) = "plan" /\ Tail(Planning) = <<>> /\ Kept(Planning) = <<>>
  <2>1. Stage(Planning) = "plan" /\ Tail(Planning) = <<>>
    BY DEF Stage, Planning
  <2>2. <<"plan">>[1] \notin Unconditional
    BY DEF Unconditional
  <2> QED
    BY <2>1, <2>2, KeptOfOne DEF Planning
<1>10. Stage(Releasing) = "released" /\ Tail(Releasing) = <<>> /\ Kept(Releasing) = Releasing
  <2>1. Stage(Releasing) = "released" /\ Tail(Releasing) = <<>>
    BY DEF Stage, Releasing
  <2>2. <<"released">>[1] \in Unconditional
    BY DEF Unconditional
  <2> QED
    BY <2>1, <2>2, KeptOfOne DEF Releasing
<1>11. Stage(Removing) = "removed" /\ Tail(Removing) = <<>> /\ Kept(Removing) = <<>>
  <2>1. Stage(Removing) = "removed" /\ Tail(Removing) = <<>>
    BY DEF Stage, Removing
  <2>2. <<"removed">>[1] \notin Unconditional
    BY DEF Unconditional
  <2> QED
    BY <2>1, <2>2, KeptOfOne DEF Removing
<1>12. Stage(RemovingLast) = "removed" /\ Tail(RemovingLast) = Exiting /\ Kept(RemovingLast) = Exiting
  <2>1. Stage(RemovingLast) = "removed" /\ Tail(RemovingLast) = Exiting
    BY DEF Stage, RemovingLast, Exiting
  <2>2. <<"removed">>[1] \notin Unconditional /\ <<"exit">>[1] \in Unconditional
    BY DEF Unconditional
  <2> QED
    BY <2>1, <2>2, KeptOfLast DEF RemovingLast, Exiting
<1>13. Stage(Exiting) = "exit" /\ Tail(Exiting) = <<>> /\ Kept(Exiting) = Exiting
  <2>1. Stage(Exiting) = "exit" /\ Tail(Exiting) = <<>>
    BY DEF Stage, Exiting
  <2>2. <<"exit">>[1] \in Unconditional
    BY DEF Unconditional
  <2> QED
    BY <2>1, <2>2, KeptOfOne DEF Exiting
<1> QED
  BY <1>1, <1>2, <1>3, <1>4, <1>5, <1>6, <1>7, <1>8, <1>9, <1>10, <1>11, <1>12, <1>13

\* A stop, and what is left of the operation when it fails.
LEMMA StopEnds ==
    ASSUME NEW after \in After
    PROVE  /\ Stopping(after) # <<>> /\ Stage(Stopping(after)) = "stopped"
           /\ Tail(Stopping(after)) = after
           /\ Kept(after) \in After /\ Kept(Stopping(after)) = Stopping(Kept(after))
<1> DEFINE stopped == <<"stopped">>
<1>1. stopped[1] = "stopped" /\ stopped[1] \in Unconditional
  BY DEF Unconditional
<1> HIDE DEF stopped
<1>2. Stopping(after) = <<stopped>> \o after
  BY DEF Stopping, stopped
<1>3. \A x : Kept(<<stopped, x>>) = IF x[1] \in Unconditional THEN <<stopped, x>> ELSE <<stopped>>
  BY <1>1, KeptOfTwo
<1>4. \A x : <<stopped>> \o <<x>> = <<stopped, x>> /\ <<stopped>> \o <<>> = <<stopped>>
  BY Joined
<1>5. Kept(<<stopped>>) = <<stopped>>
  BY <1>1, KeptOfOne
<1>6. CASE after = <<>>
  <2>1. Stopping(after) = <<stopped>> /\ Kept(after) = <<>>
    BY <1>2, <1>4, <1>6, Ends
  <2>2. Stopping(Kept(after)) = <<stopped>>
    BY <2>1, <1>6
  <2> QED
    BY <2>1, <2>2, <1>1, <1>5, <1>6 DEF After, Stage
<1>7. ASSUME NEW x, after = <<x>>, Kept(after) = IF x[1] \in Unconditional THEN after ELSE <<>>
      PROVE  /\ Stopping(after) # <<>> /\ Stage(Stopping(after)) = "stopped"
             /\ Tail(Stopping(after)) = after
             /\ Kept(after) \in After /\ Kept(Stopping(after)) = Stopping(Kept(after))
  <2>1. Stopping(after) = <<stopped, x>>
    BY <1>2, <1>4, <1>7
  <2>2. Stopping(<<>>) = <<stopped>>
    BY <1>4 DEF Stopping, stopped
  <2>3. Kept(after) \in After
    BY <1>7 DEF After
  <2>4. Kept(Stopping(after)) = Stopping(Kept(after))
    BY <2>1, <2>2, <1>3, <1>7
  <2> QED
    BY <2>1, <2>3, <2>4, <1>1, <1>7 DEF Stage
<1>8. CASE after = RemovingLast
  <2>1. Kept(after) = Exiting /\ Exiting \in After
    BY <1>8, Ends DEF After
  <2> DEFINE removed == <<"removed">>
             exit == <<"exit">>
  <2>2. removed[1] \notin Unconditional /\ exit[1] \in Unconditional
    BY DEF Unconditional
  <2>3. RemovingLast = <<removed, exit>> /\ Exiting = <<exit>>
    BY DEF RemovingLast, Exiting
  <2> HIDE DEF removed, exit
  <2>4. Kept(<<stopped, removed, exit>>) = <<stopped, exit>>
    BY <1>1, <2>2, KeptOfThree
  <2>5. <<stopped>> \o <<removed, exit>> = <<stopped, removed, exit>>
    <3> DEFINE S == {stopped, removed, exit}
    <3>1. /\ <<stopped>> \in Seq(S) /\ <<removed, exit>> \in Seq(S)
          /\ <<stopped, removed, exit>> \in Seq(S)
      OBVIOUS
    <3>2. /\ Len(<<stopped>> \o <<removed, exit>>) = 3
          /\ <<stopped>> \o <<removed, exit>> \in Seq(S)
      BY <3>1, ConcatProperties
    <3>3. /\ (<<stopped>> \o <<removed, exit>>)[1] = stopped
          /\ (<<stopped>> \o <<removed, exit>>)[2] = removed
          /\ (<<stopped>> \o <<removed, exit>>)[3] = exit
      BY <3>1
    <3>4. \A i \in 1 .. 3 : (<<stopped>> \o <<removed, exit>>)[i] = <<stopped, removed, exit>>[i]
      BY <3>3
    <3>5. Len(<<stopped, removed, exit>>) = 3
      OBVIOUS
    <3> QED
      BY <3>1, <3>2, <3>4, <3>5, SeqEqual
  <2>6. Stopping(after) = <<stopped, removed, exit>>
    BY <1>2, <1>8, <2>3, <2>5
  <2>7. Stopping(Kept(after)) = <<stopped, exit>>
    BY <1>4, <2>1, <2>3 DEF Stopping, stopped
  <2> QED
    BY <2>1, <2>3, <2>4, <2>6, <2>7, <1>1, <1>8 DEF Stage
<1>9. after \notin {<<>>, RemovingLast} => \E x : after = <<x>>
  BY DEF After, Launching, Forgetting, Planning, Releasing, Removing, Exiting
<1>10. ASSUME NEW x, after = <<x>>
       PROVE  Kept(after) = IF x[1] \in Unconditional THEN after ELSE <<>>
  BY <1>10, KeptOfOne
<1> QED
  BY <1>6, <1>7, <1>8, <1>9, <1>10

\* Every step that may follow tells what else does.
LEMMA StagesAre ==
    ASSUME NEW then \in Thens
    PROVE  /\ Stage(then) = "end" <=> then = <<>>
           /\ then # <<>> => Head(then)[1] = Stage(then)
           /\ Stage(then) = "rollback" => then = Rolling
           /\ Stage(then) = "undone" => then = Rolled
           /\ Stage(then) = "deleted" => then = Deleting
           /\ Stage(then) = "recovered" => then = Recovering
           /\ Stage(then) = "rejected" => then = Rejecting
           /\ Stage(then) = "launch" => then = Launching
           /\ Stage(then) = "forget" => then = Forgetting
           /\ Stage(then) = "plan" => then = Planning
           /\ Stage(then) = "released" => then = Releasing
           /\ Stage(then) = "removed" => then \in {Removing, RemovingLast}
           /\ Stage(then) = "exit" => then = Exiting
           /\ Stage(then) = "stopped" => \E after \in After : then = Stopping(after)
           /\ Stage(then) \in {"end", "rollback", "undone", "deleted", "recovered", "rejected",
                               "launch", "forget", "plan", "released", "removed", "exit", "stopped"}
           /\ Kept(then) \in Thens /\ (then # <<>> => Tail(then) \in Thens)
<1>1. \A after \in After : /\ Stage(Stopping(after)) = "stopped" /\ Tail(Stopping(after)) = after
                           /\ Kept(Stopping(after)) = Stopping(Kept(after)) /\ Kept(after) \in After
                           /\ Stopping(after) # <<>>
  BY StopEnds
<1>2. Stoppings = {Stopping(after) : after \in After}
  BY DEF Stoppings
<1> HIDE DEF Stoppings
<1>3. then # <<>> => Head(then)[1] = Stage(then)
  BY DEF Stage
<1>4. Stage(then) = "end" <=> then = <<>>
  <2>1. CASE then \in Stoppings
    BY <1>1, <1>2, <2>1
  <2>2. CASE then \notin Stoppings
    <3>1. Stage(<<>>) = "end"
      BY Ends
    <3>2. ASSUME then # <<>> PROVE Stage(then) # "end"
      <4>1. then \in {Rolling, Rolled, Deleting, Recovering, Rejecting, Launching, Forgetting,
                      Planning, Releasing, Removing, RemovingLast, Exiting}
        BY <2>2, <3>2 DEF Thens, After
      <4> QED
        BY <4>1, Ends
    <3> QED
      BY <3>1, <3>2
  <2> QED
    BY <2>1, <2>2
<1>5. CASE then \in Stoppings
  <2>1. PICK after \in After : then = Stopping(after)
    BY <1>2, <1>5
  <2>2. Stage(then) = "stopped" /\ Kept(then) \in Stoppings /\ Tail(then) \in After
    BY <1>1, <1>2, <2>1
  <2> QED
    BY <1>3, <1>4, <2>1, <2>2 DEF Thens
<1>6. CASE then \notin Stoppings
  <2>1. then \in After \cup {Rolling, Rolled, Deleting, Recovering, Rejecting}
    BY <1>6 DEF Thens
  <2>2. Kept(then) \in Thens /\ (then # <<>> => Tail(then) \in Thens)
    BY <2>1, Ends DEF Thens, After
  <2> QED
    BY <1>3, <1>4, <2>1, <2>2, Ends DEF After
<1> QED
  BY <1>5, <1>6

-----------------------------------------------------------------------------
(* Where an operation is.                                                  *)

Cleaning == {"stopped", "deleted", "undone"}
Lone == {<<step>> : step \in Singles}

\* What is still to do is what belongs to the step that follows.
Shaped ==
    LET stage == Stage(work.then) IN
    /\ stage = "rollback" => Only(work.todo, Builds) /\ live.kind # "none"
    /\ stage \in Cleaning => Only(work.todo, Cleans) /\ live.kind # "none"
    /\ stage = "recovered" => Only(work.todo, Recoveries) /\ live.kind = "none"
    /\ stage = "rejected" => work.todo \in {<<>>, << <<"restore">> >>, << <<"rejournal">> >>}
    /\ stage = "launch" => work.todo \in {<<>>} \cup (Lone \ {<< <<"install">> >>})
    /\ stage \in {"released", "removed", "forget", "plan"} => work.todo \in {<<>>, << <<"stop">> >>}
    /\ stage \in {"forget", "plan"} => live.kind = "legacy"
    /\ stage = "exit" => work.todo = <<>>
    /\ stage = "end" => work = NoWork \/ work.todo \in Lone
    /\ work.then \in {Stopping(Forgetting), Stopping(Planning)} => live.kind = "legacy"
    /\ work.todo \in {<< <<"rejournal">> >>, << <<"install">> >>} => live.kind # "none"
    /\ work.name = "recover" <=> stage = "recovered"
    /\ work.name = "delete" =>
         stage = "deleted" \/ (stage = "end" /\ work.todo = << <<"stop">> >>)
    /\ stage = "deleted" => work.name = "delete"

\* Without a daemon there is no memory, and without a session no interface.
Hosted ==
    /\ ~daemon => saved = NoState /\ session = NoSession /\ live = NoInterface /\ work = NoWork
    /\ live.kind # "none" => session.here
    /\ live.up => live.kind # "none"

Control == Typed /\ Shaped /\ Hosted

\* The steps of `then`.
Following ==
    {<<"rollback">>, <<"undone">>, <<"deleted">>, <<"recovered">>, <<"rejected">>, <<"launch">>,
     <<"forget">>, <<"plan">>, <<"released">>, <<"removed">>, <<"exit">>, <<"stopped">>}

\* What an operation goes on with is a list of steps.
LEMMA ThensAreLists == Thens \subseteq Seq(Following)
<1>1. {<<>>, Launching, Forgetting, Planning, Releasing, Removing, Exiting} \subseteq Seq(Following)
  BY DEF Launching, Forgetting, Planning, Releasing, Removing, Exiting, Following
<1>2. RemovingLast \in Seq(Following)
  BY DEF RemovingLast, Following
<1>3. After \subseteq Seq(Following)
  BY <1>1, <1>2 DEF After
<1>4. << <<"stopped">> >> \in Seq(Following)
  BY DEF Following
<1>5. Stoppings \subseteq Seq(Following)
  BY <1>3, <1>4, ConcatProperties DEF Stoppings, Stopping
<1>6. Rolling \in Seq(Following) /\ Rolled \in Seq(Following)
  BY DEF Rolling, Rolled, Following
<1>7. {Deleting, Recovering, Rejecting} \subseteq Seq(Following)
  BY DEF Deleting, Recovering, Rejecting, Following
<1> QED
  BY <1>3, <1>5, <1>6, <1>7 DEF Thens

\* An operation with nothing to do is over.
LEMMA SettledIs ==
    ASSUME NEW w \in TypedWork
    PROVE  /\ NoWork \in TypedWork /\ NoWork.todo = <<>> /\ NoWork.then = <<>>
           /\ NoWork.name = "idle" /\ NoWork.failed = FALSE
           /\ Settled(w) \in TypedWork /\ Settled(w).todo = w.todo /\ Settled(w).then = w.then
           /\ w.todo # <<>> \/ w.then # <<>> => Settled(w) = w
           /\ w.todo = <<>> /\ w.then = <<>> => Settled(w) = NoWork
<1>1. NoWork \in TypedWork
  BY EmptyIs DEF NoWork, TypedWork, Names, Thens, After
<1>2. NoWork.todo = <<>> /\ NoWork.then = <<>> /\ NoWork.name = "idle" /\ NoWork.failed = FALSE
  BY DEF NoWork
<1> QED
  BY <1>1, <1>2 DEF Settled, Running

\* The current step is the first of the list, as long as there is one.
LEMMA HeadOfBoth ==
    ASSUME NEW S, NEW s \in Seq(S), NEW t \in Seq(S), s # <<>>
    PROVE  Head(s \o t) = Head(s)
  OBVIOUS

\* Where the current step is.
LEMMA AtIs ==
    ASSUME work \in TypedWork, NEW step, At(step)
    PROVE  /\ daemon
           /\ work.todo # <<>> => Head(work.todo)[1] = step
           /\ work.todo = <<>> => work.then # <<>> /\ Stage(work.then) = step
<1> DEFINE all == Steps \cup Following
<1>1. work.todo \in Seq(all) /\ work.then \in Seq(all) /\ work.then \in Thens
  <2>1. work.todo \in Seq(Steps) /\ work.then \in Thens
    BY DEF TypedWork
  <2> HIDE DEF Thens
  <2>2. work.then \in Seq(Following)
    BY <2>1, ThensAreLists
  <2> QED
    BY <2>1, <2>2
<1> HIDE DEF all
<1>2. daemon /\ (work.todo # <<>> \/ work.then # <<>>) /\ Head(work.todo \o work.then)[1] = step
  BY DEF At, Running
<1>3. CASE work.todo # <<>>
  <2>1. Head(work.todo \o work.then) = Head(work.todo)
    BY <1>1, <1>3, HeadOfBoth
  <2> QED
    BY <1>2, <1>3, <2>1
<1>4. CASE work.todo = <<>>
  <2>1. work.todo \o work.then = work.then
    BY <1>1, <1>4, ConcatEmptySeq
  <2> QED
    BY <1>1, <1>2, <1>4, <2>1, StagesAre
<1> QED
  BY <1>3, <1>4

\* The first words of the steps.
LEMMA Words ==
    /\ \A s \in Builds : s[1] \in {"intend", "create", "spawn", "journal", "mark", "up", "add"}
    /\ \A s \in Cleans : s[1] \in {"identify", "chain", "reap", "delete"}
    /\ \A s \in Recoveries :
          s[1] \in {"chains", "reintend", "recognise", "kill", "unchain", "delete"}
    /\ \A s \in Lone : s # <<>> /\ Tail(s) = <<>>
                       /\ Head(s)[1] \in {"stop", "restore", "rejournal", "install"}
                       /\ s = << <<Head(s)[1]>> >>
<1>1. \A s \in Builds : s[1] \in {"intend", "create", "spawn", "journal", "mark", "up", "add"}
  BY DEF Builds, Additions
<1>2. \A s \in Cleans : s[1] \in {"identify", "chain", "reap", "delete"}
  BY DEF Cleans, Deletions
<1>3. \A s \in Recoveries :
         s[1] \in {"chains", "reintend", "recognise", "kill", "unchain", "delete"}
  BY DEF Recoveries, Deletions
<1>4. \A s \in Lone : s # <<>> /\ Tail(s) = <<>>
                      /\ Head(s)[1] \in {"stop", "restore", "rejournal", "install"}
                      /\ s = << <<Head(s)[1]>> >>
  <2> TAKE s \in Lone
  <2>1. PICK one \in Singles : s = <<one>>
    BY DEF Lone
  <2>2. <<one>> # <<>> /\ Tail(<<one>>) = <<>> /\ Head(<<one>>) = one
    BY SingleIs
  <2>3. one[1] \in {"stop", "restore", "rejournal", "install"} /\ one = <<one[1]>>
    BY DEF Singles
  <2> QED
    BY <2>1, <2>2, <2>3
<1> QED
  BY <1>1, <1>2, <1>3, <1>4

\* Which step the operation is at tells what follows.
LEMMA AtStep ==
    ASSUME Control, NEW step, At(step)
    PROVE  /\ daemon /\ work.todo \in Seq(Steps) /\ work.then \in Thens
           /\ work.todo # <<>> => Head(work.todo)[1] = step /\ Head(work.todo) \in Steps
           /\ step \in {"intend", "create", "spawn", "journal", "mark", "up", "add"} =>
                work.todo # <<>> /\ work.then = Rolling
           /\ step \in {"identify", "chain", "reap"} =>
                work.todo # <<>> /\ Stage(work.then) \in Cleaning
           /\ step = "delete" =>
                work.todo # <<>> /\ Stage(work.then) \in Cleaning \cup {"recovered"}
           /\ step \in {"chains", "reintend", "recognise", "kill", "unchain"} =>
                work.todo # <<>> /\ work.then = Recovering
           /\ step \in {"stop", "restore", "rejournal", "install"} =>
                work.todo = << <<step>> >> /\ Tail(work.todo) = <<>> /\ work.todo \in Lone
           /\ step \in {"stop", "restore", "rejournal", "install"} =>
                Stage(work.then) \in {"end", "rejected", "launch", "released", "removed",
                                      "forget", "plan"}
           /\ step \in {"rollback", "undone", "deleted", "recovered", "rejected", "launch",
                        "forget", "plan", "released", "removed", "exit", "stopped"} =>
                work.todo = <<>> /\ work.then # <<>> /\ Stage(work.then) = step
<1>1. work \in TypedWork /\ work.todo \in Seq(Steps) /\ work.then \in Thens
  BY DEF Control, Typed, TypedWork
<1>2. /\ daemon
      /\ work.todo # <<>> => Head(work.todo)[1] = step
      /\ work.todo = <<>> => work.then # <<>> /\ Stage(work.then) = step
  BY <1>1, AtIs
<1> DEFINE stage == Stage(work.then)
<1>3. /\ stage = "rollback" => work.then = Rolling
      /\ stage = "recovered" => work.then = Recovering
      /\ stage \in {"end", "rollback", "undone", "deleted", "recovered", "rejected",
                    "launch", "forget", "plan", "released", "removed", "exit", "stopped"}
      /\ stage = "end" <=> work.then = <<>>
  BY <1>1, StagesAre
<1>4. work.todo # <<>> => Head(work.todo) \in Steps
                          /\ \A steps : Only(work.todo, steps) => Head(work.todo) \in steps
  BY <1>1, TailKeeps
<1>5. /\ stage = "rollback" => Only(work.todo, Builds)
      /\ stage \in Cleaning => Only(work.todo, Cleans)
      /\ stage = "recovered" => Only(work.todo, Recoveries)
      /\ stage = "rejected" => work.todo \in {<<>>} \cup Lone
      /\ stage = "launch" => work.todo \in {<<>>} \cup Lone
      /\ stage \in {"released", "removed", "forget", "plan"} => work.todo \in {<<>>} \cup Lone
      /\ stage = "exit" => work.todo = <<>>
      /\ stage = "end" => work.todo \in {<<>>} \cup Lone
  <2>1. << <<"restore">> >> \in Lone /\ << <<"rejournal">> >> \in Lone /\ << <<"stop">> >> \in Lone
    BY DEF Lone, Singles
  <2>2. NoWork.todo = <<>>
    BY DEF NoWork
  <2> QED
    BY <2>1, <2>2 DEF Control, Shaped
<1> HIDE DEF stage
<1>6. CASE work.todo = <<>>
  <2>1. stage = step
    BY <1>2, <1>6 DEF stage
  <2> QED
    BY <1>1, <1>2, <1>3, <1>6, <2>1 DEF stage
<1>7. CASE work.todo # <<>> /\ stage = "rollback"
  <2>1. Head(work.todo) \in Builds
    BY <1>4, <1>5, <1>7
  <2>2. step \in {"intend", "create", "spawn", "journal", "mark", "up", "add"}
    BY <1>2, <1>7, <2>1, Words
  <2> QED
    BY <1>1, <1>2, <1>3, <1>4, <1>7, <2>2
<1>8. CASE work.todo # <<>> /\ stage \in Cleaning
  <2>1. Head(work.todo) \in Cleans
    BY <1>4, <1>5, <1>8
  <2>2. step \in {"identify", "chain", "reap", "delete"}
    BY <1>2, <1>8, <2>1, Words
  <2> QED
    BY <1>1, <1>2, <1>3, <1>4, <1>8, <2>2 DEF stage
<1>9. CASE work.todo # <<>> /\ stage = "recovered"
  <2>1. Head(work.todo) \in Recoveries
    BY <1>4, <1>5, <1>9
  <2>2. step \in {"chains", "reintend", "recognise", "kill", "unchain", "delete"}
    BY <1>2, <1>9, <2>1, Words
  <2> QED
    BY <1>1, <1>2, <1>3, <1>4, <1>9, <2>2 DEF stage
<1>10. CASE work.todo # <<>> /\ stage \in {"end", "rejected", "launch", "released", "removed",
                                          "forget", "plan", "exit"}
  <2>1. work.todo \in Lone /\ stage # "exit"
    BY <1>5, <1>10
  <2>2. /\ step \in {"stop", "restore", "rejournal", "install"} /\ work.todo = << <<step>> >>
        /\ Tail(work.todo) = <<>>
    BY <1>2, <1>10, <2>1, Words
  <2> QED
    BY <1>1, <1>2, <1>4, <1>10, <2>1, <2>2 DEF stage
<1> QED
  BY <1>3, <1>6, <1>7, <1>8, <1>9, <1>10 DEF Cleaning

\* The operation after a step that was done, and after one that failed.
LEMMA Moves ==
    ASSUME Control, work.todo # <<>> \/ work.then # <<>>
    PROVE  /\ Advanced \in TypedWork /\ Broken \in TypedWork /\ Broken.todo = <<>>
           /\ work.todo # <<>> => /\ Advanced.todo = Tail(work.todo) /\ Advanced.then = work.then
                                  /\ Broken.then = Kept(work.then)
           /\ work.todo = <<>> => /\ Advanced.todo = <<>> /\ Advanced.then = Tail(work.then)
                                  /\ Broken.then = Kept(Tail(work.then))
           /\ IF Advanced.todo # <<>> \/ Advanced.then # <<>>
              THEN /\ Advanced.name = work.name /\ Advanced.failed = work.failed
                   /\ Advanced.verdict = work.verdict /\ Advanced.deletes = work.deletes
              ELSE Advanced = NoWork
           /\ IF Broken.then # <<>>
              THEN /\ Broken.name = work.name /\ Broken.failed
                   /\ Broken.verdict = work.verdict /\ Broken.deletes = work.deletes
              ELSE Broken = NoWork
<1>1. work \in TypedWork /\ work.todo \in Seq(Steps) /\ work.then \in Thens
  BY DEF Control, Typed, TypedWork
<1>2. /\ work.todo # <<>> => Tail(work.todo) \in Seq(Steps)
      /\ work.then # <<>> => Tail(work.then) \in Thens
      /\ Kept(work.then) \in Thens
  BY <1>1, TailKeeps, StagesAre
<1>3. work.then # <<>> => Kept(Tail(work.then)) \in Thens
  BY <1>2, StagesAre
<1>4. <<>> \in Seq(Steps)
  OBVIOUS
<1>5. CASE work.todo # <<>>
  <2> DEFINE one == [work EXCEPT !.todo = Tail(@)]
             two == [work EXCEPT !.todo = <<>>, !.failed = TRUE, !.then = Kept(work.then)]
  <2>1. Advanced = Settled(one) /\ Broken = Settled(two)
    BY <1>5 DEF Advanced, Broken
  <2>2. one \in TypedWork /\ two \in TypedWork
    BY <1>1, <1>2, <1>4, <1>5 DEF TypedWork
  <2>3. /\ one.todo = Tail(work.todo) /\ one.then = work.then /\ one.name = work.name
        /\ one.failed = work.failed /\ one.verdict = work.verdict /\ one.deletes = work.deletes
        /\ two.todo = <<>> /\ two.then = Kept(work.then) /\ two.name = work.name
        /\ two.failed /\ two.verdict = work.verdict /\ two.deletes = work.deletes
    BY <1>1 DEF TypedWork
  <2> HIDE DEF one, two
  <2>4. /\ Settled(one) \in TypedWork /\ Settled(one).todo = one.todo /\ Settled(one).then = one.then
        /\ one.todo # <<>> \/ one.then # <<>> => Settled(one) = one
        /\ one.todo = <<>> /\ one.then = <<>> => Settled(one) = NoWork
        /\ Settled(two) \in TypedWork /\ Settled(two).todo = two.todo /\ Settled(two).then = two.then
        /\ two.todo # <<>> \/ two.then # <<>> => Settled(two) = two
        /\ two.todo = <<>> /\ two.then = <<>> => Settled(two) = NoWork
    BY <2>2, SettledIs
  <2> QED
    BY <1>5, <2>1, <2>3, <2>4
<1>6. CASE work.todo = <<>>
  <2> DEFINE one == [work EXCEPT !.then = Tail(@)]
             two == [work EXCEPT !.todo = <<>>, !.failed = TRUE, !.then = Kept(Tail(work.then))]
  <2>1. Advanced = Settled(one) /\ Broken = Settled(two)
    BY <1>6 DEF Advanced, Broken
  <2>2. one \in TypedWork /\ two \in TypedWork
    BY <1>1, <1>2, <1>3, <1>4, <1>6 DEF TypedWork
  <2>3. /\ one.todo = <<>> /\ one.then = Tail(work.then) /\ one.name = work.name
        /\ one.failed = work.failed /\ one.verdict = work.verdict /\ one.deletes = work.deletes
        /\ two.todo = <<>> /\ two.then = Kept(Tail(work.then)) /\ two.name = work.name
        /\ two.failed /\ two.verdict = work.verdict /\ two.deletes = work.deletes
    BY <1>1, <1>6 DEF TypedWork
  <2> HIDE DEF one, two
  <2>4. /\ Settled(one) \in TypedWork /\ Settled(one).todo = one.todo /\ Settled(one).then = one.then
        /\ one.todo # <<>> \/ one.then # <<>> => Settled(one) = one
        /\ one.todo = <<>> /\ one.then = <<>> => Settled(one) = NoWork
        /\ Settled(two) \in TypedWork /\ Settled(two).todo = two.todo /\ Settled(two).then = two.then
        /\ two.todo # <<>> \/ two.then # <<>> => Settled(two) = two
        /\ two.todo = <<>> /\ two.then = <<>> => Settled(two) = NoWork
    BY <2>2, SettledIs
  <2> QED
    BY <1>6, <2>1, <2>3, <2>4
<1> QED
  BY <1>5, <1>6

Failed(w) == [w EXCEPT !.failed = TRUE]

\* What follows when a step of the list was done, or failed.
LEMMA StageKeeps ==
    ASSUME NEW then \in Thens
    PROVE  LET stage == Stage(then)
               kept == Stage(Kept(then))
           IN  /\ stage \in {"rollback", "undone", "recovered", "rejected", "released", "exit"} =>
                    Kept(then) = then
               /\ stage \in {"end", "deleted", "launch", "forget", "plan"} => Kept(then) = <<>>
               /\ stage = "removed" => Kept(then) \in {<<>>, Exiting}
               /\ stage = "stopped" =>
                    /\ kept = "stopped"
                    /\ Kept(then) \notin {Stopping(Forgetting), Stopping(Planning)}
<1>1. ASSUME Stage(then) = "stopped"
      PROVE  /\ Stage(Kept(then)) = "stopped"
             /\ Kept(then) \notin {Stopping(Forgetting), Stopping(Planning)}
  <2>1. PICK after \in After : then = Stopping(after)
    BY <1>1, StagesAre
  <2>2. Kept(then) = Stopping(Kept(after)) /\ Kept(after) \in After
    BY <2>1, StopEnds
  <2>3. Stage(Kept(then)) = "stopped" /\ Tail(Kept(then)) = Kept(after)
    BY <2>2, StopEnds
  <2>4. Forgetting \in After /\ Planning \in After
    BY DEF After
  <2>5. Tail(Stopping(Forgetting)) = Forgetting /\ Tail(Stopping(Planning)) = Planning
    BY <2>4, StopEnds
  <2>6. Kept(after) \notin {Forgetting, Planning}
    BY <2>1, Ends DEF After
  <2> QED
    BY <2>3, <2>5, <2>6
<1>2. Stage(then) \in {"rollback", "undone", "recovered", "rejected", "released", "exit"} =>
         Kept(then) = then
  BY StagesAre, Ends
<1>3. Stage(then) \in {"end", "deleted", "launch", "forget", "plan"} => Kept(then) = <<>>
  BY StagesAre, Ends
<1>4. Stage(then) = "removed" => Kept(then) \in {<<>>, Exiting}
  BY StagesAre, Ends
<1> QED
  BY <1>1, <1>2, <1>3, <1>4

\* What follows when a step of `then` was done, or failed.
LEMMA StageEnds ==
    ASSUME NEW then \in Thens, then # <<>>
    PROVE  LET stage == Stage(then)
           IN  /\ stage \in {"rollback", "undone"} =>
                    Tail(then) = Rejecting /\ Kept(Tail(then)) = Rejecting
               /\ stage \in {"deleted", "recovered", "rejected", "launch", "forget", "plan",
                             "released", "exit"} =>
                    Tail(then) = <<>> /\ Kept(Tail(then)) = <<>>
               /\ stage = "removed" =>
                    Tail(then) \in {<<>>, Exiting} /\ Kept(Tail(then)) = Tail(then)
               /\ stage = "stopped" =>
                    /\ Tail(then) \in After /\ then = Stopping(Tail(then))
                    /\ Kept(Tail(then)) \in {<<>>, Releasing, Exiting}
<1> DEFINE stage == Stage(then)
<1>0. /\ stage = "rollback" => then = Rolling
      /\ stage = "undone" => then = Rolled
      /\ stage = "deleted" => then = Deleting
      /\ stage = "recovered" => then = Recovering
      /\ stage = "rejected" => then = Rejecting
      /\ stage = "launch" => then = Launching
      /\ stage = "forget" => then = Forgetting
      /\ stage = "plan" => then = Planning
      /\ stage = "released" => then = Releasing
      /\ stage = "removed" => then \in {Removing, RemovingLast}
      /\ stage = "exit" => then = Exiting
  BY StagesAre
<1> HIDE DEF stage
<1>1. stage \in {"rollback", "undone"} => Tail(then) = Rejecting /\ Kept(Tail(then)) = Rejecting
  BY <1>0, Ends
<1>2. stage \in {"deleted", "recovered", "rejected", "launch", "forget", "plan", "released",
                 "exit"} => Tail(then) = <<>> /\ Kept(Tail(then)) = <<>>
  BY <1>0, Ends
<1>3. stage = "removed" => Tail(then) \in {<<>>, Exiting} /\ Kept(Tail(then)) = Tail(then)
  BY <1>0, Ends
<1>4. ASSUME stage = "stopped"
      PROVE  /\ Tail(then) \in After /\ then = Stopping(Tail(then))
             /\ Kept(Tail(then)) \in {<<>>, Releasing, Exiting}
  <2>1. PICK after \in After : then = Stopping(after)
    BY <1>4, StagesAre DEF stage
  <2>2. Tail(then) = after
    BY <2>1, StopEnds
  <2>3. Kept(after) \in {<<>>, Releasing, Exiting}
    BY Ends DEF After
  <2> QED
    BY <2>1, <2>2, <2>3
<1> QED
  BY <1>1, <1>2, <1>3, <1>4 DEF stage

\* A step that does not begin anything leaves what is still to do in its place.
LEMMA MovedShape ==
    ASSUME Control, work.todo # <<>> \/ work.then # <<>>,
           work' \in {Advanced, Broken} \/ (work' = Failed(Advanced) /\ work'.then # <<>>),
           \/ live'.kind = live.kind
           \/ work.todo = <<>> /\ work.then \notin {Stopping(Forgetting), Stopping(Planning)}
    PROVE  work' \in TypedWork /\ Shaped'
<1> DEFINE stage == Stage(work.then)
           next == Stage(work'.then)
<1>1. work \in TypedWork /\ work.todo \in Seq(Steps) /\ work.then \in Thens
  BY DEF Control, Typed, TypedWork
<1>2. Advanced \in TypedWork /\ Broken \in TypedWork
  BY Moves
<1>3. /\ work' \in TypedWork /\ Failed(Advanced).todo = Advanced.todo
      /\ Failed(Advanced).then = Advanced.then /\ Failed(Advanced).name = Advanced.name
  BY <1>2 DEF TypedWork, Failed
<1>4. \/ work'.todo = Advanced.todo /\ work'.then = Advanced.then
      \/ work'.todo = <<>> /\ work'.then = Broken.then
  BY <1>3, Moves
<1>5. \/ work' = NoWork
      \/ work'.name = work.name /\ (work'.todo # <<>> \/ work'.then # <<>>)
  BY <1>3, Moves
<1>6. NoWork.todo = <<>> /\ NoWork.then = <<>> /\ NoWork.name = "idle"
  BY DEF NoWork
<1>7. \/ work'.todo = <<>>
      \/ work.todo # <<>> /\ work'.todo = Tail(work.todo) /\ work'.then = work.then
  BY <1>4, Moves
<1>8. \/ work.todo # <<>> /\ work'.then \in {work.then, Kept(work.then)}
      \/ work.todo = <<>> /\ work'.then \in {Tail(work.then), Kept(Tail(work.then))}
  BY <1>4, Moves
<1>9. work'.then \in Thens
  BY <1>1, <1>3 DEF TypedWork
<1>10. /\ stage \in {"end", "rollback", "undone", "deleted", "recovered", "rejected",
                     "launch", "forget", "plan", "released", "removed", "exit", "stopped"}
       /\ stage = "end" <=> work.then = <<>>
       /\ next \in {"end", "rollback", "undone", "deleted", "recovered", "rejected",
                    "launch", "forget", "plan", "released", "removed", "exit", "stopped"}
       /\ next = "end" <=> work'.then = <<>>
  BY <1>1, <1>9, StagesAre
<1>11. Shaped
  BY DEF Control
\* Which step follows.
<1>12. ASSUME work.todo # <<>>
       PROVE  /\ \/ next = stage
                 \/ stage \in {"deleted", "launch", "forget", "plan", "removed"}
                    /\ next \in {"end", "exit"} /\ work'.todo = <<>>
                    /\ (next = "exit" => stage = "removed")
              /\ work'.then \in {Stopping(Forgetting), Stopping(Planning)} => work'.then = work.then
  <2>1. CASE work'.then = work.then
    BY <2>1
  <2>2. CASE work'.then # work.then
    <3>1. work'.then = Kept(work.then) /\ work'.todo = <<>>
      BY <1>7, <1>8, <1>12, <2>2
    <3>2. /\ stage \in {"deleted", "launch", "forget", "plan"} => work'.then = <<>>
          /\ stage = "removed" => work'.then \in {<<>>, Exiting}
          /\ stage = "stopped" =>
               next = "stopped" /\ work'.then \notin {Stopping(Forgetting), Stopping(Planning)}
          /\ stage \in {"deleted", "launch", "forget", "plan", "removed", "stopped"}
      BY <1>1, <1>10, <2>2, <3>1, StageKeeps
    <3>3. Forgetting \in After /\ Planning \in After
      BY DEF After
    <3>4. Stage(Stopping(Forgetting)) = "stopped" /\ Stage(Stopping(Planning)) = "stopped"
      BY <3>3, StopEnds
    <3>5. Stage(<<>>) = "end" /\ Stage(Exiting) = "exit"
      BY Ends
    <3> QED
      BY <3>1, <3>2, <3>4, <3>5
  <2> QED
    BY <2>1, <2>2
<1>13. ASSUME work.todo = <<>>
       PROVE  /\ stage \in {"rollback", "undone"} => next = "rejected"
              /\ stage \in {"deleted", "recovered", "rejected", "launch", "forget", "plan",
                            "released", "exit"} => next = "end"
              /\ stage = "removed" => next \in {"end", "exit"}
              /\ stage = "stopped" =>
                   /\ next \in {"end", "launch", "forget", "plan", "released", "removed", "exit"}
                   /\ next \in {"forget", "plan"} =>
                        work.then \in {Stopping(Forgetting), Stopping(Planning)}
              /\ stage # "end"
  <2>1. work'.then \in {Tail(work.then), Kept(Tail(work.then))} /\ work.then # <<>> /\ stage # "end"
    BY <1>8, <1>10, <1>13
  <2>2. stage \in {"rollback", "undone"} => next = "rejected"
    BY <1>1, <2>1, StageEnds, Ends
  <2>3. stage \in {"deleted", "recovered", "rejected", "launch", "forget", "plan",
                   "released", "exit"} => next = "end"
    BY <1>1, <2>1, StageEnds, Ends
  <2>4. stage = "removed" => next \in {"end", "exit"}
    BY <1>1, <2>1, StageEnds, Ends
  <2>5. ASSUME stage = "stopped"
        PROVE  /\ next \in {"end", "launch", "forget", "plan", "released", "removed", "exit"}
               /\ next \in {"forget", "plan"} =>
                    work.then \in {Stopping(Forgetting), Stopping(Planning)}
    <3>1. /\ Tail(work.then) \in After /\ work.then = Stopping(Tail(work.then))
          /\ Kept(Tail(work.then)) \in {<<>>, Releasing, Exiting}
      BY <1>1, <2>1, <2>5, StageEnds
    <3>2. CASE work'.then = Kept(Tail(work.then))
      BY <3>1, <3>2, Ends
    <3>3. CASE work'.then = Tail(work.then)
      BY <3>1, <3>3, Ends DEF After
    <3> QED
      BY <2>1, <3>2, <3>3
  <2> QED
    BY <2>1, <2>2, <2>3, <2>4, <2>5
<1>14. Stage(Stopping(Forgetting)) = "stopped" /\ Stage(Stopping(Planning)) = "stopped"
  BY StopEnds DEF After
<1> HIDE DEF stage, next
<1>15. CASE work.todo # <<>>
  <2>1. live'.kind = live.kind
    BY <1>15
  <2>2. work'.todo # <<>> =>
          /\ \A steps : Only(work.todo, steps) => Only(work'.todo, steps)
          /\ work.todo \notin Lone
    <3>1. \A steps : Only(work.todo, steps) => Only(Tail(work.todo), steps)
      BY <1>1, <1>15, TailKeeps
    <3>2. work.todo \in Lone => Tail(work.todo) = <<>>
      BY Words
    <3> QED
      BY <1>7, <3>1, <3>2
  <2>3. \A steps : Only(<<>>, steps)
    BY EmptyIs
  <2>4. /\ << <<"restore">> >> \in Lone /\ << <<"rejournal">> >> \in Lone
        /\ << <<"stop">> >> \in Lone /\ << <<"install">> >> \in Lone
        /\ \A one \in Lone : one # <<>>
    BY Words DEF Lone, Singles
  <2>5. /\ stage = "rollback" => Only(work'.todo, Builds) /\ live.kind # "none"
        /\ stage \in Cleaning => Only(work'.todo, Cleans) /\ live.kind # "none"
        /\ stage = "recovered" => Only(work'.todo, Recoveries) /\ live.kind = "none"
        /\ stage \in {"rejected", "launch", "released", "removed", "forget", "plan", "exit", "end"} =>
             work'.todo = <<>>
    <3>1. /\ stage = "rollback" => Only(work.todo, Builds) /\ live.kind # "none"
          /\ stage \in Cleaning => Only(work.todo, Cleans) /\ live.kind # "none"
          /\ stage = "recovered" => Only(work.todo, Recoveries) /\ live.kind = "none"
      BY <1>11 DEF Shaped, stage
    <3>2. stage \in {"rejected", "launch", "released", "removed", "forget", "plan", "exit", "end"} =>
             work.todo \in Lone
      BY <1>6, <1>11, <1>15, <2>4 DEF Shaped, stage
    <3> QED
      BY <2>2, <2>3, <3>1, <3>2
  <2>6. stage \in {"forget", "plan"} => live.kind = "legacy"
    BY <1>11 DEF Shaped, stage
  <2>7. next = "end" => work' = NoWork \/ work'.todo \in Lone
    BY <1>5, <1>10, <1>12, <1>15, <2>5
  <2>8. work'.then \in {Stopping(Forgetting), Stopping(Planning)} => live.kind = "legacy"
    BY <1>11, <1>12, <1>15 DEF Shaped
  <2>9. work'.todo \notin {<< <<"rejournal">> >>, << <<"install">> >>}
    <3>1. /\ stage = "rollback" => Only(work'.todo, Builds)
          /\ stage \in Cleaning => Only(work'.todo, Cleans)
          /\ stage = "recovered" => Only(work'.todo, Recoveries)
      BY <2>5
    <3>2. \A one \in {<< <<"rejournal">> >>, << <<"install">> >>} :
             ~Only(one, Builds) /\ ~Only(one, Cleans) /\ ~Only(one, Recoveries) /\ one # <<>>
      <4>1. <<"rejournal">> \notin Builds \cup Cleans \cup Recoveries
        BY DEF Builds, Cleans, Recoveries, Additions, Deletions
      <4>2. <<"install">> \notin Builds \cup Cleans \cup Recoveries
        BY DEF Builds, Cleans, Recoveries, Additions, Deletions
      <4> QED
        BY <4>1, <4>2 DEF Only
    <3> QED
      BY <1>10, <2>5, <3>1, <3>2 DEF Cleaning
  <2>10. work'.name = "recover" <=> next = "recovered"
    BY <1>5, <1>6, <1>10, <1>11, <1>12, <1>15 DEF Shaped, stage
  <2>11. work'.name = "delete" => next = "deleted"
    BY <1>5, <1>6, <1>10, <1>11, <1>12, <1>15, <2>4, <2>5, <2>7 DEF Shaped, stage
  <2>12. next = "deleted" => work'.name = "delete"
    BY <1>5, <1>6, <1>10, <1>11, <1>12, <1>15 DEF Shaped, stage
  <2> QED
    BY <1>3, <1>12, <1>15, <2>1, <2>5, <2>6, <2>7, <2>8, <2>9, <2>10, <2>11, <2>12
    DEF Shaped, Cleaning, next
<1>16. CASE work.todo = <<>>
  <2>1. work'.todo = <<>>
    BY <1>7, <1>16
  <2>2. next = "end" => work' = NoWork
    BY <1>5, <1>10, <2>1
  <2>3. next \in {"end", "rejected", "launch", "forget", "plan", "released", "removed", "exit"}
    BY <1>10, <1>13, <1>16
  <2>4. next \in {"forget", "plan"} => live'.kind = "legacy"
    BY <1>10, <1>11, <1>13, <1>16 DEF Shaped
  <2>5. work'.then \notin {Stopping(Forgetting), Stopping(Planning)}
    BY <1>14, <2>3 DEF next
  <2>6. work'.todo \notin {<< <<"rejournal">> >>, << <<"install">> >>}
    BY <2>1
  <2>7. work'.name # "recover"
    BY <1>5, <1>6, <1>11, <1>13, <1>16, <2>2, <2>3, <1>10 DEF Shaped, stage
  <2>8. work'.name # "delete"
    BY <1>5, <1>6, <1>11, <1>13, <1>16, <2>2, <2>3, <1>10 DEF Shaped, stage
  <2> QED
    BY <1>3, <2>1, <2>2, <2>3, <2>4, <2>5, <2>6, <2>7, <2>8 DEF Shaped, Cleaning, next
<1> QED
  BY <1>15, <1>16

-----------------------------------------------------------------------------
(* What the operations consist of.                                         *)

\* What is in two lists is in both of them joined.
LEMMA Joins ==
    ASSUME NEW s \in Seq(Steps), NEW t \in Seq(Steps)
    PROVE  /\ s \o t \in Seq(Steps)
           /\ \A steps : Only(s, steps) /\ Only(t, steps) => Only(s \o t, steps)
           /\ \A step : Has(s \o t, step) <=> Has(s, step) \/ Has(t, step)
           /\ \A one, two : Before(s, one, two) /\ (Has(s, one) \/ Before(t, one, two))
                              => Before(s \o t, one, two)
<1> DEFINE both == s \o t
<1>1. /\ both \in Seq(Steps) /\ Len(both) = Len(s) + Len(t)
      /\ Len(s) \in Nat /\ Len(t) \in Nat
      /\ DOMAIN s = 1 .. Len(s) /\ DOMAIN t = 1 .. Len(t) /\ DOMAIN both = 1 .. Len(s) + Len(t)
      /\ \A i \in 1 .. Len(s) + Len(t) : both[i] = IF i <= Len(s) THEN s[i] ELSE t[i - Len(s)]
  BY ConcatProperties
<1> HIDE DEF both
<1>2. \A i \in DOMAIN s : i \in DOMAIN both /\ both[i] = s[i]
  BY <1>1
<1>3. \A j \in DOMAIN t : j + Len(s) \in DOMAIN both /\ both[j + Len(s)] = t[j]
  BY <1>1
<1>4. \A i \in DOMAIN both : \/ i \in DOMAIN s /\ both[i] = s[i]
                             \/ i - Len(s) \in DOMAIN t /\ both[i] = t[i - Len(s)] /\ i > Len(s)
  BY <1>1
<1>5. \A steps : Only(s, steps) /\ Only(t, steps) => Only(both, steps)
  BY <1>4 DEF Only
<1>6. \A step : Has(both, step) <=> Has(s, step) \/ Has(t, step)
  BY <1>2, <1>3, <1>4 DEF Has
<1>7. ASSUME NEW one, NEW two, Before(s, one, two), Has(s, one) \/ Before(t, one, two),
             NEW i \in DOMAIN both, both[i] = two
      PROVE  \E j \in DOMAIN both : j < i /\ both[j] = one
  <2>1. CASE i \in DOMAIN s /\ both[i] = s[i]
    <3>1. PICK j \in DOMAIN s : j < i /\ s[j] = one
      BY <1>7, <2>1 DEF Before
    <3> QED
      BY <1>2, <3>1
  <2>2. CASE /\ i - Len(s) \in DOMAIN t /\ both[i] = t[i - Len(s)] /\ i > Len(s)
    <3>1. CASE Has(s, one)
      <4>1. PICK j \in DOMAIN s : s[j] = one
        BY <3>1 DEF Has
      <4>2. j < i
        BY <1>1, <2>2, <4>1
      <4> QED
        BY <1>2, <4>1, <4>2
    <3>2. CASE Before(t, one, two)
      <4>1. PICK j \in DOMAIN t : j < i - Len(s) /\ t[j] = one
        BY <1>7, <2>2, <3>2 DEF Before
      <4>2. j + Len(s) < i
        BY <1>1, <2>2, <4>1
      <4> QED
        BY <1>3, <4>1, <4>2
    <3> QED
      BY <1>7, <3>1, <3>2
  <2> QED
    BY <1>4, <2>1, <2>2
<1>8. \A one, two : Before(s, one, two) /\ (Has(s, one) \/ Before(t, one, two))
                      => Before(both, one, two)
  BY <1>7 DEF Before
<1> QED
  BY <1>1, <1>5, <1>6, <1>8 DEF both

\* What an installation guarantees of its order.
LEMMA StartIs ==
    ASSUME NEW list \in {OwnedStart, LegacyStart}
    PROVE  /\ list \in Seq(Steps) /\ list # <<>> /\ Only(list, Builds)
           /\ Before(list, <<"add", "rule">>, <<"mark">>) /\ Before(list, <<"add", "private">>, <<"mark">>)
           /\ Before(list, <<"add", "rule">>, <<"up">>) /\ Before(list, <<"add", "private">>, <<"up">>)
           /\ Before(list, <<"add", "bypass">>, <<"add", "capture">>)
           /\ list = OwnedStart => Head(list) = <<"intend">>
<1>1. list \in Seq(Steps) /\ list # <<>>
  <2>1. /\ <<"intend">> \in Builds /\ <<"create">> \in Builds /\ <<"spawn">> \in Builds
        /\ <<"journal">> \in Builds /\ <<"mark">> \in Builds /\ <<"up">> \in Builds
        /\ <<"add", "private">> \in Builds /\ <<"add", "rule">> \in Builds
        /\ <<"add", "bypass">> \in Builds /\ <<"add", "capture">> \in Builds
    BY DEF Builds, Additions, Routing
  <2> HIDE DEF Builds
  <2>2. OwnedStart \in Seq(Builds) /\ OwnedStart # <<>>
    BY <2>1 DEF OwnedStart
  <2>3. LegacyStart \in Seq(Builds) /\ LegacyStart # <<>>
    BY <2>1 DEF LegacyStart
  <2>4. \A l \in Seq(Builds) : l \in Seq(Steps)
    BY StepsAre
  <2> QED
    BY <2>2, <2>3, <2>4
<1>2. Only(list, Builds)
  BY DEF OwnedStart, LegacyStart, Only, Builds, Additions, Routing
<1>3. Before(list, <<"add", "rule">>, <<"mark">>) /\ Before(list, <<"add", "private">>, <<"mark">>)
  BY DEF OwnedStart, LegacyStart, Before
<1>4. Before(list, <<"add", "rule">>, <<"up">>) /\ Before(list, <<"add", "private">>, <<"up">>)
  BY DEF OwnedStart, LegacyStart, Before
<1>5. Before(list, <<"add", "bypass">>, <<"add", "capture">>)
  BY DEF OwnedStart, LegacyStart, Before
<1>6. list = OwnedStart => Head(list) = <<"intend">>
  BY DEF OwnedStart
<1> QED
  BY <1>1, <1>2, <1>3, <1>4, <1>5, <1>6

\* The steps of a teardown and of a recovery, by name.
LEMMA CleansAre ==
    /\ <<"identify">> \in Cleans /\ <<"chain">> \in Cleans /\ <<"reap">> \in Cleans
    /\ Deletions \subseteq Cleans /\ Deletions \subseteq Recoveries
    /\ <<"delete", "capture">> \in Deletions /\ <<"delete", "private">> \in Deletions
    /\ <<"delete", "bypass">> \in Deletions /\ <<"delete", "rule">> \in Deletions
    /\ <<"delete", "device">> \in Deletions
    /\ <<"reintend">> \in Recoveries /\ <<"recognise">> \in Recoveries
    /\ <<"kill">> \in Recoveries /\ <<"unchain">> \in Recoveries /\ <<"chains">> \in Recoveries
    /\ \A l \in Seq(Cleans) : l \in Seq(Steps)
    /\ \A l \in Seq(Recoveries) : l \in Seq(Steps)
<1>1. /\ <<"delete", "capture">> \in Deletions /\ <<"delete", "private">> \in Deletions
      /\ <<"delete", "bypass">> \in Deletions /\ <<"delete", "rule">> \in Deletions
      /\ <<"delete", "device">> \in Deletions
  BY DEF Deletions, Routing
<1>2. /\ <<"identify">> \in Cleans /\ <<"chain">> \in Cleans /\ <<"reap">> \in Cleans
      /\ Deletions \subseteq Cleans /\ Deletions \subseteq Recoveries
      /\ <<"reintend">> \in Recoveries /\ <<"recognise">> \in Recoveries
      /\ <<"kill">> \in Recoveries /\ <<"unchain">> \in Recoveries /\ <<"chains">> \in Recoveries
  BY DEF Cleans, Recoveries
<1>3. \A l \in Seq(Cleans) : l \in Seq(Steps)
  BY StepsAre
<1>4. \A l \in Seq(Recoveries) : l \in Seq(Steps)
  BY StepsAre
<1> QED
  BY <1>1, <1>2, <1>3, <1>4

\* What a teardown guarantees of its order.
LEMMA CleanupIs ==
    ASSUME NEW deletes \in BOOLEAN
    PROVE  LET list == CleanupOf(deletes)
           IN  /\ list \in Seq(Steps) /\ list # <<>> /\ Only(list, Cleans) /\ Has(list, <<"chain">>)
               /\ \A part \in Routing : Has(list, <<"delete", part>>)
               /\ live.kind = "owned" => Has(list, <<"delete", "device">>)
               /\ \A part \in {"rule", "private"} : Before(list, <<"chain">>, <<"delete", part>>)
               /\ Before(list, <<"delete", "capture">>, <<"delete", "bypass">>)
<1> DEFINE owned == << <<"identify">>, <<"chain">>, <<"reap">>, <<"delete", "capture">>,
                       <<"delete", "private">>, <<"delete", "bypass">>, <<"delete", "rule">>,
                       <<"delete", "device">> >>
           legacy == << <<"chain">>, <<"reap">>, <<"delete", "capture">>, <<"delete", "bypass">>,
                        <<"delete", "rule">>, <<"delete", "private">> >>
           rest == IF deletes THEN << <<"delete", "device">> >> ELSE <<>>
<1>1. CleanupOf(deletes) = IF live.kind = "owned" THEN owned ELSE legacy \o rest
  BY DEF CleanupOf
<1>2. owned \in Seq(Cleans) /\ owned # <<>> /\ legacy \in Seq(Cleans) /\ legacy # <<>>
  <2> HIDE DEF Cleans
  <2>1. \A d \in Deletions : d \in Cleans
    BY CleansAre
  <2> QED
    BY <2>1, CleansAre
<1>3. /\ Has(owned, <<"chain">>) /\ \A part \in Routing : Has(owned, <<"delete", part>>)
      /\ Has(owned, <<"delete", "device">>)
  <2>1. \A part \in Routing : part \in {"private", "rule", "bypass", "capture"}
    BY DEF Routing
  <2> QED
    BY <2>1 DEF Has
<1>4. /\ \A part \in {"rule", "private"} : Before(owned, <<"chain">>, <<"delete", part>>)
      /\ Before(owned, <<"delete", "capture">>, <<"delete", "bypass">>)
  BY DEF Before
<1>5. Has(legacy, <<"chain">>) /\ \A part \in Routing : Has(legacy, <<"delete", part>>)
  <2>1. \A part \in Routing : part \in {"private", "rule", "bypass", "capture"}
    BY DEF Routing
  <2> QED
    BY <2>1 DEF Has
<1>6. /\ \A part \in {"rule", "private"} : Before(legacy, <<"chain">>, <<"delete", part>>)
      /\ Before(legacy, <<"delete", "capture">>, <<"delete", "bypass">>)
  BY DEF Before
<1>7. Only(owned, Cleans) /\ Only(legacy, Cleans)
  BY <1>2 DEF Only
<1>8. rest \in Seq(Steps) /\ Only(rest, Cleans)
  <2>1. CASE deletes
    <3>1. <<"delete", "device">> \in Cleans /\ <<"delete", "device">> \in Steps
      BY CleansAre, StepsAre
    <3> QED
      BY <2>1, <3>1 DEF Only
  <2>2. CASE ~deletes
    BY <2>2, EmptyIs
  <2> QED
    BY <2>1, <2>2
<1>9. owned \in Seq(Steps) /\ legacy \in Seq(Steps)
  BY <1>2, CleansAre
<1> HIDE DEF owned, legacy, rest
<1>10. legacy # <<>> => legacy \o rest # <<>>
  BY <1>8, <1>9
<1>11. /\ legacy \o rest \in Seq(Steps) /\ Only(legacy \o rest, Cleans)
       /\ \A step : Has(legacy, step) => Has(legacy \o rest, step)
       /\ \A one, two : Before(legacy, one, two) /\ Has(legacy, one) => Before(legacy \o rest, one, two)
  BY <1>7, <1>8, <1>9, Joins
<1>12. Has(legacy, <<"delete", "capture">>)
  BY <1>5 DEF Routing
<1> QED
  BY <1>1, <1>2, <1>3, <1>4, <1>5, <1>6, <1>7, <1>9, <1>10, <1>11, <1>12

\* What a recovery guarantees of its order.
LEMMA RecoveryIs ==
    ASSUME NEW state \in States
    PROVE  LET list == RecoveryOf(state)
               record == state.interface
           IN  /\ list \in Seq(Steps) /\ Only(list, Recoveries)
               /\ record.kind # "none" => \A part \in Routing : Has(list, <<"delete", part>>)
               /\ record.kind = "owned" => Has(list, <<"delete", "device">>)
               /\ record.nft /\ ~state.bound =>
                    \A part \in {"rule", "private"} : Before(list, <<"unchain">>, <<"delete", part>>)
               /\ Before(list, <<"delete", "capture">>, <<"delete", "bypass">>)
               /\ \A part \in Routing : Before(list, <<"delete", part>>, <<"delete", "device">>)
<1> DEFINE record == state.interface
           chained == record.nft /\ ~state.bound
           unchain == IF chained THEN << <<"unchain">> >> ELSE <<>>
           device == << <<"delete", "device">> >>
           last == IF record.created THEN device ELSE <<>>
           front == << <<"reintend">>, <<"recognise">>, <<"kill">> >>
           routes == << <<"delete", "capture">>, <<"delete", "private">>, <<"delete", "bypass">>,
                        <<"delete", "rule">> >>
           names == << <<"kill">>, <<"delete", "capture">>, <<"delete", "bypass">>,
                       <<"delete", "rule">>, <<"delete", "private">> >>
           owned == ((front \o unchain) \o routes) \o device
           legacy == (unchain \o names) \o last
           U == <<"unchain">>
           C == <<"delete", "capture">>
           B == <<"delete", "bypass">>
           R == <<"delete", "rule">>
           P == <<"delete", "private">>
           D == <<"delete", "device">>
<1>1. RecoveryOf(state) = IF record.kind = "owned" THEN owned
                          ELSE IF record.kind = "legacy" THEN legacy ELSE <<>>
  BY DEF RecoveryOf
<1>2. /\ U \in Recoveries /\ C \in Recoveries /\ B \in Recoveries /\ R \in Recoveries
      /\ P \in Recoveries /\ D \in Recoveries
      /\ <<"reintend">> \in Recoveries /\ <<"recognise">> \in Recoveries /\ <<"kill">> \in Recoveries
  BY CleansAre
<1>3. /\ device \in Seq(Recoveries) /\ front \in Seq(Recoveries) /\ routes \in Seq(Recoveries)
      /\ names \in Seq(Recoveries) /\ <<U>> \in Seq(Recoveries) /\ <<>> \in Seq(Recoveries)
  <2> HIDE DEF Recoveries
  <2> QED
    BY <1>2
<1>4. unchain \in Seq(Recoveries) /\ last \in Seq(Recoveries)
  <2> HIDE DEF device
  <2> QED
    BY <1>3
<1>5. ~Has(front, R) /\ ~Has(front, P) /\ ~Has(front, B) /\ ~Has(front, D)
  BY DEF Has
<1>6. /\ ~Has(unchain, R) /\ ~Has(unchain, P) /\ ~Has(unchain, B) /\ ~Has(unchain, D)
      /\ chained => Has(unchain, U)
  BY DEF Has
<1>7. /\ Has(routes, C) /\ Has(routes, B) /\ Has(routes, R) /\ Has(routes, P)
      /\ Before(routes, C, B) /\ ~Has(routes, D)
  BY DEF Has, Before
<1>8. /\ Has(names, C) /\ Has(names, B) /\ Has(names, R) /\ Has(names, P)
      /\ Before(names, C, B) /\ ~Has(names, D)
  BY DEF Has, Before
<1>9. Has(device, D) /\ ~Has(device, B) /\ ~Has(device, R) /\ ~Has(device, P)
  BY DEF Has
<1>10. ~Has(last, B) /\ ~Has(last, R) /\ ~Has(last, P)
  BY DEF Has
<1>11. \A list \in Seq(Recoveries) : list \in Seq(Steps) /\ Only(list, Recoveries)
  BY CleansAre DEF Only
<1>12. \A list, one, two : ~Has(list, two) => Before(list, one, two)
  BY DEF Has, Before
<1> HIDE DEF unchain, device, last, front, routes, names, U, C, B, R, P, D, record, chained
<1>13. /\ unchain \in Seq(Steps) /\ device \in Seq(Steps) /\ last \in Seq(Steps)
       /\ front \in Seq(Steps) /\ routes \in Seq(Steps) /\ names \in Seq(Steps)
       /\ Only(unchain, Recoveries) /\ Only(device, Recoveries) /\ Only(last, Recoveries)
       /\ Only(front, Recoveries) /\ Only(routes, Recoveries) /\ Only(names, Recoveries)
  BY <1>3, <1>4, <1>11
<1>14. /\ owned \in Seq(Steps) /\ Only(owned, Recoveries)
       /\ Has(owned, C) /\ Has(owned, B) /\ Has(owned, R) /\ Has(owned, P) /\ Has(owned, D)
       /\ Before(owned, C, B)
       /\ chained => Before(owned, U, R) /\ Before(owned, U, P)
       /\ \A step \in {C, B, R, P} : Before(owned, step, D)
  <2> DEFINE s == front \o unchain
             t == s \o routes
  <2>1. /\ s \in Seq(Steps) /\ Only(s, Recoveries) /\ \A step : Has(s, step) <=> Has(front, step) \/ Has(unchain, step)
    BY <1>13, Joins
  <2> HIDE DEF s
  <2>2. /\ ~Has(s, R) /\ ~Has(s, P) /\ ~Has(s, B) /\ ~Has(s, D) /\ (chained => Has(s, U))
    BY <2>1, <1>5, <1>6
  <2>3. /\ t \in Seq(Steps) /\ Only(t, Recoveries)
        /\ \A step : Has(t, step) <=> Has(s, step) \/ Has(routes, step)
        /\ \A one, two : Before(s, one, two) /\ (Has(s, one) \/ Before(routes, one, two))
                           => Before(t, one, two)
    BY <1>13, <2>1, Joins
  <2> HIDE DEF t
  <2>4. /\ Has(t, C) /\ Has(t, B) /\ Has(t, R) /\ Has(t, P) /\ Before(t, C, B) /\ ~Has(t, D)
        /\ chained => Has(t, U) /\ Before(t, U, R) /\ Before(t, U, P)
    BY <2>2, <2>3, <1>7, <1>12
  <2>5. /\ t \o device \in Seq(Steps) /\ Only(t \o device, Recoveries)
        /\ \A step : Has(t \o device, step) <=> Has(t, step) \/ Has(device, step)
        /\ \A one, two : Before(t, one, two) /\ (Has(t, one) \/ Before(device, one, two))
                           => Before(t \o device, one, two)
    BY <1>13, <2>3, Joins
  <2>6. owned = t \o device
    BY DEF t, s
  <2> HIDE DEF owned
  <2> QED
    BY <2>4, <2>5, <2>6, <1>9, <1>12
<1>15. /\ legacy \in Seq(Steps) /\ Only(legacy, Recoveries)
       /\ Has(legacy, C) /\ Has(legacy, B) /\ Has(legacy, R) /\ Has(legacy, P)
       /\ Before(legacy, C, B)
       /\ chained => Before(legacy, U, R) /\ Before(legacy, U, P)
       /\ \A step \in {C, B, R, P} : Before(legacy, step, D)
  <2> DEFINE t == unchain \o names
  <2>1. /\ t \in Seq(Steps) /\ Only(t, Recoveries)
        /\ \A step : Has(t, step) <=> Has(unchain, step) \/ Has(names, step)
        /\ \A one, two : Before(unchain, one, two) /\ (Has(unchain, one) \/ Before(names, one, two))
                           => Before(t, one, two)
    BY <1>13, Joins
  <2> HIDE DEF t
  <2>2. /\ Has(t, C) /\ Has(t, B) /\ Has(t, R) /\ Has(t, P) /\ Before(t, C, B) /\ ~Has(t, D)
        /\ chained => Has(t, U) /\ Before(t, U, R) /\ Before(t, U, P)
    BY <2>1, <1>6, <1>8, <1>12
  <2>3. /\ t \o last \in Seq(Steps) /\ Only(t \o last, Recoveries)
        /\ \A step : Has(t \o last, step) <=> Has(t, step) \/ Has(last, step)
        /\ \A one, two : Before(t, one, two) /\ (Has(t, one) \/ Before(last, one, two))
                           => Before(t \o last, one, two)
    BY <1>13, <2>1, Joins
  <2>4. legacy = t \o last
    BY DEF t
  <2> HIDE DEF legacy
  <2> QED
    BY <2>2, <2>3, <2>4, <1>12
<1> HIDE DEF owned, legacy
<1>16. <<>> \in Seq(Steps) /\ Only(<<>>, Recoveries) /\ \A one, two : Before(<<>>, one, two)
  BY EmptyIs
<1>17. record.kind \in {"owned", "legacy", "none"}
  BY DEF States, Records, Kinds, record
<1>18. \A part \in Routing : <<"delete", part>> \in {C, B, R, P}
  BY DEF Routing, C, B, R, P
<1> QED
  BY <1>1, <1>14, <1>15, <1>16, <1>17, <1>18 DEF record, chained, U, C, B, R, P, D

-----------------------------------------------------------------------------
(* Every step keeps the values, and an operation in its place.             *)

\* What there is before anything happened.
LEMMA NothingIs ==
    /\ NoRecord \in Records /\ NoState \in States /\ NoInterface \in Lives /\ NoSession \in Sessions
    /\ NoRecord.kind = "none" /\ ~NoRecord.planned /\ ~NoRecord.nft
    /\ NoInterface.kind = "none" /\ ~NoInterface.up /\ ~NoInterface.planned
    /\ NoInterface.chain = "off" /\ ~NoInterface.cgroup
    /\ NoState.interface = NoRecord /\ ~NoState.session /\ ~NoState.bound
    /\ ~NoSession.here /\ ~NoSession.core /\ ~NoSession.holding /\ NoSession.holds
  BY DEF NoRecord, NoState, NoInterface, NoSession, Records, States, Lives, Sessions, Kinds

\* What is recorded of an interface.
LEMMA RecordedIs ==
    ASSUME NEW i \in Lives
    PROVE  /\ Recorded(i) \in Records /\ Recorded(i).kind = i.kind
           /\ i.kind # "none" => /\ Recorded(i).planned = i.planned
                                 /\ Recorded(i).nft = (i.cgroup \/ i.chain # "off")
  BY NothingIs DEF Recorded, Records, Lives

\* What is saved of it.
LEMMA JournalIs ==
    ASSUME saved \in States, NEW i \in Lives
    PROVE  /\ Journal(i) \in States /\ Journal(i).interface = Recorded(i)
           /\ Journal(i).session = saved.session /\ Journal(i).bound = saved.bound
  BY RecordedIs DEF Journal, States

\* What is saved of a session.
LEMMA SyncedIs ==
    ASSUME saved \in States, NEW i \in Lives, NEW here \in BOOLEAN
    PROVE  /\ Synced(here, i) \in States /\ Synced(here, i).bound = saved.bound
           /\ \/ Synced(here, i) = saved /\ (~here \/ (saved.interface.kind = "owned" /\ i.kind = "none"))
              \/ Synced(here, i).interface = Recorded(i)
                 /\ here /\ (saved.interface.kind # "owned" \/ i.kind # "none")
  BY RecordedIs DEF Synced, States

\* A whole step of an operation: what it does to the rest is typed.
LEMMA StepControl ==
    ASSUME Control, work.todo # <<>> \/ work.then # <<>>,
           work' \in {Advanced, Broken} \/ (work' = Failed(Advanced) /\ work'.then # <<>>),
           live'.kind = live.kind, live'.up => live.up \/ live.kind # "none",
           daemon, daemon', session'.here = session.here, session' \in Sessions,
           kernel' \subseteq Kinds \X Parts, chain' \in {"off", "mark", "block", "stale"},
           slice' \in BOOLEAN, saved' \in States, disk' \in States, live' \in Lives,
           faults' \in 0 .. MaxFaults, crashes' \in 0 .. MaxCrashes
    PROVE  Control'
<1>1. work' \in TypedWork /\ Shaped'
  BY MovedShape
<1>2. Typed'
  BY <1>1 DEF Typed
<1>3. Hosted'
  BY DEF Hosted, Control
<1> QED
  BY <1>1, <1>2, <1>3 DEF Control

\* The counters stay in their bounds.
LEMMA Counted ==
    ASSUME Typed, Works \/ \E what \in Faulty : Fails(what)
    PROVE  faults' \in 0 .. MaxFaults
  BY InterfacesAssumption DEF Typed, Works, Fails

\* A step of an installation.
LEMMA BuildControl ==
    Control /\ (Create \/ Intend \/ WriteJournal \/ Spawn \/ AddObject \/ Mark) => Control'
<1> SUFFICES ASSUME Control, Create \/ Intend \/ WriteJournal \/ Spawn \/ AddObject \/ Mark
             PROVE  Control'
  OBVIOUS
<1>1. Typed /\ Hosted /\ saved \in States /\ disk \in States /\ live \in Lives
      /\ session \in Sessions /\ kernel \subseteq Kinds \X Parts
      /\ chain \in {"off", "mark", "block", "stale"} /\ slice \in BOOLEAN /\ crashes \in 0 .. MaxCrashes
  BY DEF Control, Typed
<1>2. \E step \in {"intend", "create", "spawn", "journal", "mark", "add"} : At(step)
  BY DEF Create, Intend, WriteJournal, Spawn, AddObject, Mark
<1>3. daemon /\ work.todo # <<>> /\ work.then = Rolling /\ Only(work.todo, Builds)
      /\ Head(work.todo) \in Builds /\ live.kind \in Kinds
  <2>1. daemon /\ work.todo # <<>> /\ work.then = Rolling /\ work.todo \in Seq(Steps)
    BY <1>2, AtStep
  <2>2. Only(work.todo, Builds) /\ live.kind # "none"
    BY <2>1, Ends DEF Control, Shaped
  <2> QED
    BY <2>1, <2>2, <1>1, TailKeeps DEF Lives
<1>4. CASE Create
  <2>1. live' \in Lives /\ live'.kind = live.kind /\ live'.up = live.up
    BY <1>1, <1>4 DEF Create, Lives
  <2>2. kernel' \subseteq Kinds \X Parts
    BY <1>1, <1>3, <1>4 DEF Create, Parts
  <2>3. /\ work' \in {Advanced, Broken} /\ daemon' = daemon /\ session' = session /\ slice' = slice
        /\ crashes' = crashes /\ chain' = chain /\ saved' = saved /\ disk' = disk
        /\ faults' \in 0 .. MaxFaults
    BY <1>1, <1>4, Counted DEF Create, UnaffectedByStep, Fails
  <2> QED
    BY <1>1, <1>3, <2>1, <2>2, <2>3, StepControl
<1>5. CASE Intend
  <2>1. live' \in Lives /\ live'.kind = live.kind /\ live'.up = live.up
    BY <1>1, <1>5 DEF Intend, Lives
  <2>2. saved' \in States
    BY <1>1, <1>5, <2>1, JournalIs DEF Intend
  <2>3. /\ work' \in {Advanced, Broken} /\ daemon' = daemon /\ session' = session /\ slice' = slice
        /\ crashes' = crashes /\ chain' = chain /\ kernel' = kernel /\ disk' \in {disk, saved'}
        /\ faults' \in 0 .. MaxFaults
    BY <1>1, <1>5, Counted DEF Intend, UnaffectedByStep, Saves, SaveFails, Fails
  <2> QED
    BY <1>1, <1>3, <2>1, <2>2, <2>3, StepControl
<1>6. CASE WriteJournal
  <2>1. saved' \in States
    BY <1>1, <1>6, JournalIs DEF WriteJournal
  <2>2. /\ work' \in {Advanced, Broken} /\ daemon' = daemon /\ session' = session /\ slice' = slice
        /\ crashes' = crashes /\ chain' = chain /\ kernel' = kernel /\ disk' \in {disk, saved'}
        /\ live' = live /\ faults' \in 0 .. MaxFaults
    BY <1>1, <1>6, Counted DEF WriteJournal, UnaffectedByStep, Saves, SaveFails, Fails
  <2> QED
    BY <1>1, <1>3, <2>1, <2>2, StepControl
<1>7. CASE Spawn
  <2>1. live' \in Lives /\ live'.kind = live.kind /\ live'.up = live.up
    BY <1>1, <1>7 DEF Spawn, Lives
  <2>2. kernel' \subseteq Kinds \X Parts
    BY <1>1, <1>3, <1>7 DEF Spawn, Parts
  <2>3. /\ work' \in {Advanced, Broken} /\ daemon' = daemon /\ session' = session /\ slice' = slice
        /\ crashes' = crashes /\ chain' = chain /\ saved' = saved /\ disk' = disk
        /\ faults' \in 0 .. MaxFaults
    BY <1>1, <1>7, Counted DEF Spawn, UnaffectedByStep, Fails
  <2> QED
    BY <1>1, <1>3, <2>1, <2>2, <2>3, StepControl
<1>8. CASE AddObject
  <2>1. kernel' \subseteq Kinds \X Parts
    <3>1. Head(work.todo)[1] = "add"
      BY <1>8, AtStep, <1>3 DEF AddObject
    <3>2. Head(work.todo)[2] \in Parts
      BY <1>3, <3>1 DEF Builds, Additions, Parts
    <3> QED
      BY <1>1, <1>3, <1>8, <3>2 DEF AddObject
  <2>2. /\ work' \in {Advanced, Broken} /\ daemon' = daemon /\ session' = session /\ slice' = slice
        /\ crashes' = crashes /\ chain' = chain /\ saved' = saved /\ disk' = disk
        /\ live' = live /\ faults' \in 0 .. MaxFaults
    BY <1>1, <1>8, Counted DEF AddObject, UnaffectedByStep, Fails
  <2> QED
    BY <1>1, <1>3, <2>1, <2>2, StepControl
<1>9. CASE Mark
  <2>1. live' \in Lives /\ live'.kind = live.kind /\ live'.up = live.up
    BY <1>1, <1>9 DEF Mark, Lives
  <2>2. /\ work' \in {Advanced, Broken} /\ daemon' = daemon /\ session' = session /\ slice' = slice
        /\ crashes' = crashes /\ chain' \in {chain, "mark", "off"} /\ saved' = saved /\ disk' = disk
        /\ kernel' = kernel /\ faults' \in 0 .. MaxFaults
    BY <1>1, <1>9, Counted DEF Mark, UnaffectedByStep, Fails
  <2> QED
    BY <1>1, <1>3, <2>1, <2>2, StepControl
<1> QED
  BY <1>4, <1>5, <1>6, <1>7, <1>8, <1>9

\* A step of a teardown.
LEMMA CleanControl ==
    Control /\ (Identify \/ SetChain \/ Reap \/ DeleteObject) => Control'
<1> SUFFICES ASSUME Control, Identify \/ SetChain \/ Reap \/ DeleteObject
             PROVE  Control'
  OBVIOUS
<1>1. Typed /\ Hosted /\ saved \in States /\ disk \in States /\ live \in Lives
      /\ session \in Sessions /\ kernel \subseteq Kinds \X Parts /\ live.kind \in Kinds \cup {"none"}
      /\ chain \in {"off", "mark", "block", "stale"} /\ slice \in BOOLEAN /\ crashes \in 0 .. MaxCrashes
  BY DEF Control, Typed, Lives
<1>2. \E step \in {"identify", "chain", "reap", "delete"} : At(step)
  BY DEF Identify, SetChain, Reap, DeleteObject
<1>3. /\ daemon /\ work.todo # <<>> /\ work.then \in Thens
      /\ Stage(work.then) \in Cleaning \cup {"recovered"}
      /\ ~At("delete") => Stage(work.then) \in Cleaning
  BY <1>2, AtStep
<1>4. Stage(work.then) \in Cleaning => live.kind # "none"
  BY DEF Control, Shaped
<1>5. CASE Identify
  <2>1. live' \in Lives /\ live'.kind = live.kind /\ ~live'.up
    BY <1>1, <1>5 DEF Identify, Lives
  <2>2. /\ work' \in {Advanced, Broken} /\ daemon' = daemon /\ session' = session /\ slice' = slice
        /\ crashes' = crashes /\ chain' = chain /\ kernel' = kernel /\ saved' = saved /\ disk' = disk
        /\ faults' \in 0 .. MaxFaults
    BY <1>1, <1>5, Counted DEF Identify, UnaffectedByStep, Fails
  <2> QED
    BY <1>1, <1>3, <2>1, <2>2, StepControl
<1>6. CASE SetChain
  <2>1. live' \in Lives /\ live'.kind = live.kind /\ live'.up = live.up
    BY <1>1, <1>6 DEF SetChain, Lives
  <2>2. /\ work' \in {Advanced, Broken} /\ daemon' = daemon /\ session' = session /\ slice' = slice
        /\ crashes' = crashes /\ chain' \in {chain, "off", "block"} /\ kernel' = kernel
        /\ saved' = saved /\ disk' = disk /\ faults' \in 0 .. MaxFaults
    BY <1>1, <1>6, Counted DEF SetChain, UnaffectedByStep, Fails
  <2> QED
    BY <1>1, <1>3, <2>1, <2>2, StepControl
<1>7. CASE Reap
  <2>1. live' \in Lives /\ live'.kind = live.kind /\ ~live'.up
    BY <1>1, <1>7 DEF Reap, Lives
  <2>2. /\ work' \in {Advanced, Broken} /\ daemon' = daemon /\ session' = session /\ slice' = slice
        /\ crashes' = crashes /\ chain' = chain /\ kernel' \subseteq kernel
        /\ saved' = saved /\ disk' = disk /\ faults' \in 0 .. MaxFaults
    BY <1>1, <1>7, Counted DEF Reap, UnaffectedByStep
  <2> QED
    BY <1>1, <1>3, <2>1, <2>2, StepControl
<1>8. CASE DeleteObject
  <2>1. /\ daemon' = daemon /\ session' = session /\ slice' = slice
        /\ crashes' = crashes /\ chain' = chain /\ kernel' \subseteq kernel /\ live' = live
        /\ saved' = saved /\ disk' = disk /\ faults' \in 0 .. MaxFaults
    BY <1>1, <1>8, Counted DEF DeleteObject, UnaffectedByStep, Fails, WithoutDevice
  <2>2. work' \in {Advanced, Broken, Failed(Advanced)}
    BY <1>8 DEF DeleteObject, Failed
  <2>3. Failed(Advanced).then # <<>>
    <3>1. Advanced.then = work.then /\ Advanced \in TypedWork
      BY <1>3, Moves
    <3>2. work.then # <<>>
      BY <1>3, Ends DEF Cleaning
    <3> QED
      BY <3>1, <3>2 DEF Failed, TypedWork
  <2> QED
    BY <1>1, <1>3, <2>1, <2>2, <2>3, StepControl
<1> QED
  BY <1>5, <1>6, <1>7, <1>8

\* A step of a recovery.
LEMMA RecoveryControl ==
    Control /\ (RecoverChains \/ IntendAgain \/ Recognise \/ Kill \/ Unchain) => Control'
<1> SUFFICES ASSUME Control, RecoverChains \/ IntendAgain \/ Recognise \/ Kill \/ Unchain
             PROVE  Control'
  OBVIOUS
<1>1. Typed /\ Hosted /\ saved \in States /\ disk \in States /\ live \in Lives
      /\ session \in Sessions /\ kernel \subseteq Kinds \X Parts /\ work \in TypedWork
      /\ chain \in {"off", "mark", "block", "stale"} /\ slice \in BOOLEAN /\ crashes \in 0 .. MaxCrashes
  BY DEF Control, Typed
<1>2. \E step \in {"chains", "reintend", "recognise", "kill", "unchain"} : At(step)
  BY DEF RecoverChains, IntendAgain, Recognise, Kill, Unchain
<1>3. daemon /\ work.todo # <<>> /\ work.then = Recovering /\ Stage(work.then) = "recovered"
  BY <1>2, AtStep, Ends
<1>4. CASE RecoverChains
  <2>1. saved' \in States
    BY <1>1, <1>4 DEF RecoverChains, States
  <2>2. /\ work' = [work EXCEPT !.todo = RecoveryOf(saved')] /\ daemon' = daemon /\ session' = session
        /\ slice' = slice /\ crashes' = crashes /\ chain' \in {chain, "block", "off"} /\ kernel' = kernel
        /\ live' = live /\ disk' = disk /\ faults' \in 0 .. MaxFaults
    BY <1>1, <1>4, Counted DEF RecoverChains, UnaffectedByStep, Fails
  <2>3. RecoveryOf(saved') \in Seq(Steps) /\ Only(RecoveryOf(saved'), Recoveries)
    BY <2>1, RecoveryIs
  <2>4. /\ work' \in TypedWork /\ work'.todo = RecoveryOf(saved') /\ work'.then = work.then
        /\ work'.name = work.name
    BY <1>1, <2>2, <2>3 DEF TypedWork
  <2>5. Typed'
    BY <1>1, <2>1, <2>2, <2>4 DEF Typed
  <2>6. work'.todo \notin {<< <<"rejournal">> >>, << <<"install">> >>}
    <3>1. <<"rejournal">> \notin Recoveries /\ <<"install">> \notin Recoveries
      BY DEF Recoveries, Deletions
    <3> QED
      BY <2>3, <2>4, <3>1 DEF Only
  <2>7. Shaped'
    <3>1. Shaped
      BY DEF Control
    <3>2. work.name = "recover" /\ live.kind = "none"
      BY <1>3, <3>1 DEF Shaped
    <3>3. Stopping(Forgetting) # work.then /\ Stopping(Planning) # work.then
      BY <1>3, StopEnds DEF After
    <3> QED
      BY <1>3, <2>2, <2>3, <2>4, <2>6, <3>2, <3>3 DEF Shaped, Cleaning
  <2>8. Hosted'
    BY <1>1, <1>3, <2>2 DEF Hosted
  <2> QED
    BY <2>5, <2>7, <2>8 DEF Control
<1>5. CASE IntendAgain
  <2>1. saved' \in States
    BY <1>1, <1>5 DEF IntendAgain, States, Records
  <2>2. /\ work' \in {Advanced, Broken} /\ daemon' = daemon /\ session' = session /\ slice' = slice
        /\ crashes' = crashes /\ chain' = chain /\ kernel' = kernel /\ disk' \in {disk, saved'}
        /\ live' = live /\ faults' \in 0 .. MaxFaults
    BY <1>1, <1>5, Counted DEF IntendAgain, UnaffectedByStep, Saves, SaveFails, Fails
  <2> QED
    BY <1>1, <1>3, <2>1, <2>2, StepControl
<1>6. CASE Recognise
  <2>1. /\ work' \in {Advanced, Broken} /\ daemon' = daemon /\ session' = session /\ slice' = slice
        /\ crashes' = crashes /\ chain' = chain /\ kernel' = kernel /\ saved' = saved /\ disk' = disk
        /\ live' = live /\ faults' \in 0 .. MaxFaults
    BY <1>1, <1>6, Counted DEF Recognise, UnaffectedByStep, Fails
  <2> QED
    BY <1>1, <1>3, <2>1, StepControl
<1>7. CASE Kill
  <2>1. /\ work' \in {Advanced, Broken} /\ daemon' = daemon /\ session' = session /\ slice' = slice
        /\ crashes' = crashes /\ chain' = chain /\ kernel' \subseteq kernel
        /\ saved' = saved /\ disk' = disk /\ live' = live /\ faults' \in 0 .. MaxFaults
    BY <1>1, <1>7, Counted DEF Kill, UnaffectedByStep, Fails
  <2> QED
    BY <1>1, <1>3, <2>1, StepControl
<1>8. CASE Unchain
  <2>1. /\ work' \in {Advanced, Broken} /\ daemon' = daemon /\ session' = session /\ slice' = slice
        /\ crashes' = crashes /\ chain' \in {chain, "off"} /\ kernel' = kernel
        /\ saved' = saved /\ disk' = disk /\ live' = live /\ faults' \in 0 .. MaxFaults
    BY <1>1, <1>8, Counted DEF Unchain, UnaffectedByStep, Fails
  <2> QED
    BY <1>1, <1>3, <2>1, StepControl
<1> QED
  BY <1>4, <1>5, <1>6, <1>7, <1>8

\* A step that is replaced by others.
LEMMA ExpandedIs ==
    ASSUME Control, work.todo # <<>> \/ work.then # <<>>,
           NEW todo \in Seq(Steps), NEW then, NEW verdict \in {"release", "block"},
           NEW deletes \in BOOLEAN, then \o Advanced.then \in Thens,
           then \o Advanced.then # <<>>
    PROVE  LET w == Expanded(todo, then, verdict, deletes)
           IN  /\ w \in TypedWork /\ w.todo = todo /\ w.then = then \o Advanced.then
               /\ w.name = work.name /\ ~w.failed /\ w.verdict = verdict /\ w.deletes = deletes
<1> DEFINE list == then \o Advanced.then
           w == [work EXCEPT !.todo = todo, !.then = list, !.verdict = verdict,
                             !.deletes = deletes, !.failed = FALSE]
<1>1. work \in TypedWork /\ list \in Thens /\ list # <<>>
  BY DEF Control, Typed
<1>2. Expanded(todo, then, verdict, deletes) = Settled(w)
  BY DEF Expanded
<1> HIDE DEF list
<1>3. /\ w \in TypedWork /\ w.todo = todo /\ w.then = list /\ w.name = work.name /\ ~w.failed
      /\ w.verdict = verdict /\ w.deletes = deletes
  BY <1>1 DEF TypedWork
<1> HIDE DEF w
<1>4. Settled(w) = w
  BY <1>1, <1>3, SettledIs
<1> QED
  BY <1>2, <1>3, <1>4 DEF list

\* A stop becomes the removal of the interface.
LEMMA StopControl == Control /\ Stop => Control'
<1> SUFFICES ASSUME Control, Stop
             PROVE  Control'
  OBVIOUS
<1>1. Typed /\ Hosted /\ Shaped /\ saved \in States /\ disk \in States /\ live \in Lives
      /\ session \in Sessions /\ kernel \subseteq Kinds \X Parts /\ work \in TypedWork
      /\ chain \in {"off", "mark", "block", "stale"} /\ slice \in BOOLEAN /\ crashes \in 0 .. MaxCrashes
  BY DEF Control, Typed
<1>2. At("stop")
  BY DEF Stop
<1>3. /\ daemon /\ work.todo = << <<"stop">> >> /\ work.todo # <<>> /\ work.then \in Thens
      /\ Tail(work.todo) = <<>>
      /\ Stage(work.then) \in {"end", "rejected", "launch", "released", "removed", "forget", "plan"}
  <2>1. daemon /\ work.then \in Thens /\ work.todo = << <<"stop">> >> /\ work.todo \in Lone
    BY <1>2, AtStep
  <2>2. Stage(work.then) \in {"end", "rejected", "launch", "released", "removed", "forget", "plan"}
    BY <1>2, AtStep
  <2>3. work.todo # <<>> /\ Tail(work.todo) = <<>>
    BY <2>1, Words
  <2> QED
    BY <2>1, <2>2, <2>3
<1>4. work.then \in After
  <2>1. Stage(work.then) # "rejected"
    BY <1>1, <1>3 DEF Shaped
  <2> QED
    BY <1>3, <2>1, StagesAre DEF After
<1>5. CASE live.kind = "none"
  <2>1. /\ work' \in {Advanced, Broken} /\ daemon' = daemon /\ session' = session /\ slice' = slice
        /\ crashes' = crashes /\ chain' = chain /\ kernel' = kernel /\ saved' = saved /\ disk' = disk
        /\ live' = live /\ faults' \in 0 .. MaxFaults
    BY <1>1, <1>5, Counted DEF Stop, UnaffectedByStep
  <2> QED
    BY <1>1, <1>3, <2>1, StepControl
<1>6. CASE live.kind # "none"
  <2> DEFINE deletes == work.name = "delete"
             ends == IF deletes THEN "deleted" ELSE "stopped"
             verdict == IF work.name = "switch" THEN SwitchVerdict ELSE Verdict
             whole == Expanded(CleanupOf(deletes), << <<ends>> >>, verdict, deletes)
  <2>1. Removal(deletes, ends, verdict)
    BY <1>6 DEF Stop
  <2>2. /\ daemon' = daemon /\ session' = session /\ slice' = slice
        /\ crashes' = crashes /\ chain' = chain /\ kernel' = kernel
    BY DEF Stop, UnaffectedByStep
  <2>3. deletes \in BOOLEAN /\ verdict \in {"release", "block"}
    BY DEF Verdict, SwitchVerdict
  <2> HIDE DEF verdict
  <2>4. /\ work' \in {whole, Broken} /\ live' \in Lives /\ live'.kind = live.kind
        /\ live'.up = live.up /\ (saved' = saved \/ saved' = Journal(live'))
        /\ disk' \in {disk, saved'} /\ (Works \/ \E what \in Faulty : Fails(what))
    <3>1. CASE live.kind = "owned"
      BY <1>1, <2>1, <3>1 DEF Removal, Lives, Saves, SaveFails, Fails
    <3>2. CASE live.kind # "owned"
      BY <1>1, <2>1, <3>2 DEF Removal
    <3> QED
      BY <3>1, <3>2
  <2>5. saved' \in States /\ disk' \in States /\ faults' \in 0 .. MaxFaults
    BY <1>1, <2>4, JournalIs, Counted
  <2>6. Advanced.then = work.then
    BY <1>3, Moves
  <2>7. CASE work' = Broken
    BY <1>1, <1>3, <2>2, <2>4, <2>5, <2>7, StepControl
  <2>8. CASE work' = whole
    <3> DEFINE list == << <<ends>> >> \o Advanced.then
    <3>1. /\ CleanupOf(deletes) \in Seq(Steps) /\ Only(CleanupOf(deletes), Cleans)
          /\ CleanupOf(deletes) # <<>>
      BY <2>3, CleanupIs
    <3>2. IF deletes THEN list = Deleting ELSE list = Stopping(work.then)
      <4>1. CASE deletes
        <5>1. work.then = <<>>
          BY <1>1, <1>3, <4>1, StagesAre DEF Shaped
        <5> QED
          BY <2>6, <4>1, <5>1, Joined DEF Deleting
      <4>2. CASE ~deletes
        BY <2>6, <4>2 DEF Stopping
      <4> QED
        BY <4>1, <4>2
    <3>3. list \in Thens /\ list # <<>> /\ Stage(list) = (IF deletes THEN "deleted" ELSE "stopped")
      <4>1. CASE deletes
        <5>1. Deleting \in Thens /\ Deleting # <<>>
          BY DEF Thens, Deleting
        <5> QED
          BY <3>2, <4>1, <5>1, Ends
      <4>2. CASE ~deletes
        <5>1. Stopping(work.then) \in Thens
          BY <1>4 DEF Thens, Stoppings
        <5>2. Stopping(work.then) # <<>> /\ Stage(Stopping(work.then)) = "stopped"
          BY <1>4, StopEnds
        <5> QED
          BY <3>2, <4>2, <5>1, <5>2
      <4> QED
        BY <4>1, <4>2
    <3> DEFINE first == << <<ends>> >>
    <3>0. list = first \o Advanced.then /\ whole = Expanded(CleanupOf(deletes), first, verdict, deletes)
      OBVIOUS
    <3> HIDE DEF list, first, whole
    <3>4. /\ work' \in TypedWork /\ work'.todo = CleanupOf(deletes) /\ work'.then = list
          /\ work'.name = work.name
      <4>1. first \o Advanced.then \in Thens /\ first \o Advanced.then # <<>>
        BY <3>0, <3>3
      <4> DEFINE w == Expanded(CleanupOf(deletes), first, verdict, deletes)
      <4> HIDE DEF deletes
      <4>2. /\ w \in TypedWork /\ w.todo = CleanupOf(deletes)
            /\ w.then = first \o Advanced.then /\ w.name = work.name
        BY <1>3, <2>3, <3>1, <4>1, ExpandedIs
      <4> QED
        BY <2>8, <3>0, <4>2
    <3>5. Typed'
      BY <1>1, <2>2, <2>4, <2>5, <3>4 DEF Typed
    <3>6. list \in {Stopping(Forgetting), Stopping(Planning)} => live.kind = "legacy"
      <4> SUFFICES ASSUME list \in {Stopping(Forgetting), Stopping(Planning)}
                   PROVE  live.kind = "legacy"
        OBVIOUS
      <4>1. Stage(list) = "stopped"
        BY StopEnds DEF After
      <4>2. list = Stopping(work.then)
        BY <3>2, <3>3, <4>1
      <4>3. work.then \in {Forgetting, Planning}
        BY <1>4, <4>2, StopEnds DEF After
      <4> QED
        BY <1>1, <4>3, Ends DEF Shaped
    <3>7. work'.todo \notin {<< <<"rejournal">> >>, << <<"install">> >>}
      <4>1. <<"rejournal">> \notin Cleans /\ <<"install">> \notin Cleans
        BY DEF Cleans, Deletions
      <4> QED
        BY <3>1, <3>4, <4>1 DEF Only
    <3>8. Shaped'
      <4>1. work.name # "recover"
        BY <1>1, <1>3 DEF Shaped
      <4> QED
        BY <1>6, <2>4, <3>1, <3>3, <3>4, <3>6, <3>7, <4>1 DEF Shaped, Cleaning
    <3>9. Hosted'
      BY <1>1, <1>3, <2>2, <2>4 DEF Hosted
    <3> QED
      BY <3>5, <3>8, <3>9 DEF Control
  <2> QED
    BY <2>4, <2>7, <2>8
<1> QED
  BY <1>5, <1>6

\* The shape of the operations that begin with one step, and of those that only end.
LEMMA BegunShape ==
    ASSUME work' \in TypedWork,
           \/ work' = NoWork
           \/ /\ work'.todo = << <<"stop">> >>
              /\ work'.then \in After /\ work'.then # Exiting
              /\ work'.then \in {Forgetting, Planning} => live'.kind = "legacy"
              /\ work'.name = "delete" => work'.then = <<>>
           \/ work'.todo = << <<"restore">> >> /\ work'.then \in {<<>>, Launching, Rejecting}
              /\ work'.name # "delete"
           \/ work'.todo = << <<"rejournal">> >> /\ work'.then \in {<<>>, Launching, Rejecting}
              /\ live'.kind # "none" /\ work'.name # "delete"
           \/ work'.todo = << <<"install">> >> /\ work'.then = <<>> /\ live'.kind # "none"
              /\ work'.name # "delete"
           \/ /\ work'.todo = <<>> /\ work'.name # "delete"
              /\ work'.then \in {Rejecting, Launching, Releasing, Removing, Exiting},
           work'.name # "recover"
    PROVE  Shaped'
<1> DEFINE stage == Stage(work'.then)
<1>1. /\ << <<"stop">> >> \in Lone /\ << <<"restore">> >> \in Lone /\ << <<"rejournal">> >> \in Lone
      /\ << <<"install">> >> \in Lone
  BY DEF Lone, Singles
<1>2. /\ << <<"stop">> >> # << <<"install">> >> /\ << <<"restore">> >> # << <<"install">> >>
      /\ << <<"rejournal">> >> # << <<"install">> >> /\ << <<"stop">> >> # << <<"rejournal">> >>
      /\ << <<"restore">> >> # << <<"rejournal">> >> /\ <<>> # << <<"rejournal">> >>
      /\ <<>> # << <<"install">> >>
  OBVIOUS
<1>3. Stage(Stopping(Forgetting)) = "stopped" /\ Stage(Stopping(Planning)) = "stopped"
  BY StopEnds DEF After
<1>4. NoWork.todo = <<>> /\ NoWork.then = <<>> /\ NoWork.name = "idle"
  BY DEF NoWork
<1>5. CASE work' = NoWork
  BY <1>2, <1>3, <1>4, <1>5, Ends DEF Shaped, Cleaning
<1>6. CASE /\ work'.todo = << <<"stop">> >>
           /\ work'.then \in After /\ work'.then # Exiting
           /\ work'.then \in {Forgetting, Planning} => live'.kind = "legacy"
           /\ work'.name = "delete" => work'.then = <<>>
  <2>1. stage \in {"end", "launch", "forget", "plan", "released", "removed"}
    BY <1>6, Ends DEF After
  <2>2. stage \in {"forget", "plan"} => live'.kind = "legacy"
    BY <1>6, Ends DEF After
  <2>3. work'.name = "delete" => stage = "end"
    BY <1>6, Ends
  <2>4. work'.then \notin {Stopping(Forgetting), Stopping(Planning)}
    BY <1>3, <2>1
  <2> HIDE DEF stage
  <2> QED
    BY <1>1, <1>2, <1>6, <2>1, <2>2, <2>3, <2>4 DEF Shaped, Cleaning, stage
<1>7. CASE /\ \/ work'.todo = << <<"restore">> >>
              \/ work'.todo = << <<"rejournal">> >> /\ live'.kind # "none"
           /\ work'.then \in {<<>>, Launching, Rejecting} /\ work'.name # "delete"
  <2>1. stage \in {"end", "launch", "rejected"}
    BY <1>7, Ends
  <2>2. work'.then \notin {Stopping(Forgetting), Stopping(Planning)}
    BY <1>3, <2>1
  <2> HIDE DEF stage
  <2> QED
    BY <1>1, <1>2, <1>7, <2>1, <2>2 DEF Shaped, Cleaning, stage
<1>8. CASE work'.todo = << <<"install">> >> /\ work'.then = <<>> /\ live'.kind # "none"
           /\ work'.name # "delete"
  <2>1. stage = "end"
    BY <1>8, Ends
  <2>2. work'.then \notin {Stopping(Forgetting), Stopping(Planning)}
    BY <1>3, <2>1
  <2> HIDE DEF stage
  <2> QED
    BY <1>1, <1>2, <1>8, <2>1, <2>2 DEF Shaped, Cleaning, stage
<1>9. CASE /\ work'.todo = <<>> /\ work'.name # "delete"
           /\ work'.then \in {Rejecting, Launching, Releasing, Removing, Exiting}
  <2>1. stage \in {"rejected", "launch", "released", "removed", "exit"}
    BY <1>9, Ends
  <2>2. work'.then \notin {Stopping(Forgetting), Stopping(Planning)}
    BY <1>3, <2>1
  <2> HIDE DEF stage
  <2> QED
    BY <1>1, <1>2, <1>9, <2>1, <2>2 DEF Shaped, Cleaning, stage
<1> QED
  BY <1>5, <1>6, <1>7, <1>8, <1>9

\* The steps of one operation each.
LEMMA LoneControl ==
    Control /\ (Restore \/ Rejournal \/ Install) => Control'
<1> SUFFICES ASSUME Control, Restore \/ Rejournal \/ Install
             PROVE  Control'
  OBVIOUS
<1>1. Typed /\ Hosted /\ Shaped /\ saved \in States /\ disk \in States /\ live \in Lives
      /\ session \in Sessions /\ kernel \subseteq Kinds \X Parts /\ work \in TypedWork
      /\ live.kind \in Kinds \cup {"none"}
      /\ chain \in {"off", "mark", "block", "stale"} /\ slice \in BOOLEAN /\ crashes \in 0 .. MaxCrashes
  BY DEF Control, Typed, Lives
<1>2. \E step \in {"restore", "rejournal", "install"} : At(step) /\ work.todo = << <<step>> >>
  BY AtStep DEF Restore, Rejournal, Install
<1>3. /\ daemon /\ work.todo # <<>> /\ work.then \in Thens
      /\ Stage(work.then) \in {"end", "rejected", "launch", "released", "removed", "forget", "plan"}
  <2>1. PICK step \in {"restore", "rejournal", "install"} : At(step)
    BY <1>2
  <2>2. work.todo \in Lone /\ daemon /\ work.then \in Thens
    BY <2>1, AtStep
  <2>3. Stage(work.then) \in {"end", "rejected", "launch", "released", "removed", "forget", "plan"}
    BY <2>1, AtStep
  <2> QED
    BY <2>2, <2>3, Words
<1>4. CASE Restore
  <2>1. daemon' = daemon /\ session' = session /\ slice' = slice
        /\ crashes' = crashes /\ chain' = chain /\ saved' = saved /\ disk' = disk
        /\ faults' \in 0 .. MaxFaults
    BY <1>1, <1>4, Counted DEF Restore, UnaffectedByStep, Fails
  <2>2. live' \in Lives /\ live'.kind = live.kind /\ live'.up = live.up
    <3> DEFINE again == IF live.kind = "owned" /\ live.tried THEN 1 ELSE live.restarts
               admitted == [live EXCEPT !.tried = TRUE, !.restarts = again]
    <3>1. again \in 0 .. 1
      BY <1>1 DEF Lives
    <3>2. live' \in {live, admitted, [admitted EXCEPT !.helper = TRUE]}
      BY <1>4 DEF Restore
    <3> HIDE DEF again
    <3>3. admitted \in Lives /\ admitted.kind = live.kind /\ admitted.up = live.up
      BY <1>1, <3>1 DEF Lives
    <3> HIDE DEF admitted
    <3>4. /\ [admitted EXCEPT !.helper = TRUE] \in Lives
          /\ [admitted EXCEPT !.helper = TRUE].kind = live.kind
          /\ [admitted EXCEPT !.helper = TRUE].up = live.up
      BY <3>3 DEF Lives
    <3> QED
      BY <1>1, <3>2, <3>3, <3>4
  <2>3. live.up => live.kind \in Kinds
    BY <1>1 DEF Hosted
  <2>4. kernel' \subseteq Kinds \X Parts
    BY <1>1, <1>4, <2>3 DEF Restore, Parts
  <2>5. \/ work' \in {Advanced, Broken}
        \/ work' = [work EXCEPT !.todo = << <<"rejournal">> >>] /\ live.up
    BY <1>4 DEF Restore
  <2>6. CASE work' \in {Advanced, Broken}
    BY <1>1, <1>3, <2>1, <2>2, <2>4, <2>6, StepControl
  <2>7. CASE work' = [work EXCEPT !.todo = << <<"rejournal">> >>] /\ live.up
    <3>1. << <<"rejournal">> >> \in Seq(Steps)
      BY SingleIs DEF Singles
    <3>2. /\ work' \in TypedWork /\ work'.todo = << <<"rejournal">> >> /\ work'.then = work.then
          /\ work'.name = work.name
      BY <1>1, <2>7, <3>1 DEF TypedWork
    <3>3. work.todo = << <<"restore">> >>
      BY <1>4, AtStep DEF Restore
    <3>4. Stage(work.then) \in {"end", "rejected", "launch"}
      BY <1>1, <1>3, <3>3 DEF Shaped
    <3>5. work.then \in {<<>>, Launching, Rejecting}
      BY <1>3, <3>4, StagesAre
    <3>6. work.name # "recover"
      BY <1>1, <3>4 DEF Shaped
    <3>7. work.name # "delete"
      <4>1. << <<"restore">> >> # << <<"stop">> >>
        OBVIOUS
      <4> QED
        BY <1>1, <3>3, <3>4, <4>1 DEF Shaped
    <3>8. Shaped'
      <4>1. live'.kind # "none"
        BY <1>1, <2>2, <2>7 DEF Hosted
      <4>2. work'.name # "recover" /\ work'.name # "delete"
        BY <3>2, <3>6, <3>7
      <4> QED
        BY <3>2, <3>5, <4>1, <4>2, BegunShape
    <3> QED
      BY <1>1, <1>3, <2>1, <2>2, <2>4, <3>2, <3>8 DEF Control, Typed, Hosted
  <2> QED
    BY <2>5, <2>6, <2>7
<1>5. CASE Rejournal
  <2>1. daemon' = daemon /\ session' = session /\ slice' = slice
        /\ crashes' = crashes /\ chain' = chain /\ kernel' \subseteq kernel
        /\ work' \in {Advanced, Broken} /\ disk' \in {disk, saved'} /\ faults' \in 0 .. MaxFaults
    BY <1>1, <1>5, Counted DEF Rejournal, UnaffectedByStep, Saves, SaveFails, Fails
  <2>2. live' \in Lives /\ live'.kind = live.kind /\ live'.up = live.up
    <3> DEFINE once == 1
               stopped == [live EXCEPT !.helper = FALSE, !.tried = TRUE, !.restarts = once]
    <3>0. once \in 0 .. 1
      OBVIOUS
    <3> HIDE DEF once
    <3>1. live' \in {live, stopped}
      BY <1>5 DEF Rejournal, once
    <3>2. stopped \in Lives /\ stopped.kind = live.kind /\ stopped.up = live.up
      BY <1>1, <3>0 DEF Lives
    <3> HIDE DEF stopped
    <3> QED
      BY <1>1, <3>1, <3>2
  <2>3. saved' \in States
    BY <1>1, <1>5, JournalIs DEF Rejournal
  <2> QED
    BY <1>1, <1>3, <2>1, <2>2, <2>3, StepControl
<1>6. CASE Install
  <2>1. daemon' = daemon /\ session' = session /\ slice' = slice
        /\ crashes' = crashes /\ chain' \in {chain, "mark"} /\ kernel' = kernel
        /\ work' \in {Advanced, Broken} /\ faults' \in 0 .. MaxFaults
        /\ disk' \in {disk, saved', [saved EXCEPT !.bound = FALSE]}
    <3>1. Works \/ \E what \in Faulty : Fails(what)
      BY <1>6 DEF Install, Fails
    <3> QED
      BY <1>1, <1>6, <3>1, Counted DEF Install, UnaffectedByStep
  <2>2. live' \in Lives /\ live'.kind = live.kind /\ live'.up = live.up
    BY <1>1, <1>6 DEF Install, Lives
  <2>3. saved' \in States
    <3>1. Journal(live') \in States
      BY <1>1, <2>2, JournalIs
    <3>2. saved' = saved \/ saved' = [Journal(live') EXCEPT !.bound = FALSE]
      BY <1>6 DEF Install
    <3> QED
      BY <1>1, <3>1, <3>2 DEF States
  <2>4. disk' \in States
    BY <1>1, <2>1, <2>3 DEF States
  <2> QED
    BY <1>1, <1>3, <2>1, <2>2, <2>3, <2>4, StepControl
<1> QED
  BY <1>4, <1>5, <1>6

\* The interface stands.
LEMMA UpControl == Control /\ Up => Control'
<1> SUFFICES ASSUME Control, Up
             PROVE  Control'
  OBVIOUS
<1>1. Typed /\ Hosted /\ Shaped /\ saved \in States /\ disk \in States /\ live \in Lives
      /\ session \in Sessions /\ work \in TypedWork
  BY DEF Control, Typed
<1>2. At("up") /\ daemon
  BY AtStep DEF Up
<1>3. live' \in Lives /\ live'.kind = live.kind /\ live.kind # "none"
  <2>1. work.then = Rolling
    BY <1>2, AtStep
  <2>2. live.kind # "none"
    BY <1>1, <2>1, Ends DEF Shaped
  <2> QED
    BY <1>1, <2>2 DEF Up, Lives
<1>4. /\ daemon' = daemon /\ session' = session /\ slice' = slice
      /\ crashes' = crashes /\ chain' = chain /\ kernel' = kernel /\ disk' \in {disk, saved'}
      /\ faults' \in 0 .. MaxFaults
  BY <1>1, Counted DEF Up, UnaffectedByStep, Saves, SaveFails, Fails
<1>5. saved' \in States
  BY <1>1, <1>3, SyncedIs DEF Up, Sessions
<1>6. \/ work' = Begin("start", <<>>, <<>>)
      \/ work' = Failed(Begin("start", <<>>, Rejecting))
  BY DEF Up, Failed, Rejecting
<1>7. /\ <<>> \in Seq(Steps) /\ <<>> \in Thens /\ Rejecting \in Thens /\ "start" \in Names
      /\ Rejecting # <<>>
  BY EmptyIs, Ends DEF Thens, After, Names, Rejecting
<1> DEFINE none == [NoWork EXCEPT !.name = "start", !.todo = <<>>, !.then = <<>>]
           rest == [NoWork EXCEPT !.name = "start", !.todo = <<>>, !.then = Rejecting]
<1>8. Begin("start", <<>>, <<>>) = Settled(none) /\ Begin("start", <<>>, Rejecting) = Settled(rest)
  BY DEF Begin
<1>9. /\ none \in TypedWork /\ none.todo = <<>> /\ none.then = <<>>
      /\ rest \in TypedWork /\ rest.todo = <<>> /\ rest.then = Rejecting /\ rest.name = "start"
  BY <1>7 DEF TypedWork, NoWork
<1> HIDE DEF none, rest
<1>13. Settled(none) = NoWork /\ Settled(rest) = rest /\ NoWork \in TypedWork
  BY <1>7, <1>9, SettledIs
<1>10. work' \in TypedWork
       /\ (work' = NoWork \/ (work'.todo = <<>> /\ work'.then = Rejecting /\ work'.name = "start"))
  <2>1. work' = NoWork \/ work' = Failed(rest)
    BY <1>6, <1>8, <1>13
  <2>2. /\ Failed(rest) \in TypedWork /\ Failed(rest).todo = rest.todo
        /\ Failed(rest).then = rest.then /\ Failed(rest).name = rest.name
    BY <1>9 DEF TypedWork, Failed
  <2> QED
    BY <1>9, <1>13, <2>1, <2>2
<1>11. NoWork.name = "idle"
  BY DEF NoWork
<1>12. Shaped'
  BY <1>10, <1>11, BegunShape
<1> QED
  BY <1>1, <1>2, <1>3, <1>4, <1>5, <1>10, <1>12 DEF Control, Typed, Hosted

\* An interface that was taken away, and how it is reported.
LEMMA StoppedControl == Control /\ (Stopped \/ Deleted) => Control'
<1> SUFFICES ASSUME Control, Stopped \/ Deleted
             PROVE  Control'
  OBVIOUS
<1>1. Typed /\ Hosted /\ Shaped /\ saved \in States /\ disk \in States /\ live \in Lives
      /\ session \in Sessions /\ work \in TypedWork /\ work.then \in Thens
  BY DEF Control, Typed, TypedWork
<1>2. daemon /\ work.todo = <<>> /\ work.then # <<>> /\ Stage(work.then) \in {"stopped", "deleted"}
      /\ (Deleted => Stage(work.then) = "deleted")
  BY AtStep DEF Stopped, Deleted
<1>3. live.kind # "none" /\ live.kind \in Kinds
  BY <1>1, <1>2 DEF Shaped, Cleaning, Lives
<1>4. /\ daemon' = daemon /\ session' = session /\ slice' = slice
      /\ crashes' = crashes /\ chain' = chain /\ kernel' = kernel
  BY DEF Stopped, Deleted, UnaffectedByStep
<1>5. ASSUME FinishDeletion, work.then \notin {Stopping(Forgetting), Stopping(Planning)}
      PROVE  Control'
  <2> DEFINE gone == [saved EXCEPT !.interface = NoRecord]
             free == [gone EXCEPT !.bound = FALSE]
  <2>1. gone \in States /\ free \in States
    BY <1>1, NothingIs DEF States
  <2>2. saved' \in {gone, free, Journal(live)} /\ disk' \in {disk, gone, free}
        /\ live' \in {live, NoInterface} /\ work' \in {Advanced, Broken}
        /\ (Works \/ \E what \in Faulty : Fails(what))
    BY <1>5 DEF FinishDeletion, Saves, Fails
  <2>3. saved' \in States /\ disk' \in States /\ live' \in Lives /\ faults' \in 0 .. MaxFaults
    BY <1>1, <2>1, <2>2, JournalIs, NothingIs, Counted
  <2>4. work' \in TypedWork /\ Shaped'
    BY <1>2, <1>5, <2>2, MovedShape
  <2>5. Hosted'
    BY <1>1, <1>2, <1>4, <2>2, NothingIs DEF Hosted
  <2> QED
    BY <1>1, <1>4, <2>3, <2>4, <2>5 DEF Control, Typed
<1>6. CASE Deleted
  <2>1. Stage(work.then) = "deleted"
    BY <1>2, <1>6
  <2>2. work.then \notin {Stopping(Forgetting), Stopping(Planning)}
    BY <2>1, StopEnds DEF After
  <2>3. CASE FinishDeletion
    BY <1>5, <2>2, <2>3
  <2>4. CASE /\ Works /\ work' = Broken
             /\ UNCHANGED <<live, saved, disk>>
    <3>1. faults' \in 0 .. MaxFaults
      BY <1>1, <2>4, Counted
    <3>2. live' = live /\ saved' = saved /\ disk' = disk
      BY <2>4
    <3> QED
      BY <1>1, <1>2, <1>4, <2>4, <3>1, <3>2, StepControl DEF Typed
  <2> QED
    BY <1>6, <2>3, <2>4 DEF Deleted
<1>7. CASE Stopped /\ live.kind = "owned" /\ ~work.failed
  <2>1. FinishDeletion
    BY <1>7 DEF Stopped
  <2>2. work.then \notin {Stopping(Forgetting), Stopping(Planning)}
    BY <1>1, <1>7 DEF Shaped
  <2> QED
    BY <1>5, <2>1, <2>2
<1>8. CASE Stopped /\ ~(live.kind = "owned" /\ ~work.failed)
  <2> DEFINE synced == Synced(session.here, live')
             keeps == work.failed \/ work.verdict = "block"
             held == work.verdict = "block"
  <2>1. /\ live' = IF work.failed THEN live ELSE [live EXCEPT !.cgroup = held]
        /\ saved' = [synced EXCEPT !.bound = @ /\ keeps]
        /\ work' \in {Advanced, Broken} /\ disk' \in {disk, saved'}
        /\ (Works \/ \E what \in Faulty : Fails(what))
    BY <1>8 DEF Stopped, Saves, SaveFails, Fails
  <2>2. held \in BOOLEAN /\ keeps \in BOOLEAN
    BY <1>1 DEF TypedWork
  <2> HIDE DEF held, keeps
  <2>3. live' \in Lives /\ live'.kind = live.kind /\ live'.up = live.up
    BY <1>1, <2>1, <2>2 DEF Lives
  <2>4. synced \in States
    BY <1>1, <2>3, SyncedIs DEF Sessions
  <2> HIDE DEF synced
  <2>5. saved' \in States
    BY <2>1, <2>2, <2>4 DEF States
  <2>6. faults' \in 0 .. MaxFaults /\ disk' \in States
    BY <1>1, <2>1, <2>5, Counted
  <2> QED
    BY <1>1, <1>2, <1>4, <2>1, <2>3, <2>5, <2>6, StepControl DEF Typed
<1> QED
  BY <1>6, <1>7, <1>8

\* A step that nothing of the operation but its end follows.
LEMMA LastControl ==
    ASSUME Control, work.todo = <<>>, work.then # <<>>, Stage(work.then) # "stopped",
           work' \in {Advanced, Broken} \/ (work' = Failed(Advanced) /\ work'.then # <<>>),
           live'.kind # "none" => session'.here, live'.up => live'.kind # "none",
           daemon, daemon', session' \in Sessions,
           kernel' \subseteq Kinds \X Parts, chain' \in {"off", "mark", "block", "stale"},
           slice' \in BOOLEAN, saved' \in States, disk' \in States, live' \in Lives,
           faults' \in 0 .. MaxFaults, crashes' \in 0 .. MaxCrashes
    PROVE  Control'
<1>0. work.then \notin {Stopping(Forgetting), Stopping(Planning)}
  BY StopEnds DEF After
<1>1. work' \in TypedWork /\ Shaped'
  BY <1>0, MovedShape
<1>2. Typed'
  BY <1>1 DEF Typed
<1>3. Hosted'
  BY DEF Hosted, Control
<1> QED
  BY <1>1, <1>2, <1>3 DEF Control

\* What ends an operation.
LEMMA EndControl ==
    Control /\ (Released \/ Replan \/ Forget \/ Launch \/ Removed \/ Recovered \/ RolledBack)
       => Control'
<1> SUFFICES ASSUME Control,
                    Released \/ Replan \/ Forget \/ Launch \/ Removed \/ Recovered \/ RolledBack
             PROVE  Control'
  OBVIOUS
<1>1. Typed /\ Hosted /\ Shaped /\ saved \in States /\ disk \in States /\ live \in Lives
      /\ session \in Sessions /\ kernel \subseteq Kinds \X Parts
      /\ chain \in {"off", "mark", "block", "stale"} /\ slice \in BOOLEAN
      /\ crashes \in 0 .. MaxCrashes /\ session.here \in BOOLEAN /\ work \in TypedWork
  BY DEF Control, Typed, Sessions
<1>2. /\ daemon /\ work.todo = <<>> /\ work.then # <<>> /\ Stage(work.then) # "stopped"
      /\ work.then \in Thens
  <2>1. \E step \in {"released", "plan", "forget", "launch", "removed", "recovered", "undone"} :
           At(step)
    BY DEF Released, Replan, Forget, Launch, Removed, Recovered, RolledBack
  <2>2. PICK step \in {"released", "plan", "forget", "launch", "removed", "recovered", "undone"} :
           At(step)
    BY <2>1
  <2>3. /\ daemon /\ work.then \in Thens /\ work.todo = <<>> /\ work.then # <<>>
        /\ Stage(work.then) = step
    BY <2>2, AtStep
  <2> QED
    BY <2>3
<1>3. CASE Released \/ Launch
  <2>1. /\ daemon' = daemon /\ slice' = slice /\ crashes' = crashes /\ chain' = chain
        /\ kernel' = kernel /\ live' = live /\ work' \in {Advanced, Broken}
        /\ session' \in Sessions /\ session'.here = session.here
        /\ saved' \in {saved, Synced(session.here, live), Synced(TRUE, live)}
        /\ disk' \in {disk, saved'} /\ (Works \/ \E what \in Faulty : Fails(what))
    BY <1>1, <1>3 DEF Released, Launch, Sessions, TriesToSave, Saves, SaveFails, Fails
  <2>2. saved' \in States /\ faults' \in 0 .. MaxFaults
    BY <1>1, <2>1, SyncedIs, Counted
  <2> QED
    BY <1>1, <1>2, <2>1, <2>2, LastControl DEF Hosted
<1>4. CASE Replan
  <2>1. live.kind = "legacy" /\ session.here
    BY <1>1, <1>4, AtStep DEF Replan, Shaped, Hosted
  <2>2. /\ PlannedInterface("legacy") \in Lives /\ PlannedInterface("legacy").kind = "legacy"
    <3> DEFINE created == live.created \/ ~DeviceExists
               cgroup == saved.bound /\ slice
    <3>1. created \in BOOLEAN /\ cgroup \in BOOLEAN
      BY <1>1 DEF Lives, States
    <3>2. PlannedInterface("legacy") = [NoInterface EXCEPT !.kind = "legacy", !.planned = TRUE,
                                            !.created = created, !.cgroup = cgroup]
      BY <3>1 DEF PlannedInterface
    <3> HIDE DEF created, cgroup
    <3> QED
      BY <3>1, <3>2, NothingIs DEF Lives, Kinds
  <2>3. /\ daemon' = daemon /\ session' = session /\ slice' = slice /\ crashes' = crashes
        /\ chain' = chain /\ kernel' = kernel /\ work' \in {Advanced, Broken}
        /\ live' \in {live, PlannedInterface("legacy")}
        /\ saved' \in {saved, [saved EXCEPT !.bound = FALSE]}
        /\ disk' \in {disk, saved'} /\ (Works \/ \E what \in Faulty : Fails(what))
    BY <1>4 DEF Replan, UnaffectedByStep, UnboundIfEnded, TriesToSave, Saves, SaveFails, Fails
  <2>4. saved' \in States /\ faults' \in 0 .. MaxFaults /\ disk' \in States
    BY <1>1, <2>3, Counted DEF States
  <2>5. live' \in Lives /\ live'.kind # "none"
    BY <1>1, <2>1, <2>2, <2>3
  <2> QED
    BY <1>1, <1>2, <2>1, <2>3, <2>4, <2>5, LastControl
<1>5. CASE Forget
  <2>1. /\ daemon' = daemon /\ session' = session /\ slice' = slice /\ crashes' = crashes
        /\ chain' = chain /\ kernel' = kernel /\ work' = Advanced /\ live' = NoInterface
        /\ saved' = saved /\ disk' = disk /\ Works
    BY <1>5 DEF Forget, UnaffectedByStep
  <2> QED
    BY <1>1, <1>2, <2>1, NothingIs, Counted, LastControl
<1>6. CASE Removed
  <2> DEFINE without == [saved EXCEPT !.session = FALSE, !.interface = NoRecord]
  <2>1. without \in States
    BY <1>1, NothingIs DEF States
  <2>2. /\ daemon' = daemon /\ session' = NoSession /\ slice' = slice /\ crashes' = crashes
        /\ chain' = chain /\ kernel' = kernel /\ work' \in {Advanced, Broken}
        /\ live' = NoInterface /\ saved' \in {saved, without} /\ disk' \in {disk, without}
        /\ (Works \/ \E what \in Faulty : Fails(what))
    BY <1>6 DEF Removed, Saves, SaveFails, Fails
  <2> HIDE DEF without
  <2> QED
    BY <1>1, <1>2, <2>1, <2>2, NothingIs, Counted, LastControl
<1>7. CASE Recovered
  <2>1. live.kind = "none"
    BY <1>1, <1>7, AtStep DEF Recovered, Shaped
  <2>2. /\ daemon' = daemon /\ slice' = slice /\ crashes' = crashes
        /\ chain' = chain /\ kernel' = kernel /\ work' = Advanced /\ live' = live
    BY <1>7 DEF Recovered
  <2>3. saved' \in States /\ disk' \in States /\ session' \in Sessions
        /\ (Works \/ \E what \in Faulty : Fails(what))
    <3>1. PICK adopted \in {FALSE} \cup {saved.session /\ saved.interface.kind # "owned"} :
            LET stays == adopted \/ work.failed
            IN \/ /\ saved' = [saved EXCEPT !.session = @ /\ stays,
                                            !.interface = IF work.failed THEN @ ELSE NoRecord]
                  /\ session' = [session EXCEPT !.here = @ /\ stays, !.core = adopted]
                  /\ disk' \in {disk, saved'}
                  /\ (Works \/ \E what \in Faulty : Fails(what))
               \/ /\ Fails("core")
                  /\ disk' \in {disk, saved}
                  /\ saved' = saved /\ session' = session
      BY <1>7 DEF Recovered, TriesToSave, Saves, SaveFails, Fails
    <3> DEFINE stays == adopted \/ work.failed
               sess == saved.session /\ stays
               here == session.here /\ stays
               record == IF work.failed THEN saved.interface ELSE NoRecord
    <3>2. adopted \in BOOLEAN /\ sess \in BOOLEAN /\ here \in BOOLEAN /\ record \in Records
      BY <1>1, NothingIs DEF States, Sessions, TypedWork
    <3>3. \/ /\ saved' = [saved EXCEPT !.session = sess, !.interface = record]
             /\ session' = [session EXCEPT !.here = here, !.core = adopted]
             /\ disk' \in {disk, saved'}
          \/ /\ disk' \in {disk, saved}
             /\ saved' = saved /\ session' = session
      BY <3>1
    <3>4. Works \/ \E what \in Faulty : Fails(what)
      BY <3>1 DEF Fails
    <3> HIDE DEF stays, sess, here, record
    <3> QED
      BY <1>1, <3>2, <3>3, <3>4 DEF States, Sessions
  <2> QED
    BY <1>1, <1>2, <2>1, <2>2, <2>3, Counted, LastControl DEF Hosted
<1>8. CASE RolledBack
  <2>1. work.then = Rolled /\ live.kind # "none"
    <3>1. Stage(work.then) = "undone"
      BY <1>8, AtStep DEF RolledBack
    <3> QED
      BY <1>1, <1>2, <3>1, StagesAre DEF Shaped, Cleaning
  <2>2. /\ daemon' = daemon /\ session' = session /\ slice' = slice /\ crashes' = crashes
        /\ chain' = chain /\ kernel' = kernel /\ work' = Failed(Advanced)
        /\ live' \in {live, [live EXCEPT !.created = FALSE]} /\ saved' = Synced(session.here, live')
        /\ disk' \in {disk, saved'} /\ (Works \/ \E what \in Faulty : Fails(what))
    BY <1>8 DEF RolledBack, UnaffectedByStep, TriesToSave, Saves, SaveFails, Fails, Failed
  <2>3. live' \in Lives /\ live'.kind = live.kind
    BY <1>1, <2>2 DEF Lives
  <2>4. saved' \in States /\ faults' \in 0 .. MaxFaults
    BY <1>1, <2>2, <2>3, SyncedIs, Counted
  <2>5. Failed(Advanced).then # <<>>
    <3>1. Advanced \in TypedWork /\ Advanced.then = Rejecting
      BY <1>2, <2>1, Moves, Ends
    <3>2. Rejecting # <<>>
      BY DEF Rejecting
    <3> QED
      BY <3>1, <3>2 DEF Failed, TypedWork
  <2> QED
    BY <1>1, <1>2, <2>1, <2>2, <2>3, <2>4, <2>5, LastControl DEF Hosted
<1> QED
  BY <1>3, <1>4, <1>5, <1>6, <1>7, <1>8

\* A failed start is undone.
LEMMA RollbackControl == Control /\ Rollback => Control'
<1> SUFFICES ASSUME Control, Rollback
             PROVE  Control'
  OBVIOUS
<1>1. Typed /\ Hosted /\ Shaped /\ saved \in States /\ disk \in States /\ live \in Lives
      /\ session \in Sessions /\ work \in TypedWork
  BY DEF Control, Typed
<1>2. /\ daemon /\ work.todo = <<>> /\ work.then # <<>> /\ Stage(work.then) = "rollback"
      /\ work.then = Rolling
  <2>1. At("rollback")
    BY DEF Rollback
  <2>2. /\ daemon /\ work.todo = <<>> /\ work.then # <<>> /\ Stage(work.then) = "rollback"
        /\ work.then \in Thens
    BY <2>1, AtStep
  <2> QED
    BY <2>2, StagesAre
<1>3. live.kind # "none" /\ work.name \notin {"recover", "delete"}
  BY <1>1, <1>2 DEF Shaped
<1> DEFINE empty == <<>>
           first == << <<"undone">> >>
           release == "release"
           no == FALSE
           fresh == live.fresh
           nothing == Expanded(empty, first, release, no)
           whole == Expanded(CleanupOf(fresh), first, Verdict, fresh)
<1>4. Advanced.then = Rejecting
  BY <1>2, Moves, Ends
<1>5. first \o Advanced.then = Rolled
  BY <1>4, Joined DEF Rejecting, Rolled
<1>6. /\ Rolled \in Thens /\ Rolled # <<>> /\ empty \in Seq(Steps) /\ Only(empty, Cleans)
      /\ release \in {"release", "block"} /\ no \in BOOLEAN /\ fresh \in BOOLEAN
      /\ Verdict \in {"release", "block"}
  BY <1>1, EmptyIs DEF Thens, Rolled, Lives, Verdict
<1> HIDE DEF first, empty, release, no, fresh
<1>17. first \o Advanced.then \in Thens /\ first \o Advanced.then # <<>>
  BY <1>5, <1>6
<1>7. /\ nothing \in TypedWork /\ nothing.todo = empty /\ nothing.then = first \o Advanced.then
      /\ nothing.name = work.name
  BY <1>2, <1>6, <1>17, ExpandedIs
<1>8. CleanupOf(fresh) \in Seq(Steps) /\ Only(CleanupOf(fresh), Cleans)
  BY <1>6, CleanupIs
<1>9. /\ whole \in TypedWork /\ whole.todo = CleanupOf(fresh)
      /\ whole.then = first \o Advanced.then /\ whole.name = work.name
  BY <1>2, <1>6, <1>8, <1>17, ExpandedIs
<1>10. work' \in {nothing, Failed(nothing), whole}
  BY DEF Rollback, Failed, empty, first, release, no, fresh
<1> HIDE DEF nothing, whole
<1>11. /\ work' \in TypedWork /\ Only(work'.todo, Cleans) /\ work'.then = Rolled
       /\ work'.name = work.name
  <2>1. /\ Failed(nothing) \in TypedWork /\ Failed(nothing).todo = nothing.todo
        /\ Failed(nothing).then = nothing.then /\ Failed(nothing).name = nothing.name
    BY <1>7 DEF Failed, TypedWork
  <2> QED
    BY <1>5, <1>6, <1>7, <1>8, <1>9, <1>10, <2>1
<1>12. /\ daemon' = daemon /\ session' = session /\ slice' = slice /\ crashes' = crashes
       /\ chain' = chain /\ kernel' = kernel
       /\ live' \in Lives /\ live'.kind = live.kind /\ saved' \in {saved, Journal(live')}
       /\ disk' \in {disk, saved'} /\ (Works \/ \E what \in Faulty : Fails(what))
  <2>1. /\ daemon' = daemon /\ session' = session /\ slice' = slice /\ crashes' = crashes
        /\ chain' = chain /\ kernel' = kernel
        /\ saved' \in {saved, Journal(live')}
        /\ disk' \in {disk, saved'} /\ (Works \/ \E what \in Faulty : Fails(what))
    BY DEF Rollback, UnaffectedByStep, Saves, SaveFails, Fails
  <2> DEFINE dirty == live.kind = "owned"
             undone == [live EXCEPT !.dirty = dirty]
  <2>2. live' \in {live, undone}
    BY DEF Rollback
  <2>3. dirty \in BOOLEAN
    OBVIOUS
  <2> HIDE DEF dirty
  <2>4. undone \in Lives /\ undone.kind = live.kind
    BY <1>1, <2>3 DEF Lives
  <2> QED
    BY <1>1, <2>1, <2>2, <2>4
<1>13. saved' \in States /\ faults' \in 0 .. MaxFaults
  BY <1>1, <1>12, JournalIs, Counted
<1>14. Typed'
  BY <1>1, <1>11, <1>12, <1>13 DEF Typed
<1>15. Hosted'
  BY <1>1, <1>2, <1>3, <1>12 DEF Hosted
<1>16. Shaped'
  <2>1. Stage(work'.then) = "undone"
    BY <1>11, Ends
  <2>2. work'.then \notin {Stopping(Forgetting), Stopping(Planning)}
    BY <2>1, StopEnds DEF After
  <2>3. work'.todo \notin {<< <<"rejournal">> >>, << <<"install">> >>}
    <3>1. <<"rejournal">> \notin Cleans /\ <<"install">> \notin Cleans
      BY DEF Cleans, Deletions
    <3> QED
      BY <1>11, <3>1 DEF Only
  <2> QED
    BY <1>3, <1>11, <1>12, <2>1, <2>2, <2>3 DEF Shaped, Cleaning
<1> QED
  BY <1>14, <1>15, <1>16 DEF Control

\* A connection that was rejected leaves the interface, or stops it.
LEMMA RejectedControl == Control /\ Rejected => Control'
<1> SUFFICES ASSUME Control, Rejected
             PROVE  Control'
  OBVIOUS
<1>1. Typed /\ Hosted /\ Shaped /\ saved \in States /\ disk \in States /\ live \in Lives
      /\ session \in Sessions /\ work \in TypedWork /\ kernel \subseteq Kinds \X Parts
      /\ chain \in {"off", "mark", "block", "stale"} /\ slice \in BOOLEAN
      /\ crashes \in 0 .. MaxCrashes /\ session.here \in BOOLEAN
  BY DEF Control, Typed, Sessions
<1>2. /\ daemon /\ work.todo = <<>> /\ work.then # <<>> /\ Stage(work.then) = "rejected"
      /\ work.then = Rejecting
  <2>1. At("rejected")
    BY DEF Rejected
  <2>2. /\ daemon /\ work.todo = <<>> /\ work.then # <<>> /\ Stage(work.then) = "rejected"
        /\ work.then \in Thens
    BY <2>1, AtStep
  <2> QED
    BY <2>2, StagesAre
<1>3. /\ daemon' = daemon /\ slice' = slice /\ crashes' = crashes /\ chain' = chain
      /\ kernel' = kernel /\ live' = live
  BY DEF Rejected
<1> DEFINE stop == << <<"stop">> >>
           first == << <<"released">> >>
           release == "release"
           no == FALSE
           whole == Expanded(stop, first, release, no)
<1>4. /\ session' \in Sessions /\ session'.here = session.here
      /\ saved' \in {saved, Synced(session.here, live)} /\ disk' \in {disk, saved'}
      /\ (Works \/ \E what \in Faulty : Fails(what))
  BY <1>1 DEF Rejected, TriesToSave, Saves, SaveFails, Fails, Sessions
<1>5. work' = Advanced \/ work' = whole
  BY DEF Rejected
<1>6. saved' \in States /\ faults' \in 0 .. MaxFaults
  BY <1>1, <1>4, SyncedIs, Counted
<1>7. CASE work' = Advanced
  BY <1>1, <1>2, <1>3, <1>4, <1>6, <1>7, LastControl DEF Hosted
<1>8. CASE work' = whole
  <2>1. Advanced.then = <<>>
    BY <1>2, Moves, Ends
  <2>2. first \o Advanced.then = Releasing
    BY <2>1, Joined DEF Releasing
  <2>3. /\ Releasing \in Thens /\ Releasing # <<>> /\ Releasing \in After /\ Releasing # Exiting
        /\ Releasing \notin {Forgetting, Planning}
        /\ release \in {"release", "block"} /\ no \in BOOLEAN
    BY Ends DEF Thens, Releasing, After
  <2>4. stop \in Seq(Steps)
    BY SingleIs DEF Singles
  <2> HIDE DEF first, release, no, stop
  <2>8. first \o Advanced.then \in Thens /\ first \o Advanced.then # <<>>
    BY <2>2, <2>3
  <2>9. /\ whole \in TypedWork /\ whole.todo = stop /\ whole.then = first \o Advanced.then
        /\ whole.name = work.name
    BY <1>2, <2>3, <2>4, <2>8, ExpandedIs
  <2>5. /\ whole \in TypedWork /\ whole.todo = stop /\ whole.then = Releasing
        /\ whole.name = work.name
    BY <2>2, <2>9
  <2>6. work.name \notin {"recover", "delete"}
    BY <1>1, <1>2 DEF Shaped
  <2>7. Shaped'
    BY <1>8, <2>3, <2>5, <2>6, BegunShape DEF stop
  <2> QED
    BY <1>1, <1>2, <1>3, <1>4, <1>6, <1>8, <2>5, <2>7 DEF Control, Typed, Hosted
<1> QED
  BY <1>5, <1>7, <1>8

\* The end of the daemon, and what happens to it.
LEMMA WorldControl ==
    Control /\ (Exit \/ Crash \/ HelperDies \/ SliceEnds \/ Boot) => Control'
<1> SUFFICES ASSUME Control, Exit \/ Crash \/ HelperDies \/ SliceEnds \/ Boot
             PROVE  Control'
  OBVIOUS
<1>1. Typed /\ Hosted /\ Shaped /\ saved \in States /\ disk \in States /\ live \in Lives
      /\ session \in Sessions /\ work \in TypedWork /\ kernel \subseteq Kinds \X Parts
      /\ chain \in {"off", "mark", "block", "stale"} /\ slice \in BOOLEAN /\ daemon \in BOOLEAN
      /\ crashes \in 0 .. MaxCrashes
  BY DEF Control, Typed
<1>2. faults' \in 0 .. MaxFaults
  BY <1>1, Counted DEF Exit, Crash, HelperDies, SliceEnds, Boot
<1>3. CASE Exit \/ Crash
  <2>1. /\ daemon' = FALSE /\ saved' = NoState /\ session' = NoSession /\ live' = NoInterface
        /\ work' = NoWork
    BY <1>3 DEF Exit, Crash, Gone
  <2>2. /\ kernel' \subseteq kernel /\ chain' = chain /\ slice' = slice /\ disk' = disk
        /\ crashes' \in 0 .. MaxCrashes
    BY <1>1, <1>3, InterfacesAssumption DEF Exit, Crash
  <2>3. NoWork \in TypedWork /\ NoWork.name = "idle"
    BY <1>1, SettledIs
  <2>4. Shaped'
    BY <2>1, <2>3, BegunShape
  <2> QED
    BY <1>1, <1>2, <2>1, <2>2, <2>3, <2>4, NothingIs DEF Control, Typed, Hosted
<1>4. CASE HelperDies
  <2>1. /\ daemon' = daemon /\ session' = session /\ slice' = slice /\ crashes' = crashes
        /\ chain' = chain /\ saved' = saved /\ disk' = disk /\ work' = work
        /\ kernel' \subseteq kernel /\ live' \in {live, [live EXCEPT !.helper = FALSE]}
    BY <1>4 DEF HelperDies, UnaffectedByStep
  <2>2. live' \in Lives /\ live'.kind = live.kind /\ live'.up = live.up
    BY <1>1, <2>1 DEF Lives
  <2>3. ~daemon => live' = live
    <3>1. ASSUME ~daemon PROVE live.kind \notin Kinds
      BY <1>1, <3>1, NothingIs DEF Hosted, Kinds
    <3> QED
      BY <1>4, <3>1 DEF HelperDies
  <2>4. Shaped'
    BY <1>1, <2>1, <2>2 DEF Shaped
  <2> QED
    BY <1>1, <1>2, <2>1, <2>2, <2>3, <2>4 DEF Control, Typed, Hosted
<1>5. CASE SliceEnds
  <2>1. /\ slice' = FALSE /\ UNCHANGED <<kernel, chain, saved, disk, session, live, work, daemon,
                                          crashes>>
    BY <1>5 DEF SliceEnds
  <2>2. Typed'
    BY <1>1, <1>2, <2>1 DEF Typed
  <2>3. Shaped'
    BY <1>1, <2>1 DEF Shaped
  <2> QED
    BY <1>1, <2>1, <2>2, <2>3 DEF Control, Hosted
<1>6. CASE Boot
  <2> DEFINE chains == << <<"chains">> >>
             begun == [NoWork EXCEPT !.name = "recover", !.todo = chains, !.then = Recovering]
  <2>1. /\ daemon' = TRUE /\ saved' = disk /\ session' = [NoSession EXCEPT !.here = disk.session]
        /\ work' = begun /\ kernel' = kernel /\ chain' = chain /\ slice' = slice
        /\ disk' = disk /\ live' = live /\ crashes' = crashes
    BY <1>6 DEF Boot, Recovering
  <2>2. live = NoInterface
    BY <1>1, <1>6 DEF Boot, Hosted
  <2>3. session' \in Sessions
    BY <1>1, <2>1, NothingIs DEF Sessions, States
  <2>4. /\ <<"chains">> \in Recoveries /\ <<"chains">> \in Steps
    BY StepsAre, CleansAre
  <2>5. chains \in Seq(Steps) /\ Only(chains, Recoveries)
    BY <2>4 DEF Only
  <2>6. Recovering \in Thens /\ Stage(Recovering) = "recovered" /\ "recover" \in Names
    BY Ends DEF Thens, Names
  <2>7. chains # << <<"rejournal">> >> /\ chains # << <<"install">> >>
    OBVIOUS
  <2> HIDE DEF chains
  <2>8. /\ begun \in TypedWork /\ begun.name = "recover" /\ begun.todo = chains
        /\ begun.then = Recovering
    BY <2>5, <2>6 DEF TypedWork, NoWork
  <2> HIDE DEF begun
  <2>9. Recovering \notin {Stopping(Forgetting), Stopping(Planning)}
    BY <2>6, StopEnds DEF After
  <2>10. Shaped'
    BY <2>1, <2>2, <2>5, <2>6, <2>7, <2>8, <2>9, NothingIs DEF Shaped, Cleaning
  <2> QED
    BY <1>1, <1>2, <2>1, <2>2, <2>3, <2>8, <2>10, NothingIs DEF Control, Typed, Hosted
<1> QED
  BY <1>3, <1>4, <1>5, <1>6

\* A request: what begins, if anything does, is in its place.
Requested ==
    \/ work' = NoWork
    \/ /\ work' \in TypedWork /\ work'.name \notin {"recover", "delete"}
       /\ \/ /\ work'.todo = << <<"stop">> >> /\ work'.then \in After /\ work'.then # Exiting
             /\ work'.then \in {Forgetting, Planning} => live'.kind = "legacy"
          \/ work'.todo = << <<"restore">> >> /\ work'.then \in {<<>>, Launching, Rejecting}
          \/ work'.todo = << <<"install">> >> /\ work'.then = <<>> /\ live'.kind # "none"
          \/ /\ work'.todo = <<>>
             /\ work'.then \in {Rejecting, Launching, Exiting}
    \/ /\ work' \in TypedWork /\ work'.name = "delete"
       /\ work'.todo = << <<"stop">> >> /\ work'.then = <<>>

\* Between operations there is no work.
LEMMA IdleIs ==
    ASSUME Control, Idle
    PROVE  daemon /\ work = NoWork /\ work.todo = <<>> /\ work.then = <<>>
<1>1. daemon /\ work.todo = <<>> /\ work.then = <<>>
  BY DEF Idle, Running
<1>2. work = NoWork \/ work.todo \in Lone
  BY <1>1, Ends DEF Control, Shaped
<1> QED
  BY <1>1, <1>2, Words

\* A request that is typed is controlled.
LEMMA RequestControl ==
    ASSUME Control, Idle, Requested,
           live'.kind # "none" => session'.here, live'.up => live'.kind # "none",
           daemon', session' \in Sessions,
           kernel' \subseteq Kinds \X Parts, chain' \in {"off", "mark", "block", "stale"},
           slice' \in BOOLEAN, saved' \in States, disk' \in States, live' \in Lives,
           faults' \in 0 .. MaxFaults, crashes' \in 0 .. MaxCrashes
    PROVE  Control'
<1>1. NoWork \in TypedWork /\ NoWork.name = "idle"
  BY IdleIs, SettledIs DEF Control, Typed
<1>2. work' \in TypedWork /\ work'.name # "recover"
  BY <1>1 DEF Requested
<1>3. Shaped'
  <2>1. <<>> \in After /\ Exiting # <<>> /\ Forgetting # <<>> /\ Planning # <<>>
    BY DEF After, Exiting, Forgetting, Planning
  <2> QED
    BY <1>2, <2>1, BegunShape DEF Requested
<1>4. Typed'
  BY <1>2 DEF Typed
<1>5. Hosted'
  BY DEF Hosted
<1> QED
  BY <1>3, <1>4, <1>5 DEF Control

\* The requests that take an interface away, or none.
LEMMA StopsRequested ==
    ASSUME Control,
           \/ work' = Begin("disable", << <<"stop">> >>, << <<"forget">> >>) /\ live'.kind = "legacy"
           \/ work' = Begin("switch", << <<"stop">> >>, << <<"plan">> >>) /\ live'.kind = "legacy"
           \/ work' = Begin("release", << <<"stop">> >>, <<>>)
           \/ work' = Begin("stop", << <<"stop">> >>, << <<"released">> >>)
           \/ work' = Begin("down", << <<"stop">> >>, << <<"removed">> >>)
           \/ work' = Begin("down", << <<"stop">> >>, << <<"removed">>, <<"exit">> >>)
           \/ work' = Begin("delete", << <<"stop">> >>, <<>>)
           \/ work' = Begin("connect", << <<"stop">> >>, << <<"launch">> >>)
    PROVE  Requested
<1> DEFINE stop == << <<"stop">> >>
           none == <<>>
<1>1. stop \in Seq(Steps) /\ stop # <<>>
  BY SingleIs DEF Singles
<1>2. \E name \in {"disable", "switch", "release", "stop", "down", "delete", "connect"},
         then \in After \ {Exiting} :
         /\ work' = Begin(name, stop, then)
         /\ then \in {Forgetting, Planning} => live'.kind = "legacy"
         /\ name = "delete" => then = <<>>
  <2>1. /\ Launching \in After \ {Exiting} /\ Forgetting \in After \ {Exiting}
        /\ Planning \in After \ {Exiting} /\ Releasing \in After \ {Exiting}
        /\ Removing \in After \ {Exiting} /\ RemovingLast \in After \ {Exiting}
        /\ none \in After \ {Exiting}
        /\ none \notin {Forgetting, Planning} /\ Launching \notin {Forgetting, Planning}
        /\ Releasing \notin {Forgetting, Planning} /\ Removing \notin {Forgetting, Planning}
        /\ RemovingLast \notin {Forgetting, Planning}
    BY Ends DEF After
  <2>2. \/ work' = Begin("disable", stop, Forgetting) /\ live'.kind = "legacy"
        \/ work' = Begin("switch", stop, Planning) /\ live'.kind = "legacy"
        \/ work' = Begin("release", stop, none)
        \/ work' = Begin("stop", stop, Releasing)
        \/ work' = Begin("down", stop, Removing)
        \/ work' = Begin("down", stop, RemovingLast)
        \/ work' = Begin("delete", stop, none)
        \/ work' = Begin("connect", stop, Launching)
    BY DEF Forgetting, Planning, Releasing, Removing, RemovingLast, Launching
  <2> HIDE DEF stop
  <2>3. none = <<>>
    OBVIOUS
  <2> HIDE DEF none
  <2> QED
    BY <2>1, <2>2, <2>3
<1>3. PICK name \in {"disable", "switch", "release", "stop", "down", "delete", "connect"},
           then \in After \ {Exiting} :
         /\ work' = Begin(name, stop, then)
         /\ then \in {Forgetting, Planning} => live'.kind = "legacy"
         /\ name = "delete" => then = <<>>
  BY <1>2
<1>4. then \in Thens /\ then \in After /\ then # Exiting /\ name \in Names /\ name # "recover"
  BY DEF Thens, Names
<1>5. /\ work' \in TypedWork /\ work'.todo = stop /\ work'.then = then /\ work'.name = name
  <2> DEFINE first == [NoWork EXCEPT !.name = name, !.todo = stop, !.then = then]
  <2>1. work' = Settled(first)
    BY <1>3 DEF Begin
  <2> HIDE DEF stop
  <2>2. first \in TypedWork /\ first.todo = stop /\ first.then = then /\ first.name = name
    BY <1>1, <1>4 DEF TypedWork, NoWork
  <2> HIDE DEF first
  <2>3. Settled(first) = first
    BY <1>1, <2>2, SettledIs
  <2> QED
    BY <2>1, <2>2, <2>3
<1> QED
  BY <1>3, <1>4, <1>5 DEF Requested

\* The other requests.
LEMMA OthersRequested ==
    ASSUME Control,
           \/ work' = Begin("start", << <<"restore">> >>, << <<"rejected">> >>)
           \/ work' = [Begin("start", <<>>, << <<"rejected">> >>) EXCEPT !.failed = TRUE]
           \/ work' = [Begin("fail", <<>>, << <<"rejected">> >>) EXCEPT !.failed = TRUE]
           \/ work' = Begin("supervise", << <<"restore">> >>, <<>>)
           \/ work' = Begin("run", << <<"install">> >>, <<>>) /\ live'.kind # "none"
           \/ work' = Begin("down", <<>>, << <<"exit">> >>)
           \/ work' = Begin("connect", << <<"restore">> >>, << <<"launch">> >>)
           \/ work' = Begin("connect", <<>>, << <<"launch">> >>)
    PROVE  Requested
<1> DEFINE restore == << <<"restore">> >>
           install == << <<"install">> >>
           none == <<>>
<1>1. /\ restore \in Seq(Steps) /\ restore # none /\ install \in Seq(Steps) /\ install # none
      /\ none \in Seq(Steps)
  BY SingleIs, EmptyIs DEF Singles
<1>2. /\ none \in Thens /\ Rejecting \in Thens /\ Launching \in Thens /\ Exiting \in Thens
      /\ Rejecting # none /\ Launching # none /\ Exiting # none
  BY Ends DEF Thens, After
<1>3. \E name \in {"start", "fail", "supervise", "run", "down", "connect"},
         todo \in {none, restore, install}, then \in {none, Rejecting, Launching, Exiting} :
         /\ work' = Begin(name, todo, then) \/ work' = Failed(Begin(name, todo, then))
         /\ \/ todo = none /\ then \in {Rejecting, Launching, Exiting}
            \/ todo = restore /\ then \in {none, Launching, Rejecting}
            \/ todo = install /\ then = none /\ live'.kind # "none"
  <2>1. \/ work' = Begin("start", restore, Rejecting)
        \/ work' = Failed(Begin("start", none, Rejecting))
        \/ work' = Failed(Begin("fail", none, Rejecting))
        \/ work' = Begin("supervise", restore, none)
        \/ work' = Begin("run", install, none) /\ live'.kind # "none"
        \/ work' = Begin("down", none, Exiting)
        \/ work' = Begin("connect", restore, Launching)
        \/ work' = Begin("connect", none, Launching)
    BY DEF Rejecting, Exiting, Launching, Failed
  <2> HIDE DEF restore, install, none
  <2> QED
    BY <2>1
<1>4. PICK name \in {"start", "fail", "supervise", "run", "down", "connect"},
           todo \in {none, restore, install}, then \in {none, Rejecting, Launching, Exiting} :
         /\ work' = Begin(name, todo, then) \/ work' = Failed(Begin(name, todo, then))
         /\ \/ todo = none /\ then \in {Rejecting, Launching, Exiting}
            \/ todo = restore /\ then \in {none, Launching, Rejecting}
            \/ todo = install /\ then = none /\ live'.kind # "none"
  BY <1>3
<1> DEFINE begun == Begin(name, todo, then)
<1>5. none = <<>> /\ begun = Begin(name, todo, then)
  OBVIOUS
<1>6. name \in Names /\ name \notin {"recover", "delete"}
  BY DEF Names
<1> HIDE DEF none, restore, install, begun
<1>7. todo \in Seq(Steps) /\ then \in Thens /\ (todo # <<>> \/ then # <<>>)
  BY <1>1, <1>2, <1>4, <1>5
<1>8. begun \in TypedWork /\ begun.todo = todo /\ begun.then = then /\ begun.name = name
  <2> DEFINE first == [NoWork EXCEPT !.name = name, !.todo = todo, !.then = then]
  <2>1. begun = Settled(first)
    BY <1>5 DEF Begin
  <2>2. first \in TypedWork /\ first.todo = todo /\ first.then = then /\ first.name = name
    BY <1>6, <1>7 DEF TypedWork, NoWork
  <2> HIDE DEF first
  <2>3. Settled(first) = first
    BY <1>7, <2>2, SettledIs
  <2> QED
    BY <2>1, <2>2, <2>3
<1>9. /\ Failed(begun) \in TypedWork /\ Failed(begun).todo = todo /\ Failed(begun).then = then
      /\ Failed(begun).name = name
  BY <1>8 DEF Failed, TypedWork
<1>10. work' \in TypedWork /\ work'.todo = todo /\ work'.then = then /\ work'.name = name
  BY <1>4, <1>5, <1>8, <1>9
<1> QED
  BY <1>4, <1>5, <1>6, <1>10 DEF Requested, restore, install

\* An installation begins.
LEMMA StartControl == Control /\ StartInterface => Control'
<1> SUFFICES ASSUME Control, StartInterface
             PROVE  Control'
  OBVIOUS
<1>1. Typed /\ Hosted /\ Shaped /\ saved \in States /\ disk \in States /\ live \in Lives
      /\ session \in Sessions /\ work \in TypedWork /\ kernel \subseteq Kinds \X Parts
      /\ chain \in {"off", "mark", "block", "stale"} /\ slice \in BOOLEAN
      /\ crashes \in 0 .. MaxCrashes
  BY DEF Control, Typed
<1>2. Idle /\ live.kind # "none" /\ daemon
  BY DEF StartInterface, Idle
<1>3. /\ daemon' = daemon /\ session' = session /\ slice' = slice /\ crashes' = crashes
      /\ chain' = chain /\ kernel' = kernel /\ live' = live
      /\ saved' \in {saved, Journal(live)} /\ disk' \in {disk, saved'}
      /\ (Works \/ \E what \in Faulty : Fails(what))
  BY DEF StartInterface, UnaffectedByStep, Saves, SaveFails, Fails
<1>4. saved' \in States /\ faults' \in 0 .. MaxFaults
  BY <1>1, <1>3, JournalIs, Counted
<1> DEFINE list == IF live.kind = "owned" THEN OwnedStart ELSE LegacyStart
<1>5. \/ work' = Begin("start", << <<"restore">> >>, << <<"rejected">> >>)
      \/ work' = Begin("start", list, Rolling)
      \/ work' = [Begin("start", <<>>, << <<"rejected">> >>) EXCEPT !.failed = TRUE]
  BY DEF StartInterface, Rolling
<1>6. CASE work' = Begin("start", list, Rolling)
  <2>1. /\ list \in Seq(Steps) /\ list # <<>> /\ Only(list, Builds)
    BY StartIs
  <2>2. Rolling \in Thens /\ Stage(Rolling) = "rollback" /\ "start" \in Names
    BY Ends DEF Thens, Names
  <2> HIDE DEF list
  <2> DEFINE first == [NoWork EXCEPT !.name = "start", !.todo = list, !.then = Rolling]
  <2>3. work' = Settled(first)
    BY <1>6 DEF Begin
  <2>4. first \in TypedWork /\ first.todo = list /\ first.then = Rolling /\ first.name = "start"
    BY <2>1, <2>2 DEF TypedWork, NoWork
  <2> HIDE DEF first
  <2>5. work' = first
    BY <2>1, <2>3, <2>4, SettledIs
  <2>6. Rolling \notin {Stopping(Forgetting), Stopping(Planning)}
    BY <2>2, StopEnds DEF After
  <2>7. list \notin {<< <<"rejournal">> >>, << <<"install">> >>}
    <3>1. <<"rejournal">> \notin Builds /\ <<"install">> \notin Builds
      BY DEF Builds, Additions
    <3> QED
      BY <2>1, <3>1 DEF Only
  <2>8. Shaped'
    BY <1>2, <1>3, <2>1, <2>2, <2>4, <2>5, <2>6, <2>7 DEF Shaped, Cleaning
  <2> QED
    BY <1>1, <1>2, <1>3, <1>4, <2>4, <2>5, <2>8 DEF Control, Typed, Hosted
<1>7. CASE ~(work' = Begin("start", list, Rolling))
  <2>1. Requested
    BY <1>5, <1>7, OthersRequested
  <2> QED
    BY <1>1, <1>2, <1>3, <1>4, <2>1, RequestControl DEF Hosted
<1> QED
  BY <1>6, <1>7

\* The requests that change nothing but what is to do and how the session is.
LEMMA AskControl ==
    Control /\ (\/ Supervise \/ Confirmed \/ ConfirmationFailed \/ CoreExits \/ ServerGone \/ Down
                \/ DeleteInterface \/ Shutdown \/ Connect)
       => Control' /\ Requested
<1> SUFFICES ASSUME Control,
                    \/ Supervise \/ Confirmed \/ ConfirmationFailed \/ CoreExits \/ ServerGone
                    \/ Down \/ DeleteInterface \/ Shutdown \/ Connect
             PROVE  Control' /\ Requested
  OBVIOUS
<1>1. Typed /\ Hosted /\ Shaped /\ saved \in States /\ disk \in States /\ live \in Lives
      /\ session \in Sessions /\ work \in TypedWork /\ kernel \subseteq Kinds \X Parts
      /\ chain \in {"off", "mark", "block", "stale"} /\ slice \in BOOLEAN
      /\ crashes \in 0 .. MaxCrashes
  BY DEF Control, Typed
<1>2. Idle /\ daemon
  BY DEF Supervise, Confirmed, ConfirmationFailed, CoreExits, ServerGone, Down, DeleteInterface,
         Shutdown, Connect, Idle
<1>3. /\ daemon' = daemon /\ slice' = slice /\ crashes' = crashes
      /\ chain' = chain /\ kernel' = kernel /\ live' = live
      /\ saved' \in {saved, Synced(TRUE, live)} /\ disk' \in {disk, saved'}
      /\ (Works \/ \E what \in Faulty : Fails(what))
  BY DEF Supervise, Confirmed, ConfirmationFailed, CoreExits, ServerGone, Down, DeleteInterface,
         Shutdown, Connect, UnaffectedByStep, TriesToSave, Saves, SaveFails, Fails
<1>4. session' \in Sessions /\ session'.here = session.here
  <2>1. session' \in {session, [session EXCEPT !.holding = FALSE], [session EXCEPT !.core = FALSE],
                      [session EXCEPT !.core = FALSE, !.holding = TRUE]}
    BY DEF Supervise, Confirmed, ConfirmationFailed, CoreExits, ServerGone, Down, DeleteInterface,
           Shutdown, Connect, UnaffectedByStep
  <2> QED
    BY <1>1, <2>1 DEF Sessions
<1>5. saved' \in States /\ faults' \in 0 .. MaxFaults
  BY <1>1, <1>3, SyncedIs, Counted
<1>6. work = NoWork
  BY <1>2, IdleIs
<1>7. Requested
  <2>1. CASE Supervise \/ ConfirmationFailed
    BY <2>1, OthersRequested DEF Supervise, ConfirmationFailed
  <2>2. CASE Confirmed
    BY <1>6, <2>2 DEF Confirmed, Requested
  <2>3. CASE CoreExits \/ ServerGone
    <3>1. \/ work' = work
          \/ work' = Begin("release", << <<"stop">> >>, <<>>)
          \/ work' = Begin("stop", << <<"stop">> >>, << <<"released">> >>)
      BY <2>3 DEF CoreExits, ServerGone
    <3>2. CASE work' = work
      BY <1>6, <3>2 DEF Requested
    <3> QED
      BY <3>1, <3>2, StopsRequested
  <2>4. CASE Down \/ DeleteInterface
    BY <2>4, StopsRequested DEF Down, DeleteInterface
  <2>5. CASE Shutdown
    <3>1. \/ work' = Begin("down", << <<"stop">> >>, << <<"removed">>, <<"exit">> >>)
          \/ work' = Begin("down", <<>>, << <<"exit">> >>)
      BY <2>5 DEF Shutdown
    <3> QED
      BY <3>1, StopsRequested, OthersRequested
  <2>6. CASE Connect
    <3>1. \/ work' = Begin("connect", << <<"restore">> >>, << <<"launch">> >>)
          \/ work' = Begin("connect", << <<"stop">> >>, << <<"launch">> >>)
          \/ work' = Begin("connect", <<>>, << <<"launch">> >>)
      BY <2>6 DEF Connect
    <3> QED
      BY <3>1, StopsRequested, OthersRequested
  <2> QED
    BY <2>1, <2>2, <2>3, <2>4, <2>5, <2>6
<1> QED
  BY <1>1, <1>2, <1>3, <1>4, <1>5, <1>7, RequestControl DEF Hosted

\* A planned interface does not stand, and has no chain.
LEMMA PlannedIs ==
    ASSUME live \in Lives, saved \in States, slice \in BOOLEAN, NEW kind \in Kinds
    PROVE  /\ PlannedInterface(kind) \in Lives /\ PlannedInterface(kind).kind = kind
           /\ PlannedInterface(kind).planned = (kind = "legacy")
           /\ PlannedInterface(kind).up = FALSE /\ PlannedInterface(kind).chain = "off"
           /\ PlannedInterface(kind).cgroup = (saved.bound /\ slice)
<1> DEFINE created == kind = "legacy" /\ (live.created \/ ~DeviceExists)
           planned == kind = "legacy"
           cgroup == saved.bound /\ slice
<1>1. created \in BOOLEAN /\ cgroup \in BOOLEAN /\ planned \in BOOLEAN
  BY DEF Lives, States
<1>2. PlannedInterface(kind) = [NoInterface EXCEPT !.kind = kind, !.planned = planned,
                                        !.created = created, !.cgroup = cgroup]
  BY <1>1 DEF PlannedInterface
<1>3. planned = (kind = "legacy") /\ cgroup = (saved.bound /\ slice)
  OBVIOUS
<1> HIDE DEF created, cgroup, planned
<1>4. /\ NoInterface \in Lives /\ NoInterface.up = FALSE /\ NoInterface.chain = "off"
  BY NothingIs DEF NoInterface
<1> DEFINE made == [NoInterface EXCEPT !.kind = kind, !.planned = planned, !.created = created,
                                       !.cgroup = cgroup]
<1>5. /\ made \in Lives /\ made.kind = kind /\ made.planned = planned /\ made.up = FALSE
      /\ made.chain = "off" /\ made.cgroup = cgroup
  <2>1. made \in Lives
    BY <1>1, <1>4 DEF Lives
  <2>2. made.kind = kind /\ made.planned = planned /\ made.cgroup = cgroup
    BY <1>4 DEF Lives
  <2>3. made.up = FALSE /\ made.chain = "off"
    BY <1>4 DEF Lives
  <2> QED
    BY <2>1, <2>2, <2>3
<1>6. PlannedInterface(kind) = made
  BY <1>2
<1> HIDE DEF made
<1> QED
  BY <1>3, <1>5, <1>6

\* The plan of a profile, and the scope of a command.
LEMMA PlanControl ==
    Control /\ (\/ \E kind \in Kinds \cup {"none"}, holds \in BOOLEAN : Plan(kind, holds)
                \/ RunScope)
       => Control' /\ Requested
<1> SUFFICES ASSUME Control,
                    \/ \E kind \in Kinds \cup {"none"}, holds \in BOOLEAN : Plan(kind, holds)
                    \/ RunScope
             PROVE  Control' /\ Requested
  OBVIOUS
<1>1. Typed /\ Hosted /\ Shaped /\ saved \in States /\ disk \in States /\ live \in Lives
      /\ session \in Sessions /\ work \in TypedWork /\ kernel \subseteq Kinds \X Parts
      /\ chain \in {"off", "mark", "block", "stale"} /\ slice \in BOOLEAN
      /\ crashes \in 0 .. MaxCrashes
  BY DEF Control, Typed
<1>2. Idle /\ daemon
  BY DEF Plan, RunScope, Idle
<1>3. work = NoWork
  BY <1>2, IdleIs
<1>4. ASSUME NEW kind \in Kinds \cup {"none"}, NEW holds \in BOOLEAN, Plan(kind, holds)
      PROVE  Control' /\ Requested
  <2>1. /\ daemon' = daemon /\ slice' = slice /\ crashes' = crashes
        /\ chain' = chain /\ kernel' = kernel
        /\ session' = [session EXCEPT !.here = TRUE, !.holds = holds]
    BY <1>4 DEF Plan
  <2>2. session' \in Sessions /\ session'.here
    BY <1>1, <2>1 DEF Sessions
  <2>3. /\ saved' \in {saved, [saved EXCEPT !.bound = FALSE]} /\ disk' \in {disk, saved'}
        /\ (Works \/ \E what \in Faulty : Fails(what))
    BY <1>4 DEF Plan, UnboundIfEnded, TriesToSave, Saves, SaveFails, Fails
  <2>4. saved' \in States /\ faults' \in 0 .. MaxFaults /\ disk' \in States
    BY <1>1, <2>3, Counted DEF States
  <2>5. CASE live.kind = "none"
    <3>1. work' = work /\ (live' = NoInterface \/ (kind \in Kinds /\ live' = PlannedInterface(kind)))
      BY <1>4, <2>5 DEF Plan
    <3>2. live' \in Lives /\ (live'.up => live'.kind # "none")
      BY <1>1, <3>1, NothingIs, PlannedIs
    <3>3. Requested
      BY <1>3, <3>1 DEF Requested
    <3> QED
      BY <1>1, <1>2, <2>1, <2>2, <2>4, <3>2, <3>3, RequestControl
  <2>6. CASE live.kind # "none"
    <3>1. live' = live /\ live.kind = "legacy"
      BY <1>1, <1>4, <2>6 DEF Plan, Lives, Kinds
    <3>2. \/ work' = Begin("disable", << <<"stop">> >>, << <<"forget">> >>)
          \/ work' = Begin("switch", << <<"stop">> >>, << <<"plan">> >>)
      BY <1>4, <2>6 DEF Plan
    <3>3. Requested
      BY <3>1, <3>2, StopsRequested
    <3> QED
      BY <1>1, <1>2, <2>1, <2>2, <2>4, <3>1, <3>3, RequestControl
  <2> QED
    BY <2>5, <2>6
<1>5. CASE RunScope
  <2>1. /\ daemon' = daemon /\ session' = session /\ slice' = TRUE /\ crashes' = crashes
        /\ chain' \in {chain, "stale"} /\ kernel' = kernel
        /\ live' = [live EXCEPT !.cgroup = TRUE] /\ live.up
    BY <1>5 DEF RunScope
  <2>2. live' \in Lives /\ live'.kind = live.kind /\ live.kind # "none"
    BY <1>1, <2>1 DEF Lives, Hosted
  <2> DEFINE bound == [saved EXCEPT !.bound = TRUE]
             journalled == [Journal(live') EXCEPT !.bound = TRUE]
  <2>3. bound \in States /\ journalled \in States
    <3>1. Journal(live') \in States
      BY <1>1, <2>2, JournalIs
    <3> QED
      BY <1>1, <3>1 DEF States
  <2>4. saved' \in {bound, journalled} /\ disk' \in {disk, bound, journalled}
        /\ (Works \/ \E what \in Faulty : Fails(what))
        /\ (work' = work \/ work' = Begin("run", << <<"install">> >>, <<>>))
    BY <1>5 DEF RunScope, Saves, Fails
  <2> HIDE DEF bound, journalled
  <2>5. saved' \in States /\ disk' \in States /\ faults' \in 0 .. MaxFaults
    BY <1>1, <2>3, <2>4, Counted
  <2>6. Requested
    <3>1. CASE work' = work
      BY <1>3, <3>1 DEF Requested
    <3> QED
      BY <2>2, <2>4, <3>1, OthersRequested
  <2> QED
    BY <1>1, <1>2, <2>1, <2>2, <2>5, <2>6, RequestControl DEF Hosted
<1> QED
  BY <1>4, <1>5

\* The control of the operations is inductive.
LEMMA ControlHolds == Spec => []Control
<1>1. Init => Control
  <2> SUFFICES ASSUME Init PROVE Control
    OBVIOUS
  <2>1. work = NoWork /\ live = NoInterface /\ saved = NoState /\ disk = NoState
        /\ session = NoSession /\ kernel = {} /\ chain = "off" /\ slice = FALSE /\ daemon = TRUE
        /\ faults = 0 /\ crashes = 0
    BY DEF Init
  <2>2. NoWork \in TypedWork /\ NoWork.todo = <<>> /\ NoWork.then = <<>> /\ NoWork.name = "idle"
    <3>1. NoWork \in TypedWork
      BY EmptyIs DEF NoWork, TypedWork, Names, Thens, After
    <3>2. NoWork.todo = <<>> /\ NoWork.then = <<>> /\ NoWork.name = "idle"
      BY DEF NoWork
    <3> QED
      BY <3>1, <3>2
  <2>3. Typed
    <3>1. 0 \in 0 .. MaxFaults /\ 0 \in 0 .. MaxCrashes
      BY InterfacesAssumption
    <3>2. kernel \subseteq Kinds \X Parts
      BY <2>1
    <3>3. slice \in BOOLEAN /\ daemon \in BOOLEAN
      BY <2>1
    <3>4. chain \in {"off", "mark", "block", "stale"}
      BY <2>1
    <3> QED
      BY <2>1, <2>2, <3>1, <3>2, <3>3, <3>4, NothingIs DEF Typed
  <2>4. Stage(<<>>) = "end" /\ <<>> \notin {Stopping(Forgetting), Stopping(Planning)}
    BY Ends, StopEnds DEF After
  <2>5. <<>> # << <<"rejournal">> >> /\ <<>> # << <<"install">> >>
    OBVIOUS
  <2>6. Shaped
    BY <2>1, <2>2, <2>4, <2>5 DEF Shaped, Cleaning
  <2> QED
    BY <2>1, <2>3, <2>6, NothingIs DEF Control, Hosted
<1>2. Control /\ [Next]_vars => Control'
  <2> SUFFICES ASSUME Control, [Next]_vars PROVE Control'
    OBVIOUS
  <2>1. CASE Next
    BY <2>1, StartControl, AskControl, PlanControl, BuildControl, UpControl, StopControl,
       CleanControl, StoppedControl, RollbackControl, EndControl, RejectedControl, LoneControl,
       WorldControl, RecoveryControl DEF Next
  <2>2. CASE UNCHANGED vars
    BY <2>2 DEF vars, Control, Typed, Shaped, Hosted
  <2> QED
    BY <2>1, <2>2
<1> QED
  BY <1>1, <1>2, PTL DEF Spec

-----------------------------------------------------------------------------
(* What the journal knows.                                                 *)

\* The persistent objects of a kind of interface, and the routes and rules among them.
Objects(kind) == {part \in Routing \cup {"device"} : <<kind, part>> \in kernel}
Routes(kind) == Objects(kind) \cap Routing

\* The state names the complete identity of an owned interface.
Named(state) == state.interface.kind = "owned" /\ state.interface.planned

Starting == Stage(work.then) = "rollback"
Reporting == Stage(work.then) \in {"stopped", "deleted"}
Recovery == Stage(work.then) = "recovered"
Todo(step) == Has(work.todo, step)

\* An object of an owned interface is named on disk, and by the daemon.
OwnedKnown ==
    Objects("owned") # {} =>
        /\ Named(disk)
        /\ daemon => Named(saved) /\ (live.kind = "none" \/ (live.kind = "owned" /\ live.planned))

\* An installation names its identity before it makes anything.
OwnedIntended ==
    live.kind = "owned" /\ Starting =>
        \/ Named(disk) /\ Named(saved) /\ live.planned
        \/ work.todo # <<>> /\ Head(work.todo) = <<"intend">>
        \/ ~Todo(<<"create">>) /\ \A part \in Routing : ~Todo(<<"add", part>>)

\* A removal that nothing failed in so far still has to delete every object there is,
OwnedCleaned ==
    live.kind = "owned" /\ ~work.failed /\ Reporting =>
        \A part \in Objects("owned") : Todo(<<"delete", part>>)

\* and so has a recovery,
OwnedRecovered ==
    Recovery /\ ~work.failed =>
        work.todo = << <<"chains">> >> \/ \A part \in Objects("owned") : Todo(<<"delete", part>>)

\* and the record is dropped when none is left.
OwnedGone == Stage(work.then) = "removed" /\ work.todo = <<>> => Objects("owned") = {}

Owned == OwnedKnown /\ OwnedIntended /\ OwnedCleaned /\ OwnedRecovered /\ OwnedGone

\* The record is of the interface that is being installed.
BuildJournalled == Starting => disk.interface.kind = live.kind /\ saved.interface.kind = live.kind

\* As long as nothing failed, what routes there are belong to the interface on record.
RoutesKnown ==
    faults = 0 => \A kind \in Kinds : Routes(kind) # {} =>
        /\ disk.interface.kind = kind
        /\ daemon => saved.interface.kind = kind /\ (Recovery \/ live.kind = kind)

\* A removal still has to delete every route there is, before the device,
RoutesCleaned ==
    faults = 0 /\ ~work.failed /\ Reporting =>
        \A kind \in Kinds : \A part \in Routes(kind) : Todo(<<"delete", part>>)

\* and so has a recovery,
RoutesRecovered ==
    faults = 0 /\ Recovery /\ work.todo # << <<"chains">> >> =>
        \A kind \in Kinds : \A part \in Routes(kind) :
            /\ Todo(<<"delete", part>>)
            /\ Before(work.todo, <<"delete", part>>, <<"delete", "device">>)

\* and the interface is forgotten when none is left.
RoutesGone ==
    faults = 0 /\ Stage(work.then) \in {"removed", "forget"} /\ work.todo = <<>> =>
        \A kind \in Kinds : Routes(kind) = {}

Routed == BuildJournalled /\ RoutesKnown /\ RoutesCleaned /\ RoutesRecovered /\ RoutesGone

\* Which objects there are after a step.
SameObjects == \A kind \in Kinds : Objects(kind)' = Objects(kind)
FewerObjects == \A kind \in Kinds : Objects(kind)' \subseteq Objects(kind)

\* The journal follows the interface: the record in memory stays as it was or is that of
\* the interface, and the one on disk is one of these.
SameRecord(r, s) == r.kind = s.kind /\ r.planned = s.planned /\ r.nft = s.nft

Follows ==
    /\ daemon /\ daemon' /\ live'.kind = live.kind /\ live'.planned \in {live.planned, TRUE}
    /\ \/ SameRecord(saved'.interface, saved.interface)
       \/ /\ SameRecord(saved'.interface, Recorded(live')) /\ ~Recovery
          /\ live.kind # "none" \/ saved.interface.kind # "owned"
    /\ \/ SameRecord(disk'.interface, disk.interface)
       \/ SameRecord(disk'.interface, saved'.interface)
       \/ SameRecord(disk'.interface, saved.interface)

\* What follows a step of the list of an operation.
LEMMA MovedStages ==
    ASSUME Control, work.todo # <<>>, work' \in {Advanced, Broken} \/ work' = Failed(Advanced)
    PROVE  /\ \/ work' = Advanced /\ work'.todo = Tail(work.todo) /\ work'.then = work.then
              \/ /\ work' = Failed(Advanced) /\ work'.todo = Tail(work.todo)
                 /\ work'.then = work.then /\ work'.failed
              \/ work' = Broken /\ work'.todo = <<>> /\ work'.then = Kept(work.then)
           /\ Stage(work'.then) # "end" /\ work' = Broken => work'.failed
           /\ Stage(work'.then) # "end" /\ work' = Advanced => work'.failed = work.failed
           /\ Stage(work'.then) \in {"rollback", "stopped", "recovered", "removed", "deleted",
                                     "undone", "forget", "plan"} =>
                Stage(work.then) = Stage(work'.then) /\ (work'.then = work.then \/ work' = Broken)
           /\ Stage(work'.then) \in {"removed", "forget", "plan", "deleted"} =>
                work' # Broken \/ work'.then = work.then
           /\ Stage(work.then) \in {"rollback", "undone", "recovered"} => work'.then = work.then
<1>1. /\ work.todo \in Seq(Steps) /\ work.then \in Thens /\ work \in TypedWork
  BY DEF Control, Typed, TypedWork
<1>2. /\ Advanced \in TypedWork /\ Broken \in TypedWork /\ Broken.todo = <<>>
      /\ Advanced.todo = Tail(work.todo) /\ Advanced.then = work.then
      /\ Broken.then = Kept(work.then)
      /\ Advanced.todo # <<>> \/ Advanced.then # <<>> => Advanced.failed = work.failed
      /\ Broken.then # <<>> => Broken.failed
  BY Moves
<1>3. /\ Failed(Advanced).todo = Advanced.todo /\ Failed(Advanced).then = Advanced.then
      /\ Failed(Advanced).failed
  BY <1>2 DEF Failed, TypedWork
<1>4. \/ work' = Advanced /\ work'.todo = Tail(work.todo) /\ work'.then = work.then
      \/ /\ work' = Failed(Advanced) /\ work'.todo = Tail(work.todo) /\ work'.then = work.then
         /\ work'.failed
      \/ work' = Broken /\ work'.todo = <<>> /\ work'.then = Kept(work.then)
  BY <1>2, <1>3
<1>5. /\ Stage(work'.then) # "end" /\ work' = Broken => work'.failed
      /\ Stage(work'.then) # "end" /\ work' = Advanced => work'.failed = work.failed
  BY <1>2, Ends
<1>6. /\ Stage(work.then) \in {"rollback", "undone", "recovered", "rejected", "released", "exit"} =>
           Kept(work.then) = work.then
      /\ Stage(work.then) \in {"end", "deleted", "launch", "forget", "plan"} =>
           Kept(work.then) = <<>>
      /\ Stage(work.then) = "removed" => Kept(work.then) \in {<<>>, Exiting}
      /\ Stage(work.then) = "stopped" => Stage(Kept(work.then)) = "stopped"
  BY <1>1, StageKeeps
<1>7. Stage(<<>>) = "end" /\ Stage(Exiting) = "exit"
  BY Ends
<1>8. Stage(work.then) \in {"end", "rollback", "undone", "deleted", "recovered", "rejected",
                            "launch", "forget", "plan", "released", "removed", "exit", "stopped"}
  BY <1>1, StagesAre
<1>9. Stage(Kept(work.then)) \in {"rollback", "stopped", "recovered", "removed", "deleted",
                                  "undone", "forget", "plan"} =>
        /\ Stage(work.then) = Stage(Kept(work.then))
        /\ Stage(work.then) \notin {"removed", "forget", "plan", "deleted"}
  BY <1>6, <1>7, <1>8
<1>10. Stage(work.then) \in {"rollback", "undone", "recovered"} => work'.then = work.then
  BY <1>4, <1>6
<1> QED
  BY <1>4, <1>5, <1>9, <1>10

\* A step of the list of an operation, whatever it does.
LEMMA OwnedMoves ==
    ASSUME Control, Control', Owned, work.todo # <<>>, Head(work.todo) # <<"stop">>,
           work' \in {Advanced, Broken} \/ work' = Failed(Advanced), live'.kind = live.kind,
           OwnedKnown', Starting \/ FewerObjects,
           live.kind = "owned" /\ Starting /\ Named(disk) /\ Named(saved) /\ live.planned =>
               Named(disk') /\ Named(saved') /\ live'.planned,
           live.kind = "owned" /\ Head(work.todo) = <<"intend">> /\ work' # Broken =>
               Named(disk') /\ Named(saved') /\ live'.planned,
           \A part \in Objects("owned") :
               Head(work.todo) = <<"delete", part>> /\ work' = Advanced /\ ~work.failed
               /\ (live.kind = "owned" \/ Recovery) => part \notin Objects("owned")',
           Recovery /\ work' = Advanced => Head(work.todo) # <<"chains">>
    PROVE  Owned'
<1>1. /\ work.todo \in Seq(Steps) /\ work.then \in Thens /\ work \in TypedWork
      /\ work' \in TypedWork
  BY DEF Control, Typed, TypedWork
<1>2. /\ Advanced \in TypedWork /\ Broken \in TypedWork /\ Broken.todo = <<>>
      /\ Advanced.todo = Tail(work.todo) /\ Advanced.then = work.then
      /\ Broken.then = Kept(work.then)
      /\ Advanced.todo # <<>> \/ Advanced.then # <<>> => Advanced.failed = work.failed
      /\ Broken.then # <<>> => Broken.failed
  BY Moves
<1>3. /\ Head(work.todo) \in Steps /\ Tail(work.todo) \in Seq(Steps)
      /\ \A step : Has(Tail(work.todo), step) => Has(work.todo, step)
      /\ \A step : Has(work.todo, step) /\ Head(work.todo) # step => Has(Tail(work.todo), step)
  BY <1>1, TailKeeps
<1>4. /\ Failed(Advanced).todo = Advanced.todo /\ Failed(Advanced).then = Advanced.then
      /\ Failed(Advanced).failed
  BY <1>2 DEF Failed, TypedWork
<1>5. \/ work' = Advanced /\ work'.todo = Tail(work.todo) /\ work'.then = work.then
      \/ /\ work' = Failed(Advanced) /\ work'.todo = Tail(work.todo) /\ work'.then = work.then
         /\ work'.failed
      \/ work' = Broken /\ work'.todo = <<>> /\ work'.then = Kept(work.then)
  BY <1>2, <1>4
<1>13. Stage(work'.then) # "end" => work'.then # <<>> /\ (work' = Broken => work'.failed)
  BY <1>2, Ends
<1>6. Stage(work'.then) \in {"rollback", "stopped", "recovered", "removed", "deleted"} =>
        \/ work'.then = work.then
        \/ work' = Broken /\ work'.failed /\ Stage(work.then) = Stage(work'.then)
  BY <1>13, MovedStages
<1>7. OwnedIntended'
  <2> SUFFICES ASSUME live'.kind = "owned", Starting'
               PROVE  \/ Named(disk') /\ Named(saved') /\ live'.planned
                      \/ ~Todo(<<"create">>)' /\ \A part \in Routing : ~Todo(<<"add", part>>)'
    BY DEF OwnedIntended
  <2>1. Starting
    BY <1>6 DEF Starting
  <2>2. CASE Named(disk) /\ Named(saved) /\ live.planned
    BY <2>1, <2>2
  <2>3. CASE Head(work.todo) = <<"intend">>
    <3>1. CASE work' = Broken
      BY <1>5, <3>1, EmptyIs, <1>2 DEF Todo
    <3> QED
      BY <2>3, <3>1
  <2>4. CASE ~Todo(<<"create">>) /\ \A part \in Routing : ~Todo(<<"add", part>>)
    BY <1>3, <1>5, <2>4, EmptyIs DEF Todo
  <2> QED
    BY <2>1, <2>2, <2>3, <2>4 DEF Owned, OwnedIntended
<1>8. ~Starting => Objects("owned")' \subseteq Objects("owned")
  BY DEF FewerObjects, Kinds
<1>9. Stage(work'.then) \in {"stopped", "deleted", "recovered"} => ~Starting
  <2>1. Starting => Stage(Kept(work.then)) = "rollback"
    BY <1>1, StageKeeps DEF Starting
  <2> QED
    BY <1>5, <2>1 DEF Starting
<1>10. OwnedCleaned'
  <2> SUFFICES ASSUME live'.kind = "owned", ~work'.failed, Reporting',
                      NEW part \in Objects("owned")'
               PROVE  Todo(<<"delete", part>>)'
    BY DEF OwnedCleaned
  <2>1. /\ work' = Advanced /\ work'.then = work.then /\ work'.todo = Tail(work.todo)
    BY <1>5, <1>13 DEF Reporting
  <2>2. ~work.failed /\ Reporting
    <3>1. work'.then # <<>>
      BY Ends DEF Reporting
    <3> QED
      BY <1>2, <2>1, <3>1 DEF Reporting
  <2>3. part \in Objects("owned")
    BY <1>8, <1>9 DEF Reporting
  <2>4. Has(work.todo, <<"delete", part>>)
    BY <2>2, <2>3 DEF Owned, OwnedCleaned, Todo
  <2>5. Head(work.todo) # <<"delete", part>>
    BY <2>1, <2>2, <2>3
  <2> QED
    BY <1>3, <2>1, <2>4, <2>5 DEF Todo
<1>11. OwnedRecovered'
  <2> SUFFICES ASSUME ~work'.failed, Recovery', NEW part \in Objects("owned")'
               PROVE  Todo(<<"delete", part>>)'
    BY DEF OwnedRecovered
  <2>1. /\ work' = Advanced /\ work'.then = work.then /\ work'.todo = Tail(work.todo)
    BY <1>5, <1>13 DEF Recovery
  <2>2. ~work.failed /\ Recovery
    <3>1. work'.then # <<>>
      BY Ends DEF Recovery
    <3> QED
      BY <1>2, <2>1, <3>1 DEF Recovery
  <2>3. part \in Objects("owned")
    BY <1>8, <1>9 DEF Recovery
  <2>4. Has(work.todo, <<"delete", part>>)
    <3>1. work.todo # << <<"chains">> >>
      BY <2>1, <2>2
    <3> QED
      BY <2>2, <2>3, <3>1 DEF Owned, OwnedRecovered, Todo
  <2>5. Head(work.todo) # <<"delete", part>>
    BY <2>1, <2>2, <2>3
  <2> QED
    BY <1>3, <2>1, <2>4, <2>5 DEF Todo
<1>12. OwnedGone'
  <2> SUFFICES ASSUME Stage(work'.then) = "removed", work'.todo = <<>>
               PROVE  FALSE
    BY DEF OwnedGone
  <2>1. Stage(work.then) = "removed"
    BY <1>6
  <2>2. work.todo = << <<"stop">> >>
    BY <2>1 DEF Control, Shaped
  <2> QED
    BY <2>2
<1> QED
  BY <1>7, <1>10, <1>11, <1>12 DEF Owned

\* A step that ends an operation or begins one.
LEMMA OwnedEnds ==
    ASSUME Owned, OwnedKnown', Objects("owned")' \subseteq Objects("owned"),
           ~Starting', Reporting' => Reporting /\ work' = work /\ live'.kind = live.kind,
           Recovery' => (Recovery /\ work' = work) \/ work'.todo = << <<"chains">> >>,
           Stage(work'.then) = "removed" /\ work'.todo = <<>> =>
               work' = work \/ Objects("owned")' = {}
    PROVE  Owned'
<1>1. OwnedIntended'
  BY DEF OwnedIntended
<1>2. OwnedCleaned'
  BY DEF Owned, OwnedCleaned, Todo, Reporting
<1>3. OwnedRecovered'
  BY DEF Owned, OwnedRecovered, Todo, Recovery
<1>4. OwnedGone'
  BY DEF Owned, OwnedGone
<1> QED
  BY <1>1, <1>2, <1>3, <1>4 DEF Owned

\* A step of an installation: what it adds, and what it writes.
LEMMA BuildStep ==
    ASSUME Control, Create \/ Intend \/ WriteJournal \/ Spawn \/ AddObject \/ Mark
    PROVE  /\ Follows /\ work.todo # <<>> /\ work.then = Rolling /\ Starting
           /\ Head(work.todo) \in Builds /\ work' \in {Advanced, Broken}
           /\ session' = session /\ slice' = slice /\ live.kind \in Kinds /\ live'.up = live.up
           /\ faults' \in {faults, faults + 1}
           /\ \/ SameObjects /\ ~Create /\ ~AddObject
              \/ SameObjects /\ (Create \/ AddObject) /\ UNCHANGED <<saved, disk>>
                 /\ live'.planned = live.planned
              \/ /\ \E part \in Routing \cup {"device"} :
                      /\ Head(work.todo) = (IF part = "device" THEN <<"create">> ELSE <<"add", part>>)
                      /\ Objects(live.kind)' = Objects(live.kind) \cup {part}
                      /\ \A kind \in Kinds \ {live.kind} : Objects(kind)' = Objects(kind)
                 /\ UNCHANGED <<saved, disk>> /\ live'.planned = live.planned
           /\ Head(work.todo) = <<"intend">> /\ work' # Broken =>
                live'.planned /\ saved'.interface = Recorded(live') /\ disk' = saved'
<1>1. Typed /\ saved \in States /\ disk \in States /\ live \in Lives /\ faults \in Nat
      /\ kernel \subseteq Kinds \X Parts
  BY InterfacesAssumption DEF Control, Typed
<1>2. \E step \in {"intend", "create", "spawn", "journal", "mark", "add"} :
          /\ At(step)
          /\ step = "intend" <=> Intend
  <2>1. \A one, two : At(one) /\ At(two) => one = two
    BY DEF At
  <2>2. /\ Intend => At("intend")
        /\ ~Intend => \E step \in {"create", "spawn", "journal", "mark", "add"} : At(step)
    BY DEF Create, Intend, WriteJournal, Spawn, AddObject, Mark
  <2> QED
    BY <2>1, <2>2
<1>3. PICK step \in {"intend", "create", "spawn", "journal", "mark", "add"} :
          /\ At(step)
          /\ step = "intend" <=> Intend
  BY <1>2
<1>4. daemon /\ work.todo # <<>> /\ work.then = Rolling /\ Head(work.todo)[1] = step
      /\ work.todo \in Seq(Steps)
  BY <1>3, AtStep
<1>5. Starting /\ ~Recovery /\ Only(work.todo, Builds) /\ live.kind # "none"
  BY <1>4, Ends DEF Control, Shaped, Starting, Recovery
<1>6. Head(work.todo) \in Builds /\ live.kind \in Kinds
  BY <1>1, <1>4, <1>5, TailKeeps DEF Lives
<1>7. Head(work.todo) = <<"intend">> => Intend
  BY <1>3, <1>4
<1>8. daemon' /\ work' \in {Advanced, Broken} /\ session' = session /\ slice' = slice
      /\ faults' \in {faults, faults + 1}
  BY <1>4 DEF Create, Intend, WriteJournal, Spawn, AddObject, Mark, UnaffectedByStep, Works,
              Saves, SaveFails, Fails
<1>9. /\ live' \in Lives /\ live'.kind = live.kind /\ live'.planned \in {live.planned, TRUE}
      /\ live'.up = live.up /\ (~Intend => live'.planned = live.planned)
  <2>1. CASE Create
    BY <1>1, <2>1 DEF Create, Lives
  <2>2. CASE Intend
    BY <1>1, <2>2 DEF Intend, Lives
  <2>3. CASE WriteJournal \/ AddObject
    BY <1>1, <2>3 DEF WriteJournal, AddObject, Lives
  <2>4. CASE Spawn
    BY <1>1, <2>4 DEF Spawn, Lives
  <2>5. CASE Mark
    BY <1>1, <2>5 DEF Mark, Lives
  <2> QED
    BY <2>1, <2>2, <2>3, <2>4, <2>5
<1>10. \/ saved' = saved /\ disk' = disk /\ ~Intend
       \/ saved' = Journal(live') /\ disk' \in {disk, saved'}
  BY <1>3, <1>4 DEF Create, Intend, WriteJournal, Spawn, AddObject, Mark, Saves, SaveFails
<1>11. Follows
  <2>1. saved' = Journal(live') => saved'.interface = Recorded(live')
    BY <1>1, <1>9, JournalIs
  <2> QED
    BY <1>4, <1>5, <1>8, <1>9, <1>10, <2>1 DEF Follows, SameRecord
<1>12. Intend /\ work' # Broken => live'.planned /\ saved'.interface = Recorded(live') /\ disk' = saved'
  <2> SUFFICES ASSUME Intend, work' # Broken
               PROVE  live'.planned /\ saved'.interface = Recorded(live') /\ disk' = saved'
    OBVIOUS
  <2>1. live'.planned /\ saved' = Journal(live') /\ disk' = saved'
    BY <1>1 DEF Intend, Saves, Lives
  <2> QED
    BY <1>1, <1>9, <2>1, JournalIs
<1>13. CASE Intend \/ WriteJournal \/ Spawn \/ Mark
  <2>1. \A kind, part : part # "helper" => (<<kind, part>> \in kernel' <=> <<kind, part>> \in kernel)
    BY <1>13 DEF Intend, WriteJournal, Spawn, Mark
  <2>2. SameObjects
    BY <2>1 DEF SameObjects, Objects, Routing
  <2>3. ~Create /\ ~AddObject
    <3>1. \A one, two : At(one) /\ At(two) => one = two
      BY DEF At
    <3> QED
      BY <1>13, <3>1 DEF Create, AddObject, Intend, WriteJournal, Spawn, Mark
  <2> QED
    BY <1>4, <1>5, <1>6, <1>7, <1>8, <1>9, <1>11, <1>12, <2>2, <2>3
<1>14. CASE Create
  <2>1. UNCHANGED <<saved, disk>> /\ live'.planned = live.planned
        /\ (kernel' = kernel \/ kernel' = kernel \cup {<<live.kind, "device">>})
    BY <1>3, <1>9, <1>14 DEF Create, At
  <2>2. Head(work.todo) = <<"create">>
    <3>1. Head(work.todo)[1] = "create"
      BY <1>3, <1>4, <1>14 DEF Create, At
    <3> QED
      BY <1>6, <3>1 DEF Builds, Additions
  <2>3. CASE kernel' = kernel
    BY <1>4, <1>5, <1>6, <1>7, <1>8, <1>9, <1>11, <1>12, <1>14, <2>1, <2>3 DEF SameObjects, Objects
  <2>4. CASE kernel' = kernel \cup {<<live.kind, "device">>}
    <3>1. /\ Objects(live.kind)' = Objects(live.kind) \cup {"device"}
          /\ \A kind \in Kinds \ {live.kind} : Objects(kind)' = Objects(kind)
      BY <1>9, <2>4 DEF Objects
    <3> QED
      BY <1>4, <1>5, <1>6, <1>7, <1>8, <1>9, <1>11, <1>12, <2>1, <2>2, <3>1
  <2> QED
    BY <2>1, <2>3, <2>4
<1>15. CASE AddObject
  <2>1. UNCHANGED <<saved, disk>> /\ live'.planned = live.planned
        /\ (kernel' = kernel \/ kernel' = kernel \cup {<<live.kind, Head(work.todo)[2]>>})
    BY <1>3, <1>9, <1>15 DEF AddObject
  <2>2. PICK part \in Routing : Head(work.todo) = <<"add", part>>
    <3>1. Head(work.todo)[1] = "add"
      BY <1>3, <1>4, <1>15 DEF AddObject, At
    <3> QED
      BY <1>6, <3>1 DEF Builds, Additions
  <2>3. CASE kernel' = kernel
    BY <1>4, <1>5, <1>6, <1>7, <1>8, <1>9, <1>11, <1>12, <1>15, <2>1, <2>3 DEF SameObjects, Objects
  <2>4. CASE kernel' = kernel \cup {<<live.kind, Head(work.todo)[2]>>}
    <3>1. /\ Objects(live.kind)' = Objects(live.kind) \cup {part}
          /\ \A kind \in Kinds \ {live.kind} : Objects(kind)' = Objects(kind)
      BY <1>9, <2>2, <2>4 DEF Objects
    <3>2. part # "device"
      BY DEF Routing
    <3> QED
      BY <1>4, <1>5, <1>6, <1>7, <1>8, <1>9, <1>11, <1>12, <2>1, <2>2, <3>1, <3>2
  <2> QED
    BY <2>1, <2>3, <2>4
<1> QED
  BY <1>13, <1>14, <1>15

\* What there is of an owned interface stays named.
LEMMA KnownKeeps ==
    ASSUME Control, Control', OwnedKnown, Follows, Objects("owned")' \subseteq Objects("owned")
    PROVE  OwnedKnown'
<1>1. live' \in Lives /\ live \in Lives /\ saved \in States /\ disk \in States
  BY DEF Control, Typed
<1>2. SUFFICES ASSUME Objects("owned") # {}
               PROVE  /\ Named(disk') /\ Named(saved')
                      /\ (live'.kind = "none" \/ (live'.kind = "owned" /\ live'.planned))
  BY DEF OwnedKnown, Named
<1>3. /\ Named(disk) /\ Named(saved)
      /\ (live.kind = "none" \/ (live.kind = "owned" /\ live.planned))
  BY <1>2 DEF OwnedKnown, Follows
<1>4. live'.kind = "none" \/ (live'.kind = "owned" /\ live'.planned)
  BY <1>3 DEF Follows
<1>5. Named(saved')
  <2>1. CASE SameRecord(saved'.interface, saved.interface)
    BY <1>3, <2>1 DEF SameRecord, Named
  <2>2. CASE /\ SameRecord(saved'.interface, Recorded(live'))
             /\ live.kind # "none" \/ saved.interface.kind # "owned"
    <3>1. live'.kind = "owned" /\ live'.planned
      BY <1>3, <1>4, <2>2 DEF Named, Follows
    <3> QED
      BY <1>1, <2>2, <3>1, RecordedIs DEF Named, SameRecord
  <2> QED
    BY <2>1, <2>2 DEF Follows
<1>6. Named(disk')
  BY <1>3, <1>5 DEF Follows, SameRecord, Named
<1> QED
  BY <1>4, <1>5, <1>6

\* An installation adds nothing that is not named.
LEMMA BuildOwned ==
    Control /\ Control' /\ Owned /\ (Create \/ Intend \/ WriteJournal \/ Spawn \/ AddObject \/ Mark)
       => Owned'
<1> SUFFICES ASSUME Control, Control', Owned,
                    Create \/ Intend \/ WriteJournal \/ Spawn \/ AddObject \/ Mark
             PROVE  Owned'
  OBVIOUS
<1>1. /\ Follows /\ work.todo # <<>> /\ work.then = Rolling /\ Starting
      /\ Head(work.todo) \in Builds /\ work' \in {Advanced, Broken}
      /\ live.kind \in Kinds
      /\ \/ SameObjects
         \/ /\ \E part \in Routing \cup {"device"} :
                 /\ Head(work.todo) = (IF part = "device" THEN <<"create">> ELSE <<"add", part>>)
                 /\ Objects(live.kind)' = Objects(live.kind) \cup {part}
                 /\ \A kind \in Kinds \ {live.kind} : Objects(kind)' = Objects(kind)
            /\ UNCHANGED <<saved, disk>> /\ live'.planned = live.planned
      /\ Head(work.todo) = <<"intend">> /\ work' # Broken =>
           live'.planned /\ saved'.interface = Recorded(live') /\ disk' = saved'
  BY BuildStep
<1>2. /\ live \in Lives /\ live' \in Lives /\ saved \in States /\ disk \in States
      /\ work.todo \in Seq(Steps) /\ daemon
      /\ live'.kind = live.kind /\ live'.planned \in {live.planned, TRUE}
  BY <1>1 DEF Control, Typed, TypedWork, Follows
<1>3. /\ OwnedKnown /\ OwnedIntended
  BY DEF Owned
<1>4. ~Recovery
  BY <1>1 DEF Starting, Recovery
<1>5. OwnedKnown'
  <2>1. CASE Objects("owned")' \subseteq Objects("owned")
    BY <1>1, <1>3, <2>1, KnownKeeps
  <2>2. CASE ~(Objects("owned")' \subseteq Objects("owned"))
    <3>1. live.kind = "owned" /\ UNCHANGED <<saved, disk>> /\ live'.planned = live.planned
      BY <1>1, <2>2 DEF SameObjects, Kinds
    <3>2. PICK part \in Routing \cup {"device"} :
            Head(work.todo) = (IF part = "device" THEN <<"create">> ELSE <<"add", part>>)
      BY <1>1, <2>2 DEF SameObjects, Kinds
    <3>3. Todo(Head(work.todo))
      <4>1. 1 \in DOMAIN work.todo /\ work.todo[1] = Head(work.todo)
        BY <1>1, <1>2
      <4> QED
        BY <4>1 DEF Todo, Has
    <3>4. Head(work.todo) # <<"intend">>
      BY <3>2
    <3>5. ~(~Todo(<<"create">>) /\ \A p \in Routing : ~Todo(<<"add", p>>))
      BY <3>2, <3>3
    <3>6. Named(disk) /\ Named(saved) /\ live.planned
      BY <1>1, <1>3, <3>1, <3>4, <3>5 DEF OwnedIntended
    <3> QED
      BY <1>2, <3>1, <3>6 DEF OwnedKnown, Named
  <2> QED
    BY <2>1, <2>2
<1>6. live.kind = "owned" /\ Named(disk) /\ Named(saved) /\ live.planned =>
         Named(disk') /\ Named(saved') /\ live'.planned
  <2> SUFFICES ASSUME live.kind = "owned", Named(disk), Named(saved), live.planned
               PROVE  Named(disk') /\ Named(saved') /\ live'.planned
    OBVIOUS
  <2>1. live'.planned /\ live'.kind # "none" /\ live'.kind = "owned"
    BY <1>2
  <2>2. Recorded(live').kind = "owned" /\ Recorded(live').planned
    BY <1>2, <2>1, RecordedIs
  <2>3. Named(saved')
    BY <1>1, <2>2 DEF Follows, SameRecord, Named
  <2> QED
    BY <1>1, <2>1, <2>3 DEF Follows, SameRecord, Named
<1>7. live.kind = "owned" /\ Head(work.todo) = <<"intend">> /\ work' # Broken =>
         Named(disk') /\ Named(saved') /\ live'.planned
  <2> SUFFICES ASSUME live.kind = "owned", Head(work.todo) = <<"intend">>, work' # Broken
               PROVE  Named(disk') /\ Named(saved') /\ live'.planned
    OBVIOUS
  <2>1. live'.planned /\ live'.kind # "none" /\ live'.kind = "owned"
    BY <1>1, <1>2
  <2>2. Recorded(live').kind = "owned" /\ Recorded(live').planned
    BY <1>2, <2>1, RecordedIs
  <2> QED
    BY <1>1, <2>1, <2>2 DEF Named
<1>8. Head(work.todo) \notin {<<"stop">>, <<"chains">>}
      /\ \A part : Head(work.todo) # <<"delete", part>>
  BY <1>1 DEF Builds, Additions
<1> QED
  BY <1>1, <1>2, <1>4, <1>5, <1>6, <1>7, <1>8, OwnedMoves

\* A step of a teardown, or a deletion of a recovery.
LEMMA CleanStep ==
    ASSUME Control, Identify \/ SetChain \/ Reap \/ DeleteObject
    PROVE  /\ Follows /\ work.todo # <<>> /\ ~Starting
           /\ Stage(work.then) \in Cleaning \cup {"recovered"}
           /\ work' \in {Advanced, Broken, Failed(Advanced)}
           /\ session' = session /\ slice' = slice /\ saved' = saved /\ disk' = disk
           /\ faults' \in {faults, faults + 1} /\ FewerObjects
           /\ \/ /\ SameObjects /\ Stage(work.then) \in Cleaning /\ ~DeleteObject
                 /\ \A part : Head(work.todo) # <<"delete", part>>
                 /\ Head(work.todo) \notin {<<"stop">>, <<"intend">>, <<"chains">>}
              \/ /\ DeleteObject /\ live' = live /\ chain' = chain
                 /\ \E part \in Routing \cup {"device"} :
                      /\ Head(work.todo) = <<"delete", part>>
                      /\ \/ /\ work' = Advanced
                            /\ \A kind \in Kinds : kind = ObjectKind => part \notin Objects(kind)'
                            /\ \A kind \in Kinds \ {ObjectKind} : Objects(kind)' = Objects(kind)
                            /\ Objects(ObjectKind) \ {part, "capture"} \subseteq
                                 {p \in Routing \cup {"device"} : <<ObjectKind, p>> \in kernel'}
                            /\ part # "device" => Objects(ObjectKind) \ {part} \subseteq
                                 {p \in Routing \cup {"device"} : <<ObjectKind, p>> \in kernel'}
                         \/ /\ work' \in {Broken, Failed(Advanced)} /\ SameObjects
                            /\ faults' = faults + 1 \/ part = "device"
<1>1. Typed /\ saved \in States /\ disk \in States /\ live \in Lives
      /\ kernel \subseteq Kinds \X Parts
  BY DEF Control, Typed
<1>2. \E step \in {"identify", "chain", "reap", "delete"} :
          /\ At(step) /\ (step = "delete" <=> DeleteObject)
  <2>1. \A one, two : At(one) /\ At(two) => one = two
    BY DEF At
  <2> QED
    BY <2>1 DEF Identify, SetChain, Reap, DeleteObject
<1>3. PICK step \in {"identify", "chain", "reap", "delete"} :
          /\ At(step) /\ (step = "delete" <=> DeleteObject)
  BY <1>2
<1>4. /\ daemon /\ work.todo # <<>> /\ Head(work.todo)[1] = step /\ Head(work.todo) \in Steps
      /\ Stage(work.then) \in Cleaning \cup {"recovered"}
      /\ step # "delete" => Stage(work.then) \in Cleaning
  BY <1>3, AtStep
<1>5. ~Starting
  BY <1>4 DEF Starting, Cleaning
<1>6. /\ work' \in {Advanced, Broken, Failed(Advanced)} /\ daemon' = daemon
      /\ session' = session /\ slice' = slice /\ saved' = saved /\ disk' = disk
      /\ faults' \in {faults, faults + 1}
  BY DEF Identify, SetChain, Reap, DeleteObject, UnaffectedByStep, Works, Fails, Failed
<1>7. live'.kind = live.kind /\ live'.planned = live.planned
  <2>1. CASE Identify
    BY <1>1, <2>1 DEF Identify, Lives
  <2>2. CASE SetChain
    BY <1>1, <2>2 DEF SetChain, Lives
  <2>3. CASE Reap
    BY <1>1, <2>3 DEF Reap, Lives
  <2>4. CASE DeleteObject
    BY <2>4 DEF DeleteObject
  <2> QED
    BY <2>1, <2>2, <2>3, <2>4
<1>8. Follows
  BY <1>4, <1>6, <1>7 DEF Follows, SameRecord
<1>9. CASE ~DeleteObject
  <2>1. \A kind, part : part # "helper" => (<<kind, part>> \in kernel' <=> <<kind, part>> \in kernel)
    BY <1>9 DEF Identify, SetChain, Reap
  <2>2. SameObjects
    BY <2>1 DEF SameObjects, Objects, Routing
  <2>3. FewerObjects
    BY <2>2 DEF SameObjects, FewerObjects
  <2>4. /\ \A part : Head(work.todo) # <<"delete", part>>
        /\ Head(work.todo) \notin {<<"stop">>, <<"intend">>, <<"chains">>}
    BY <1>3, <1>4, <1>9
  <2> QED
    BY <1>3, <1>4, <1>5, <1>6, <1>8, <1>9, <2>2, <2>3, <2>4
<1>10. CASE DeleteObject
  <2>1. PICK part \in Routing \cup {"device"} : Head(work.todo) = <<"delete", part>>
    <3>1. Head(work.todo)[1] = "delete"
      BY <1>3, <1>4, <1>10
    <3> QED
      BY <1>4, <3>1 DEF Steps, Builds, Cleans, Recoveries, Singles, Additions, Deletions
  <2>2. Head(work.todo)[2] = part
    BY <2>1
  <2>3. live' = live /\ chain' = chain
    BY <1>10 DEF DeleteObject
  <2>4. \/ /\ work' = Advanced
           /\ kernel' = IF part = "device" THEN WithoutDevice(ObjectKind)
                        ELSE kernel \ {<<ObjectKind, part>>}
        \/ /\ kernel' = kernel /\ work' \in {Broken, Failed(Advanced)}
           /\ faults' = faults + 1 \/ part = "device"
    BY <1>10, <2>2 DEF DeleteObject, Busy, Fails, Failed
  <2>5. CASE /\ work' = Advanced
             /\ kernel' = IF part = "device" THEN WithoutDevice(ObjectKind)
                          ELSE kernel \ {<<ObjectKind, part>>}
    <3> DEFINE k == ObjectKind
    <3>1. /\ \A kind \in Kinds : kind = k => part \notin Objects(kind)'
          /\ \A kind \in Kinds \ {k} : Objects(kind)' = Objects(kind)
          /\ \A kind \in Kinds : Objects(kind)' \subseteq Objects(kind)
          /\ Objects(k) \ {part, "capture"} \subseteq
               {p \in Routing \cup {"device"} : <<k, p>> \in kernel'}
          /\ part # "device" => Objects(k) \ {part} \subseteq
               {p \in Routing \cup {"device"} : <<k, p>> \in kernel'}
      <4>1. CASE part = "device"
        <5>1. kernel' = kernel \ {<<k, p>> : p \in {"device", "capture"}}
          BY <2>5, <4>1 DEF WithoutDevice
        <5>2. k = ObjectKind
          OBVIOUS
        <5> HIDE DEF k
        <5> QED
          BY <4>1, <5>1 DEF Objects
      <4>2. CASE part # "device"
        <5>1. kernel' = kernel \ {<<k, part>>}
          BY <2>5, <4>2
        <5> HIDE DEF k
        <5> QED
          BY <4>2, <5>1 DEF Objects
      <4> QED
        BY <4>1, <4>2
    <3>2. FewerObjects
      BY <3>1 DEF FewerObjects
    <3> QED
      BY <1>4, <1>5, <1>6, <1>8, <1>10, <2>1, <2>3, <2>5, <3>1, <3>2
  <2>6. CASE /\ kernel' = kernel /\ work' \in {Broken, Failed(Advanced)}
             /\ faults' = faults + 1 \/ part = "device"
    <3>1. SameObjects /\ FewerObjects
      BY <2>6 DEF SameObjects, FewerObjects, Objects
    <3> QED
      BY <1>4, <1>5, <1>6, <1>8, <1>10, <2>1, <2>3, <2>6, <3>1
  <2> QED
    BY <2>4, <2>5, <2>6
<1> QED
  BY <1>9, <1>10

\* A teardown deletes what it says.
LEMMA CleanOwned ==
    Control /\ Control' /\ Owned /\ (Identify \/ SetChain \/ Reap \/ DeleteObject) => Owned'
<1> SUFFICES ASSUME Control, Control', Owned, Identify \/ SetChain \/ Reap \/ DeleteObject
             PROVE  Owned'
  OBVIOUS
<1>1. /\ Follows /\ work.todo # <<>> /\ ~Starting /\ FewerObjects
      /\ Stage(work.then) \in Cleaning \cup {"recovered"}
      /\ work' \in {Advanced, Broken, Failed(Advanced)} /\ saved' = saved /\ disk' = disk
      /\ \/ /\ Stage(work.then) \in Cleaning
            /\ \A part : Head(work.todo) # <<"delete", part>>
            /\ Head(work.todo) \notin {<<"stop">>, <<"intend">>, <<"chains">>}
         \/ \E part \in Routing \cup {"device"} :
                 /\ Head(work.todo) = <<"delete", part>>
                 /\ \/ /\ work' = Advanced
                       /\ \A kind \in Kinds : kind = ObjectKind => part \notin Objects(kind)'
                    \/ work' \in {Broken, Failed(Advanced)}
  BY CleanStep
<1>2. live'.kind = live.kind /\ live'.planned \in {live.planned, TRUE} /\ daemon
  BY <1>1 DEF Follows
<1>3. OwnedKnown /\ OwnedKnown'
  <2>1. OwnedKnown /\ Objects("owned")' \subseteq Objects("owned")
    BY <1>1 DEF Owned, FewerObjects, Kinds
  <2> QED
    BY <1>1, <2>1, KnownKeeps
<1>4. Head(work.todo) \notin {<<"stop">>, <<"intend">>, <<"chains">>}
  BY <1>1
<1>5. ASSUME NEW part \in Objects("owned"), Head(work.todo) = <<"delete", part>>,
             work' = Advanced, ~work.failed, live.kind = "owned" \/ Recovery
      PROVE  part \notin Objects("owned")'
  <2>1. ObjectKind = "owned"
    <3>1. work.name = "recover" <=> Recovery
      BY DEF Control, Shaped, Recovery
    <3>2. Recovery => saved.interface.kind = "owned"
      BY <1>2, <1>3, <1>5 DEF OwnedKnown, Named
    <3>3. Recovery => live.kind = "none"
      BY DEF Control, Shaped, Recovery
    <3> QED
      BY <1>5, <3>1, <3>2, <3>3 DEF ObjectKind
  <2>2. work' \notin {Broken, Failed(Advanced)}
    <3>1. /\ Advanced.then = work.then /\ Advanced \in TypedWork
          /\ Advanced.then # <<>> => Advanced.failed = work.failed
          /\ Broken.then # <<>> => Broken.failed
      BY <1>1, Moves
    <3>2. work.then # <<>>
      BY <1>1, Ends DEF Cleaning
    <3>3. Failed(Advanced).failed
      BY <3>1 DEF Failed, TypedWork
    <3> QED
      BY <1>5, <3>1, <3>2, <3>3
  <2>3. PICK p \in Routing \cup {"device"} :
          /\ Head(work.todo) = <<"delete", p>>
          /\ \A kind \in Kinds : kind = ObjectKind => p \notin Objects(kind)'
    BY <1>1, <1>5, <2>2
  <2>4. p = part
    BY <1>5, <2>3
  <2> QED
    BY <2>1, <2>3, <2>4 DEF Kinds
<1> QED
  BY <1>1, <1>2, <1>3, <1>4, <1>5, OwnedMoves

\* A step of a recovery that deletes nothing.
LEMMA RecoveryStep ==
    ASSUME Control, RecoverChains \/ IntendAgain \/ Recognise \/ Kill \/ Unchain
    PROVE  /\ Follows /\ SameObjects /\ work.todo # <<>> /\ work.then = Recovering
           /\ Recovery /\ ~Starting /\ live.kind = "none" /\ live' = live /\ daemon
           /\ session' = session /\ slice' = slice /\ faults' \in {faults, faults + 1}
           /\ \/ /\ RecoverChains /\ saved'.interface = saved.interface /\ disk' = disk
                 /\ work' = [work EXCEPT !.todo = RecoveryOf(saved')]
              \/ /\ ~RecoverChains
                 /\ work' = Advanced \/ (work' = Broken /\ faults' = faults + 1)
                 /\ Head(work.todo) \notin {<<"chains">>, <<"stop">>, <<"intend">>}
                 /\ \A part : Head(work.todo) # <<"delete", part>>
<1>1. Typed /\ saved \in States /\ disk \in States /\ live \in Lives
      /\ kernel \subseteq Kinds \X Parts
  BY DEF Control, Typed
<1>2. \E step \in {"chains", "reintend", "recognise", "kill", "unchain"} :
          /\ At(step) /\ (step = "chains" <=> RecoverChains)
  <2>1. \A one, two : At(one) /\ At(two) => one = two
    BY DEF At
  <2> QED
    BY <2>1 DEF RecoverChains, IntendAgain, Recognise, Kill, Unchain
<1>3. PICK step \in {"chains", "reintend", "recognise", "kill", "unchain"} :
          /\ At(step) /\ (step = "chains" <=> RecoverChains)
  BY <1>2
<1>4. /\ daemon /\ work.todo # <<>> /\ Head(work.todo)[1] = step /\ Head(work.todo) \in Steps
      /\ work.then = Recovering /\ work.todo \in Seq(Steps)
  BY <1>3, AtStep
<1>5. Recovery /\ ~Starting /\ live.kind = "none" /\ Only(work.todo, Recoveries)
  BY <1>4, Ends DEF Control, Shaped, Recovery, Starting
<1>6. daemon' /\ session' = session /\ slice' = slice /\ faults' \in {faults, faults + 1}
      /\ live' = live
  BY <1>4 DEF RecoverChains, IntendAgain, Recognise, Kill, Unchain, UnaffectedByStep, Works, Saves,
              SaveFails, Fails
<1>7. SameRecord(saved'.interface, saved.interface) /\ disk' \in {disk, saved'}
      /\ (~IntendAgain => saved'.interface = saved.interface /\ disk' = disk)
  <2>1. CASE RecoverChains
    BY <1>1, <2>1 DEF RecoverChains, States, SameRecord
  <2>2. CASE IntendAgain
    BY <1>1, <2>2 DEF IntendAgain, States, Records, SameRecord, Saves, SaveFails
  <2>3. CASE Recognise \/ Kill \/ Unchain
    BY <1>1, <2>3 DEF Recognise, Kill, Unchain, SameRecord
  <2> QED
    BY <2>1, <2>2, <2>3
<1>8. Follows
  BY <1>4, <1>6, <1>7 DEF Follows, SameRecord
<1>9. SameObjects
  <2>1. \A kind, part : part # "helper" => (<<kind, part>> \in kernel' <=> <<kind, part>> \in kernel)
    BY DEF RecoverChains, IntendAgain, Recognise, Kill, Unchain
  <2> QED
    BY <2>1 DEF SameObjects, Objects, Routing
<1>10. CASE RecoverChains
  <2>1. work' = [work EXCEPT !.todo = RecoveryOf(saved')]
    BY <1>10 DEF RecoverChains
  <2>2. ~IntendAgain
    BY <1>3, <1>10 DEF IntendAgain, At
  <2> QED
    BY <1>4, <1>5, <1>6, <1>7, <1>8, <1>9, <1>10, <2>1, <2>2
<1>11. CASE ~RecoverChains
  <2>1. work' = Advanced \/ (work' = Broken /\ faults' = faults + 1)
    BY <1>11 DEF IntendAgain, Recognise, Kill, Unchain, Saves, SaveFails, Fails
  <2>2. Head(work.todo) \in Recoveries
    BY <1>4, <1>5, TailKeeps
  <2>3. /\ Head(work.todo) \notin {<<"chains">>, <<"stop">>, <<"intend">>}
        /\ \A part : Head(work.todo) # <<"delete", part>>
    BY <1>3, <1>4, <1>11
  <2> QED
    BY <1>4, <1>5, <1>6, <1>8, <1>9, <1>11, <2>1, <2>3
<1> QED
  BY <1>10, <1>11

\* A recovery deletes what it finds on record.
LEMMA RecoveryOwned ==
    Control /\ Control' /\ Owned
    /\ (RecoverChains \/ IntendAgain \/ Recognise \/ Kill \/ Unchain) => Owned'
<1> SUFFICES ASSUME Control, Control', Owned,
                    RecoverChains \/ IntendAgain \/ Recognise \/ Kill \/ Unchain
             PROVE  Owned'
  OBVIOUS
<1>1. /\ Follows /\ SameObjects /\ work.todo # <<>> /\ work.then = Recovering
      /\ Recovery /\ ~Starting /\ live.kind = "none" /\ live' = live /\ daemon
      /\ \/ /\ RecoverChains /\ saved'.interface = saved.interface
            /\ work' = [work EXCEPT !.todo = RecoveryOf(saved')]
         \/ /\ work' \in {Advanced, Broken}
            /\ Head(work.todo) \notin {<<"chains">>, <<"stop">>, <<"intend">>}
            /\ \A part : Head(work.todo) # <<"delete", part>>
  BY RecoveryStep
<1>2. FewerObjects /\ Objects("owned")' = Objects("owned")
  BY <1>1 DEF SameObjects, FewerObjects, Kinds
<1>3. OwnedKnown /\ OwnedKnown'
  <2>1. OwnedKnown
    BY DEF Owned
  <2> QED
    BY <1>1, <1>2, <2>1, KnownKeeps
<1>4. CASE /\ work' \in {Advanced, Broken}
           /\ Head(work.todo) \notin {<<"chains">>, <<"stop">>, <<"intend">>}
           /\ \A part : Head(work.todo) # <<"delete", part>>
  BY <1>1, <1>2, <1>3, <1>4, OwnedMoves
<1>5. CASE saved'.interface = saved.interface /\ work' = [work EXCEPT !.todo = RecoveryOf(saved')]
  <2>1. work \in TypedWork /\ saved' \in States
    BY DEF Control, Typed
  <2>2. work'.todo = RecoveryOf(saved') /\ work'.then = Recovering
    BY <1>1, <1>5, <2>1 DEF TypedWork
  <2>3. Stage(work'.then) = "recovered"
    BY <2>2, Ends
  <2>4. ASSUME NEW part \in Objects("owned")'
        PROVE  Todo(<<"delete", part>>)'
    <3>1. saved'.interface.kind = "owned"
      BY <1>1, <1>2, <1>3, <1>5 DEF OwnedKnown, Named
    <3>2. /\ saved'.interface.kind # "none" =>
               \A p \in Routing : Has(RecoveryOf(saved'), <<"delete", p>>)
          /\ saved'.interface.kind = "owned" => Has(RecoveryOf(saved'), <<"delete", "device">>)
      BY <2>1, RecoveryIs
    <3>3. part \in Routing \cup {"device"}
      BY DEF Objects
    <3> QED
      BY <2>2, <3>1, <3>2, <3>3 DEF Todo
  <2> QED
    BY <1>3, <2>3, <2>4 DEF Owned, OwnedIntended, OwnedCleaned, OwnedRecovered, OwnedGone, Starting,
                            Reporting
<1> QED
  BY <1>1, <1>4, <1>5

\* A stop fails, finds nothing to stop, or becomes the removal of what there is.
LEMMA StopStep ==
    ASSUME Control, Control', Stop
    PROVE  /\ daemon /\ daemon' /\ kernel' = kernel /\ chain' = chain /\ session' = session
           /\ slice' = slice /\ faults' \in {faults, faults + 1}
           /\ work.todo = << <<"stop">> >> /\ ~Recovery /\ ~Starting /\ work.name # "recover"
           /\ live'.kind = live.kind /\ live'.planned = live.planned /\ live'.up = live.up
           /\ live'.chain = live.chain /\ live'.cgroup = live.cgroup
           /\ saved' = saved \/ (saved' = Journal(live') /\ live.kind = "owned")
           /\ disk' \in {disk, saved'} /\ Follows
           /\ \/ /\ work'.todo = <<>>
                 /\ Stage(work'.then) \in {"end", "released", "exit"}
                 /\ faults' = faults + 1 \/ (Unresolved /\ live' = live)
              \/ /\ live.kind = "none" /\ ~Unresolved /\ UNCHANGED <<live, saved, disk, faults>>
                 /\ work'.todo = <<>> /\ work'.then = work.then
                 /\ Stage(work.then) \in {"end", "launch", "released", "removed"}
              \/ /\ live.kind # "none" /\ work'.todo = CleanupOf(work.name = "delete")
                 /\ Stage(work'.then) \in {"deleted", "stopped"} /\ ~work'.failed
                 /\ work.name = "switch" \/ work'.verdict = Verdict
                 /\ work.name = "switch" => work'.verdict = SwitchVerdict
                 /\ faults' = faults
<1>1. /\ saved \in States /\ disk \in States /\ live \in Lives /\ work \in TypedWork
      /\ live' \in Lives /\ saved' \in States
  BY DEF Control, Typed
<1>2. At("stop") /\ daemon
  BY AtStep DEF Stop
<1>3. /\ work.todo = << <<"stop">> >> /\ work.todo # <<>> /\ Tail(work.todo) = <<>>
      /\ work.then \in Thens
      /\ Stage(work.then) \in {"end", "rejected", "launch", "released", "removed", "forget", "plan"}
  BY <1>2, AtStep, Words
<1>4. ~Recovery /\ ~Starting
  BY <1>3 DEF Recovery, Starting
<1>12. Stage(work.then) # "rejected" /\ work.then \in After /\ work.name # "recover"
       /\ (Stage(work.then) \in {"forget", "plan"} => live.kind = "legacy")
  <2>1. Stage(work.then) # "rejected" /\ work.name # "recover"
        /\ (Stage(work.then) \in {"forget", "plan"} => live.kind = "legacy")
    BY <1>3 DEF Control, Shaped
  <2> QED
    BY <1>3, <2>1, StagesAre DEF After
<1>5. daemon' /\ kernel' = kernel /\ chain' = chain /\ session' = session /\ slice' = slice
  BY <1>2 DEF Stop, UnaffectedByStep
<1>7. /\ Advanced.todo = <<>> /\ Advanced.then = work.then
      /\ Broken.todo = <<>> /\ Broken.then = Kept(work.then)
  BY <1>3, Moves
<1>8. Stage(Kept(work.then)) \in {"end", "released", "exit"}
  <2>1. Stage(<<>>) = "end" /\ Stage(Exiting) = "exit"
    BY Ends
  <2>2. /\ Stage(work.then) = "released" => Kept(work.then) = work.then
        /\ Stage(work.then) \in {"end", "launch", "forget", "plan"} => Kept(work.then) = <<>>
        /\ Stage(work.then) = "removed" => Kept(work.then) \in {<<>>, Exiting}
    BY <1>3, StageKeeps
  <2> QED
    BY <1>3, <1>12, <2>1, <2>2
<1>10. CASE live.kind = "none"
  <2>1. /\ work' = IF Unresolved THEN Broken ELSE Advanced
        /\ UNCHANGED <<live, saved, disk, faults>>
    BY <1>10 DEF Stop, Works
  <2>2. Follows
    BY <1>2, <1>5, <2>1 DEF Follows, SameRecord
  <2>3. faults \in Nat
    BY InterfacesAssumption DEF Control, Typed
  <2>4. Stage(work.then) \in {"end", "launch", "released", "removed"}
    BY <1>3, <1>10, <1>12
  <2> QED
    BY <1>2, <1>3, <1>4, <1>5, <1>7, <1>8, <1>10, <1>12, <2>1, <2>2, <2>4
<1>11. CASE live.kind # "none"
  <2> DEFINE deletes == work.name = "delete"
             ends == IF deletes THEN "deleted" ELSE "stopped"
             verdict == IF work.name = "switch" THEN SwitchVerdict ELSE Verdict
             first == << <<ends>> >>
             whole == Expanded(CleanupOf(deletes), first, verdict, deletes)
  <2>1. Removal(deletes, ends, verdict)
    BY <1>11 DEF Stop
  <2>2. /\ (work' = whole /\ faults' = faults) \/ (work' = Broken /\ faults' = faults + 1)
        /\ saved' = saved \/ (saved' = Journal(live') /\ live.kind = "owned")
        /\ disk' \in {disk, saved'}
        /\ live'.kind = live.kind /\ live'.planned = live.planned /\ live'.up = live.up
        /\ live'.chain = live.chain /\ live'.cgroup = live.cgroup
    <3>1. CASE live.kind = "owned"
      <4>1. live' = [live EXCEPT !.dirty = TRUE]
        BY <2>1, <3>1 DEF Removal
      <4>2. /\ live'.kind = live.kind /\ live'.planned = live.planned /\ live'.up = live.up
            /\ live'.chain = live.chain /\ live'.cgroup = live.cgroup
        BY <1>1, <4>1 DEF Lives
      <4>3. /\ (work' = whole /\ faults' = faults) \/ (work' = Broken /\ faults' = faults + 1)
            /\ saved' = Journal(live') /\ disk' \in {disk, saved'}
        BY <2>1, <3>1 DEF Removal, Saves, SaveFails, Fails, Works
      <4> HIDE DEF verdict, whole, ends
      <4> QED
        BY <3>1, <4>2, <4>3
    <3>2. CASE live.kind # "owned"
      BY <2>1, <3>2 DEF Removal, Works
    <3> QED
      BY <3>1, <3>2
  <2>3. deletes \in BOOLEAN /\ verdict \in {"release", "block"}
    BY DEF Verdict, SwitchVerdict
  <2>9. /\ work.name = "switch" => verdict = SwitchVerdict
        /\ work.name # "switch" => verdict = Verdict
    OBVIOUS
  <2>4. Follows
    <3>1. saved' = Journal(live') => saved'.interface = Recorded(live')
      BY <1>1, JournalIs
    <3> HIDE DEF verdict, whole, ends
    <3> QED
      BY <1>2, <1>4, <1>5, <1>11, <2>2, <3>1 DEF Follows, SameRecord
  <2>6. CASE work' = Broken /\ faults' = faults + 1
    <3> HIDE DEF verdict, whole, ends
    <3> QED
      BY <1>2, <1>3, <1>4, <1>5, <1>7, <1>8, <1>12, <2>2, <2>4, <2>6
  <2>7. CASE work' = whole /\ faults' = faults
    <3> DEFINE list == first \o Advanced.then
    <3>1. /\ CleanupOf(deletes) \in Seq(Steps) /\ CleanupOf(deletes) # <<>>
      BY <2>3, CleanupIs
    <3>2. IF deletes THEN list = Deleting ELSE list = Stopping(work.then)
      <4>1. CASE deletes
        <5>1. work.then = <<>>
          BY <1>3, <4>1, StagesAre DEF Control, Shaped
        <5> QED
          BY <1>7, <4>1, <5>1, Joined DEF Deleting
      <4>2. CASE ~deletes
        BY <1>7, <4>2 DEF Stopping
      <4> QED
        BY <4>1, <4>2
    <3>4. list \in Thens /\ list # <<>> /\ Stage(list) \in {"deleted", "stopped"}
      <4>1. CASE deletes
        <5>1. Deleting \in Thens /\ Deleting # <<>>
          BY DEF Thens, Deleting
        <5> QED
          BY <3>2, <4>1, <5>1, Ends
      <4>2. CASE ~deletes
        <5>1. Stopping(work.then) \in Thens
          BY <1>12 DEF Thens, Stoppings
        <5>2. Stopping(work.then) # <<>> /\ Stage(Stopping(work.then)) = "stopped"
          BY <1>12, StopEnds
        <5> QED
          BY <3>2, <4>2, <5>1, <5>2
      <4> QED
        BY <4>1, <4>2
    <3>0. list = first \o Advanced.then /\ whole = Expanded(CleanupOf(deletes), first, verdict, deletes)
      OBVIOUS
    <3>8. deletes = (work.name = "delete")
      OBVIOUS
    <3> HIDE DEF list, first, whole, verdict, ends, deletes
    <3>5. /\ work'.todo = CleanupOf(deletes) /\ work'.then = list /\ ~work'.failed
          /\ work'.verdict = verdict
      <4>1. first \o Advanced.then \in Thens /\ first \o Advanced.then # <<>>
        BY <3>0, <3>4
      <4> DEFINE w == Expanded(CleanupOf(deletes), first, verdict, deletes)
      <4>2. /\ w.todo = CleanupOf(deletes) /\ w.then = first \o Advanced.then /\ ~w.failed
            /\ w.verdict = verdict
        BY <1>3, <2>3, <3>1, <4>1, ExpandedIs
      <4> QED
        BY <2>7, <3>0, <4>2
    <3>6. Stage(work'.then) \in {"deleted", "stopped"}
      BY <3>4, <3>5
    <3>7. work'.todo = CleanupOf(work.name = "delete")
      BY <3>5, <3>8
    <3> QED
      BY <1>2, <1>3, <1>4, <1>5, <1>11, <1>12, <2>2, <2>4, <2>7, <2>9, <3>5, <3>6, <3>7
  <2> HIDE DEF verdict, whole, ends
  <2> QED
    BY <2>2, <2>6, <2>7
<1> QED
  BY <1>10, <1>11

\* The removal of an owned interface still has everything to delete.
LEMMA StopOwned == Control /\ Control' /\ Owned /\ Stop => Owned'
<1> SUFFICES ASSUME Control, Control', Owned, Stop
             PROVE  Owned'
  OBVIOUS
<1>1. /\ daemon /\ kernel' = kernel /\ ~Recovery /\ ~Starting /\ live'.kind = live.kind /\ Follows
      /\ \/ /\ work'.todo = <<>>
            /\ Stage(work'.then) \in {"end", "released", "exit"}
         \/ /\ live.kind = "none" /\ ~Unresolved
            /\ work'.todo = <<>> /\ work'.then = work.then
            /\ Stage(work.then) \in {"end", "launch", "released", "removed"}
         \/ /\ live.kind # "none" /\ work'.todo = CleanupOf(work.name = "delete")
            /\ Stage(work'.then) \in {"deleted", "stopped"}
  BY StopStep
<1>2. Objects("owned")' = Objects("owned")
  BY <1>1 DEF Objects
<1>3. OwnedKnown /\ OwnedKnown'
  <2>1. OwnedKnown
    BY DEF Owned
  <2> QED
    BY <1>1, <1>2, <2>1, KnownKeeps
<1>4. CASE work'.todo = <<>> /\ Stage(work'.then) \in {"end", "released", "exit"}
  BY <1>2, <1>3, <1>4, OwnedEnds DEF Starting, Reporting, Recovery
<1>5. CASE /\ live.kind = "none" /\ ~Unresolved /\ work'.then = work.then
           /\ Stage(work.then) \in {"end", "launch", "released", "removed"}
  <2>1. Objects("owned")' = {}
    BY <1>1, <1>2, <1>3, <1>5 DEF OwnedKnown, Unresolved, Named
  <2> QED
    BY <1>2, <1>3, <1>5, <2>1, OwnedEnds DEF Starting, Reporting, Recovery
<1>6. CASE /\ work'.todo = CleanupOf(work.name = "delete")
           /\ Stage(work'.then) \in {"deleted", "stopped"}
  <2> DEFINE deletes == work.name = "delete"
  <2>1. /\ \A part \in Routing : Has(CleanupOf(deletes), <<"delete", part>>)
        /\ live.kind = "owned" => Has(CleanupOf(deletes), <<"delete", "device">>)
    <3>1. deletes \in BOOLEAN
      OBVIOUS
    <3> QED
      BY <3>1, CleanupIs
  <2>2. OwnedCleaned'
    <3> SUFFICES ASSUME live'.kind = "owned", NEW part \in Objects("owned")'
                 PROVE  Todo(<<"delete", part>>)'
      BY DEF OwnedCleaned
    <3>1. live.kind = "owned" /\ part \in Routing \cup {"device"}
      BY <1>1 DEF Objects
    <3> QED
      BY <1>6, <2>1, <3>1 DEF Todo
  <2> QED
    BY <1>3, <1>6, <2>2 DEF Owned, OwnedIntended, OwnedRecovered, OwnedGone, Starting, Recovery
<1> QED
  BY <1>1, <1>4, <1>5, <1>6

\* The steps that end a start or what follows it.
LEMMA EndStep ==
    ASSUME Control, Control', Up \/ Rollback \/ RolledBack \/ Rejected \/ Released \/ Launch
    PROVE  /\ daemon /\ daemon' /\ kernel' = kernel /\ chain' = chain /\ slice' = slice
           /\ session'.here = session.here /\ session'.holds = session.holds
           /\ faults' \in {faults, faults + 1} /\ ~Recovery
           /\ live'.kind = live.kind /\ live'.planned = live.planned
           /\ live'.chain = live.chain /\ live'.cgroup = live.cgroup
           /\ Up \/ live'.up = live.up
           /\ saved' = saved \/ saved'.interface = Recorded(live')
           /\ saved'.bound = saved.bound /\ disk' \in {disk, saved'} /\ Follows
           /\ Stage(work'.then) \in {"end", "rejected", "undone", "released"}
           /\ Stage(work'.then) = "undone" <=> Rollback
           /\ Up => work.then = Rolling
           /\ Up \/ work.todo = <<>>
<1>1. /\ saved \in States /\ disk \in States /\ live \in Lives /\ session \in Sessions
      /\ live' \in Lives /\ saved' \in States /\ work \in TypedWork
  BY DEF Control, Typed
<1>2. \E step \in {"up", "rollback", "undone", "rejected", "released", "launch"} :
          /\ At(step)
          /\ (step = "up" <=> Up) /\ (step = "rollback" <=> Rollback)
  <2>1. \A one, two : At(one) /\ At(two) => one = two
    BY DEF At
  <2> QED
    BY <2>1 DEF Up, Rollback, RolledBack, Rejected, Released, Launch
<1>3. PICK step \in {"up", "rollback", "undone", "rejected", "released", "launch"} :
          /\ At(step)
          /\ (step = "up" <=> Up) /\ (step = "rollback" <=> Rollback)
  BY <1>2
<1>4. /\ daemon /\ (step = "up" => work.then = Rolling /\ work.todo # <<>>)
      /\ step # "up" => work.todo = <<>> /\ work.then # <<>> /\ Stage(work.then) = step
      /\ work.then \in Thens
  BY <1>3, AtStep
<1>5. ~Recovery
  BY <1>4, Ends DEF Recovery
<1>6. daemon' /\ kernel' = kernel /\ chain' = chain /\ slice' = slice
      /\ faults' \in {faults, faults + 1}
  BY <1>4 DEF Up, Rollback, RolledBack, Rejected, Released, Launch, UnaffectedByStep, Works, Saves,
              SaveFails, TriesToSave, Fails
<1>7. session'.here = session.here /\ session'.holds = session.holds
  BY <1>1 DEF Up, Rollback, RolledBack, Rejected, Released, Launch, UnaffectedByStep, Sessions
<1>8. /\ live'.kind = live.kind /\ live'.planned = live.planned
      /\ live'.chain = live.chain /\ live'.cgroup = live.cgroup
      /\ Up \/ live'.up = live.up
  <2>1. CASE Up
    BY <1>1, <2>1 DEF Up, Lives
  <2>2. CASE Rollback
    <3> DEFINE owned == live.kind = "owned"
    <3>1. live' = live \/ live' = [live EXCEPT !.dirty = owned]
      BY <2>2 DEF Rollback
    <3> HIDE DEF owned
    <3> QED
      BY <1>1, <3>1 DEF Lives
  <2>3. CASE RolledBack
    <3>1. live' = live \/ live' = [live EXCEPT !.created = FALSE]
      BY <2>3 DEF RolledBack
    <3> QED
      BY <1>1, <3>1 DEF Lives
  <2>4. CASE Rejected \/ Released \/ Launch
    BY <2>4 DEF Rejected, Released, Launch
  <2> QED
    BY <2>1, <2>2, <2>3, <2>4
<1>9. /\ \/ saved' = saved
         \/ /\ saved'.interface = Recorded(live') /\ saved'.bound = saved.bound
            /\ live.kind # "none" \/ saved.interface.kind # "owned"
      /\ disk' \in {disk, saved'}
  <2>1. CASE Rollback
    <3>1. live'.kind # "none"
      <4>1. Stage(work.then) = "rollback"
        BY <1>3, <1>4, <2>1
      <4> QED
        BY <1>8, <4>1 DEF Control, Shaped
    <3>2. (saved' = saved /\ disk' = disk) \/ (saved' = Journal(live') /\ disk' \in {disk, saved'})
      BY <2>1 DEF Rollback, Saves, SaveFails
    <3> QED
      BY <1>1, <1>8, <3>1, <3>2, JournalIs
  <2>2. CASE Launch
    <3>1. (saved' = saved /\ disk' = disk) \/ (saved' = Synced(TRUE, live) /\ disk' \in {disk, saved'})
      BY <2>2 DEF Launch, Saves, SaveFails, TriesToSave
    <3> DEFINE here == TRUE
    <3>2. here \in BOOLEAN /\ Synced(TRUE, live) = Synced(here, live)
      OBVIOUS
    <3>3. live' = live
      BY <2>2 DEF Launch
    <3> HIDE DEF here
    <3> QED
      BY <1>1, <3>1, <3>2, <3>3, SyncedIs
  <2>3. CASE Up \/ RolledBack \/ Rejected \/ Released
    <3>1. \/ saved' = saved /\ disk' = disk
          \/ saved' = Synced(session.here, live') /\ disk' \in {disk, saved'}
      BY <2>3 DEF Up, RolledBack, Rejected, Released, Saves, SaveFails, TriesToSave
    <3>2. session.here \in BOOLEAN
      BY <1>1 DEF Sessions
    <3> QED
      BY <1>1, <1>8, <3>1, <3>2, SyncedIs
  <2> QED
    BY <2>1, <2>2, <2>3
<1>10. Follows
  BY <1>4, <1>5, <1>6, <1>8, <1>9 DEF Follows, SameRecord
<1>11. /\ Stage(work'.then) \in {"end", "rejected", "undone", "released"}
       /\ Stage(work'.then) = "undone" <=> Rollback
  <2>1. CASE Up
    <3>1. work' = Begin("start", <<>>, <<>>) \/ work' = Failed(Begin("start", <<>>, Rejecting))
      BY <2>1 DEF Up, Failed, Rejecting
    <3> DEFINE none == [NoWork EXCEPT !.name = "start", !.todo = <<>>, !.then = <<>>]
               rest == [NoWork EXCEPT !.name = "start", !.todo = <<>>, !.then = Rejecting]
    <3>2. Begin("start", <<>>, <<>>) = Settled(none) /\ Begin("start", <<>>, Rejecting) = Settled(rest)
      BY DEF Begin
    <3>3. /\ none \in TypedWork /\ none.then = <<>> /\ rest \in TypedWork /\ rest.then = Rejecting
      <4>1. /\ <<>> \in Seq(Steps) /\ <<>> \in Thens /\ Rejecting \in Thens /\ "start" \in Names
        BY EmptyIs DEF Thens, After, Names
      <4> QED
        BY <4>1 DEF TypedWork, NoWork
    <3> HIDE DEF none, rest
    <3>4. /\ Settled(none).then = <<>> /\ Settled(rest).then = Rejecting
          /\ Settled(rest) \in TypedWork
      BY <3>3, SettledIs
    <3>5. Failed(Settled(rest)).then = Rejecting
      BY <3>4 DEF Failed, TypedWork
    <3>6. work'.then \in {<<>>, Rejecting}
      BY <3>1, <3>2, <3>4, <3>5
    <3>7. ~Rollback
      BY <1>3, <2>1
    <3> QED
      BY <3>6, <3>7, Ends
  <2>2. CASE Rollback
    <3>1. work.then = Rolling /\ work.todo = <<>> /\ work.then # <<>>
      BY <1>3, <1>4, <2>2, StagesAre
    <3>2. Advanced.then = Rejecting
      BY <3>1, Ends, Moves
    <3> DEFINE first == << <<"undone">> >>
               list == CleanupOf(live.fresh)
               verdict == Verdict
               fresh == live.fresh
               release == "release"
               no == FALSE
               none == <<>>
               one == Expanded(list, first, verdict, fresh)
               two == Expanded(none, first, release, no)
    <3>3. work' = one \/ work' = two \/ work' = Failed(two)
      <4>1. CASE live.kind = "owned" /\ ~live.created
        BY <2>2, <4>1 DEF Rollback
      <4>2. CASE ~(live.kind = "owned" /\ ~live.created)
        BY <2>2, <4>2, Zenon DEF Rollback, Failed
      <4> QED
        BY <4>1, <4>2
    <3>4. first \o Advanced.then = Rolled
      BY <3>2, Joined DEF Rejecting, Rolled
    <3>5. Rolled \in Thens /\ Rolled # <<>>
      BY DEF Thens, Rolled
    <3>6. /\ fresh \in BOOLEAN /\ verdict \in {"release", "block"} /\ no \in BOOLEAN
          /\ release \in {"release", "block"} /\ none \in Seq(Steps)
      BY <1>1, EmptyIs DEF Lives, Verdict
    <3>7. list \in Seq(Steps)
      BY <3>6, CleanupIs
    <3>12. first \o Advanced.then \in Thens /\ first \o Advanced.then # <<>>
      BY <3>4, <3>5
    <3> HIDE DEF first, release, no, none, list, verdict, fresh
    <3>8. one.then = first \o Advanced.then
      BY <3>1, <3>6, <3>7, <3>12, ExpandedIs
    <3>9. two \in TypedWork /\ two.then = first \o Advanced.then
      BY <3>1, <3>6, <3>12, ExpandedIs
    <3> HIDE DEF one, two
    <3>10. Failed(two).then = two.then
      BY <3>9 DEF Failed, TypedWork
    <3>11. work'.then = Rolled
      BY <3>3, <3>4, <3>8, <3>9, <3>10
    <3> QED
      BY <2>2, <3>11, Ends
  <2>3. CASE ~Up /\ ~Rollback
    <3>1. /\ Stage(work.then) \in {"undone", "rejected", "released", "launch"}
          /\ work.todo = <<>> /\ work.then # <<>>
      BY <1>3, <1>4, <2>3
    <3>2. work.then \in {Rolled, Rejecting, Releasing, Launching}
      BY <1>4, <3>1, StagesAre
    <3>3. /\ Advanced.then \in {<<>>, Rejecting} /\ Broken.then \in {<<>>, Rejecting}
          /\ Advanced \in TypedWork
          /\ Stage(work.then) # "undone" => Advanced.then = <<>>
      BY <3>1, <3>2, Ends, Moves
    <3>4. \/ work' \in {Advanced, Broken, Failed(Advanced)}
          \/ work' = Expanded(<< <<"stop">> >>, Releasing, "release", FALSE) /\ Rejected
      BY <2>3 DEF RolledBack, Rejected, Released, Launch, Failed, Releasing
    <3>5. CASE work' \in {Advanced, Broken, Failed(Advanced)}
      <4>1. Failed(Advanced).then = Advanced.then
        BY <3>3 DEF Failed, TypedWork
      <4>2. work'.then \in {<<>>, Rejecting}
        BY <3>3, <3>5, <4>1
      <4> QED
        BY <2>3, <4>2, Ends
    <3>6. CASE work' = Expanded(<< <<"stop">> >>, Releasing, "release", FALSE) /\ Rejected
      <4> DEFINE stop == << <<"stop">> >>
                 no == FALSE
                 release == "release"
                 w == Expanded(stop, Releasing, release, no)
      <4>1. Advanced.then = <<>>
        <5>1. At("rejected")
          BY <3>6 DEF Rejected
        <5>2. Stage(work.then) = "rejected"
          BY <5>1, AtStep
        <5> QED
          BY <3>3, <5>2
      <4>2. Releasing \o <<>> = Releasing /\ Releasing \in Thens /\ Releasing # <<>>
        BY DEF Thens, After, Releasing
      <4>3. stop \in Seq(Steps) /\ no \in BOOLEAN /\ release \in {"release", "block"}
        BY SingleIs DEF Singles
      <4>4. work' = w
        BY <3>6
      <4> HIDE DEF stop, no, release, w
      <4>6. w.then = Releasing \o Advanced.then
        BY <3>1, <4>1, <4>2, <4>3, ExpandedIs DEF w
      <4> QED
        BY <2>3, <4>1, <4>2, <4>4, <4>6, Ends
    <3> QED
      BY <3>4, <3>5, <3>6
  <2> QED
    BY <2>1, <2>2, <2>3
<1> QED
  BY <1>3, <1>4, <1>5, <1>6, <1>7, <1>8, <1>9, <1>10, <1>11

\* The steps in which an installation or an operation ends leave the objects alone.
LEMMA EndOwned ==
    Control /\ Control' /\ Owned /\ (Up \/ Rollback \/ RolledBack \/ Rejected \/ Released \/ Launch)
       => Owned'
<1> SUFFICES ASSUME Control, Control', Owned,
                    Up \/ Rollback \/ RolledBack \/ Rejected \/ Released \/ Launch
             PROVE  Owned'
  OBVIOUS
<1>1. kernel' = kernel /\ Follows
      /\ Stage(work'.then) \in {"end", "rejected", "undone", "released"}
  BY EndStep
<1>2. Objects("owned")' = Objects("owned")
  BY <1>1 DEF Objects
<1>3. OwnedKnown'
  <2>1. OwnedKnown
    BY DEF Owned
  <2> QED
    BY <1>1, <1>2, <2>1, KnownKeeps
<1> QED
  BY <1>1, <1>2, <1>3, OwnedEnds DEF Starting, Reporting, Recovery

\* How a removal is reported: the record goes, or follows what is left.
LEMMA ReportStep ==
    ASSUME Control, Control', Stopped \/ Deleted
    PROVE  /\ daemon /\ daemon' /\ kernel' = kernel /\ chain' = chain /\ session' = session
           /\ slice' = slice /\ faults' \in {faults, faults + 1}
           /\ work.todo = <<>> /\ live.kind \in Kinds /\ Reporting /\ ~Recovery
           /\ work' \in {Advanced, Broken} /\ work'.todo = <<>>
           /\ Stage(work'.then) \in {"end", "launch", "forget", "plan", "released", "removed", "exit"}
           /\ work' = Broken => Stage(work'.then) \in {"end", "released", "exit"}
           /\ \/ FinishDeletion /\ ~work.failed /\ (live.kind = "owned" \/ Deleted)
              \/ /\ Follows /\ live'.kind = live.kind /\ live'.planned = live.planned
                 /\ live'.up = live.up /\ live'.chain = live.chain
                 /\ disk' \in {disk, saved'}
                 /\ work' = Broken \/ (~work.failed /\ live.kind = "legacy" /\ Stopped)
<1>1. /\ saved \in States /\ disk \in States /\ live \in Lives /\ session \in Sessions
      /\ live' \in Lives /\ saved' \in States /\ work \in TypedWork /\ work.then \in Thens
  BY DEF Control, Typed, TypedWork
<1>2. /\ daemon /\ work.todo = <<>> /\ work.then # <<>>
      /\ Stage(work.then) \in {"stopped", "deleted"} /\ (Deleted => Stage(work.then) = "deleted")
  BY AtStep DEF Stopped, Deleted
<1>3. live.kind \in Kinds
  BY <1>1, <1>2 DEF Control, Shaped, Cleaning, Lives
<1>4. Reporting /\ ~Recovery
  BY <1>2 DEF Reporting, Recovery
<1>5. /\ daemon' /\ kernel' = kernel /\ chain' = chain /\ session' = session /\ slice' = slice
      /\ faults' \in {faults, faults + 1} /\ work' \in {Advanced, Broken}
  BY <1>2 DEF Stopped, Deleted, FinishDeletion, UnaffectedByStep, Works, Saves, SaveFails, Fails
<1>6. /\ Advanced.todo = <<>> /\ Advanced.then = Tail(work.then)
      /\ Broken.todo = <<>> /\ Broken.then = Kept(Tail(work.then))
  BY <1>2, Moves
<1>7. /\ Tail(work.then) \in After /\ Kept(Tail(work.then)) \in {<<>>, Releasing, Exiting}
  <2>1. /\ Stage(work.then) = "deleted" => Tail(work.then) = <<>> /\ Kept(Tail(work.then)) = <<>>
        /\ Stage(work.then) = "stopped" =>
             Tail(work.then) \in After /\ Kept(Tail(work.then)) \in {<<>>, Releasing, Exiting}
    BY <1>1, <1>2, StageEnds
  <2> QED
    BY <1>2, <2>1 DEF After
<1>8. /\ \A then \in After : Stage(then) \in {"end", "launch", "forget", "plan", "released",
                                             "removed", "exit"}
      /\ \A then \in {<<>>, Releasing, Exiting} : Stage(then) \in {"end", "released", "exit"}
  BY Ends DEF After
<1>9. Kept(Tail(work.then)) \in After
  BY <1>7 DEF After
<1>10. /\ Stage(work'.then) \in {"end", "launch", "forget", "plan", "released", "removed", "exit"}
       /\ work' = Broken => Stage(work'.then) \in {"end", "released", "exit"}
       /\ work'.todo = <<>>
  BY <1>5, <1>6, <1>7, <1>8, <1>9
<1>11. CASE FinishDeletion /\ ~work.failed /\ (live.kind = "owned" \/ Deleted)
  BY <1>2, <1>3, <1>4, <1>5, <1>10, <1>11
<1>12. CASE Deleted /\ work.failed
  <2>1. work' = Broken /\ live' = live /\ saved' = saved /\ disk' = disk
    BY <1>12 DEF Deleted
  <2>2. Follows
    BY <1>2, <1>5, <2>1 DEF Follows, SameRecord
  <2> QED
    BY <1>2, <1>3, <1>4, <1>5, <1>10, <2>1, <2>2
<1>13. CASE Stopped /\ ~(live.kind = "owned" /\ ~work.failed)
  <2> DEFINE synced == Synced(session.here, live')
             keeps == work.failed \/ work.verdict = "block"
             held == work.verdict = "block"
  <2>1. /\ live' = IF work.failed THEN live ELSE [live EXCEPT !.cgroup = held]
        /\ saved' = [synced EXCEPT !.bound = @ /\ keeps]
        /\ work' = Broken \/ ~work.failed
        /\ disk' \in {disk, saved'}
    BY <1>13 DEF Stopped, Saves, SaveFails, Fails
  <2> HIDE DEF held, keeps
  <2>2. /\ live'.kind = live.kind /\ live'.planned = live.planned /\ live'.up = live.up
        /\ live'.chain = live.chain
    BY <1>1, <2>1 DEF Lives
  <2>3. /\ synced \in States
        /\ synced = saved \/ synced.interface = Recorded(live')
    BY <1>1, SyncedIs DEF Sessions
  <2> HIDE DEF synced
  <2>4. saved'.interface = synced.interface
    BY <2>1, <2>3 DEF States
  <2>5. Follows
    BY <1>2, <1>3, <1>4, <1>5, <2>1, <2>2, <2>3, <2>4 DEF Follows, SameRecord, Kinds
  <2>6. work' = Broken \/ (~work.failed /\ live.kind = "legacy")
    BY <1>3, <1>13, <2>1 DEF Kinds
  <2> QED
    BY <1>2, <1>3, <1>4, <1>5, <1>10, <1>13, <2>1, <2>2, <2>5, <2>6
<1> QED
  BY <1>11, <1>12, <1>13 DEF Stopped, Deleted

\* The record of an owned interface goes when nothing of it is left.
LEMMA ReportOwned == Control /\ Control' /\ Owned /\ (Stopped \/ Deleted) => Owned'
<1> SUFFICES ASSUME Control, Control', Owned, Stopped \/ Deleted
             PROVE  Owned'
  OBVIOUS
<1>1. /\ daemon /\ kernel' = kernel /\ work.todo = <<>> /\ live.kind \in Kinds /\ Reporting
      /\ Stage(work'.then) \in {"end", "launch", "forget", "plan", "released", "removed", "exit"}
      /\ work' = Broken => Stage(work'.then) \in {"end", "released", "exit"}
      /\ ~work.failed \/ (Follows /\ work' = Broken)
  BY ReportStep
<1>2. Objects("owned")' = Objects("owned")
  BY <1>1 DEF Objects
<1>3. OwnedKnown
  BY DEF Owned
<1>4. CASE Objects("owned") = {}
  <2>1. OwnedKnown'
    BY <1>2, <1>4 DEF OwnedKnown
  <2> QED
    BY <1>1, <1>2, <1>4, <2>1, OwnedEnds DEF Starting, Reporting, Recovery
<1>5. CASE Objects("owned") # {}
  <2>1. live.kind = "owned"
    BY <1>1, <1>3, <1>5 DEF OwnedKnown, Kinds
  <2>2. work.failed
    BY <1>1, <1>5, <2>1, EmptyIs DEF Owned, OwnedCleaned, Todo
  <2>3. OwnedKnown'
    BY <1>1, <1>2, <1>3, <2>2, KnownKeeps
  <2> QED
    BY <1>1, <1>2, <2>2, <2>3, OwnedEnds DEF Starting, Reporting, Recovery
<1> QED
  BY <1>4, <1>5

\* The steps that let go of an interface, or of its record.
LEMMA LeaveStep ==
    ASSUME Control, Control', Replan \/ Forget \/ Removed \/ Recovered
    PROVE  /\ daemon /\ daemon' /\ kernel' = kernel /\ chain' = chain /\ slice' = slice
           /\ faults' \in {faults, faults + 1} /\ ~Reporting
           /\ work.todo = <<>> /\ work'.todo = <<>> /\ Stage(work'.then) \in {"end", "exit"}
           /\ Stage(work.then) \in {"plan", "forget", "removed", "recovered"}
           /\ Replan => /\ Follows /\ live.kind = "legacy" /\ disk' \in {disk, saved'}
                        /\ Stage(work.then) = "plan" /\ saved'.interface = saved.interface
                        /\ live' \in {live, PlannedInterface("legacy")}
           /\ Forget => /\ live.kind = "legacy" /\ live' = NoInterface /\ saved' = saved
                        /\ disk' = disk /\ Stage(work.then) = "forget"
           /\ Removed => live' = NoInterface /\ Stage(work.then) = "removed"
                         /\ saved'.interface \in {saved.interface, NoRecord}
                         /\ disk' \in {disk, saved'}
           /\ Recovered => /\ Recovery /\ live' = live /\ live.kind = "none"
                           /\ work.failed => Follows
                           /\ saved'.interface \in {saved.interface, NoRecord}
                           /\ disk' \in {disk, saved, saved'}
<1>1. /\ saved \in States /\ disk \in States /\ live \in Lives /\ session \in Sessions
      /\ live' \in Lives /\ saved' \in States /\ work \in TypedWork /\ work.then \in Thens
      /\ slice \in BOOLEAN
  BY DEF Control, Typed, TypedWork
<1>2. \E step \in {"plan", "forget", "removed", "recovered"} :
          /\ At(step)
          /\ (Replan => step = "plan") /\ (Forget => step = "forget")
          /\ (Removed => step = "removed") /\ (Recovered => step = "recovered")
  <2>1. \A one, two : At(one) /\ At(two) => one = two
    BY DEF At
  <2> QED
    BY <2>1 DEF Replan, Forget, Removed, Recovered
<1>3. PICK step \in {"plan", "forget", "removed", "recovered"} :
          /\ At(step)
          /\ (Replan => step = "plan") /\ (Forget => step = "forget")
          /\ (Removed => step = "removed") /\ (Recovered => step = "recovered")
  BY <1>2
<1>4. /\ daemon /\ work.todo = <<>> /\ work.then # <<>> /\ Stage(work.then) = step
  BY <1>3, AtStep
<1>5. ~Reporting /\ (step = "recovered" => Recovery) /\ (step # "recovered" => ~Recovery)
  BY <1>4 DEF Reporting, Recovery
<1>6. /\ daemon' /\ kernel' = kernel /\ chain' = chain /\ slice' = slice
      /\ faults' \in {faults, faults + 1} /\ work' \in {Advanced, Broken}
  <2>1. CASE Replan
    BY <1>4, <2>1 DEF Replan, UnaffectedByStep, UnboundIfEnded, TriesToSave, Saves, SaveFails, Works,
                      Fails
  <2>2. CASE Forget \/ Removed
    BY <1>4, <2>2 DEF Forget, Removed, UnaffectedByStep, Saves, SaveFails, Works, Fails
  <2>3. CASE Recovered
    BY <1>4, <2>3 DEF Recovered, TriesToSave, Saves, SaveFails, Works, Fails
  <2> QED
    BY <2>1, <2>2, <2>3
<1>7. /\ work'.todo = <<>> /\ Stage(work'.then) \in {"end", "exit"}
  <2>1. /\ Advanced.todo = <<>> /\ Advanced.then = Tail(work.then)
        /\ Broken.todo = <<>> /\ Broken.then = Kept(Tail(work.then))
    BY <1>4, Moves
  <2>2. /\ step \in {"recovered", "forget", "plan"} =>
             Tail(work.then) = <<>> /\ Kept(Tail(work.then)) = <<>>
        /\ step = "removed" =>
             Tail(work.then) \in {<<>>, Exiting} /\ Kept(Tail(work.then)) = Tail(work.then)
    BY <1>1, <1>4, StageEnds
  <2>3. work'.then \in {<<>>, Exiting}
    BY <1>6, <2>1, <2>2
  <2> QED
    BY <1>6, <2>1, <2>3, Ends
<1>8. step \in {"plan", "forget"} => live.kind = "legacy"
  BY <1>4 DEF Control, Shaped
<1>9. step = "recovered" => live.kind = "none"
  BY <1>4 DEF Control, Shaped
<1>10. ASSUME Replan
       PROVE  /\ Follows /\ live.kind = "legacy" /\ disk' \in {disk, saved'}
              /\ Stage(work.then) = "plan" /\ saved'.interface = saved.interface
              /\ live' \in {live, PlannedInterface("legacy")}
  <2>1. live' \in {live, PlannedInterface("legacy")}
        /\ saved' \in {saved, [saved EXCEPT !.bound = FALSE]} /\ disk' \in {disk, saved'}
    BY <1>10 DEF Replan, UnboundIfEnded, TriesToSave, Saves, SaveFails
  <2>2. saved'.interface = saved.interface
    BY <1>1, <2>1 DEF States
  <2>3. live'.kind = live.kind /\ live'.planned \in {live.planned, TRUE}
    <3>1. /\ PlannedInterface("legacy").kind = "legacy"
          /\ PlannedInterface("legacy").planned = TRUE
      BY <1>1, PlannedIs DEF Kinds
    <3> QED
      BY <1>3, <1>8, <1>10, <2>1, <3>1
  <2> QED
    BY <1>3, <1>4, <1>6, <1>8, <1>10, <2>1, <2>2, <2>3 DEF Follows, SameRecord
<1>11. ASSUME Forget
       PROVE  /\ live.kind = "legacy" /\ live' = NoInterface /\ saved' = saved
              /\ disk' = disk /\ Stage(work.then) = "forget"
  BY <1>3, <1>4, <1>8, <1>11 DEF Forget
<1>12. ASSUME Removed
       PROVE  /\ live' = NoInterface /\ Stage(work.then) = "removed"
              /\ saved'.interface \in {saved.interface, NoRecord} /\ disk' \in {disk, saved'}
  <2>1. \/ /\ saved' = [saved EXCEPT !.session = FALSE, !.interface = NoRecord]
           /\ disk' = saved'
        \/ saved' = saved /\ disk' = disk
    BY <1>12 DEF Removed, Saves, SaveFails
  <2>2. saved'.interface \in {saved.interface, NoRecord}
    BY <1>1, <2>1 DEF States
  <2>3. live' = NoInterface
    BY <1>12 DEF Removed
  <2> QED
    BY <1>3, <1>4, <1>12, <2>1, <2>2, <2>3
<1>13. ASSUME Recovered
       PROVE  /\ Recovery /\ live' = live /\ live.kind = "none"
              /\ work.failed => Follows
              /\ saved'.interface \in {saved.interface, NoRecord}
              /\ disk' \in {disk, saved, saved'}
  <2>1. live' = live
    BY <1>13 DEF Recovered
  <2>2. PICK adopted \in {FALSE} \cup {saved.session /\ saved.interface.kind # "owned"} :
           LET stays == adopted \/ work.failed
           IN \/ /\ saved' = [saved EXCEPT !.session = @ /\ stays,
                                           !.interface = IF work.failed THEN @ ELSE NoRecord]
                 /\ disk' \in {disk, saved'}
              \/ disk' \in {disk, saved} /\ saved' = saved
    BY <1>13 DEF Recovered, TriesToSave, Saves, SaveFails
  <2> DEFINE stays == adopted \/ work.failed
             record == IF work.failed THEN saved.interface ELSE NoRecord
             session1 == saved.session /\ stays
  <2>3. \/ /\ saved' = [saved EXCEPT !.session = session1, !.interface = record]
           /\ disk' \in {disk, saved'}
        \/ disk' \in {disk, saved} /\ saved' = saved
    BY <1>1, <2>2 DEF States
  <2> HIDE DEF stays, record, session1
  <2>4. saved'.interface \in {saved.interface, record} /\ disk' \in {disk, saved, saved'}
    BY <1>1, <2>3 DEF States
  <2>5. record \in {saved.interface, NoRecord} /\ (work.failed => record = saved.interface)
    BY DEF record
  <2>6. work.failed => Follows
    BY <1>4, <1>6, <2>1, <2>4, <2>5 DEF Follows, SameRecord
  <2> QED
    BY <1>3, <1>5, <1>9, <1>13, <2>1, <2>4, <2>5, <2>6
<1> QED
  BY <1>4, <1>5, <1>6, <1>7, <1>10, <1>11, <1>12, <1>13

\* The interface is planned anew, forgotten, or recovered.
LEMMA LeaveOwned ==
    Control /\ Control' /\ Owned /\ (Replan \/ Forget \/ Removed \/ Recovered) => Owned'
<1> SUFFICES ASSUME Control, Control', Owned, Replan \/ Forget \/ Removed \/ Recovered
             PROVE  Owned'
  OBVIOUS
<1>1. /\ daemon /\ kernel' = kernel /\ work.todo = <<>> /\ Stage(work'.then) \in {"end", "exit"}
      /\ Replan => live.kind = "legacy"
      /\ Forget => live.kind = "legacy"
      /\ Removed => Stage(work.then) = "removed"
      /\ Recovered => Recovery /\ (work.failed => Follows)
  BY LeaveStep
<1>2. Objects("owned")' = Objects("owned")
  BY <1>1 DEF Objects
<1>3. OwnedKnown
  BY DEF Owned
<1>4. OwnedKnown'
  <2>1. CASE Objects("owned") = {}
    BY <1>2, <2>1 DEF OwnedKnown
  <2>2. CASE Objects("owned") # {}
    <3>1. live.kind # "legacy"
      BY <1>1, <1>3, <2>2 DEF OwnedKnown
    <3>2. ~Removed
      BY <1>1, <2>2 DEF Owned, OwnedGone
    <3>3. Recovered
      BY <1>1, <3>1, <3>2
    <3>4. work.failed
      <4>1. work.todo # << <<"chains">> >>
        BY <1>1
      <4>2. \A part : ~Todo(<<"delete", part>>)
        BY <1>1, EmptyIs DEF Todo
      <4> QED
        BY <1>1, <2>2, <3>3, <4>1, <4>2 DEF Owned, OwnedRecovered
    <3> QED
      BY <1>1, <1>2, <1>3, <3>3, <3>4, KnownKeeps
  <2> QED
    BY <2>1, <2>2
<1> QED
  BY <1>1, <1>2, <1>4, OwnedEnds DEF Starting, Reporting, Recovery

\* What a request leads to.
LEMMA RequestedStages ==
    ASSUME Control, Control', Requested
    PROVE  /\ Stage(work'.then) \in {"end", "forget", "plan", "released", "removed", "launch",
                                     "rejected", "exit"}
           /\ Stage(work'.then) \in {"forget", "plan", "released", "removed"} =>
                work'.todo = << <<"stop">> >>
<1>1. Stage(work'.then) \notin {"rollback", "undone", "deleted", "recovered", "stopped"}
  <2>1. NoWork.then = <<>>
    BY DEF NoWork
  <2> QED
    BY <2>1, Ends DEF Requested, After
<1>2. work' \in TypedWork
  BY DEF Control, Typed
<1>3. Stage(work'.then) \in {"end", "forget", "plan", "released", "removed", "launch",
                             "rejected", "exit"}
  BY <1>1, <1>2, StagesAre DEF TypedWork
<1>4. Stage(work'.then) \in {"forget", "plan", "released", "removed"} =>
                work'.todo = << <<"stop">> >>
  <2>1. NoWork.then = <<>>
    BY DEF NoWork
  <2> QED
    BY <2>1, Ends DEF Requested
<1> QED
  BY <1>3, <1>4

\* The requests that only begin an operation.
LEMMA AskStep ==
    ASSUME Control, Control',
           \/ Supervise \/ Confirmed \/ ConfirmationFailed \/ CoreExits \/ ServerGone \/ Down
           \/ DeleteInterface \/ Shutdown \/ Connect
    PROVE  /\ Idle /\ daemon' /\ kernel' = kernel /\ chain' = chain /\ slice' = slice /\ live' = live
           /\ session'.here = session.here /\ session'.holds = session.holds
           /\ faults' \in {faults, faults + 1} /\ Follows /\ Requested
           /\ saved'.bound = saved.bound /\ disk' \in {disk, saved'}
           /\ saved' = saved \/ saved'.interface = Recorded(live')
<1>1. saved \in States /\ live \in Lives /\ session \in Sessions
  BY DEF Control, Typed
<1>2. Idle /\ daemon
  BY DEF Supervise, Confirmed, ConfirmationFailed, CoreExits, ServerGone, Down, DeleteInterface,
         Shutdown, Connect, Idle
<1>3. /\ daemon' /\ slice' = slice /\ chain' = chain /\ kernel' = kernel /\ live' = live
      /\ saved' \in {saved, Synced(TRUE, live)} /\ disk' \in {disk, saved'}
      /\ faults' \in {faults, faults + 1}
  BY <1>2 DEF Supervise, Confirmed, ConfirmationFailed, CoreExits, ServerGone, Down, DeleteInterface,
         Shutdown, Connect, UnaffectedByStep, TriesToSave, Saves, SaveFails, Works, Fails
<1>4. session'.here = session.here /\ session'.holds = session.holds
  <2>1. session' \in {session, [session EXCEPT !.holding = FALSE], [session EXCEPT !.core = FALSE],
                      [session EXCEPT !.core = FALSE, !.holding = TRUE]}
    BY DEF Supervise, Confirmed, ConfirmationFailed, CoreExits, ServerGone, Down, DeleteInterface,
           Shutdown, Connect, UnaffectedByStep
  <2> QED
    BY <1>1, <2>1 DEF Sessions
<1>5. ~Recovery
  BY <1>2, IdleIs, Ends DEF Recovery
<1>6. /\ \/ saved' = saved
         \/ /\ saved'.interface = Recorded(live)
            /\ live.kind # "none" \/ saved.interface.kind # "owned"
      /\ saved'.bound = saved.bound
  <2> DEFINE here == TRUE
  <2>1. saved' = saved \/ saved' = Synced(here, live)
    BY <1>3
  <2>2. here \in BOOLEAN
    OBVIOUS
  <2> HIDE DEF here
  <2> QED
    BY <1>1, <2>1, <2>2, SyncedIs
<1>7. Follows
  BY <1>2, <1>3, <1>5, <1>6 DEF Follows, SameRecord
<1>8. Requested
  BY AskControl
<1> QED
  BY <1>2, <1>3, <1>4, <1>6, <1>7, <1>8

\* The plan of an interface: where there is one it is stopped, and a new one starts from
\* nothing.
LEMMA PlanStep ==
    ASSUME Control, Control', \E kind \in Kinds \cup {"none"}, holds \in BOOLEAN : Plan(kind, holds)
    PROVE  /\ Idle /\ daemon' /\ kernel' = kernel /\ chain' = chain /\ slice' = slice
           /\ faults' \in {faults, faults + 1} /\ Requested
           /\ \/ live.kind = "legacy" /\ UNCHANGED <<live, saved, disk>>
              \/ /\ live.kind = "none" /\ ~Unresolved /\ work' = work
                 /\ saved'.interface = saved.interface /\ disk' \in {disk, saved'}
                 /\ saved'.bound => saved.bound
                 /\ saved.bound /\ slice => saved' = saved /\ disk' = disk
                 /\ live' = NoInterface \/ (\E kind \in Kinds : live' = PlannedInterface(kind))
<1>1. saved \in States /\ live \in Lives
  BY DEF Control, Typed
<1>2. PICK kind \in Kinds \cup {"none"}, holds \in BOOLEAN : Plan(kind, holds)
  OBVIOUS
<1>3. Idle /\ daemon' /\ kernel' = kernel /\ chain' = chain /\ slice' = slice /\ ~Unresolved
      /\ live.kind # "owned"
  BY <1>2 DEF Plan, Idle, InterfaceReady
<1>4. faults' \in {faults, faults + 1}
  BY <1>2 DEF Plan, UnboundIfEnded, TriesToSave, Saves, SaveFails, Works, Fails
<1>5. Requested
  BY PlanControl
<1>6. CASE live.kind = "none"
  <2>1. live' = NoInterface \/ (kind \in Kinds /\ live' = PlannedInterface(kind))
    BY <1>2, <1>6 DEF Plan
  <2>2. /\ saved' \in {saved, [saved EXCEPT !.bound = FALSE]} /\ disk' \in {disk, saved'}
        /\ saved.bound /\ slice => saved' = saved /\ disk' = disk
        /\ work' = work
    BY <1>2, <1>6 DEF Plan, UnboundIfEnded, TriesToSave, Saves, SaveFails
  <2>3. saved'.interface = saved.interface /\ (saved'.bound => saved.bound)
    BY <1>1, <2>2 DEF States
  <2> QED
    BY <1>3, <1>4, <1>5, <1>6, <2>1, <2>2, <2>3
<1>7. CASE live.kind # "none"
  <2>1. live.kind = "legacy" /\ UNCHANGED <<live, saved, disk>>
    BY <1>1, <1>2, <1>3, <1>7 DEF Plan, Lives, Kinds
  <2> QED
    BY <1>3, <1>4, <1>5, <2>1
<1> QED
  BY <1>6, <1>7

\* The scope of a command.
LEMMA ScopeStep ==
    ASSUME Control, Control', RunScope
    PROVE  /\ Idle /\ daemon' /\ kernel' = kernel /\ slice' /\ session' = session
           /\ chain' = (IF ~slice /\ chain # "off" THEN "stale" ELSE chain)
           /\ faults' \in {faults, faults + 1} /\ Requested /\ Follows
           /\ live.up /\ live'.up /\ live'.kind = live.kind /\ live'.planned = live.planned
           /\ live'.chain = live.chain /\ live'.cgroup
           /\ saved'.bound /\ (disk' = disk \/ disk'.bound)
<1>1. saved \in States /\ live \in Lives /\ live' \in Lives
  BY DEF Control, Typed
<1>2. Idle /\ daemon /\ daemon' /\ kernel' = kernel /\ slice' /\ session' = session
      /\ chain' = (IF ~slice /\ chain # "off" THEN "stale" ELSE chain)
      /\ faults' \in {faults, faults + 1} /\ live' = [live EXCEPT !.cgroup = TRUE] /\ live.up
  BY DEF RunScope, Idle, Saves, Works, Fails
<1>3. /\ live'.up /\ live'.kind = live.kind /\ live'.planned = live.planned
      /\ live'.chain = live.chain /\ live'.cgroup
  BY <1>1, <1>2 DEF Lives
<1>4. live.kind # "none" /\ ~Recovery
  BY <1>2, IdleIs, Ends DEF Control, Hosted, Recovery
<1> DEFINE bound == [saved EXCEPT !.bound = TRUE]
           journalled == [Journal(live') EXCEPT !.bound = TRUE]
<1>5. saved' \in {bound, journalled} /\ disk' \in {disk, bound, journalled}
      /\ (disk' \in {disk, saved'} \/ disk' = bound)
  BY DEF RunScope, Saves, Fails
<1>6. /\ bound.interface = saved.interface /\ bound.bound = TRUE
      /\ journalled.interface = Recorded(live') /\ journalled.bound = TRUE
  <2>1. Journal(live') \in States /\ Journal(live').interface = Recorded(live')
    BY <1>1, JournalIs
  <2> QED
    BY <1>1, <2>1 DEF States
<1> HIDE DEF bound, journalled
<1>7. Follows
  BY <1>2, <1>3, <1>4, <1>5, <1>6 DEF Follows, SameRecord
<1>8. saved'.bound /\ (disk' = disk \/ disk'.bound)
  BY <1>5, <1>6
<1>9. Requested
  BY PlanControl
<1> QED
  BY <1>2, <1>3, <1>7, <1>8, <1>9

\* A request touches no object.
LEMMA AskOwned ==
    Control /\ Control' /\ Owned
    /\ (\/ Supervise \/ Confirmed \/ ConfirmationFailed \/ CoreExits \/ ServerGone \/ Down
        \/ DeleteInterface \/ Shutdown \/ Connect \/ RunScope
        \/ \E kind \in Kinds \cup {"none"}, holds \in BOOLEAN : Plan(kind, holds))
       => Owned'
<1> SUFFICES ASSUME Control, Control', Owned,
                    \/ Supervise \/ Confirmed \/ ConfirmationFailed \/ CoreExits \/ ServerGone \/ Down
                    \/ DeleteInterface \/ Shutdown \/ Connect \/ RunScope
                    \/ \E kind \in Kinds \cup {"none"}, holds \in BOOLEAN : Plan(kind, holds)
             PROVE  Owned'
  OBVIOUS
<1>1. /\ Idle /\ kernel' = kernel /\ Requested
      /\ Follows \/ (live.kind = "none" /\ ~Unresolved)
  <2>1. CASE \/ Supervise \/ Confirmed \/ ConfirmationFailed \/ CoreExits \/ ServerGone \/ Down
             \/ DeleteInterface \/ Shutdown \/ Connect
    BY <2>1, AskStep
  <2>2. CASE RunScope
    BY <2>2, ScopeStep
  <2>3. CASE \E kind \in Kinds \cup {"none"}, holds \in BOOLEAN : Plan(kind, holds)
    <3>1. /\ Idle /\ daemon' /\ kernel' = kernel /\ Requested
          /\ \/ live.kind = "legacy" /\ UNCHANGED <<live, saved, disk>>
             \/ live.kind = "none" /\ ~Unresolved
      BY <2>3, PlanStep
    <3>2. UNCHANGED <<live, saved, disk>> => Follows
      BY <3>1, IdleIs DEF Follows, SameRecord
    <3> QED
      BY <3>1, <3>2
  <2> QED
    BY <2>1, <2>2, <2>3
<1>2. Objects("owned")' = Objects("owned")
  BY <1>1 DEF Objects
<1>3. OwnedKnown
  BY DEF Owned
<1>4. OwnedKnown'
  <2>1. CASE Follows
    BY <1>2, <1>3, <2>1, KnownKeeps
  <2>2. CASE live.kind = "none" /\ ~Unresolved
    <3>1. Objects("owned") = {}
      BY <1>1, <1>3, <2>2, IdleIs DEF OwnedKnown, Unresolved, Named
    <3> QED
      BY <1>2, <3>1 DEF OwnedKnown
  <2> QED
    BY <1>1, <2>1, <2>2
<1>5. /\ Stage(work'.then) \in {"end", "forget", "plan", "released", "removed", "launch",
                                "rejected", "exit"}
      /\ Stage(work'.then) = "removed" => work'.todo # <<>>
  <2>1. Requested
    BY <1>1
  <2>2. /\ Stage(work'.then) \in {"end", "forget", "plan", "released", "removed", "launch",
                                  "rejected", "exit"}
        /\ Stage(work'.then) \in {"forget", "plan", "released", "removed"} =>
             work'.todo = << <<"stop">> >>
    BY <2>1, RequestedStages
  <2>3. << <<"stop">> >> # <<>>
    OBVIOUS
  <2> QED
    BY ONLY <2>2, <2>3
<1>6. ~Starting' /\ ~Reporting' /\ ~Recovery'
  BY <1>5 DEF Starting, Reporting, Recovery
<1>7. Objects("owned")' \subseteq Objects("owned")
  BY <1>2
<1>8. ~(Stage(work'.then) = "removed" /\ work'.todo = <<>>)
  BY <1>5
<1> QED
  BY <1>4, <1>6, <1>7, <1>8, OwnedEnds

\* The operations of one step: the helper of an interface that stands, and the mark.
LEMMA LoneStep ==
    ASSUME Control, Control', Restore \/ Rejournal \/ Install
    PROVE  /\ daemon /\ daemon' /\ slice' = slice /\ session' = session /\ SameObjects
           /\ faults' \in {faults, faults + 1} /\ Follows
           /\ live'.kind = live.kind /\ live'.planned = live.planned /\ live'.up = live.up
           /\ Install \/ (live'.chain = live.chain /\ live'.cgroup = live.cgroup /\ chain' = chain)
           /\ Install \/ saved'.bound = saved.bound
           /\ \/ disk' \in {disk, saved'}
              \/ /\ Install /\ (~slice \/ Fails("mark"))
                 /\ disk' = [saved EXCEPT !.bound = FALSE]
           /\ Stage(work'.then) \in {"end", "rejected", "launch"}
           /\ Stage(work.then) \in {"end", "rejected", "launch"}
<1>1. /\ saved \in States /\ disk \in States /\ live \in Lives
      /\ live' \in Lives /\ saved' \in States /\ work \in TypedWork /\ work.then \in Thens
  BY DEF Control, Typed, TypedWork
<1>2. \E step \in {"restore", "rejournal", "install"} : At(step)
  BY DEF Restore, Rejournal, Install
<1>3. PICK step \in {"restore", "rejournal", "install"} : At(step)
  BY <1>2
<1>4. daemon /\ work.todo = << <<step>> >> /\ work.todo # <<>>
  BY <1>3, AtStep, Words
<1>5. Stage(work.then) \in {"end", "rejected", "launch"}
  <2>1. work.todo # << <<"stop">> >> /\ work.todo # <<>>
    BY <1>4
  <2>2. Stage(work.then) \in {"end", "rejected", "launch", "released", "removed", "forget", "plan"}
    BY <1>3, AtStep
  <2> QED
    BY <2>1, <2>2 DEF Control, Shaped
<1>6. daemon' /\ slice' = slice /\ session' = session /\ faults' \in {faults, faults + 1}
  BY <1>4 DEF Restore, Rejournal, Install, UnaffectedByStep, Works, Saves, SaveFails, Fails
<1>7. \A kind, part : part # "helper" => (<<kind, part>> \in kernel' <=> <<kind, part>> \in kernel)
  BY DEF Restore, Rejournal, Install
<1>8. SameObjects
  BY <1>7 DEF SameObjects, Objects, Routing
<1>9. /\ live'.kind = live.kind /\ live'.planned = live.planned /\ live'.up = live.up
      /\ Install \/ (live'.chain = live.chain /\ live'.cgroup = live.cgroup)
  <2>1. CASE Restore
    <3> DEFINE again == IF live.kind = "owned" /\ live.tried THEN 1 ELSE live.restarts
               admitted == [live EXCEPT !.tried = TRUE, !.restarts = again]
    <3>2. live' \in {live, admitted, [admitted EXCEPT !.helper = TRUE]}
      BY <2>1 DEF Restore
    <3>1. again \in 0 .. 1
      BY <1>1 DEF Lives
    <3> HIDE DEF again
    <3>3. /\ admitted \in Lives /\ admitted.kind = live.kind /\ admitted.up = live.up
          /\ admitted.chain = live.chain /\ admitted.cgroup = live.cgroup
          /\ admitted.planned = live.planned
      BY <1>1, <3>1 DEF Lives
    <3> HIDE DEF admitted
    <3>4. /\ [admitted EXCEPT !.helper = TRUE].kind = live.kind
          /\ [admitted EXCEPT !.helper = TRUE].up = live.up
          /\ [admitted EXCEPT !.helper = TRUE].chain = live.chain
          /\ [admitted EXCEPT !.helper = TRUE].cgroup = live.cgroup
          /\ [admitted EXCEPT !.helper = TRUE].planned = live.planned
      BY <3>3 DEF Lives
    <3> QED
      BY <3>2, <3>3, <3>4
  <2>2. CASE Rejournal
    <3> DEFINE once == 1
               stopped == [live EXCEPT !.helper = FALSE, !.tried = TRUE, !.restarts = once]
    <3>0. once \in 0 .. 1
      OBVIOUS
    <3>1. live' \in {live, stopped}
      BY <2>2 DEF Rejournal
    <3> HIDE DEF once
    <3>2. /\ stopped.kind = live.kind /\ stopped.up = live.up /\ stopped.planned = live.planned
          /\ stopped.chain = live.chain /\ stopped.cgroup = live.cgroup
      BY <1>1, <3>0 DEF Lives
    <3> HIDE DEF stopped
    <3> QED
      BY <3>1, <3>2
  <2>3. CASE Install
    BY <1>1, <2>3 DEF Install, Lives
  <2> QED
    BY <2>1, <2>2, <2>3
<1>10. Install \/ chain' = chain
  BY DEF Restore, Rejournal, UnaffectedByStep
<1>11. /\ \/ disk' \in {disk, saved'}
          \/ /\ Install /\ (~slice \/ Fails("mark"))
             /\ disk' = [saved EXCEPT !.bound = FALSE]
       /\ \/ saved'.interface = saved.interface
          \/ /\ SameRecord(saved'.interface, Recorded(live'))
             /\ live.kind # "none"
       /\ Install \/ saved'.bound = saved.bound
  <2>1. CASE Restore
    BY <2>1 DEF Restore
  <2>2. CASE Rejournal
    <3>1. saved' = Journal(live) /\ disk' \in {disk, saved'}
      BY <2>2 DEF Rejournal, Saves, SaveFails
    <3>2. saved'.interface = Recorded(live) /\ saved'.bound = saved.bound
      BY <1>1, <3>1, JournalIs
    <3>3. live.kind # "none"
      <4>1. At("rejournal")
        BY <2>2 DEF Rejournal
      <4>2. work.todo = << <<"rejournal">> >>
        BY <4>1, AtStep
      <4> QED
        BY <4>2 DEF Control, Shaped
    <3>4. /\ Recorded(live).kind = live.kind /\ Recorded(live').kind = live'.kind
          /\ Recorded(live).planned = live.planned /\ Recorded(live').planned = live'.planned
          /\ Recorded(live).nft = (live.cgroup \/ live.chain # "off")
          /\ Recorded(live').nft = (live'.cgroup \/ live'.chain # "off")
      BY <1>1, <1>9, <3>3, RecordedIs
    <3>5. live'.chain = live.chain /\ live'.cgroup = live.cgroup
      <4>1. ~Install
        BY <2>2 DEF Rejournal, Install, At
      <4> QED
        BY <1>9, <4>1
    <3> QED
      BY <1>9, <3>1, <3>2, <3>3, <3>4, <3>5 DEF SameRecord
  <2>3. CASE Install
    <3>1. \/ saved' = saved /\ disk' = disk
          \/ /\ saved' = [Journal(live') EXCEPT !.bound = FALSE]
             /\ \/ disk' \in {disk, saved'}
                \/ (~slice \/ Fails("mark")) /\ disk' = [saved EXCEPT !.bound = FALSE]
      BY <2>3 DEF Install
    <3>2. Journal(live') \in States /\ Journal(live').interface = Recorded(live')
      BY <1>1, JournalIs
    <3>3. live.kind # "none"
      <4>1. work.todo = << <<"install">> >>
        BY <2>3, AtStep DEF Install
      <4> QED
        BY <4>1 DEF Control, Shaped
    <3>4. saved'.interface \in {saved.interface, Recorded(live')}
      BY <1>1, <3>1, <3>2 DEF States
    <3> QED
      BY <2>3, <3>1, <3>3, <3>4 DEF SameRecord
  <2> QED
    BY <2>1, <2>2, <2>3
<1>12. ~Recovery
  BY <1>5 DEF Recovery
<1>13. Follows
  <2>1. disk'.interface \in {disk.interface, saved'.interface, saved.interface}
    BY <1>1, <1>11 DEF States
  <2> QED
    BY <1>4, <1>6, <1>9, <1>11, <1>12, <2>1 DEF Follows, SameRecord
<1>14. Stage(work'.then) \in {"end", "rejected", "launch"}
  <2>1. /\ Advanced.then = work.then /\ Broken.then = Kept(work.then)
    BY <1>4, Moves
  <2>2. Kept(work.then) \in {<<>>, work.then}
    BY <1>1, <1>5, StageKeeps
  <2>3. work' \in {Advanced, Broken} \/ work' = [work EXCEPT !.todo = << <<"rejournal">> >>]
    BY DEF Restore, Rejournal, Install
  <2>4. [work EXCEPT !.todo = << <<"rejournal">> >>].then = work.then
    BY <1>1 DEF TypedWork
  <2>5. work'.then \in {<<>>, work.then}
    BY <2>1, <2>2, <2>3, <2>4
  <2> QED
    BY <1>5, <2>5, Ends
<1> QED
  BY <1>4, <1>5, <1>6, <1>8, <1>9, <1>10, <1>11, <1>13, <1>14

\* The operations of one step leave the objects alone.
LEMMA LoneOwned == Control /\ Control' /\ Owned /\ (Restore \/ Rejournal \/ Install) => Owned'
<1> SUFFICES ASSUME Control, Control', Owned, Restore \/ Rejournal \/ Install
             PROVE  Owned'
  OBVIOUS
<1>1. SameObjects /\ Follows /\ Stage(work'.then) \in {"end", "rejected", "launch"}
  BY LoneStep
<1>2. Objects("owned")' = Objects("owned")
  BY <1>1 DEF SameObjects, Kinds
<1>3. OwnedKnown'
  <2>1. OwnedKnown
    BY DEF Owned
  <2> QED
    BY <1>1, <1>2, <2>1, KnownKeeps
<1> QED
  BY <1>1, <1>2, <1>3, OwnedEnds DEF Starting, Reporting, Recovery

\* An installation begins once the interface is on record.
LEMMA StartStep ==
    ASSUME Control, Control', StartInterface
    PROVE  /\ Idle /\ daemon' /\ kernel' = kernel /\ chain' = chain /\ slice' = slice
           /\ session' = session /\ live' = live /\ live.kind \in Kinds
           /\ faults' \in {faults, faults + 1} /\ Follows
           /\ saved' \in {saved, Journal(live)} /\ disk' \in {disk, saved'}
           /\ \/ Requested
              \/ /\ work'.todo = (IF live.kind = "owned" THEN OwnedStart ELSE LegacyStart)
                 /\ work'.then = Rolling /\ ~work'.failed
                 /\ saved' = Journal(live) /\ disk' = saved' /\ ~live.up
<1>1. /\ saved \in States /\ live \in Lives
  BY DEF Control, Typed
<1>2. Idle /\ live.kind # "none" /\ daemon /\ ~Recovery
  <2>1. Idle /\ live.kind # "none"
    BY DEF StartInterface
  <2> QED
    BY <2>1, IdleIs, Ends DEF Recovery
<1>3. /\ daemon' /\ session' = session /\ slice' = slice
      /\ chain' = chain /\ kernel' = kernel /\ live' = live
      /\ saved' \in {saved, Journal(live)} /\ disk' \in {disk, saved'}
      /\ faults' \in {faults, faults + 1}
  BY <1>2 DEF StartInterface, UnaffectedByStep, Saves, SaveFails, Works, Fails
<1>4. Follows
  <2>1. Journal(live).interface = Recorded(live)
    BY <1>1, JournalIs
  <2> QED
    BY <1>2, <1>3, <2>1 DEF Follows, SameRecord
<1>5. live.kind \in Kinds
  BY <1>1, <1>2 DEF Lives
<1> DEFINE list == IF live.kind = "owned" THEN OwnedStart ELSE LegacyStart
<1>6. \/ work' = Begin("start", << <<"restore">> >>, << <<"rejected">> >>)
      \/ /\ work' = Begin("start", list, Rolling)
         /\ saved' = Journal(live) /\ disk' = saved' /\ ~live.up
      \/ work' = [Begin("start", <<>>, << <<"rejected">> >>) EXCEPT !.failed = TRUE]
  BY DEF StartInterface, Rolling, Saves, SaveFails
<1>7. CASE /\ work' = Begin("start", list, Rolling)
           /\ saved' = Journal(live) /\ disk' = saved' /\ ~live.up
  <2>1. list \in Seq(Steps) /\ list # <<>>
    BY StartIs
  <2>2. Rolling \in Thens /\ "start" \in Names
    BY DEF Thens, Names
  <2>7. list = (IF live.kind = "owned" THEN OwnedStart ELSE LegacyStart)
    OBVIOUS
  <2> HIDE DEF list
  <2> DEFINE first == [NoWork EXCEPT !.name = "start", !.todo = list, !.then = Rolling]
  <2>3. work' = Settled(first)
    BY <1>7 DEF Begin
  <2>4. first \in TypedWork /\ first.todo = list /\ first.then = Rolling /\ ~first.failed
    BY <2>1, <2>2 DEF TypedWork, NoWork
  <2> HIDE DEF first
  <2>5. work' = first
    BY <2>1, <2>3, <2>4, SettledIs
  <2> QED
    BY <1>2, <1>3, <1>4, <1>5, <1>7, <2>4, <2>5, <2>7
<1>8. CASE \/ work' = Begin("start", << <<"restore">> >>, << <<"rejected">> >>)
           \/ work' = [Begin("start", <<>>, << <<"rejected">> >>) EXCEPT !.failed = TRUE]
  <2>1. Requested
    BY <1>8, OthersRequested
  <2> QED
    BY <1>2, <1>3, <1>4, <1>5, <2>1
<1> QED
  BY <1>6, <1>7, <1>8

\* An installation of an owned interface begins with its identity.
LEMMA StartOwned == Control /\ Control' /\ Owned /\ StartInterface => Owned'
<1> SUFFICES ASSUME Control, Control', Owned, StartInterface
             PROVE  Owned'
  OBVIOUS
<1>1. /\ Idle /\ kernel' = kernel /\ live' = live /\ live.kind \in Kinds /\ Follows
      /\ \/ Requested
         \/ /\ work'.todo = (IF live.kind = "owned" THEN OwnedStart ELSE LegacyStart)
            /\ work'.then = Rolling
  BY StartStep
<1>2. Objects("owned")' = Objects("owned")
  BY <1>1 DEF Objects
<1>3. OwnedKnown'
  <2>1. OwnedKnown
    BY DEF Owned
  <2> QED
    BY <1>1, <1>2, <2>1, KnownKeeps
<1>4. CASE Requested
  <2>1. /\ Stage(work'.then) \in {"end", "forget", "plan", "released", "removed", "launch",
                                  "rejected", "exit"}
        /\ Stage(work'.then) = "removed" => work'.todo # <<>>
    <3>1. << <<"stop">> >> # <<>>
      OBVIOUS
    <3> QED
      BY <1>4, <3>1, RequestedStages
  <2> QED
    BY <1>2, <1>3, <2>1, OwnedEnds DEF Starting, Reporting, Recovery
<1>5. CASE /\ work'.todo = (IF live.kind = "owned" THEN OwnedStart ELSE LegacyStart)
           /\ work'.then = Rolling
  <2>1. Stage(work'.then) = "rollback"
    BY <1>5, Ends
  <2>2. live.kind = "owned" => work'.todo # <<>> /\ Head(work'.todo) = <<"intend">>
    BY <1>5, StartIs
  <2>3. OwnedIntended'
    BY <1>1, <2>2 DEF OwnedIntended
  <2> QED
    BY <1>3, <2>1, <2>3 DEF Owned, OwnedCleaned, OwnedRecovered, OwnedGone, Reporting, Recovery
<1> QED
  BY <1>1, <1>4, <1>5

\* What happens to the daemon and around it.
LEMMA WorldStep ==
    ASSUME Control, Control', Exit \/ Crash \/ HelperDies \/ SliceEnds \/ Boot
    PROVE  /\ SameObjects /\ chain' = chain /\ disk' = disk /\ faults' = faults
           /\ (slice' => slice)
           /\ \/ /\ SliceEnds
                 /\ UNCHANGED <<kernel, saved, session, live, work, daemon>> /\ ~slice'
              \/ /\ HelperDies /\ UNCHANGED <<saved, session, work, daemon, slice>> /\ work = NoWork
                 /\ live'.kind = live.kind /\ live'.planned = live.planned
                 /\ live'.up = live.up /\ live'.chain = live.chain /\ live'.cgroup = live.cgroup
              \/ /\ Exit \/ Crash
                 /\ ~daemon' /\ work' = NoWork /\ saved' = NoState /\ live' = NoInterface
                 /\ session' = NoSession /\ slice' = slice
              \/ /\ Boot /\ ~daemon /\ daemon' /\ saved' = disk /\ live' = live
                 /\ live = NoInterface /\ slice' = slice
                 /\ work'.todo = << <<"chains">> >> /\ work'.then = Recovering
                 /\ ~work'.failed
<1>1. live \in Lives /\ work \in TypedWork /\ kernel \subseteq Kinds \X Parts
  BY DEF Control, Typed
<1>2. \A kind, part : part # "helper" => (<<kind, part>> \in kernel' <=> <<kind, part>> \in kernel)
  BY DEF Exit, Crash, HelperDies, SliceEnds, Boot
<1>3. SameObjects
  BY <1>2 DEF SameObjects, Objects, Routing
<1>4. chain' = chain /\ disk' = disk /\ faults' = faults
  BY DEF Exit, Crash, HelperDies, SliceEnds, Boot, UnaffectedByStep, Works
<1>5. CASE SliceEnds
  BY <1>3, <1>4, <1>5 DEF SliceEnds
<1>6. CASE HelperDies
  <2>1. work = NoWork
    <3>1. CASE Idle
      BY <3>1, IdleIs
    <3>2. CASE ~daemon
      BY <3>2 DEF Control, Hosted
    <3> QED
      BY <1>6, <3>1, <3>2 DEF HelperDies
  <2>2. live' = live \/ live' = [live EXCEPT !.helper = FALSE]
    BY <1>6 DEF HelperDies
  <2>3. /\ live'.kind = live.kind /\ live'.planned = live.planned
        /\ live'.up = live.up /\ live'.chain = live.chain /\ live'.cgroup = live.cgroup
    BY <1>1, <2>2 DEF Lives
  <2> QED
    BY <1>3, <1>4, <1>6, <2>1, <2>3 DEF HelperDies, UnaffectedByStep
<1>7. CASE Exit \/ Crash
  BY <1>3, <1>4, <1>7 DEF Exit, Crash, Gone
<1>8. CASE Boot
  <2>1. /\ daemon' /\ saved' = disk /\ live' = live /\ slice' = slice /\ ~daemon
        /\ work' = [NoWork EXCEPT !.name = "recover", !.todo = << <<"chains">> >>,
                                  !.then = << <<"recovered">> >>]
    BY <1>8 DEF Boot
  <2>2. live = NoInterface
    BY <2>1 DEF Control, Hosted
  <2>3. work'.todo = << <<"chains">> >> /\ work'.then = Recovering /\ ~work'.failed
    BY <2>1 DEF NoWork, Recovering
  <2> QED
    BY <1>3, <1>4, <1>8, <2>1, <2>2, <2>3
<1> QED
  BY <1>5, <1>6, <1>7, <1>8

\* Neither a crash nor the next start changes what is on disk.
LEMMA WorldOwned ==
    Control /\ Control' /\ Owned /\ (Exit \/ Crash \/ HelperDies \/ SliceEnds \/ Boot) => Owned'
<1> SUFFICES ASSUME Control, Control', Owned, Exit \/ Crash \/ HelperDies \/ SliceEnds \/ Boot
             PROVE  Owned'
  OBVIOUS
<1>1. /\ SameObjects /\ disk' = disk
      /\ \/ UNCHANGED <<kernel, saved, session, live, work, daemon>>
         \/ /\ UNCHANGED <<saved, work, daemon>> /\ work = NoWork
            /\ live'.kind = live.kind /\ live'.planned = live.planned
         \/ ~daemon' /\ work' = NoWork
         \/ /\ daemon' /\ saved' = disk /\ live' = live /\ live = NoInterface
            /\ work'.todo = << <<"chains">> >> /\ work'.then = Recovering
  BY WorldStep
<1>2. Objects("owned")' = Objects("owned")
  BY <1>1 DEF SameObjects, Kinds
<1>3. OwnedKnown /\ NoWork.then = <<>>
  BY DEF Owned, NoWork
<1>4. CASE UNCHANGED <<kernel, saved, session, live, work, daemon>>
  BY <1>1, <1>4 DEF Owned, OwnedKnown, OwnedIntended, OwnedCleaned, OwnedRecovered, OwnedGone,
                    Objects, Named, Starting, Reporting, Recovery, Todo
<1>5. CASE /\ UNCHANGED <<saved, work, daemon>> /\ work = NoWork
           /\ live'.kind = live.kind /\ live'.planned = live.planned
  <2>1. OwnedKnown'
    BY <1>1, <1>2, <1>3, <1>5 DEF OwnedKnown, Named
  <2>2. Stage(work'.then) = "end"
    BY <1>3, <1>5, Ends
  <2> QED
    BY <1>2, <2>1, <2>2, OwnedEnds DEF Starting, Reporting, Recovery
<1>6. CASE ~daemon' /\ work' = NoWork
  <2>1. OwnedKnown'
    BY <1>1, <1>2, <1>3, <1>6 DEF OwnedKnown, Named
  <2>2. Stage(work'.then) = "end"
    BY <1>3, <1>6, Ends
  <2> QED
    BY <1>2, <2>1, <2>2, OwnedEnds DEF Starting, Reporting, Recovery
<1>7. CASE /\ daemon' /\ saved' = disk /\ live' = live /\ live = NoInterface
           /\ work'.todo = << <<"chains">> >> /\ work'.then = Recovering
  <2>1. OwnedKnown'
    BY <1>1, <1>2, <1>3, <1>7, NothingIs DEF OwnedKnown, Named
  <2>2. Stage(work'.then) = "recovered"
    BY <1>7, Ends
  <2> QED
    BY <1>2, <1>7, <2>1, <2>2, OwnedEnds DEF Starting, Reporting, Recovery
<1> QED
  BY <1>1, <1>4, <1>5, <1>6, <1>7

\* Whatever fails and whenever the daemon dies, what there is of an owned interface is
\* named on disk.
LEMMA OwnedHolds == Spec => [](Control /\ Owned)
<1>1. Init => Owned
  <2> SUFFICES ASSUME Init PROVE Owned
    OBVIOUS
  <2>1. kernel = {} /\ work.then = <<>>
    BY DEF Init, NoWork
  <2>2. Stage(work.then) = "end" /\ Objects("owned") = {}
    BY <2>1, Ends DEF Objects
  <2> QED
    BY <2>2 DEF Owned, OwnedKnown, OwnedIntended, OwnedCleaned, OwnedRecovered, OwnedGone, Starting,
                Reporting, Recovery
<1>2. Control /\ Control' /\ Owned /\ [Next]_vars => Owned'
  <2> SUFFICES ASSUME Control, Control', Owned, [Next]_vars
               PROVE  Owned'
    OBVIOUS
  <2>1. CASE Create \/ Intend \/ WriteJournal \/ Spawn \/ AddObject \/ Mark
    BY <2>1, BuildOwned
  <2>2. CASE Identify \/ SetChain \/ Reap \/ DeleteObject
    BY <2>2, CleanOwned
  <2>3. CASE RecoverChains \/ IntendAgain \/ Recognise \/ Kill \/ Unchain
    BY <2>3, RecoveryOwned
  <2>4. CASE Stop
    BY <2>4, StopOwned
  <2>5. CASE Up \/ Rollback \/ RolledBack \/ Rejected \/ Released \/ Launch
    BY <2>5, EndOwned
  <2>6. CASE Stopped \/ Deleted
    BY <2>6, ReportOwned
  <2>7. CASE Replan \/ Forget \/ Removed \/ Recovered
    BY <2>7, LeaveOwned
  <2>8. CASE Restore \/ Rejournal \/ Install
    BY <2>8, LoneOwned
  <2>9. CASE StartInterface
    BY <2>9, StartOwned
  <2>10. CASE \/ Supervise \/ Confirmed \/ ConfirmationFailed \/ CoreExits \/ ServerGone \/ Down
              \/ DeleteInterface \/ Shutdown \/ Connect \/ RunScope
              \/ \E kind \in Kinds \cup {"none"}, holds \in BOOLEAN : Plan(kind, holds)
    BY <2>10, AskOwned
  <2>11. CASE Exit \/ Crash \/ HelperDies \/ SliceEnds \/ Boot
    BY <2>11, WorldOwned
  <2>12. CASE UNCHANGED vars
    BY <2>12 DEF vars, Owned, OwnedKnown, OwnedIntended, OwnedCleaned, OwnedRecovered, OwnedGone,
                 Objects, Named, Starting, Reporting, Recovery, Todo
  <2> QED
    BY <2>1, <2>2, <2>3, <2>4, <2>5, <2>6, <2>7, <2>8, <2>9, <2>10, <2>11, <2>12 DEF Next
<1>3. Spec => []Control
  BY ControlHolds
<1> QED
  BY <1>1, <1>2, <1>3, PTL DEF Spec

-----------------------------------------------------------------------------
(* What the journal knows as long as nothing failed.                       *)

\* What routes there are stay on record.
LEMMA RoutesKeep ==
    ASSUME Control, Control', RoutesKnown, BuildJournalled, Follows,
           faults' \in {faults, faults + 1}, Recovery => Recovery',
           \A kind \in Kinds : Routes(kind)' \subseteq Routes(kind) \/ (Starting /\ kind = live.kind)
    PROVE  RoutesKnown'
<1>1. live' \in Lives /\ live \in Lives /\ saved \in States /\ disk \in States
      /\ saved' \in States /\ disk' \in States /\ faults \in Nat
  BY InterfacesAssumption DEF Control, Typed
<1>2. SUFFICES ASSUME faults' = 0, NEW kind \in Kinds, Routes(kind)' # {}
               PROVE  /\ disk'.interface.kind = kind
                      /\ saved'.interface.kind = kind /\ (Recovery' \/ live'.kind = kind)
  BY DEF RoutesKnown
<1>3. faults = 0
  BY <1>1, <1>2
<1>4. /\ disk.interface.kind = kind /\ saved.interface.kind = kind
      /\ Recovery \/ live.kind = kind
  <2>1. CASE Starting /\ kind = live.kind
    BY <2>1 DEF BuildJournalled
  <2>2. CASE Routes(kind)' \subseteq Routes(kind)
    <3>1. daemon /\ Routes(kind) # {}
      BY <1>2, <2>2 DEF Follows
    <3> QED
      BY <1>3, <3>1 DEF RoutesKnown
  <2> QED
    BY <2>1, <2>2
<1>5. Recovery' \/ live'.kind = kind
  BY <1>4 DEF Follows
<1>6. saved'.interface.kind = kind
  <2>1. CASE SameRecord(saved'.interface, saved.interface)
    BY <1>4, <2>1 DEF SameRecord
  <2>2. CASE SameRecord(saved'.interface, Recorded(live')) /\ ~Recovery
    <3>1. Recorded(live').kind = live'.kind
      BY <1>1, RecordedIs
    <3> QED
      BY <1>4, <2>2, <3>1 DEF SameRecord, Follows
  <2> QED
    BY <2>1, <2>2 DEF Follows
<1>7. disk'.interface.kind = kind
  BY <1>4, <1>6 DEF Follows, SameRecord
<1> QED
  BY <1>5, <1>6, <1>7

\* A step of the list of an operation, whatever it does.
LEMMA RoutedMoves ==
    ASSUME Control, Control', Routed, work.todo # <<>>, Head(work.todo) # <<"stop">>,
           work' \in {Advanced, Broken} \/ work' = Failed(Advanced), Follows,
           faults' \in {faults, faults + 1},
           \A kind \in Kinds : Routes(kind)' \subseteq Routes(kind) \/ (Starting /\ kind = live.kind),
           Recovery => Head(work.todo) # <<"chains">>,
           Recovery /\ faults' = faults =>
               work' = Advanced \/ Head(work.todo) = <<"delete", "device">>,
           \A kind \in Kinds : \A part \in Routing :
               faults' = faults /\ kind = ObjectKind /\ Head(work.todo) = <<"delete", part>>
               => part \notin Routes(kind)'
    PROVE  Routed'
<1>1. /\ work.todo \in Seq(Steps) /\ work.then \in Thens /\ work \in TypedWork
      /\ live \in Lives /\ live' \in Lives /\ saved \in States /\ disk \in States
      /\ faults \in Nat
  BY InterfacesAssumption DEF Control, Typed, TypedWork
<1>2. /\ Head(work.todo) \in Steps /\ Tail(work.todo) \in Seq(Steps)
      /\ \A step : Has(work.todo, step) /\ Head(work.todo) # step => Has(Tail(work.todo), step)
      /\ \A one, two : Before(work.todo, one, two) => Head(work.todo) # two
      /\ \A one, two : Before(work.todo, one, two) /\ Head(work.todo) # one =>
           Before(Tail(work.todo), one, two)
  BY <1>1, TailKeeps
<1>3. /\ \/ work' = Advanced /\ work'.todo = Tail(work.todo) /\ work'.then = work.then
         \/ /\ work' = Failed(Advanced) /\ work'.todo = Tail(work.todo)
            /\ work'.then = work.then /\ work'.failed
         \/ work' = Broken /\ work'.todo = <<>> /\ work'.then = Kept(work.then)
      /\ Stage(work'.then) # "end" /\ work' = Broken => work'.failed
      /\ Stage(work'.then) # "end" /\ work' = Advanced => work'.failed = work.failed
  BY MovedStages
<1>4. /\ Stage(work'.then) \in {"rollback", "stopped", "recovered", "removed", "deleted",
                                "undone", "forget", "plan"} =>
           Stage(work.then) = Stage(work'.then) /\ (work'.then = work.then \/ work' = Broken)
      /\ Stage(work.then) \in {"rollback", "undone", "recovered"} => work'.then = work.then
  BY MovedStages
<1>5. RoutesKnown'
  <2>1. Recovery => Recovery'
    BY <1>4 DEF Recovery
  <2> QED
    BY <2>1, RoutesKeep DEF Routed
<1>6. BuildJournalled'
  <2> SUFFICES ASSUME Starting'
               PROVE  disk'.interface.kind = live'.kind /\ saved'.interface.kind = live'.kind
    BY DEF BuildJournalled
  <2>1. Starting /\ live'.kind = live.kind
    BY <1>4 DEF Starting, Follows
  <2>2. disk.interface.kind = live.kind /\ saved.interface.kind = live.kind
    BY <2>1 DEF Routed, BuildJournalled
  <2>3. Recorded(live').kind = live'.kind
    BY <1>1, RecordedIs
  <2> QED
    BY <2>1, <2>2, <2>3 DEF Follows, SameRecord
<1>7. ASSUME faults' = 0
      PROVE  faults = 0 /\ faults' = faults
  BY <1>1, <1>7
<1>8. ~Starting => \A kind \in Kinds : Routes(kind)' \subseteq Routes(kind)
  OBVIOUS
<1>9. RoutesCleaned'
  <2> SUFFICES ASSUME faults' = 0, ~work'.failed, Reporting', NEW kind \in Kinds,
                      NEW part \in Routing, part \in Routes(kind)'
               PROVE  Todo(<<"delete", part>>)'
    BY DEF RoutesCleaned, Routes
  <2>1. /\ work' = Advanced /\ work'.todo = Tail(work.todo) /\ ~work.failed
        /\ Reporting /\ ~Starting /\ ~Recovery
    BY <1>3, <1>4 DEF Reporting, Starting, Recovery
  <2>2. part \in Routes(kind)
    BY <1>8, <2>1
  <2>3. ObjectKind = kind
    <3>1. work.name # "recover"
      BY <2>1 DEF Control, Shaped, Recovery
    <3>2. live.kind = kind
      BY <1>7, <2>1, <2>2 DEF Routed, RoutesKnown, Follows
    <3> QED
      BY <3>1, <3>2 DEF ObjectKind
  <2>4. Has(work.todo, <<"delete", part>>)
    BY <1>7, <2>1, <2>2 DEF Routed, RoutesCleaned, Todo
  <2>5. Head(work.todo) # <<"delete", part>>
    BY <1>7, <2>3
  <2>6. Has(Tail(work.todo), <<"delete", part>>)
    BY <1>2, <2>4, <2>5
  <2> QED
    BY <2>1, <2>6 DEF Todo
<1>10. RoutesRecovered'
  <2> SUFFICES ASSUME faults' = 0, Recovery', NEW kind \in Kinds, NEW part \in Routing,
                      part \in Routes(kind)'
               PROVE  /\ Todo(<<"delete", part>>)'
                      /\ Before(work'.todo, <<"delete", part>>, <<"delete", "device">>)
    BY DEF RoutesRecovered, Routes
  <2>1. Recovery /\ ~Starting
    BY <1>4 DEF Recovery, Starting
  <2>2. part \in Routes(kind) /\ part \in Routing
    BY <1>8, <2>1 DEF Routes
  <2>3. ObjectKind = kind
    <3>1. work.name = "recover"
      BY <2>1 DEF Control, Shaped, Recovery
    <3> QED
      BY <1>7, <2>2, <3>1 DEF Routed, RoutesKnown, ObjectKind, Follows
  <2>4. /\ Has(work.todo, <<"delete", part>>)
        /\ Before(work.todo, <<"delete", part>>, <<"delete", "device">>)
    <3>1. work.todo # << <<"chains">> >>
      BY <2>1
    <3> QED
      BY <1>7, <2>1, <2>2, <3>1 DEF Routed, RoutesRecovered, Todo
  <2>5. Head(work.todo) # <<"delete", part>>
    BY <1>7, <2>2, <2>3
  <2>6. work'.todo = Tail(work.todo)
    <3>1. Head(work.todo) # <<"delete", "device">>
      BY <1>2, <2>4
    <3>2. work' = Advanced
      BY <1>7, <2>1, <3>1
    <3>3. Advanced.todo = Tail(work.todo)
      BY Moves
    <3> QED
      BY <3>2, <3>3
  <2> QED
    BY <1>2, <2>4, <2>5, <2>6 DEF Todo
<1>11. RoutesGone'
  <2> SUFFICES ASSUME Stage(work'.then) \in {"removed", "forget"}
               PROVE  FALSE
    BY DEF RoutesGone
  <2>1. Stage(work.then) \in {"removed", "forget"}
    BY <1>4
  <2>2. work.todo = << <<"stop">> >>
    BY <2>1 DEF Control, Shaped
  <2> QED
    BY <2>2
<1> QED
  BY <1>5, <1>6, <1>9, <1>10, <1>11 DEF Routed

\* A step that ends an operation or begins one.
LEMMA RoutedEnds ==
    ASSUME RoutesKnown', ~Starting', RoutesCleaned',
           Recovery' => work'.todo = << <<"chains">> >>,
           Stage(work'.then) \in {"removed", "forget"} /\ work'.todo = <<>> /\ faults' = 0 =>
               \A kind \in Kinds : Routes(kind)' = {}
    PROVE  Routed'
<1>1. BuildJournalled'
  BY DEF BuildJournalled
<1>2. RoutesRecovered'
  BY DEF RoutesRecovered
<1>3. RoutesGone'
  BY DEF RoutesGone
<1> QED
  BY <1>1, <1>2, <1>3 DEF Routed

\* A step of an installation.
LEMMA BuildRouted ==
    Control /\ Control' /\ Routed /\ (Create \/ Intend \/ WriteJournal \/ Spawn \/ AddObject \/ Mark)
       => Routed'
<1> SUFFICES ASSUME Control, Control', Routed,
                    Create \/ Intend \/ WriteJournal \/ Spawn \/ AddObject \/ Mark
             PROVE  Routed'
  OBVIOUS
<1>1. /\ Follows /\ work.todo # <<>> /\ Starting
      /\ Head(work.todo) \in Builds /\ work' \in {Advanced, Broken}
      /\ faults' \in {faults, faults + 1}
      /\ \A kind \in Kinds : kind # live.kind => Objects(kind)' = Objects(kind)
  BY BuildStep DEF SameObjects
<1>2. ~Recovery
  BY <1>1 DEF Starting, Recovery
<1>3. Head(work.todo) \notin {<<"stop">>, <<"chains">>}
      /\ \A part : Head(work.todo) # <<"delete", part>>
  BY <1>1 DEF Builds, Additions
<1>4. \A kind \in Kinds : Routes(kind)' \subseteq Routes(kind) \/ (Starting /\ kind = live.kind)
  BY <1>1 DEF Routes
<1> QED
  BY <1>1, <1>2, <1>3, <1>4, RoutedMoves

\* A step of a teardown, or a deletion of a recovery.
LEMMA CleanRouted ==
    Control /\ Control' /\ Routed /\ (Identify \/ SetChain \/ Reap \/ DeleteObject) => Routed'
<1> SUFFICES ASSUME Control, Control', Routed, Identify \/ SetChain \/ Reap \/ DeleteObject
             PROVE  Routed'
  OBVIOUS
<1>1. /\ Follows /\ work.todo # <<>> /\ ~Starting /\ FewerObjects
      /\ work' \in {Advanced, Broken, Failed(Advanced)} /\ faults' \in {faults, faults + 1}
      /\ \/ /\ Stage(work.then) \in Cleaning
            /\ \A part : Head(work.todo) # <<"delete", part>>
            /\ Head(work.todo) \notin {<<"stop">>, <<"intend">>, <<"chains">>}
         \/ \E part \in Routing \cup {"device"} :
                 /\ Head(work.todo) = <<"delete", part>>
                 /\ \/ /\ work' = Advanced
                       /\ \A kind \in Kinds : kind = ObjectKind => part \notin Objects(kind)'
                    \/ faults' = faults + 1 \/ part = "device"
  BY CleanStep
<1>2. faults \in Nat
  BY InterfacesAssumption DEF Control, Typed
<1>3. Head(work.todo) \notin {<<"stop">>, <<"chains">>}
  BY <1>1
<1>4. \A kind \in Kinds : Routes(kind)' \subseteq Routes(kind)
  BY <1>1 DEF FewerObjects, Routes
<1>5. Recovery /\ faults' = faults => work' = Advanced \/ Head(work.todo) = <<"delete", "device">>
  BY <1>1, <1>2 DEF Recovery, Cleaning
<1>6. ASSUME NEW kind \in Kinds, NEW part \in Routing, faults' = faults, kind = ObjectKind,
             Head(work.todo) = <<"delete", part>>
      PROVE  part \notin Routes(kind)'
  <2>1. PICK p \in Routing \cup {"device"} :
          /\ Head(work.todo) = <<"delete", p>>
          /\ \/ \A k \in Kinds : k = ObjectKind => p \notin Objects(k)'
             \/ faults' = faults + 1 \/ p = "device"
    BY <1>1, <1>6
  <2>2. p = part /\ p # "device"
    BY <1>6, <2>1 DEF Routing
  <2> QED
    BY <1>2, <1>6, <2>1, <2>2 DEF Routes
<1> QED
  BY <1>1, <1>3, <1>4, <1>5, <1>6, RoutedMoves

\* A step of a recovery that deletes nothing.
LEMMA RecoveryRouted ==
    Control /\ Control' /\ Routed
    /\ (RecoverChains \/ IntendAgain \/ Recognise \/ Kill \/ Unchain) => Routed'
<1> SUFFICES ASSUME Control, Control', Routed,
                    RecoverChains \/ IntendAgain \/ Recognise \/ Kill \/ Unchain
             PROVE  Routed'
  OBVIOUS
<1>1. /\ Follows /\ SameObjects /\ work.todo # <<>> /\ work.then = Recovering
      /\ Recovery /\ ~Starting /\ faults' \in {faults, faults + 1}
      /\ \/ /\ saved'.interface = saved.interface
            /\ work' = [work EXCEPT !.todo = RecoveryOf(saved')]
         \/ /\ work' = Advanced \/ (work' = Broken /\ faults' = faults + 1)
            /\ Head(work.todo) \notin {<<"chains">>, <<"stop">>, <<"intend">>}
            /\ \A part : Head(work.todo) # <<"delete", part>>
  BY RecoveryStep
<1>2. faults \in Nat /\ \A kind \in Kinds : Routes(kind)' = Routes(kind)
  BY <1>1, InterfacesAssumption DEF Control, Typed, SameObjects, Routes
<1>3. CASE /\ work' = Advanced \/ (work' = Broken /\ faults' = faults + 1)
           /\ Head(work.todo) \notin {<<"chains">>, <<"stop">>, <<"intend">>}
           /\ \A part : Head(work.todo) # <<"delete", part>>
  <2>1. faults' = faults => work' = Advanced
    BY <1>2, <1>3
  <2> QED
    BY <1>1, <1>2, <1>3, <2>1, RoutedMoves
<1>4. CASE saved'.interface = saved.interface /\ work' = [work EXCEPT !.todo = RecoveryOf(saved')]
  <2>1. work \in TypedWork /\ saved' \in States /\ saved \in States
    BY DEF Control, Typed
  <2>2. work'.todo = RecoveryOf(saved') /\ work'.then = Recovering
    BY <1>1, <1>4, <2>1 DEF TypedWork
  <2>3. Stage(work'.then) = "recovered"
    BY <2>2, Ends
  <2>4. RoutesKnown'
    BY <1>1, <1>2, <2>3, RoutesKeep DEF Routed, Recovery
  <2>5. RoutesRecovered'
    <3> SUFFICES ASSUME faults' = 0, NEW kind \in Kinds, NEW part \in Routing,
                        part \in Routes(kind)'
                 PROVE  /\ Todo(<<"delete", part>>)'
                        /\ Before(work'.todo, <<"delete", part>>, <<"delete", "device">>)
      BY DEF RoutesRecovered, Routes
    <3>1. faults = 0 /\ part \in Routes(kind) /\ daemon
      BY <1>1, <1>2 DEF Follows
    <3>2. saved'.interface.kind = kind
      BY <1>4, <3>1 DEF Routed, RoutesKnown
    <3>3. /\ saved'.interface.kind # "none" =>
               \A p \in Routing : Has(RecoveryOf(saved'), <<"delete", p>>)
          /\ \A p \in Routing :
               Before(RecoveryOf(saved'), <<"delete", p>>, <<"delete", "device">>)
      BY <2>1, RecoveryIs
    <3> QED
      BY <2>2, <3>2, <3>3 DEF Todo, Kinds
  <2> QED
    BY <2>3, <2>4, <2>5 DEF Routed, BuildJournalled, RoutesCleaned, RoutesGone, Starting, Reporting
<1> QED
  BY <1>1, <1>3, <1>4

\* A stop fails, finds nothing to stop, or becomes the removal of what there is.
LEMMA StopRouted == Control /\ Control' /\ Routed /\ Stop => Routed'
<1> SUFFICES ASSUME Control, Control', Routed, Stop
             PROVE  Routed'
  OBVIOUS
<1>1. /\ kernel' = kernel /\ faults' \in {faults, faults + 1} /\ daemon
      /\ ~Recovery /\ Follows
      /\ \/ Stage(work'.then) \in {"end", "released", "exit"}
         \/ /\ live.kind = "none" /\ faults' = faults /\ work'.then = work.then
            /\ Stage(work.then) \in {"end", "launch", "released", "removed"}
         \/ /\ live.kind # "none" /\ work'.todo = CleanupOf(work.name = "delete")
            /\ Stage(work'.then) \in {"deleted", "stopped"} /\ faults' = faults
  BY StopStep
<1>2. \A kind \in Kinds : Routes(kind)' = Routes(kind)
  BY <1>1 DEF Routes, Objects
<1>3. RoutesKnown'
  BY <1>1, <1>2, RoutesKeep DEF Routed
<1>4. CASE Stage(work'.then) \in {"end", "released", "exit"}
  BY <1>3, <1>4, RoutedEnds DEF Starting, Reporting, Recovery, RoutesCleaned
<1>5. CASE /\ live.kind = "none" /\ faults' = faults /\ work'.then = work.then
           /\ Stage(work.then) \in {"end", "launch", "released", "removed"}
  <2>1. faults' = 0 => \A kind \in Kinds : Routes(kind)' = {}
    BY <1>1, <1>2, <1>5 DEF Routed, RoutesKnown, Kinds
  <2> QED
    BY <1>3, <1>5, <2>1, RoutedEnds DEF Starting, Reporting, Recovery, RoutesCleaned
<1>6. CASE /\ work'.todo = CleanupOf(work.name = "delete")
           /\ Stage(work'.then) \in {"deleted", "stopped"}
  <2>1. \A part \in Routing : Todo(<<"delete", part>>)'
    BY <1>6, CleanupIs DEF Todo
  <2>2. RoutesCleaned'
    BY <2>1 DEF RoutesCleaned, Routes
  <2> QED
    BY <1>3, <1>6, <2>2, RoutedEnds DEF Starting, Recovery
<1> QED
  BY <1>1, <1>4, <1>5, <1>6

\* The steps in which an installation or an operation ends.
LEMMA EndRouted ==
    Control /\ Control' /\ Routed /\ (Up \/ Rollback \/ RolledBack \/ Rejected \/ Released \/ Launch)
       => Routed'
<1> SUFFICES ASSUME Control, Control', Routed,
                    Up \/ Rollback \/ RolledBack \/ Rejected \/ Released \/ Launch
             PROVE  Routed'
  OBVIOUS
<1>1. /\ kernel' = kernel /\ faults' \in {faults, faults + 1} /\ ~Recovery /\ Follows
      /\ Stage(work'.then) \in {"end", "rejected", "undone", "released"}
  BY EndStep
<1>2. \A kind \in Kinds : Routes(kind)' = Routes(kind)
  BY <1>1 DEF Routes, Objects
<1>3. RoutesKnown'
  BY <1>1, <1>2, RoutesKeep DEF Routed
<1> QED
  BY <1>1, <1>3, RoutedEnds DEF Starting, Reporting, Recovery, RoutesCleaned

\* A removal is reported: what it was to delete is gone, or it failed.
LEMMA ReportRouted == Control /\ Control' /\ Routed /\ (Stopped \/ Deleted) => Routed'
<1> SUFFICES ASSUME Control, Control', Routed, Stopped \/ Deleted
             PROVE  Routed'
  OBVIOUS
<1>1. /\ kernel' = kernel /\ faults' \in {faults, faults + 1} /\ Reporting /\ ~Recovery
      /\ work.todo = <<>>
      /\ Stage(work'.then) \in {"end", "launch", "forget", "plan", "released", "removed", "exit"}
      /\ work' = Broken => Stage(work'.then) \in {"end", "released", "exit"}
      /\ ~work.failed \/ (Follows /\ work' = Broken)
      /\ ~work.failed \/ Follows
  BY ReportStep
<1>2. /\ \A kind \in Kinds : Routes(kind)' = Routes(kind)
      /\ faults' = 0 => faults = 0
  BY <1>1, InterfacesAssumption DEF Routes, Objects, Control, Typed
<1>3. faults = 0 /\ ~work.failed => \A kind \in Kinds : Routes(kind) = {}
  <2>1. \A step : ~Todo(step)
    BY <1>1, EmptyIs DEF Todo
  <2> QED
    BY <1>1, <2>1 DEF Routed, RoutesCleaned
<1>4. RoutesKnown'
  <2>1. CASE work.failed
    BY <1>1, <1>2, <2>1, RoutesKeep DEF Routed
  <2>2. CASE ~work.failed
    BY <1>2, <1>3, <2>2 DEF RoutesKnown
  <2> QED
    BY <2>1, <2>2
<1>5. Stage(work'.then) \in {"removed", "forget"} /\ faults' = 0 =>
        \A kind \in Kinds : Routes(kind)' = {}
  BY <1>1, <1>2, <1>3
<1> QED
  BY <1>1, <1>4, <1>5, RoutedEnds DEF Starting, Reporting, Recovery, RoutesCleaned

\* The interface is planned anew, forgotten, or recovered.
LEMMA LeaveRouted ==
    Control /\ Control' /\ Routed /\ (Replan \/ Forget \/ Removed \/ Recovered) => Routed'
<1> SUFFICES ASSUME Control, Control', Routed, Replan \/ Forget \/ Removed \/ Recovered
             PROVE  Routed'
  OBVIOUS
<1>1. /\ kernel' = kernel /\ faults' \in {faults, faults + 1}
      /\ work.todo = <<>> /\ Stage(work'.then) \in {"end", "exit"}
      /\ Replan => Follows /\ Stage(work.then) = "plan"
      /\ Forget => Stage(work.then) = "forget"
      /\ Removed => Stage(work.then) = "removed"
      /\ Recovered => Recovery
  BY LeaveStep
<1>2. /\ \A kind \in Kinds : Routes(kind)' = Routes(kind)
      /\ faults' = 0 => faults = 0
  BY <1>1, InterfacesAssumption DEF Routes, Objects, Control, Typed
<1>3. RoutesKnown'
  <2>1. CASE Replan
    BY <1>1, <1>2, <2>1, RoutesKeep DEF Routed, Recovery
  <2>2. CASE Forget \/ Removed
    BY <1>1, <1>2, <2>2 DEF Routed, RoutesGone, RoutesKnown
  <2>3. CASE Recovered
    <3>1. \A step : ~Todo(step)
      BY <1>1, EmptyIs DEF Todo
    <3>2. work.todo # << <<"chains">> >>
      BY <1>1
    <3>3. faults = 0 => \A kind \in Kinds : Routes(kind) = {}
      BY <1>1, <2>3, <3>1, <3>2 DEF Routed, RoutesRecovered
    <3> QED
      BY <1>2, <3>3 DEF RoutesKnown
  <2> QED
    BY <2>1, <2>2, <2>3
<1> QED
  BY <1>1, <1>3, RoutedEnds DEF Starting, Reporting, Recovery, RoutesCleaned

\* The operations of one step leave the routes alone.
LEMMA LoneRouted == Control /\ Control' /\ Routed /\ (Restore \/ Rejournal \/ Install) => Routed'
<1> SUFFICES ASSUME Control, Control', Routed, Restore \/ Rejournal \/ Install
             PROVE  Routed'
  OBVIOUS
<1>1. /\ SameObjects /\ Follows /\ faults' \in {faults, faults + 1}
      /\ Stage(work.then) \in {"end", "rejected", "launch"}
      /\ Stage(work'.then) \in {"end", "rejected", "launch"}
  BY LoneStep
<1>2. \A kind \in Kinds : Routes(kind)' = Routes(kind)
  BY <1>1 DEF Routes, SameObjects
<1>3. RoutesKnown'
  BY <1>1, <1>2, RoutesKeep DEF Routed, Recovery
<1> QED
  BY <1>1, <1>3, RoutedEnds DEF Starting, Reporting, Recovery, RoutesCleaned

\* An installation begins once the interface is on record.
LEMMA StartRouted == Control /\ Control' /\ Routed /\ StartInterface => Routed'
<1> SUFFICES ASSUME Control, Control', Routed, StartInterface
             PROVE  Routed'
  OBVIOUS
<1>1. /\ Idle /\ kernel' = kernel /\ live' = live /\ Follows /\ faults' \in {faults, faults + 1}
      /\ \/ Requested
         \/ work'.then = Rolling /\ saved' = Journal(live) /\ disk' = saved'
  BY StartStep
<1>2. \A kind \in Kinds : Routes(kind)' = Routes(kind)
  BY <1>1 DEF Routes, Objects
<1>3. RoutesKnown'
  <2>1. Stage(work.then) = "end"
    BY <1>1, IdleIs, Ends
  <2> QED
    BY <1>1, <1>2, <2>1, RoutesKeep DEF Routed, Recovery
<1>4. CASE Requested
  <2>1. /\ Stage(work'.then) \in {"end", "forget", "plan", "released", "removed", "launch",
                                  "rejected", "exit"}
        /\ Stage(work'.then) \in {"removed", "forget"} => work'.todo # <<>>
    <3>1. << <<"stop">> >> # <<>>
      OBVIOUS
    <3> QED
      BY <1>4, <3>1, RequestedStages
  <2> QED
    BY <1>3, <2>1, RoutedEnds DEF Starting, Reporting, Recovery, RoutesCleaned
<1>5. CASE work'.then = Rolling /\ saved' = Journal(live) /\ disk' = saved'
  <2>1. Stage(work'.then) = "rollback"
    BY <1>5, Ends
  <2>2. saved'.interface.kind = live'.kind
    BY <1>1, <1>5, JournalIs, RecordedIs DEF Control, Typed
  <2>3. BuildJournalled'
    BY <1>5, <2>2 DEF BuildJournalled
  <2> QED
    BY <1>3, <2>1, <2>3 DEF Routed, RoutesCleaned, RoutesRecovered, RoutesGone, Reporting, Recovery
<1> QED
  BY <1>1, <1>4, <1>5

\* A request touches no route.
LEMMA AskRouted ==
    Control /\ Control' /\ Routed
    /\ (\/ Supervise \/ Confirmed \/ ConfirmationFailed \/ CoreExits \/ ServerGone \/ Down
        \/ DeleteInterface \/ Shutdown \/ Connect \/ RunScope
        \/ \E kind \in Kinds \cup {"none"}, holds \in BOOLEAN : Plan(kind, holds))
       => Routed'
<1> SUFFICES ASSUME Control, Control', Routed,
                    \/ Supervise \/ Confirmed \/ ConfirmationFailed \/ CoreExits \/ ServerGone \/ Down
                    \/ DeleteInterface \/ Shutdown \/ Connect \/ RunScope
                    \/ \E kind \in Kinds \cup {"none"}, holds \in BOOLEAN : Plan(kind, holds)
             PROVE  Routed'
  OBVIOUS
<1>1. /\ Idle /\ kernel' = kernel /\ Requested /\ faults' \in {faults, faults + 1}
      /\ Follows \/ live.kind = "none"
  <2>1. CASE \/ Supervise \/ Confirmed \/ ConfirmationFailed \/ CoreExits \/ ServerGone \/ Down
             \/ DeleteInterface \/ Shutdown \/ Connect
    BY <2>1, AskStep
  <2>2. CASE RunScope
    BY <2>2, ScopeStep
  <2>3. CASE \E kind \in Kinds \cup {"none"}, holds \in BOOLEAN : Plan(kind, holds)
    <3>1. /\ Idle /\ daemon' /\ kernel' = kernel /\ Requested /\ faults' \in {faults, faults + 1}
          /\ live.kind = "none" \/ UNCHANGED <<live, saved, disk>>
      BY <2>3, PlanStep
    <3>2. UNCHANGED <<live, saved, disk>> => Follows
      BY <3>1, IdleIs DEF Follows, SameRecord
    <3> QED
      BY <3>1, <3>2
  <2> QED
    BY <2>1, <2>2, <2>3
<1>2. /\ \A kind \in Kinds : Routes(kind)' = Routes(kind)
      /\ faults' = 0 => faults = 0
  BY <1>1, InterfacesAssumption DEF Routes, Objects, Control, Typed
<1>3. ~Recovery /\ daemon
  BY <1>1, IdleIs, Ends DEF Recovery
<1>4. RoutesKnown'
  <2>1. CASE Follows
    BY <1>1, <1>2, <1>3, <2>1, RoutesKeep DEF Routed
  <2>2. CASE live.kind = "none"
    BY <1>2, <1>3, <2>2 DEF Routed, RoutesKnown, Kinds
  <2> QED
    BY <1>1, <2>1, <2>2
<1>5. /\ Stage(work'.then) \in {"end", "forget", "plan", "released", "removed", "launch",
                                "rejected", "exit"}
      /\ Stage(work'.then) \in {"removed", "forget"} => work'.todo # <<>>
  <2>1. << <<"stop">> >> # <<>>
    OBVIOUS
  <2> QED
    BY <1>1, <2>1, RequestedStages
<1> QED
  BY <1>4, <1>5, RoutedEnds DEF Starting, Reporting, Recovery, RoutesCleaned

\* Neither a crash nor the next start changes what is on record.
LEMMA WorldRouted ==
    Control /\ Control' /\ Routed /\ (Exit \/ Crash \/ HelperDies \/ SliceEnds \/ Boot) => Routed'
<1> SUFFICES ASSUME Control, Control', Routed, Exit \/ Crash \/ HelperDies \/ SliceEnds \/ Boot
             PROVE  Routed'
  OBVIOUS
<1>1. /\ SameObjects /\ disk' = disk /\ faults' = faults
      /\ \/ UNCHANGED <<kernel, saved, session, live, work, daemon>>
         \/ /\ UNCHANGED <<saved, work, daemon>> /\ work = NoWork /\ live'.kind = live.kind
         \/ ~daemon' /\ work' = NoWork
         \/ /\ daemon' /\ saved' = disk
            /\ work'.todo = << <<"chains">> >> /\ work'.then = Recovering
  BY WorldStep
<1>2. \A kind \in Kinds : Routes(kind)' = Routes(kind)
  BY <1>1 DEF SameObjects, Routes
<1>3. RoutesKnown /\ NoWork.then = <<>>
  BY DEF Routed, NoWork
<1>4. CASE UNCHANGED <<kernel, saved, session, live, work, daemon>>
  BY <1>1, <1>4 DEF Routed, BuildJournalled, RoutesKnown, RoutesCleaned, RoutesRecovered, RoutesGone,
                    Routes, Objects, Starting, Reporting, Recovery, Todo
<1>5. CASE UNCHANGED <<saved, work, daemon>> /\ work = NoWork /\ live'.kind = live.kind
  <2>1. RoutesKnown'
    BY <1>1, <1>2, <1>3, <1>5 DEF RoutesKnown, Recovery
  <2>2. Stage(work'.then) = "end"
    BY <1>3, <1>5, Ends
  <2> QED
    BY <2>1, <2>2, RoutedEnds DEF Starting, Reporting, Recovery, RoutesCleaned
<1>6. CASE ~daemon' /\ work' = NoWork
  <2>1. RoutesKnown'
    BY <1>1, <1>2, <1>3, <1>6 DEF RoutesKnown
  <2>2. Stage(work'.then) = "end"
    BY <1>3, <1>6, Ends
  <2> QED
    BY <2>1, <2>2, RoutedEnds DEF Starting, Reporting, Recovery, RoutesCleaned
<1>7. CASE /\ daemon' /\ saved' = disk
           /\ work'.todo = << <<"chains">> >> /\ work'.then = Recovering
  <2>1. Stage(work'.then) = "recovered"
    BY <1>7, Ends
  <2>2. RoutesKnown'
    BY <1>1, <1>2, <1>3, <1>7, <2>1 DEF RoutesKnown, Recovery
  <2> QED
    BY <1>7, <2>1, <2>2, RoutedEnds DEF Starting, Reporting, Recovery, RoutesCleaned
<1> QED
  BY <1>1, <1>4, <1>5, <1>6, <1>7

\* As long as nothing failed, what routes there are are on record, and are looked for.
LEMMA RoutedHolds == Spec => [](Control /\ Routed)
<1>1. Init => Routed
  <2> SUFFICES ASSUME Init PROVE Routed
    OBVIOUS
  <2>1. kernel = {} /\ work.then = <<>>
    BY DEF Init, NoWork
  <2>2. Stage(work.then) = "end" /\ \A kind \in Kinds : Routes(kind) = {}
    BY <2>1, Ends DEF Routes, Objects
  <2> QED
    BY <2>2 DEF Routed, BuildJournalled, RoutesKnown, RoutesCleaned, RoutesRecovered, RoutesGone,
                Starting, Reporting, Recovery
<1>2. Control /\ Control' /\ Routed /\ [Next]_vars => Routed'
  <2> SUFFICES ASSUME Control, Control', Routed, [Next]_vars
               PROVE  Routed'
    OBVIOUS
  <2>1. CASE Create \/ Intend \/ WriteJournal \/ Spawn \/ AddObject \/ Mark
    BY <2>1, BuildRouted
  <2>2. CASE Identify \/ SetChain \/ Reap \/ DeleteObject
    BY <2>2, CleanRouted
  <2>3. CASE RecoverChains \/ IntendAgain \/ Recognise \/ Kill \/ Unchain
    BY <2>3, RecoveryRouted
  <2>4. CASE Stop
    BY <2>4, StopRouted
  <2>5. CASE Up \/ Rollback \/ RolledBack \/ Rejected \/ Released \/ Launch
    BY <2>5, EndRouted
  <2>6. CASE Stopped \/ Deleted
    BY <2>6, ReportRouted
  <2>7. CASE Replan \/ Forget \/ Removed \/ Recovered
    BY <2>7, LeaveRouted
  <2>8. CASE Restore \/ Rejournal \/ Install
    BY <2>8, LoneRouted
  <2>9. CASE StartInterface
    BY <2>9, StartRouted
  <2>10. CASE \/ Supervise \/ Confirmed \/ ConfirmationFailed \/ CoreExits \/ ServerGone \/ Down
              \/ DeleteInterface \/ Shutdown \/ Connect \/ RunScope
              \/ \E kind \in Kinds \cup {"none"}, holds \in BOOLEAN : Plan(kind, holds)
    BY <2>10, AskRouted
  <2>11. CASE Exit \/ Crash \/ HelperDies \/ SliceEnds \/ Boot
    BY <2>11, WorldRouted
  <2>12. CASE UNCHANGED vars
    BY <2>12 DEF vars, Routed, BuildJournalled, RoutesKnown, RoutesCleaned, RoutesRecovered,
                 RoutesGone, Routes, Objects, Starting, Reporting, Recovery, Todo
  <2> QED
    BY <2>1, <2>2, <2>3, <2>4, <2>5, <2>6, <2>7, <2>8, <2>9, <2>10, <2>11, <2>12 DEF Next
<1>3. Spec => []Control
  BY ControlHolds
<1> QED
  BY <1>1, <1>2, <1>3, PTL DEF Spec

\* The state file names the complete identity of an owned interface as long as any persistent
\* object of it exists, whatever fails and whenever the daemon dies; and as long as nothing
\* failed it knows of every route of a legacy one.
THEOREM RememberedHolds == Spec => []Remembered
<1>1. Control /\ Owned => OwnedRemembered
  <2> SUFFICES ASSUME Control, Owned, kernel \cap ({"owned"} \X (Routing \cup {"device"})) # {}
               PROVE  disk.interface.kind = "owned" /\ disk.interface.planned
    BY DEF OwnedRemembered
  <2>1. Objects("owned") # {}
    BY DEF Objects
  <2> QED
    BY <2>1 DEF Owned, OwnedKnown, Named
<1>2. Control /\ Routed => LegacyRemembered
  <2> SUFFICES ASSUME Control, Routed, faults = 0, kernel \cap ({"legacy"} \X Routing) # {}
               PROVE  disk.interface.kind = "legacy"
    BY DEF LegacyRemembered
  <2>1. Routes("legacy") # {}
    BY DEF Routes, Objects
  <2> QED
    BY <2>1 DEF Routed, RoutesKnown, Kinds
<1> QED
  BY <1>1, <1>2, OwnedHolds, RoutedHolds, PTL DEF Remembered

\* A daemon without a session has left no route and no rule of any interface, as long as
\* nothing failed.
THEOREM NothingIsLeftBehind == Spec => []NothingLeftBehind
<1>1. Control /\ Routed => NothingLeftBehind
  <2> SUFFICES ASSUME Control, Routed, Idle, faults = 0, ~session.here
               PROVE  kernel \cap (Kinds \X Routing) = {}
    BY DEF NothingLeftBehind
  <2>1. ~Recovery /\ daemon
    BY IdleIs, Ends DEF Recovery
  <2>2. live.kind = "none"
    BY DEF Control, Hosted
  <2>3. \A kind \in Kinds : Routes(kind) = {}
    BY <2>1, <2>2 DEF Routed, RoutesKnown, Kinds
  <2> QED
    BY <2>3 DEF Routes, Objects
<1> QED
  BY <1>1, RoutedHolds, PTL

\* The variables of an interface keep their types, and an interface has a session.
THEOREM InterfacesAreTyped == Spec => []TypeOK
<1>1. Control => TypeOK
  BY DEF Control, Typed, Hosted, TypeOK, Lives, TypedWork
<1> QED
  BY <1>1, ControlHolds, PTL
=============================================================================
