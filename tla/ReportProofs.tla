---------------------------- MODULE ReportProofs ----------------------------
(***************************************************************************)
(* What TLAPS proves of what the daemon reports: the readings its probe    *)
(* pipeline leaves, for any sets of servers and profiles, any number of    *)
(* handlers that prune and any cap, and its log as the client shows it,    *)
(* for any capacity, limit, window and bounds.                             *)
(***************************************************************************)
EXTENDS ProbePipeline, LogFeed, InductionLemmas, FiniteSetTheorems, SequenceTheorems, TLAPS

-----------------------------------------------------------------------------
\* The probe pipeline

\* No target waits twice.
Distinct(jobs) ==
    \A i, j \in 1 .. Len(jobs) : jobs[i].target = jobs[j].target => i = j

\* The jobs the pump took, which the cap is for.
Pumped == {job \in running : job.step \in {"starting", "measuring", "measured"}}

\* Who waits and who is measured: each target once, the pump within its cap and the
\* confirmations within theirs. Only the closure leaves a job without its thread.
Occupied ==
    /\ IsFiniteSet(running)
    /\ Distinct(queued)
    /\ \A job \in Waiting, other \in running : job.target # other.target
    /\ Cardinality(Pumped) <= Cap
    /\ Cardinality(Confirming) <= MaxConfirms
    /\ \A job \in running :
        /\ job.step = "stuck" => closed
        /\ job.step = "confirming" => job.target \in Profiles

\* Who has been measured has an entry as long as its server is in the catalog, and an
\* edit that prunes captured everything the catalog still has.
Entered ==
    /\ \A job \in running :
        job.step = "measured" /\ ~closed /\ job.target \in catalog => job.target \in readings
    /\ \A p \in Pruners : prunes[p].step \in {"readings", "queue"} => catalog \subseteq prunes[p].alive

PipelineInv == TypeOK /\ Occupied /\ Entered

-----------------------------------------------------------------------------
\* What a filtered queue is

\* r is what is left of the first n jobs of the queue when only targets stay.
Selected(r, n, targets) ==
    /\ r \in Seq(Job)
    /\ \A i \in 1 .. Len(r) :
        \E j \in 1 .. n : r[i] = queued[j] /\ queued[j].target \in targets
    /\ \A j \in 1 .. n : queued[j].target \in targets => \E i \in 1 .. Len(r) : r[i] = queued[j]
    /\ Distinct(queued) => Distinct(r)

\* One more job of the queue is looked at.
LEMMA SelectedNext ==
    ASSUME queued \in Seq(Job), NEW targets, NEW r, NEW n \in Nat, n + 1 <= Len(queued),
           Selected(r, n, targets)
    PROVE  Selected(IF queued[n + 1].target \in targets THEN Append(r, queued[n + 1]) ELSE r,
                    n + 1, targets)
<1>1. /\ n + 1 \in 1 .. Len(queued) /\ n + 1 \in 1 .. n + 1
      /\ queued[n + 1] \in Job
      /\ \A j \in 1 .. n : j \in 1 .. n + 1 /\ j \in 1 .. Len(queued) /\ j # n + 1
      /\ \A j \in 1 .. n + 1 : j = n + 1 \/ j \in 1 .. n
  OBVIOUS
<1>2. /\ r \in Seq(Job) /\ Len(r) \in Nat
      /\ \A i \in 1 .. Len(r) :
            \E j \in 1 .. n : r[i] = queued[j] /\ queued[j].target \in targets
      /\ \A j \in 1 .. n : queued[j].target \in targets => \E i \in 1 .. Len(r) : r[i] = queued[j]
      /\ Distinct(queued) => Distinct(r)
  BY DEF Selected
<1>3. CASE queued[n + 1].target \notin targets
  BY <1>1, <1>2, <1>3 DEF Selected
<1>4. CASE queued[n + 1].target \in targets
  <2> DEFINE s == Append(r, queued[n + 1])
  <2>1. /\ s \in Seq(Job) /\ Len(s) = Len(r) + 1
        /\ s[Len(r) + 1] = queued[n + 1]
        /\ \A i \in 1 .. Len(r) : s[i] = r[i]
    BY <1>1, <1>2
  <2>2. /\ \A i \in 1 .. Len(s) : i = Len(r) + 1 \/ i \in 1 .. Len(r)
        /\ Len(r) + 1 \in 1 .. Len(s)
        /\ \A i \in 1 .. Len(r) : i \in 1 .. Len(s)
    BY <1>2, <2>1
  <2> HIDE DEF s
  <2>3. \A i \in 1 .. Len(s) :
            \E j \in 1 .. n + 1 : s[i] = queued[j] /\ queued[j].target \in targets
    <3>1. ASSUME NEW i \in 1 .. Len(r)
          PROVE  \E j \in 1 .. n + 1 : s[i] = queued[j] /\ queued[j].target \in targets
      <4>1. PICK j \in 1 .. n : r[i] = queued[j] /\ queued[j].target \in targets
        BY <1>2
      <4> QED
        BY <1>1, <2>1, <4>1
    <3> QED
      BY <1>1, <1>4, <2>1, <2>2, <3>1
  <2>4. \A j \in 1 .. n + 1 : queued[j].target \in targets => \E i \in 1 .. Len(s) : s[i] = queued[j]
    BY <1>1, <1>2, <2>1, <2>2
  <2>5. ASSUME Distinct(queued) PROVE Distinct(s)
    <3>1. ASSUME NEW i \in 1 .. Len(r), r[i].target = queued[n + 1].target PROVE FALSE
      <4>1. PICK j \in 1 .. n : r[i] = queued[j]
        BY <1>2
      <4> QED
        BY <1>1, <2>5, <3>1, <4>1 DEF Distinct
    <3>2. \A i, j \in 1 .. Len(r) : r[i].target = r[j].target => i = j
      BY <1>2, <2>5 DEF Distinct
    <3>3. ASSUME NEW i \in 1 .. Len(s), NEW j \in 1 .. Len(s), s[i].target = s[j].target
          PROVE  i = j
      BY <2>1, <2>2, <3>1, <3>2, <3>3
    <3> QED
      BY <3>3 DEF Distinct
  <2>6. Selected(s, n + 1, targets)
    BY <2>1, <2>3, <2>4, <2>5 DEF Selected
  <2> QED
    BY <1>4, <2>6 DEF s
<1> QED
  BY <1>3, <1>4

\* Retained is the recursive function its definition writes.
LEMMA RetainedBuilt ==
    ASSUME queued \in Seq(Job), NEW targets
    PROVE  \E kept :
             /\ kept[0] = <<>>
             /\ \A i \in 1 .. Len(queued) :
                    kept[i] = IF queued[i].target \in targets
                              THEN Append(kept[i - 1], queued[i]) ELSE kept[i - 1]
             /\ Retained(targets) = kept[Len(queued)]
<1> DEFINE N == Len(queued)
           V == Seq(Job)
           G == [p \in V \X (1 .. N) |->
                    IF queued[p[2]].target \in targets
                    THEN Append(p[1], queued[p[2]]) ELSE p[1]]
           kept == CHOOSE f : f = [n \in 0 .. N |->
                IF n = 0 THEN <<>>
                ELSE IF queued[n].target \in targets THEN Append(f[n - 1], queued[n])
                ELSE f[n - 1]]
<1>1. Retained(targets) = kept[N]
  BY DEF Retained
<1>2. Builds(V, <<>>, N, G)
  BY DEF Builds
<1>3. PICK f : Built(f, V, <<>>, N, G)
  BY <1>2, RecursionBuilds
<1>4. f = [n \in 0 .. N |->
                IF n = 0 THEN <<>>
                ELSE IF queued[n].target \in targets THEN Append(f[n - 1], queued[n])
                ELSE f[n - 1]]
  <2>1. N \in Nat /\ \A i \in 0 .. N : i # 0 => i \in 1 .. N /\ i - 1 \in 0 .. N
    OBVIOUS
  <2>2. /\ f \in [0 .. N -> V] /\ f[0] = <<>>
        /\ \A i \in 1 .. N : f[i] = G[<<f[i - 1], i>>]
    BY <1>3 DEF Built
  <2>3. \A i \in 1 .. N : f[i - 1] \in V
    BY <2>1, <2>2
  <2>4. \A i \in 1 .. N :
            G[<<f[i - 1], i>>] = IF queued[i].target \in targets
                                 THEN Append(f[i - 1], queued[i]) ELSE f[i - 1]
    BY <2>3
  <2> HIDE DEF G
  <2>5. \A i \in 0 .. N :
            f[i] = IF i = 0 THEN <<>>
                   ELSE IF queued[i].target \in targets THEN Append(f[i - 1], queued[i])
                   ELSE f[i - 1]
    BY <2>1, <2>2, <2>4
  <2> QED
    BY <2>2, <2>5
<1>5. kept = [n \in 0 .. N |->
                IF n = 0 THEN <<>>
                ELSE IF queued[n].target \in targets THEN Append(kept[n - 1], queued[n])
                ELSE kept[n - 1]]
  BY <1>4
<1>6. N \in Nat
  OBVIOUS
<1>7. /\ kept[0] = <<>>
      /\ \A i \in 1 .. N :
            kept[i] = IF queued[i].target \in targets
                      THEN Append(kept[i - 1], queued[i]) ELSE kept[i - 1]
  <2> HIDE DEF kept, N
  <2>1. \A i \in 0 .. N :
            kept[i] = IF i = 0 THEN <<>>
                      ELSE IF queued[i].target \in targets THEN Append(kept[i - 1], queued[i])
                      ELSE kept[i - 1]
    BY <1>5
  <2> QED
    BY <1>6, <2>1
<1> HIDE DEF kept
<1> QED
  BY <1>1, <1>7

\* What stays in the queue: exactly the jobs of the targets, none twice.
LEMMA RetainedIs ==
    ASSUME queued \in Seq(Job), NEW targets
    PROVE  Selected(Retained(targets), Len(queued), targets)
<1>1. PICK kept :
        /\ kept[0] = <<>>
        /\ \A i \in 1 .. Len(queued) :
               kept[i] = IF queued[i].target \in targets
                         THEN Append(kept[i - 1], queued[i]) ELSE kept[i - 1]
        /\ Retained(targets) = kept[Len(queued)]
  BY RetainedBuilt
<1> DEFINE S == {n \in Nat : n <= Len(queued) => Selected(kept[n], n, targets)}
<1>2. 0 \in S
  <2>1. <<>> \in Seq(Job) /\ Len(<<>>) = 0 /\ \A i \in 1 .. 0 : FALSE
    OBVIOUS
  <2>2. Selected(<<>>, 0, targets)
    BY <2>1 DEF Selected, Distinct
  <2> QED
    BY <1>1, <2>2
<1>3. ASSUME NEW n \in Nat, n \in S PROVE n + 1 \in S
  <2> SUFFICES ASSUME n + 1 <= Len(queued) PROVE Selected(kept[n + 1], n + 1, targets)
    OBVIOUS
  <2>1. Selected(kept[n], n, targets)
    BY <1>3
  <2>2. n + 1 \in 1 .. Len(queued) /\ n + 1 - 1 = n
    OBVIOUS
  <2>3. kept[n + 1] = IF queued[n + 1].target \in targets
                      THEN Append(kept[n], queued[n + 1]) ELSE kept[n]
    BY <1>1, <2>2
  <2> QED
    BY <2>1, <2>3, SelectedNext
<1> HIDE DEF S
<1>4. Len(queued) \in S
  BY <1>2, <1>3, NaturalSteps
<1> QED
  BY <1>1, <1>4 DEF S

-----------------------------------------------------------------------------
\* Counting jobs and tokens

\* The targets of probes are finitely many, and the constants are numbers.
LEMMA TargetsAreFinite ==
    /\ IsFiniteSet(Target) /\ Cardinality(Target) \in Nat
    /\ Cap \in Nat \ {0} /\ MaxPumps \in Nat \ {0} /\ MaxConfirms \in Nat
    /\ Servers \cap Profiles = {}
  BY PipelineAssumption, FS_Union, FS_CardinalityType DEF Target

\* In a queue where nobody waits twice there are as many targets, and as many jobs,
\* as the queue is long.
LEMMA WaitingCounted ==
    ASSUME queued \in Seq(Job), Distinct(queued)
    PROVE  /\ Cardinality({job.target : job \in Waiting}) = Len(queued)
           /\ IsFiniteSet(Waiting) /\ Cardinality(Waiting) = Len(queued)
           /\ Len(queued) <= Cardinality(Target)
<1> DEFINE N == Len(queued)
           T == {job.target : job \in Waiting}
<1>1. N \in Nat /\ \A i \in 1 .. N : queued[i] \in Waiting /\ queued[i].target \in Target
  <2>1. \A i \in 1 .. N : queued[i] \in Waiting
    BY DEF Waiting
  <2>2. \A i \in 1 .. N : queued[i] \in Job
    OBVIOUS
  <2> QED
    BY <2>1, <2>2 DEF Job
<1>2. Cardinality(T) = N /\ IsFiniteSet(T)
  <2> DEFINE f == [i \in 1 .. N |-> queued[i].target]
  <2>1. f \in Bijection(1 .. N, T)
    BY DEF Bijection, Injection, Surjection, IsInjective, Waiting, Distinct
  <2>2. ExistsBijection(1 .. N, T)
    BY <2>1 DEF ExistsBijection
  <2> HIDE DEF N, T
  <2> QED
    BY <1>1, <2>2, FS_CountingElements, FS_NatBijection
<1>3. Cardinality(Waiting) = N /\ IsFiniteSet(Waiting)
  <2> DEFINE f == [i \in 1 .. N |-> queued[i]]
  <2>1. f \in Bijection(1 .. N, Waiting)
    BY DEF Bijection, Injection, Surjection, IsInjective, Waiting, Distinct
  <2>2. ExistsBijection(1 .. N, Waiting)
    BY <2>1 DEF ExistsBijection
  <2> HIDE DEF N
  <2> QED
    BY <1>1, <2>2, FS_CountingElements, FS_NatBijection
<1>4. T \subseteq Target
  BY <1>1 DEF Waiting
<1>5. Cardinality(T) <= Cardinality(Target)
  BY <1>4, TargetsAreFinite, FS_Subset
<1> QED
  BY <1>2, <1>3, <1>5

\* While the daemon runs, who is measured was pumped or confirms.
LEMMA RunningCounted ==
    ASSUME TypeOK, Occupied, ~closed
    PROVE  /\ Cardinality(running) \in Nat
           /\ Cardinality(running) <= Cap + Cardinality(Confirming)
<1>1. running = Pumped \cup Confirming
  BY DEF TypeOK, Occupied, Pumped, Confirming, Step
<1>2. IsFiniteSet(Pumped) /\ IsFiniteSet(Confirming) /\ IsFiniteSet(Pumped \cap Confirming)
  BY FS_Subset DEF Occupied, Pumped, Confirming
<1>3. Cardinality(running) =
        Cardinality(Pumped) + Cardinality(Confirming) - Cardinality(Pumped \cap Confirming)
  BY <1>1, <1>2, FS_Union
<1>4. /\ Cardinality(Pumped) \in Nat /\ Cardinality(Confirming) \in Nat
      /\ Cardinality(Pumped \cap Confirming) \in Nat /\ Cardinality(running) \in Nat
      /\ Cardinality(Pumped) <= Cap /\ Cap \in Nat
  BY <1>2, FS_CardinalityType, TargetsAreFinite DEF Occupied
<1> QED
  BY <1>3, <1>4

\* There are more tokens than jobs whenever one is issued.
LEMMA FreshIsToken ==
    ASSUME TypeOK, Occupied, ~closed, NEW target \in Target
    PROVE  FreshToken \in Token
<1> DEFINE jobs == running \cup Waiting
           used == {job.token : job \in jobs}
           M == Cardinality(Target) * 2 + Cap + MaxConfirms
           C == Cardinality(Target)
<1>1. IsFiniteSet(jobs) /\ Cardinality(jobs) <= Cardinality(running) + Cardinality(Waiting)
  <2>1. IsFiniteSet(running) /\ IsFiniteSet(Waiting) /\ IsFiniteSet(running \cap Waiting)
    BY WaitingCounted, FS_Intersection DEF TypeOK, Occupied
  <2>2. Cardinality(running \cap Waiting) \in Nat /\ Cardinality(running) \in Nat
        /\ Cardinality(Waiting) \in Nat
    BY <2>1, FS_CardinalityType
  <2> QED
    BY <2>1, <2>2, FS_Union
<1>2. /\ Cardinality(running) \in Nat /\ Cardinality(running) <= Cap + MaxConfirms
      /\ Cardinality(Waiting) \in Nat /\ Cardinality(Waiting) <= C
  <2>1. Cardinality(Confirming) <= MaxConfirms /\ Cardinality(Confirming) \in Nat
    BY FS_Subset, FS_CardinalityType DEF Occupied, Confirming
  <2>2. Cap \in Nat /\ MaxConfirms \in Nat
    BY TargetsAreFinite
  <2>3. /\ Cardinality(running) \in Nat
        /\ Cardinality(running) <= Cap + Cardinality(Confirming)
    BY RunningCounted
  <2>4. Cardinality(running) <= Cap + MaxConfirms
    BY <2>1, <2>2, <2>3
  <2>5. Cardinality(Waiting) = Len(queued) /\ Len(queued) <= C /\ Len(queued) \in Nat
    BY WaitingCounted DEF TypeOK, Occupied
  <2> QED
    BY <2>3, <2>4, <2>5
<1>3. IsFiniteSet(used) /\ Cardinality(used) <= Cardinality(jobs)
  <2> DEFINE f == [job \in jobs |-> job.token]
  <2>1. f \in Surjection(jobs, used)
    BY DEF Surjection
  <2> HIDE DEF f, jobs, used
  <2> QED
    BY <1>1, <2>1, FS_Surjection
<1>4. C \in Nat /\ C # 0 /\ Cap \in Nat /\ MaxConfirms \in Nat
  <2>1. Target # {}
    OBVIOUS
  <2> QED
    BY <2>1, TargetsAreFinite, FS_EmptySet
<1>5. Cardinality(used) \in Nat /\ Cardinality(used) < M
  <2>1. Cardinality(used) \in Nat /\ Cardinality(jobs) \in Nat
    BY <1>1, <1>3, FS_CardinalityType
  <2> HIDE DEF jobs, used, C
  <2> QED
    BY <1>1, <1>2, <1>3, <1>4, <2>1 DEF C
<1>6. PICK free \in Token : free \notin used
  <2> SUFFICES ASSUME Token \subseteq used PROVE FALSE
    OBVIOUS
  <2>1. Cardinality(Token) = M
    <3>1. M \in Nat /\ M # 0
      BY <1>4
    <3> HIDE DEF M
    <3>2. Cardinality(1 .. M) = M
      BY <3>1, FS_Interval
    <3> QED
      BY <3>2 DEF Token, M
  <2>2. Cardinality(Token) <= Cardinality(used)
    BY <1>3, FS_Subset
  <2>3. M \in Nat
    BY <1>4
  <2> QED
    BY <1>5, <2>1, <2>2, <2>3
<1> DEFINE Free == Token \ used
<1>7. Free \subseteq Nat /\ Free # {}
  BY <1>6 DEF Token
<1>8. PICK least \in Free : \A e \in Free : ~(<<e, least>> \in OpToRel(<, Nat))
  <2> HIDE DEF Free
  <2> QED
    BY <1>7, NatLessThanWellFounded, WFMin
<1>9. ASSUME NEW lower \in 1 .. least - 1 PROVE lower \in used
  <2>1. M \in Nat /\ Token = 1 .. M
    BY <1>4 DEF Token
  <2>2. least \in 1 .. M
    BY <2>1
  <2> HIDE DEF M, used
  <2>3. lower \in Token /\ lower \in Nat /\ lower < least /\ least \in Nat
    BY <2>1, <2>2
  <2>4. <<lower, least>> \in OpToRel(<, Nat)
    BY <2>3 DEF OpToRel
  <2> QED
    BY <1>8, <2>3, <2>4
<1>10. /\ least \in Token
       /\ \A job \in jobs : job.token # least
       /\ \A lower \in 1 .. least - 1 : \E job \in jobs : job.token = lower
  BY <1>9
<1> HIDE DEF Free, used
<1> QED
  BY <1>10 DEF FreshToken

-----------------------------------------------------------------------------
\* The steps of the pipeline

\* Jobs leave the queue, and none comes.
LEMMA QueueShrinks ==
    ASSUME TypeOK, Occupied, NEW targets, queued' = Retained(targets)
    PROVE  /\ queued' \in Seq(Job) /\ Distinct(queued')
           /\ \A job \in Waiting' : job \in Waiting /\ job.target \in targets
           /\ \A job \in Waiting : job.target \in targets => job \in Waiting'
<1>1. Selected(queued', Len(queued), targets)
  BY RetainedIs DEF TypeOK
<1>2. Distinct(queued)
  BY DEF Occupied
<1>3. queued' \in Seq(Job) /\ Distinct(queued')
  BY <1>1, <1>2 DEF Selected
<1>4. ASSUME NEW i \in 1 .. Len(queued')
      PROVE  queued'[i] \in Waiting /\ queued'[i].target \in targets
  BY <1>1 DEF Selected, Waiting
<1>5. ASSUME NEW j \in 1 .. Len(queued), queued[j].target \in targets
      PROVE  queued[j] \in Waiting'
  BY <1>1, <1>5 DEF Selected, Waiting
<1>6. \A job \in Waiting' : job \in Waiting /\ job.target \in targets
  BY <1>4 DEF Waiting
<1>7. \A job \in Waiting : job.target \in targets => job \in Waiting'
  <2>1. ASSUME NEW job \in Waiting, job.target \in targets PROVE job \in Waiting'
    <3>1. PICK j \in 1 .. Len(queued) : job = queued[j]
      BY DEF Waiting
    <3> QED
      BY <1>5, <2>1, <3>1
  <2> QED
    BY <2>1
<1> QED
  BY <1>3, <1>6, <1>7

\* A request enqueues a job that no target of the pipeline has.
LEMMA RequestKeeps ==
    ASSUME PipelineInv, NEW target \in Target, Request(target)
    PROVE  PipelineInv'
<1> DEFINE new == [token |-> FreshToken, target |-> target]
<1>1. new \in Job /\ new.target = target
  BY FreshIsToken DEF PipelineInv, Request, Job
<1> HIDE DEF new
<1>2. /\ queued \in Seq(Job) /\ queued' = Append(queued, new)
      /\ Len(queued) \in Nat
      /\ running' = running /\ catalog' = catalog /\ readings' = readings
      /\ prunes' = prunes /\ closed' = closed /\ pumps' = pumps + 1
  BY DEF PipelineInv, TypeOK, Request, new
<1>3. /\ queued' \in Seq(Job) /\ Len(queued') = Len(queued) + 1
      /\ queued'[Len(queued) + 1] = new
      /\ \A i \in 1 .. Len(queued) : queued'[i] = queued[i]
      /\ \A i \in 1 .. Len(queued') : i = Len(queued) + 1 \/ i \in 1 .. Len(queued)
  BY <1>1, <1>2
<1>4. TypeOK'
  BY <1>2, <1>3 DEF PipelineInv, TypeOK
<1>5. \A i \in 1 .. Len(queued) : queued[i].target # target
  BY DEF Request, Holds, Waiting
<1>6. \A job \in running : job.target # target
  BY DEF Request, Holds
<1>7. Distinct(queued')
  BY <1>1, <1>2, <1>3, <1>5 DEF PipelineInv, Occupied, Distinct
<1>8. \A job \in Waiting' : job = new \/ job \in Waiting
  BY <1>3 DEF Waiting
<1>9. Occupied'
  BY <1>1, <1>2, <1>6, <1>7, <1>8 DEF PipelineInv, Occupied, Pumped, Confirming
<1>10. Entered'
  BY <1>2 DEF PipelineInv, Entered
<1> QED
  BY <1>4, <1>9, <1>10 DEF PipelineInv

\* The pump moves the oldest job from the queue to those that run.
LEMMA PumpStartsKeeps ==
    ASSUME PipelineInv, PumpStarts
    PROVE  PipelineInv'
<1> DEFINE new == [token |-> Head(queued).token, target |-> Head(queued).target,
                   step |-> "starting"]
<1>1. /\ queued \in Seq(Job) /\ queued # <<>>
      /\ queued' = Tail(queued) /\ running' = running \cup {new}
      /\ Cardinality(running) < Cap
      /\ catalog' = catalog /\ readings' = readings
      /\ prunes' = prunes /\ closed' = closed /\ pumps' = pumps - 1
      /\ pumps > 0
  BY DEF PipelineInv, TypeOK, PumpStarts, Startable
<1>2. /\ Head(queued) \in Job /\ Head(queued) = queued[1]
      /\ Len(queued) \in Nat /\ Len(queued) >= 1 /\ 1 \in 1 .. Len(queued)
      /\ queued' \in Seq(Job) /\ Len(queued') = Len(queued) - 1
      /\ \A i \in 1 .. Len(queued') : queued'[i] = queued[i + 1] /\ i + 1 \in 1 .. Len(queued)
                                     /\ i + 1 # 1
  BY <1>1
<1>3. /\ new \in [token : Token, target : Target, step : Step]
      /\ new.target = queued[1].target /\ new.step = "starting"
  BY <1>2 DEF Job, Step
<1> HIDE DEF new
<1>4. TypeOK'
  <2>1. running' \in SUBSET [token : Token, target : Target, step : Step]
    BY <1>1, <1>3 DEF PipelineInv, TypeOK
  <2>2. pumps' \in Nat
    BY <1>1 DEF PipelineInv, TypeOK
  <2> QED
    BY <1>1, <1>2, <2>1, <2>2 DEF PipelineInv, TypeOK
<1>5. Distinct(queued')
  <2>1. ASSUME NEW i \in 1 .. Len(queued'), NEW j \in 1 .. Len(queued'),
               queued'[i].target = queued'[j].target
        PROVE  i = j
    <3>1. i + 1 = j + 1
      BY <1>2, <2>1 DEF PipelineInv, Occupied, Distinct
    <3> QED
      BY <3>1
  <2> QED
    BY <2>1 DEF Distinct
<1>6. \A job \in Waiting' : job \in Waiting /\ job.target # queued[1].target
  <2> SUFFICES ASSUME NEW job \in Waiting'
               PROVE  job \in Waiting /\ job.target # queued[1].target
    OBVIOUS
  <2>1. PICK i \in 1 .. Len(queued') : job = queued'[i]
    BY DEF Waiting
  <2>2. job = queued[i + 1] /\ i + 1 \in 1 .. Len(queued) /\ i + 1 # 1
    BY <1>2, <2>1
  <2>3. job \in Waiting
    BY <2>2 DEF Waiting
  <2>4. queued[i + 1].target = queued[1].target => i + 1 = 1
    BY <1>2, <2>2 DEF PipelineInv, Occupied, Distinct
  <2> QED
    BY <2>2, <2>3, <2>4
<1>7. \A job \in Waiting', other \in running' : job.target # other.target
  BY <1>1, <1>3, <1>6 DEF PipelineInv, Occupied
<1>8. IsFiniteSet(running') /\ Cardinality(running') \in Nat /\ Cardinality(running') <= Cap
  <2>1. IsFiniteSet(running) /\ Cardinality(running) \in Nat /\ Cap \in Nat
    BY FS_CardinalityType, TargetsAreFinite DEF PipelineInv, Occupied
  <2>2. IsFiniteSet(running \cup {new})
        /\ Cardinality(running \cup {new}) <= Cardinality(running) + 1
    BY <2>1, FS_AddElement
  <2> QED
    BY <1>1, <2>1, <2>2, FS_CardinalityType
<1>9. Cardinality(Pumped') <= Cap
  <2>1. Pumped' \subseteq running'
    BY DEF Pumped
  <2>2. Cardinality(Pumped') <= Cardinality(running') /\ Cardinality(Pumped') \in Nat
    BY <1>8, <2>1, FS_Subset, FS_CardinalityType
  <2> QED
    BY <1>8, <2>2, TargetsAreFinite
<1>10. Confirming' = Confirming
  BY <1>1, <1>3 DEF Confirming
<1>11. Occupied'
  BY <1>1, <1>3, <1>5, <1>7, <1>8, <1>9, <1>10 DEF PipelineInv, Occupied
<1>12. Entered'
  BY <1>1, <1>3 DEF PipelineInv, Entered
<1> QED
  BY <1>4, <1>11, <1>12 DEF PipelineInv

\* A job that is measured goes on, or loses its thread.
LEMMA AtKeeps ==
    ASSUME PipelineInv, NEW job \in running, NEW step \in Step,
           running' = At(job, step), queued' = queued, catalog' = catalog,
           prunes' = prunes, closed' = closed, pumps' \in Nat,
           readings \subseteq readings', readings' \in SUBSET Servers,
           \/ step = "stuck" /\ closed
           \/ /\ job \in Pumped /\ step \in {"measuring", "measured"}
              /\ step = "measured" /\ ~closed /\ job.target \in catalog =>
                    job.target \in readings'
    PROVE  PipelineInv'
<1> DEFINE new == [job EXCEPT !.step = step]
<1>1. running \in SUBSET [token : Token, target : Target, step : Step]
  BY DEF PipelineInv, TypeOK
<1>2. /\ new \in [token : Token, target : Target, step : Step]
      /\ new.target = job.target /\ new.step = step
  BY <1>1
<1>3. running' = (running \ {job}) \cup {new}
  BY DEF At
<1> HIDE DEF new
<1>4. TypeOK'
  BY <1>1, <1>2, <1>3 DEF PipelineInv, TypeOK
<1>5. /\ IsFiniteSet(running) /\ Distinct(queued)
      /\ \A one \in Waiting, other \in running : one.target # other.target
      /\ Cardinality(Pumped) <= Cap
      /\ Cardinality(Confirming) <= MaxConfirms
      /\ \A one \in running :
            /\ one.step = "stuck" => closed
            /\ one.step = "confirming" => one.target \in Profiles
  BY DEF PipelineInv, Occupied
<1>6. IsFiniteSet(running') /\ Distinct(queued') /\ Waiting' = Waiting
  <2>1. IsFiniteSet(running \ {job})
    BY <1>5, FS_RemoveElement
  <2>2. IsFiniteSet((running \ {job}) \cup {new})
    BY <2>1, FS_AddElement
  <2> QED
    BY <1>3, <1>5, <2>2 DEF Waiting
<1>7. \A one \in Waiting', other \in running' : one.target # other.target
  BY <1>2, <1>3, <1>5, <1>6
<1>8. Cardinality(Pumped') <= Cap
  <2>1. IsFiniteSet(Pumped)
    BY <1>5, FS_Subset DEF Pumped
  <2>2. Cardinality(Pumped) \in Nat /\ Cap \in Nat
    BY <2>1, FS_CardinalityType, TargetsAreFinite
  <2>3. CASE step = "stuck"
    <3>1. Pumped' \subseteq Pumped
      BY <1>2, <1>3, <2>3 DEF Pumped
    <3>2. Cardinality(Pumped') \in Nat /\ Cardinality(Pumped') <= Cardinality(Pumped)
      BY <2>1, <3>1, FS_Subset, FS_CardinalityType
    <3> QED
      BY <1>5, <2>2, <3>2
  <2>4. CASE job \in Pumped
    <3>1. Pumped' \subseteq (Pumped \ {job}) \cup {new}
      BY <1>3 DEF Pumped
    <3>2. /\ IsFiniteSet(Pumped \ {job})
          /\ Cardinality(Pumped \ {job}) = Cardinality(Pumped) - 1
      BY <2>1, <2>4, FS_RemoveElement
    <3>3. Cardinality(Pumped \ {job}) \in Nat
      BY <3>2, FS_CardinalityType
    <3>4. /\ IsFiniteSet((Pumped \ {job}) \cup {new})
          /\ Cardinality((Pumped \ {job}) \cup {new}) <= Cardinality(Pumped \ {job}) + 1
      BY <3>2, <3>3, FS_AddElement
    <3>5. /\ Cardinality(Pumped') \in Nat
          /\ Cardinality((Pumped \ {job}) \cup {new}) \in Nat
          /\ Cardinality(Pumped') <= Cardinality((Pumped \ {job}) \cup {new})
      BY <3>1, <3>4, FS_Subset, FS_CardinalityType
    <3> QED
      BY <1>5, <2>2, <3>2, <3>4, <3>5
  <2> QED
    BY <2>3, <2>4
<1>9. Cardinality(Confirming') <= MaxConfirms
  <2>1. step # "confirming"
    OBVIOUS
  <2>2. Confirming' \subseteq Confirming
    BY <1>2, <1>3, <2>1 DEF Confirming
  <2>3. IsFiniteSet(Confirming)
    BY <1>5, FS_Subset DEF Confirming
  <2>4. /\ Cardinality(Confirming') \in Nat /\ Cardinality(Confirming) \in Nat
        /\ Cardinality(Confirming') <= Cardinality(Confirming)
    BY <2>2, <2>3, FS_Subset, FS_CardinalityType
  <2> QED
    BY <1>5, <2>4, TargetsAreFinite
<1>10. \A one \in running' :
            /\ one.step = "stuck" => closed'
            /\ one.step = "confirming" => one.target \in Profiles
  <2>1. new.step = "stuck" => closed
    BY <1>2
  <2>2. new.step # "confirming"
    BY <1>2
  <2> QED
    BY <1>3, <1>5, <2>1, <2>2
<1>11. Occupied'
  BY <1>6, <1>7, <1>8, <1>9, <1>10 DEF Occupied
<1>12. Entered'
  <2>1. new.step = "measured" /\ ~closed /\ new.target \in catalog => new.target \in readings'
    BY <1>2
  <2> QED
    BY <1>3, <2>1 DEF PipelineInv, Entered
<1> QED
  BY <1>4, <1>11, <1>12 DEF PipelineInv

\* Jobs leave the slots, and everything else stays.
LEMMA SlotsShrink ==
    ASSUME PipelineInv, running' \subseteq running, queued' = queued, catalog' = catalog,
           prunes' = prunes, closed' = closed, pumps' \in Nat, readings' = readings
    PROVE  PipelineInv'
<1>1. TypeOK'
  BY DEF PipelineInv, TypeOK
<1>2. /\ IsFiniteSet(running) /\ Cardinality(Pumped) <= Cap
      /\ Cardinality(Confirming) <= MaxConfirms
  BY DEF PipelineInv, Occupied
<1>3. Pumped' \subseteq Pumped /\ Confirming' \subseteq Confirming
  BY DEF Pumped, Confirming
<1>4. IsFiniteSet(Pumped) /\ IsFiniteSet(Confirming) /\ IsFiniteSet(running')
  BY <1>2, FS_Subset DEF Pumped, Confirming
<1>5. Cardinality(Pumped') <= Cap
  BY <1>2, <1>3, <1>4, FS_Subset, FS_CardinalityType, TargetsAreFinite
<1>6. Cardinality(Confirming') <= MaxConfirms
  BY <1>2, <1>3, <1>4, FS_Subset, FS_CardinalityType, TargetsAreFinite
<1>7. Occupied'
  BY <1>4, <1>5, <1>6 DEF PipelineInv, Occupied, Waiting
<1>8. Entered'
  BY DEF PipelineInv, Entered
<1> QED
  BY <1>1, <1>7, <1>8 DEF PipelineInv

\* Jobs leave the queue, and the slots stay.
LEMMA QueueKeeps ==
    ASSUME PipelineInv, NEW targets, queued' = Retained(targets), running' = running,
           closed' = closed
    PROVE  queued' \in Seq(Job) /\ Occupied'
<1>1. /\ queued' \in Seq(Job) /\ Distinct(queued')
      /\ \A job \in Waiting' : job \in Waiting
  BY QueueShrinks DEF PipelineInv
<1>2. Occupied'
  BY <1>1 DEF PipelineInv, Occupied, Pumped, Confirming
<1> QED
  BY <1>1, <1>2

\* A confirmation takes a slot of its own, and its profile waits no more.
LEMMA StartNowKeeps ==
    ASSUME PipelineInv, NEW profile \in Profiles, StartNow(profile)
    PROVE  PipelineInv'
<1> DEFINE new == [token |-> FreshToken, target |-> profile, step |-> "confirming"]
<1>1. profile \in Target
  BY DEF Target
<1>2. /\ new \in [token : Token, target : Target, step : Step]
      /\ new.target = profile /\ new.step = "confirming"
  BY <1>1, FreshIsToken DEF PipelineInv, StartNow, Step
<1>3. /\ running' = running \cup {new}
      /\ queued' = Retained(Target \ {profile})
      /\ Cardinality(Confirming) < MaxConfirms
      /\ ~closed /\ closed' = closed /\ catalog' = catalog /\ readings' = readings
      /\ pumps' = pumps /\ prunes' = prunes
  BY DEF StartNow
<1> HIDE DEF new
<1>4. /\ queued' \in Seq(Job) /\ Distinct(queued')
      /\ \A job \in Waiting' : job \in Waiting /\ job.target \in Target \ {profile}
  BY <1>3, QueueShrinks DEF PipelineInv
<1>5. TypeOK'
  BY <1>2, <1>3, <1>4 DEF PipelineInv, TypeOK
<1>6. IsFiniteSet(running) /\ IsFiniteSet(running \cup {new}) /\ IsFiniteSet(Confirming)
  BY FS_AddElement, FS_Subset DEF PipelineInv, Occupied, Confirming
<1>7. Pumped' = Pumped
  BY <1>2, <1>3 DEF Pumped
<1>8. Cardinality(Confirming') <= MaxConfirms
  <2>1. Confirming' = Confirming \cup {new}
    BY <1>2, <1>3 DEF Confirming
  <2>2. Cardinality(Confirming) \in Nat /\ MaxConfirms \in Nat
    BY <1>6, FS_CardinalityType, TargetsAreFinite
  <2>3. Cardinality(Confirming \cup {new}) <= Cardinality(Confirming) + 1
    <3>1. Cardinality(Confirming \cup {new}) =
            IF new \in Confirming THEN Cardinality(Confirming) ELSE Cardinality(Confirming) + 1
      BY <1>6, FS_AddElement
    <3> QED
      BY <2>2, <3>1
  <2>4. Cardinality(Confirming \cup {new}) \in Nat
    BY <1>6, FS_AddElement, FS_CardinalityType
  <2> QED
    BY <1>3, <2>1, <2>2, <2>3, <2>4
<1>9. \A job \in Waiting', other \in running' : job.target # other.target
  BY <1>2, <1>3, <1>4 DEF PipelineInv, Occupied
<1>10. \A job \in running' :
        /\ job.step = "stuck" => closed'
        /\ job.step = "confirming" => job.target \in Profiles
  BY <1>2, <1>3 DEF PipelineInv, Occupied
<1>11. Occupied'
  BY <1>3, <1>4, <1>6, <1>7, <1>8, <1>9, <1>10 DEF PipelineInv, Occupied
<1>12. Entered'
  BY <1>2, <1>3 DEF PipelineInv, Entered
<1> QED
  BY <1>5, <1>11, <1>12 DEF PipelineInv

\* Nothing waits and nothing runs at first.
LEMMA PipelineInvInit == Init => PipelineInv
<1> SUFFICES ASSUME Init PROVE PipelineInv
  OBVIOUS
<1>1. queued = <<>> /\ running = {} /\ catalog = Servers /\ readings = {}
      /\ \A p \in Pruners : prunes[p].step = "idle"
  BY DEF Init
<1>2. Len(queued) = 0 /\ \A i \in 1 .. Len(queued) : FALSE
  BY <1>1
<1>3. TypeOK
  <2>1. /\ closed \in BOOLEAN /\ catalog \in SUBSET Servers /\ readings \in SUBSET Servers
        /\ running \in SUBSET [token : Token, target : Target, step : Step]
        /\ queued \in Seq(Job) /\ pumps \in Nat
    <3>1. queued \in Seq(Job)
      BY <1>1
    <3>2. running \in SUBSET [token : Token, target : Target, step : Step]
      BY <1>1
    <3> QED
      BY <3>1, <3>2 DEF Init
  <2>2. [step |-> "idle", alive |-> {}] \in
            [step : {"idle", "capture", "readings", "queue"}, alive : SUBSET Servers]
    OBVIOUS
  <2>3. prunes \in [Pruners -> [step : {"idle", "capture", "readings", "queue"},
                               alive : SUBSET Servers]]
    BY <2>2 DEF Init
  <2> QED
    BY <2>1, <2>3 DEF TypeOK
<1>4. Pumped = {} /\ Confirming = {} /\ Waiting = {}
  BY <1>1, <1>2 DEF Pumped, Confirming, Waiting
<1>5. IsFiniteSet({}) /\ Cardinality({}) = 0
  BY FS_EmptySet
<1>6. Cardinality(Pumped) <= Cap
  BY <1>4, <1>5, TargetsAreFinite
<1>7. Cardinality(Confirming) <= MaxConfirms
  BY <1>4, <1>5, TargetsAreFinite
<1>8. Occupied
  BY <1>1, <1>2, <1>4, <1>5, <1>6, <1>7 DEF Occupied, Distinct
<1>9. Entered
  BY <1>1 DEF Entered
<1> QED
  BY <1>3, <1>8, <1>9 DEF PipelineInv

\* Steps that leave the queue and the slots alone.
LEMMA BesideKeeps ==
    ASSUME PipelineInv, UNCHANGED <<running, queued>>, TypeOK', Entered',
           closed => closed'
    PROVE  PipelineInv'
  BY DEF PipelineInv, Occupied, Waiting, Pumped, Confirming

\* A caller that edits the catalog, and prunes what its servers left, step by step.
LEMMA PruneKeeps ==
    ASSUME PipelineInv, NEW p \in Pruners,
           \/ \E servers \in SUBSET Servers : Edit(p, servers)
           \/ CaptureAlive(p) \/ PruneReadings(p) \/ PruneQueue(p)
    PROVE  PipelineInv'
<1> USE DEF PipelineInv
<1>1. TypeOK /\ Entered
  OBVIOUS
<1>2. ASSUME NEW servers \in SUBSET Servers, Edit(p, servers) PROVE PipelineInv'
  <2>1. TypeOK'
    BY <1>1, <1>2 DEF Edit, TypeOK
  <2>2. Entered'
    BY <1>1, <1>2 DEF Edit, TypeOK, Entered
  <2> QED
    BY <1>2, <2>1, <2>2, BesideKeeps DEF Edit
<1>3. CASE CaptureAlive(p)
  <2>1. TypeOK'
    BY <1>1, <1>3 DEF CaptureAlive, TypeOK
  <2>2. Entered'
    BY <1>1, <1>3 DEF CaptureAlive, TypeOK, Entered
  <2> QED
    BY <1>3, <2>1, <2>2, BesideKeeps DEF CaptureAlive
<1>4. CASE PruneReadings(p)
  <2>1. TypeOK'
    BY <1>1, <1>4 DEF PruneReadings, TypeOK
  <2>2. Entered'
    BY <1>1, <1>4 DEF PruneReadings, TypeOK, Entered
  <2> QED
    BY <1>4, <2>1, <2>2, BesideKeeps DEF PruneReadings
<1>5. CASE PruneQueue(p)
  <2>1. PICK kept \in SUBSET Profiles : queued' = Retained(kept \cup prunes[p].alive)
    BY <1>5 DEF PruneQueue
  <2>2. queued' \in Seq(Job) /\ Occupied'
    BY <1>5, <2>1, QueueKeeps DEF PruneQueue
  <2>3. TypeOK'
    BY <1>1, <1>5, <2>2 DEF PruneQueue, TypeOK
  <2>4. Entered'
    BY <1>1, <1>5 DEF PruneQueue, TypeOK, Entered
  <2> QED
    BY <2>2, <2>3, <2>4
<1> QED
  BY <1>2, <1>3, <1>4, <1>5

\* A job that runs, step by step, until its slot is free again.
LEMMA JobKeeps ==
    ASSUME PipelineInv, NEW job \in running,
           Spawn(job) \/ Measure(job) \/ Finish(job) \/ ConfirmEnds(job)
    PROVE  PipelineInv'
<1>1. TypeOK
  BY DEF PipelineInv
<1>2. CASE Spawn(job)
  <2> DEFINE step == IF closed THEN "stuck" ELSE "measuring"
  <2>1. step \in Step /\ job \in Pumped
    BY <1>2 DEF Spawn, Step, Pumped
  <2>2. pumps' \in Nat
    BY <1>1, <1>2 DEF Spawn, TypeOK
  <2>3. (step = "stuck" /\ closed) \/ step = "measuring"
    OBVIOUS
  <2>4. running' = At(job, step)
    BY <1>2 DEF Spawn
  <2> HIDE DEF step
  <2> QED
    BY <1>1, <1>2, <2>1, <2>2, <2>3, <2>4, AtKeeps DEF Spawn, TypeOK
<1>3. CASE Measure(job)
  <2>1. job \in Pumped /\ "measured" \in Step /\ "stuck" \in Step /\ pumps' \in Nat
    BY <1>1, <1>3 DEF Measure, Step, Pumped, TypeOK
  <2>2. readings \subseteq readings' /\ readings' \in SUBSET Servers
    BY <1>1, <1>3 DEF Measure, TypeOK
  <2>3. ~closed /\ job.target \in catalog => job.target \in readings'
    BY <1>1, <1>3 DEF Measure, TypeOK
  <2>4. CASE running' = At(job, "measured")
    BY <1>3, <2>1, <2>2, <2>3, <2>4, AtKeeps DEF Measure
  <2>5. CASE closed /\ running' = At(job, "stuck")
    BY <1>3, <2>1, <2>2, <2>3, <2>5, AtKeeps DEF Measure
  <2> QED
    BY <1>3, <2>4, <2>5 DEF Measure
<1>4. CASE Finish(job)
  <2>1. running' \subseteq running /\ pumps' \in Nat
    BY <1>1, <1>4 DEF Finish, TypeOK
  <2> QED
    BY <1>4, <2>1, SlotsShrink DEF Finish
<1>5. CASE ConfirmEnds(job)
  <2>1. pumps' \in Nat /\ "stuck" \in Step
    BY <1>1, <1>5 DEF ConfirmEnds, TypeOK, Step
  <2>2. CASE running' = running \ {job}
    BY <1>5, <2>1, <2>2, SlotsShrink DEF ConfirmEnds
  <2>3. CASE closed /\ running' = At(job, "stuck")
    <3>1. readings \subseteq readings' /\ readings' \in SUBSET Servers
      BY <1>1, <1>5 DEF ConfirmEnds, TypeOK
    <3> QED
      BY <1>5, <2>1, <2>3, <3>1, AtKeeps DEF ConfirmEnds
  <2> QED
    BY <1>5, <2>2, <2>3 DEF ConfirmEnds
<1> QED
  BY <1>2, <1>3, <1>4, <1>5

\* Every step of the pipeline keeps the invariant.
LEMMA PipelineInvStep == PipelineInv /\ [Next]_vars => PipelineInv'
<1> SUFFICES ASSUME PipelineInv, [Next]_vars PROVE PipelineInv'
  OBVIOUS
<1>1. TypeOK /\ Occupied /\ Entered
  BY DEF PipelineInv
<1>2. CASE PumpReturns
  <2>1. running' \subseteq running /\ pumps' \in Nat
    BY <1>1, <1>2 DEF PumpReturns, TypeOK
  <2> QED
    BY <1>2, <2>1, SlotsShrink DEF PumpReturns
<1>3. ASSUME NEW servers \in SUBSET Servers, Cancel(servers) PROVE PipelineInv'
  <2>1. queued' \in Seq(Job) /\ Occupied'
    BY <1>3, QueueKeeps DEF Cancel
  <2>2. TypeOK'
    BY <1>1, <1>3, <2>1 DEF Cancel, TypeOK
  <2>3. Entered'
    BY <1>1, <1>3 DEF Cancel, Entered
  <2> QED
    BY <2>1, <2>2, <2>3 DEF PipelineInv
<1>4. CASE BeginTerminal
  <2>1. queued' = <<>> /\ Len(queued') = 0 /\ \A i \in 1 .. Len(queued') : FALSE
    BY <1>4 DEF BeginTerminal
  <2>2. TypeOK'
    BY <1>1, <1>4 DEF BeginTerminal, TypeOK
  <2>3. Occupied'
    BY <1>1, <1>4, <2>1 DEF BeginTerminal, Occupied, Distinct, Waiting, Pumped, Confirming
  <2>4. Entered'
    BY <1>1, <1>4 DEF BeginTerminal, Entered
  <2> QED
    BY <2>2, <2>3, <2>4 DEF PipelineInv
<1>5. CASE Clear
  <2>1. running' \subseteq running /\ pumps' \in Nat
    BY <1>1, <1>5 DEF Clear, TypeOK
  <2> QED
    BY <1>5, <2>1, SlotsShrink DEF Clear
<1>6. CASE Work
  BY <1>2, <1>6, PumpStartsKeeps, JobKeeps, PruneKeeps DEF Work
<1>7. CASE UNCHANGED vars
  BY <1>1, <1>7 DEF vars, PipelineInv, TypeOK, Occupied, Entered, Waiting, Pumped, Confirming
<1>8. ASSUME NEW target \in Target, Request(target) PROVE PipelineInv'
  BY <1>8, RequestKeeps
<1>9. ASSUME NEW profile \in Profiles, StartNow(profile) PROVE PipelineInv'
  BY <1>9, StartNowKeeps
<1>10. ASSUME NEW p \in Pruners, NEW servers \in SUBSET Servers, Edit(p, servers)
       PROVE PipelineInv'
  BY <1>10, PruneKeeps
<1> QED
  BY <1>3, <1>4, <1>5, <1>6, <1>7, <1>8, <1>9, <1>10 DEF Next

-----------------------------------------------------------------------------
\* What holds of the pipeline

\* Every variable keeps its type. A job always gets a token that no other job has: while
\* the daemon runs there are fewer jobs than targets, slots and confirmations.
THEOREM TypesHold == Spec => []TypeOK
<1>1. PipelineInv => TypeOK
  BY DEF PipelineInv
<1> QED
  BY <1>1, PipelineInvInit, PipelineInvStep, PTL DEF Spec

\* No target waits twice or waits while it is measured, and the pump keeps to
\* MAX_CONCURRENT_PROBES (enqueue, start_now, start_next), for any servers, profiles,
\* handlers, cap and number of confirmations.
THEOREM ChecksStayBounded == Spec => []ChecksAreBounded
<1>1. PipelineInv => ChecksAreBounded
  <2> SUFFICES ASSUME PipelineInv PROVE ChecksAreBounded
    OBVIOUS
  <2>1. Cardinality({job.target : job \in Waiting}) = Len(queued)
    BY WaitingCounted DEF PipelineInv, TypeOK, Occupied
  <2>2. WaitsOnce
    BY <2>1 DEF PipelineInv, Occupied, WaitsOnce
  <2>3. PumpedWithinCap
    BY DEF PipelineInv, Occupied, PumpedWithinCap, Pumped
  <2> QED
    BY <2>2, <2>3 DEF ChecksAreBounded
<1> QED
  BY <1>1, PipelineInvInit, PipelineInvStep, PTL DEF Spec

\* A job that goes on is still held.
LEMMA AtHolds ==
    ASSUME TypeOK, NEW job \in running, NEW step \in Step, running' = At(job, step),
           queued' = queued, NEW s, Holds(s)
    PROVE  Holds(s)'
<1>1. [job EXCEPT !.step = step].target = job.target
  BY DEF TypeOK
<1>2. \A one \in running : \E other \in running' : other.target = one.target
  BY <1>1 DEF At
<1>3. Waiting' = Waiting
  BY DEF Waiting
<1> QED
  BY <1>2, <1>3 DEF Holds

\* A server whose check leaves the queue and the slots has an entry.
LEMMA DepartureStep ==
    ASSUME PipelineInv, [Next]_vars, NEW s \in Servers, Holds(s), ~Holds(s)', ~closed',
           s \in catalog
    PROVE  s \in readings'
<1>1. TypeOK /\ Occupied /\ Entered /\ s \notin Profiles /\ s \in Target
  BY TargetsAreFinite DEF PipelineInv, Target
<1>2. PICK job \in running \cup Waiting : job.target = s
  BY DEF Holds
<1>3. ~(running \subseteq running' /\ Waiting \subseteq Waiting')
  BY <1>2 DEF Holds
<1>4. ~(UNCHANGED <<running, queued>>)
  BY <1>3 DEF Waiting
<1>5. ASSUME NEW target \in Target, Request(target) PROVE FALSE
  <2>1. Waiting \subseteq Waiting'
    <3>1. /\ queued \in Seq(Job) /\ Len(queued) \in Nat
          /\ queued' = Append(queued, [token |-> FreshToken, target |-> target])
      BY <1>1, <1>5 DEF Request, TypeOK
    <3>2. /\ Len(queued') = Len(queued) + 1
          /\ \A i \in 1 .. Len(queued) : queued'[i] = queued[i] /\ i \in 1 .. Len(queued')
      BY <3>1
    <3> QED
      BY <3>2 DEF Waiting
  <2> QED
    BY <1>3, <1>5, <2>1 DEF Request
<1>6. ASSUME PumpStarts PROVE FALSE
  <2>1. /\ queued \in Seq(Job) /\ queued # <<>> /\ queued' = Tail(queued)
        /\ Head(queued) = queued[1]
    BY <1>1, <1>6 DEF TypeOK, PumpStarts, Startable
  <2>2. \A i \in 1 .. Len(queued) :
            i # 1 => i - 1 \in 1 .. Len(queued') /\ queued'[i - 1] = queued[i]
    BY <2>1
  <2>3. job \in running => Holds(s)'
    BY <1>2, <1>6 DEF PumpStarts, Holds
  <2>4. job \in Waiting => Holds(s)'
    <3> SUFFICES ASSUME job \in Waiting PROVE Holds(s)'
      OBVIOUS
    <3>1. PICK i \in 1 .. Len(queued) : job = queued[i]
      BY DEF Waiting
    <3>2. CASE i = 1
      <4> DEFINE new == [token |-> Head(queued).token, target |-> Head(queued).target,
                         step |-> "starting"]
      <4>1. new \in running' /\ new.target = s
        BY <1>2, <1>6, <2>1, <3>1, <3>2 DEF PumpStarts
      <4> HIDE DEF new
      <4> QED
        BY <4>1 DEF Holds
    <3>3. CASE i # 1
      <4>1. job \in Waiting'
        BY <2>2, <3>1, <3>3 DEF Waiting
      <4> QED
        BY <1>2, <4>1 DEF Holds
    <3> QED
      BY <3>2, <3>3
  <2> QED
    BY <1>2, <2>3, <2>4
<1>7. ASSUME NEW one \in running, Spawn(one) \/ Measure(one) PROVE FALSE
  <2>1. queued' = queued /\ \E step \in Step : running' = At(one, step)
    BY <1>7 DEF Spawn, Measure, Step
  <2> QED
    BY <1>1, <2>1, AtHolds
<1>8. ASSUME NEW one \in running, Finish(one) PROVE s \in readings'
  <2>1. job = one
    <3>1. Waiting' = Waiting /\ running' = running \ {one}
      BY <1>8 DEF Finish, Waiting
    <3> QED
      BY <1>2, <3>1 DEF Holds
  <2> QED
    BY <1>1, <1>2, <1>8, <2>1 DEF Finish, Entered
<1>9. ASSUME NEW one \in running, ConfirmEnds(one) PROVE FALSE
  <2>1. Waiting' = Waiting /\ running' = running \ {one}
    BY <1>9 DEF ConfirmEnds, Waiting
  <2>2. job = one
    BY <1>2, <2>1 DEF Holds
  <2>3. one.target \in Profiles
    BY <1>1, <1>9 DEF ConfirmEnds, Confirming, Occupied
  <2> QED
    BY <1>1, <1>2, <2>2, <2>3
<1>10. ASSUME NEW profile \in Profiles, StartNow(profile) PROVE FALSE
  <2>1. /\ queued' = Retained(Target \ {profile}) /\ running \subseteq running'
        /\ s \in Target \ {profile}
    BY <1>1, <1>10 DEF StartNow
  <2>2. job \in Waiting => job \in Waiting'
    BY <1>1, <1>2, <2>1, QueueShrinks
  <2> QED
    BY <1>2, <2>1, <2>2 DEF Holds
<1>11. ASSUME NEW servers \in SUBSET Servers, Cancel(servers) PROVE s \in readings'
  <2>1. /\ queued' = Retained(Target \ servers) /\ running' = running
    BY <1>11 DEF Cancel
  <2>2. job \in Waiting /\ job \notin Waiting'
    BY <1>2, <2>1 DEF Holds
  <2>3. s \in servers
    BY <1>1, <1>2, <2>1, <2>2, QueueShrinks
  <2> QED
    BY <1>2, <1>11, <2>2, <2>3 DEF Cancel
<1>12. ASSUME NEW p \in Pruners, PruneQueue(p) PROVE FALSE
  <2>1. PICK kept \in SUBSET Profiles : queued' = Retained(kept \cup prunes[p].alive)
    BY <1>12 DEF PruneQueue
  <2>2. job \in Waiting /\ job \notin Waiting'
    BY <1>2, <1>12 DEF Holds, PruneQueue
  <2>3. s \in prunes[p].alive
    BY <1>1, <1>12 DEF PruneQueue, Entered
  <2> QED
    BY <1>1, <1>2, <2>1, <2>2, <2>3, QueueShrinks
<1>13. ASSUME BeginTerminal \/ Clear PROVE FALSE
  BY <1>13 DEF BeginTerminal, Clear
<1>14. ASSUME PumpReturns PROVE FALSE
  BY <1>4, <1>14 DEF PumpReturns
<1>15. ASSUME NEW p \in Pruners,
              \/ \E servers \in SUBSET Servers : Edit(p, servers)
              \/ CaptureAlive(p) \/ PruneReadings(p)
       PROVE  FALSE
  BY <1>4, <1>15 DEF Edit, CaptureAlive, PruneReadings
<1>16. CASE UNCHANGED vars
  BY <1>4, <1>16 DEF vars
<1>17. CASE Work
  BY <1>6, <1>7, <1>8, <1>9, <1>12, <1>14, <1>15, <1>17 DEF Work
<1> QED
  BY <1>5, <1>10, <1>11, <1>13, <1>15, <1>16, <1>17 DEF Next

\* A check of a server of the catalog never leaves the pipeline without a trace, by
\* whatever route it leaves (finish, cancel_probes, retain_alive), however many prunes,
\* cancellations and confirmations run beside it.
THEOREM DeparturesLeaveReadings == Spec => DepartureLeavesReading
<1>1. PipelineInv /\ [Next]_vars =>
        [\A s \in Servers :
            Holds(s) /\ ~Holds(s)' /\ ~closed' /\ s \in catalog => s \in readings']_vars
  BY DepartureStep
<1> QED
  BY <1>1, PipelineInvInit, PipelineInvStep, PTL DEF Spec, DepartureLeavesReading

-----------------------------------------------------------------------------
-----------------------------------------------------------------------------
\* Sequences

Elements(s) == {s[i] : i \in 1 .. Len(s)}

\* No two places hold the same.
Plain(s) == \A i, j \in 1 .. Len(s) : s[i] = s[j] => i = j

\* The records are in the order of their moments.
Timely(s) == \A i, j \in 1 .. Len(s) : i < j => s[i].at <= s[j].at

\* They have one number after the other.
Numbered(s) == \A i \in 1 .. Len(s) : s[i].seq = s[1].seq + (i - 1)

\* t leaves out some of s.
Thins(t, s) ==
    \E e \in [1 .. Len(t) -> 1 .. Len(s)] :
        /\ \A i \in 1 .. Len(t) : t[i] = s[e[i]]
        /\ \A i, j \in 1 .. Len(t) : i < j => e[i] < e[j]

\* What is thinned stays plain and in order.
LEMMA ThinnedKeeps ==
    ASSUME NEW V, NEW s \in Seq(V), NEW t \in Seq(V), Thins(t, s)
    PROVE  /\ Elements(t) \subseteq Elements(s)
           /\ Plain(s) => Plain(t)
           /\ Timely(s) => Timely(t)
<1>1. PICK e \in [1 .. Len(t) -> 1 .. Len(s)] :
        /\ \A i \in 1 .. Len(t) : t[i] = s[e[i]]
        /\ \A i, j \in 1 .. Len(t) : i < j => e[i] < e[j]
  BY DEF Thins
<1>2. Elements(t) \subseteq Elements(s)
  BY <1>1 DEF Elements
<1>3. ASSUME Plain(s), NEW i \in 1 .. Len(t), NEW j \in 1 .. Len(t), t[i] = t[j] PROVE i = j
  <2>1. e[i] = e[j]
    BY <1>1, <1>3 DEF Plain
  <2>2. e[i] \in Int /\ e[j] \in Int /\ ~(e[i] < e[j]) /\ ~(e[j] < e[i])
    BY <2>1
  <2> QED
    BY <1>1, <2>2
<1>4. ASSUME Timely(s), NEW i \in 1 .. Len(t), NEW j \in 1 .. Len(t), i < j PROVE t[i].at <= t[j].at
  BY <1>1, <1>4 DEF Timely
<1> QED
  BY <1>2, <1>3, <1>4 DEF Plain, Timely

\* Two sequences after each other.
LEMMA JoinedIs ==
    ASSUME NEW V, NEW a \in Seq(V), NEW b \in Seq(V)
    PROVE  /\ a \o b \in Seq(V) /\ Len(a \o b) = Len(a) + Len(b)
           /\ Elements(a \o b) = Elements(a) \cup Elements(b)
           /\ Plain(a) /\ Plain(b) /\ (\A x \in Elements(a) : x \notin Elements(b)) => Plain(a \o b)
           /\ Timely(a) /\ Timely(b) /\ (\A x \in Elements(a), y \in Elements(b) : x.at <= y.at)
                => Timely(a \o b)
<1>1. PICK c \in Seq(V) :
        /\ c = a \o b /\ Len(c) = Len(a) + Len(b)
        /\ \A i \in 1 .. Len(a) + Len(b) : c[i] = IF i <= Len(a) THEN a[i] ELSE b[i - Len(a)]
  <2> DEFINE c == a \o b
  <2>1. /\ c \in Seq(V) /\ Len(c) = Len(a) + Len(b)
        /\ \A i \in 1 .. Len(a) + Len(b) : c[i] = IF i <= Len(a) THEN a[i] ELSE b[i - Len(a)]
    BY ConcatProperties
  <2>2. c = a \o b
    OBVIOUS
  <2> HIDE DEF c
  <2> QED
    BY <2>1, <2>2
<1>2. PICK m \in Nat, n \in Nat : m = Len(a) /\ n = Len(b)
  OBVIOUS
<1>3. \A i \in 1 .. m : i \in 1 .. Len(c) /\ c[i] = a[i]
  BY <1>1, <1>2
<1>4. \A i \in 1 .. n : m + i \in 1 .. Len(c) /\ c[m + i] = b[i]
  <2> SUFFICES ASSUME NEW i \in 1 .. n PROVE m + i \in 1 .. Len(c) /\ c[m + i] = b[i]
    OBVIOUS
  <2>1. m + i \in 1 .. m + n /\ ~(m + i <= m) /\ (m + i) - m = i
    BY <1>2
  <2> QED
    BY <1>1, <1>2, <2>1
<1>5. \A i \in 1 .. Len(c) : i \in 1 .. m \/ \E k \in 1 .. n : i = m + k
  <2> SUFFICES ASSUME NEW i \in 1 .. Len(c), i \notin 1 .. m PROVE \E k \in 1 .. n : i = m + k
    OBVIOUS
  <2>1. i - m \in 1 .. n /\ i = m + (i - m)
    BY <1>1, <1>2
  <2> QED
    BY <2>1
<1>6. Elements(c) = Elements(a) \cup Elements(b)
  <2>1. Elements(c) \subseteq Elements(a) \cup Elements(b)
    BY <1>2, <1>3, <1>4, <1>5 DEF Elements
  <2>2. Elements(a) \subseteq Elements(c)
    BY <1>2, <1>3 DEF Elements
  <2>3. Elements(b) \subseteq Elements(c)
    BY <1>2, <1>4 DEF Elements
  <2> QED
    BY <2>1, <2>2, <2>3
<1>7. ASSUME Plain(a), Plain(b), \A x \in Elements(a) : x \notin Elements(b) PROVE Plain(c)
  <2>1. \A i \in 1 .. m, k \in 1 .. n : a[i] # b[k]
    BY <1>2, <1>7 DEF Elements
  <2>2. ASSUME NEW i \in 1 .. Len(c), NEW j \in 1 .. Len(c), c[i] = c[j] PROVE i = j
    <3>1. CASE i \in 1 .. m /\ j \in 1 .. m
      BY <1>2, <1>3, <1>7, <2>2, <3>1 DEF Plain
    <3>2. ASSUME i \in 1 .. m, NEW k \in 1 .. n, j = m + k PROVE FALSE
      <4>1. c[i] = a[i] /\ c[j] = b[k]
        BY <1>3, <1>4, <3>2
      <4> QED
        BY <2>1, <2>2, <3>2, <4>1
    <3>3. ASSUME j \in 1 .. m, NEW k \in 1 .. n, i = m + k PROVE FALSE
      <4>1. c[j] = a[j] /\ c[i] = b[k]
        BY <1>3, <1>4, <3>3
      <4> QED
        BY <2>1, <2>2, <3>3, <4>1
    <3>4. ASSUME NEW k \in 1 .. n, NEW l \in 1 .. n, i = m + k, j = m + l PROVE i = j
      <4>1. b[k] = b[l]
        BY <1>4, <2>2, <3>4
      <4> QED
        BY <1>2, <1>7, <3>4, <4>1 DEF Plain
    <3> QED
      BY <1>5, <3>1, <3>2, <3>3, <3>4
  <2> QED
    BY <2>2 DEF Plain
<1>8. ASSUME Timely(a), Timely(b), \A x \in Elements(a), y \in Elements(b) : x.at <= y.at
      PROVE  Timely(c)
  <2>1. \A i \in 1 .. m, k \in 1 .. n : a[i].at <= b[k].at
    BY <1>2, <1>8 DEF Elements
  <2>2. ASSUME NEW i \in 1 .. Len(c), NEW j \in 1 .. Len(c), i < j PROVE c[i].at <= c[j].at
    <3>1. CASE i \in 1 .. m /\ j \in 1 .. m
      BY <1>2, <1>3, <1>8, <2>2, <3>1 DEF Timely
    <3>2. ASSUME i \in 1 .. m, NEW k \in 1 .. n, j = m + k PROVE c[i].at <= c[j].at
      <4>1. c[i] = a[i] /\ c[j] = b[k]
        BY <1>3, <1>4, <3>2
      <4> QED
        BY <2>1, <3>2, <4>1
    <3>3. ASSUME j \in 1 .. m, NEW k \in 1 .. n, i = m + k PROVE FALSE
      BY <2>2, <3>3
    <3>4. ASSUME NEW k \in 1 .. n, NEW l \in 1 .. n, i = m + k, j = m + l
          PROVE  c[i].at <= c[j].at
      <4>1. k < l
        BY <2>2, <3>4
      <4>2. b[k].at <= b[l].at
        BY <1>2, <1>8, <4>1 DEF Timely
      <4> QED
        BY <1>4, <3>4, <4>2
    <3> QED
      BY <1>5, <3>1, <3>2, <3>3, <3>4
  <2> QED
    BY <2>2 DEF Timely
<1> QED
  BY <1>1, <1>6, <1>7, <1>8

\* One element more.
LEMMA LongerIs ==
    ASSUME NEW V, NEW s \in Seq(V), NEW x \in V
    PROVE  /\ Append(s, x) \in Seq(V) /\ Len(Append(s, x)) = Len(s) + 1
           /\ Append(s, x)[Len(s) + 1] = x
           /\ \A i \in 1 .. Len(s) : Append(s, x)[i] = s[i]
OBVIOUS

\* A part of a sequence.
LEMMA PartIs ==
    ASSUME NEW V, NEW s \in Seq(V), NEW m \in Nat, NEW n \in Nat, m <= n, n <= Len(s)
    PROVE  /\ SubSeq(s, m + 1, n) \in Seq(V) /\ Len(SubSeq(s, m + 1, n)) = n - m
           /\ \A i \in 1 .. n - m : SubSeq(s, m + 1, n)[i] = s[m + i]
           /\ Thins(SubSeq(s, m + 1, n), s)
<1>1. PICK t \in Seq(V) :
        /\ t = SubSeq(s, m + 1, n) /\ Len(t) = n - m
        /\ \A i \in 1 .. n - m : t[i] = s[m + i]
  <2> DEFINE t == SubSeq(s, m + 1, n)
  <2>1. t = [i \in 1 .. n - m |-> s[i + m]]
    <3>1. /\ t = [i \in 1 .. (1 + n) - (m + 1) |-> s[(i + (m + 1)) - 1]]
      OBVIOUS
    <3>2. (1 + n) - (m + 1) = n - m
      OBVIOUS
    <3>3. \A i \in 1 .. n - m : (i + (m + 1)) - 1 = i + m
      OBVIOUS
    <3> QED
      BY <3>1, <3>2, <3>3
  <2>2. n - m \in Nat /\ \A i \in 1 .. n - m : i + m \in 1 .. Len(s) /\ s[i + m] \in V /\ i + m = m + i
    OBVIOUS
  <2>3. t \in [1 .. n - m -> V]
    BY <2>1, <2>2
  <2>4. \A i \in 1 .. n - m : t[i] = s[m + i]
    BY <2>1, <2>2
  <2> HIDE DEF t
  <2>5. t \in Seq(V) /\ Len(t) = n - m
    BY <2>2, <2>3
  <2> QED
    BY <2>4, <2>5 DEF t
<1>2. Thins(t, s)
  <2> DEFINE e == [i \in 1 .. Len(t) |-> m + i]
  <2>1. \A i \in 1 .. Len(t) : e[i] = m + i /\ m + i \in 1 .. Len(s)
    BY <1>1
  <2>2. e \in [1 .. Len(t) -> 1 .. Len(s)]
    BY <2>1
  <2>3. \A i, j \in 1 .. Len(t) : i < j => e[i] < e[j]
    BY <2>1
  <2> HIDE DEF e
  <2>4. \A i \in 1 .. Len(t) : t[i] = s[e[i]]
    BY <1>1, <2>1
  <2> QED
    BY <2>2, <2>3, <2>4 DEF Thins
<1> QED
  BY <1>1, <1>2

\* What fits of the end of a sequence.
LEMMA LastOfIs ==
    ASSUME NEW V, NEW s \in Seq(V), NEW n \in Nat
    PROVE  /\ LastOf(s, n) \in Seq(V) /\ Len(LastOf(s, n)) <= n
           /\ Thins(LastOf(s, n), s)
           /\ Len(s) <= n => LastOf(s, n) = s
           /\ Len(s) >= n => Len(LastOf(s, n)) = n
           /\ n # 0 /\ s # <<>> => LastOf(s, n) # <<>> /\ Final(LastOf(s, n)) = Final(s)
           /\ Numbered(s) /\ (\A i \in 1 .. Len(s) : s[i].seq \in Nat) => Numbered(LastOf(s, n))
<1>1. PICK l \in Nat : l = Len(s)
  OBVIOUS
<1>2. PICK m \in Nat : m = Monus(l, n) /\ m = (IF l > n THEN l - n ELSE 0)
  <2>1. Monus(l, n) \in Nat /\ Monus(l, n) = (IF l > n THEN l - n ELSE 0)
    BY DEF Monus
  <2> QED
    BY <2>1
<1>3. m <= l
  BY <1>2
<1>4. PICK t \in Seq(V) :
        /\ t = LastOf(s, n) /\ Len(t) = l - m
        /\ \A i \in 1 .. l - m : t[i] = s[m + i]
        /\ Thins(t, s)
  <2> DEFINE t == LastOf(s, n)
  <2>1. t = SubSeq(s, m + 1, l)
    BY <1>1, <1>2 DEF LastOf
  <2>2. /\ t \in Seq(V) /\ Len(t) = l - m /\ \A i \in 1 .. l - m : t[i] = s[m + i]
        /\ Thins(t, s)
    BY <1>1, <1>3, <2>1, PartIs
  <2>3. t = LastOf(s, n)
    OBVIOUS
  <2> HIDE DEF t
  <2> QED
    BY <2>2, <2>3
<1>5. Len(t) <= n
  BY <1>2, <1>4
<1>6. ASSUME l <= n PROVE t = s
  <2>1. m = 0 /\ Len(t) = Len(s)
    BY <1>1, <1>2, <1>4, <1>6
  <2>2. \A i \in 1 .. Len(s) : t[i] = s[i]
    BY <1>1, <1>4, <2>1
  <2> QED
    BY <2>1, <2>2, SeqEqual
<1>7. l >= n => Len(t) = n
  BY <1>2, <1>4
<1>8. ASSUME n # 0, s # <<>> PROVE t # <<>> /\ Final(t) = Final(s)
  <2>1. l - m \in 1 .. l - m /\ m + (l - m) = l /\ Len(t) # 0
    BY <1>1, <1>2, <1>4, <1>8
  <2> QED
    BY <1>1, <1>4, <2>1 DEF Final
<1>9. ASSUME Numbered(s), \A i \in 1 .. Len(s) : s[i].seq \in Nat PROVE Numbered(t)
  <2> SUFFICES ASSUME NEW i \in 1 .. Len(t) PROVE t[i].seq = t[1].seq + (i - 1)
    BY DEF Numbered
  <2>1. /\ i \in 1 .. l - m /\ 1 \in 1 .. l - m /\ m + i \in 1 .. l /\ m + 1 \in 1 .. l
        /\ 1 \in 1 .. l
    BY <1>3, <1>4
  <2>2. t[i] = s[m + i] /\ t[1] = s[m + 1]
    BY <1>4, <2>1
  <2>3. s[m + i].seq = s[1].seq + (m + i - 1) /\ s[m + 1].seq = s[1].seq + (m + 1 - 1)
    BY <1>1, <1>9, <2>1 DEF Numbered
  <2>4. PICK q \in Nat : q = s[1].seq
    BY <1>1, <1>9, <2>1
  <2>5. q + (m + i - 1) = (q + (m + 1 - 1)) + (i - 1)
    BY <2>1
  <2>6. t[i].seq = q + (m + i - 1) /\ t[1].seq = q + (m + 1 - 1)
    BY <2>2, <2>3, <2>4
  <2> QED
    BY <2>5, <2>6
<1> QED
  BY <1>1, <1>4, <1>5, <1>6, <1>7, <1>8, <1>9
-----------------------------------------------------------------------------
\* What is picked of a sequence

\* t is what s has at these positions, up to n.
Chosen(V, s, positions, n, t) ==
    /\ t \in Seq(V)
    /\ \E e \in [1 .. Len(t) -> 1 .. n] :
        /\ \A i \in 1 .. Len(t) : t[i] = s[e[i]] /\ e[i] \in positions
        /\ \A i, j \in 1 .. Len(t) : i < j => e[i] < e[j]
        /\ \A j \in 1 .. n : j \in positions => \E i \in 1 .. Len(t) : e[i] = j

\* One position more.
LEMMA ChosenNext ==
    ASSUME NEW V, NEW s \in Seq(V), NEW positions, NEW t, NEW n \in Nat, n + 1 <= Len(s),
           Chosen(V, s, positions, n, t)
    PROVE  Chosen(V, s, positions, n + 1, IF n + 1 \in positions THEN Append(t, s[n + 1]) ELSE t)
<1>1. PICK e \in [1 .. Len(t) -> 1 .. n] :
        /\ \A i \in 1 .. Len(t) : t[i] = s[e[i]] /\ e[i] \in positions
        /\ \A i, j \in 1 .. Len(t) : i < j => e[i] < e[j]
        /\ \A j \in 1 .. n : j \in positions => \E i \in 1 .. Len(t) : e[i] = j
  BY DEF Chosen
<1>2. t \in Seq(V) /\ Len(t) \in Nat
  BY DEF Chosen
<1>3. /\ \A j \in 1 .. n : j \in 1 .. n + 1 /\ j < n + 1
      /\ \A j \in 1 .. n + 1 : j = n + 1 \/ j \in 1 .. n
      /\ n + 1 \in 1 .. n + 1
  OBVIOUS
<1>4. CASE n + 1 \notin positions
  <2>1. e \in [1 .. Len(t) -> 1 .. n + 1]
    BY <1>3
  <2>2. \A j \in 1 .. n + 1 : j \in positions => \E i \in 1 .. Len(t) : e[i] = j
    BY <1>1, <1>3, <1>4
  <2>3. Chosen(V, s, positions, n + 1, t)
    BY <1>1, <1>2, <2>1, <2>2 DEF Chosen
  <2> QED
    BY <1>4, <2>3
<1>5. CASE n + 1 \in positions
  <2>1. PICK l \in Nat : l = Len(t)
    BY <1>2
  <2> DEFINE u == Append(t, s[n + 1])
             g == [i \in 1 .. l + 1 |-> IF i = l + 1 THEN n + 1 ELSE e[i]]
  <2>2. /\ u \in Seq(V) /\ Len(u) = l + 1 /\ u[l + 1] = s[n + 1]
        /\ \A i \in 1 .. l : u[i] = t[i]
    <3>1. s[n + 1] \in V
      BY ElementOfSeq
    <3> QED
      BY <1>2, <2>1, <3>1, LongerIs
  <2>3. \A i \in 1 .. l + 1 : i = l + 1 \/ (i \in 1 .. l /\ i # l + 1)
    BY <2>1
  <2>4. l + 1 \in 1 .. l + 1 /\ \A i \in 1 .. l : i \in 1 .. l + 1 /\ i # l + 1 /\ ~(l + 1 < i)
    BY <2>1
  <2>5. g[l + 1] = n + 1 /\ \A i \in 1 .. l : g[i] = e[i]
    BY <2>4
  <2>6. g \in [1 .. l + 1 -> 1 .. n + 1]
    <3>1. \A i \in 1 .. l : e[i] \in 1 .. n + 1
      BY <1>1, <1>3, <2>1
    <3> QED
      BY <1>3, <2>3, <3>1
  <2> HIDE DEF u, g
  <2>7. \A i \in 1 .. l + 1 : u[i] = s[g[i]] /\ g[i] \in positions
    BY <1>1, <1>5, <2>1, <2>2, <2>3, <2>5
  <2>8. ASSUME NEW i \in 1 .. l + 1, NEW j \in 1 .. l + 1, i < j PROVE g[i] < g[j]
    <3>1. i \in 1 .. l
      BY <2>1, <2>8
    <3>2. e[i] \in 1 .. n /\ g[i] = e[i]
      BY <1>1, <2>1, <2>5, <3>1
    <3>3. CASE j = l + 1
      BY <2>5, <3>2, <3>3
    <3>4. CASE j \in 1 .. l
      BY <1>1, <2>1, <2>5, <2>8, <3>1, <3>4
    <3> QED
      BY <2>3, <3>3, <3>4
  <2>9. \A j \in 1 .. n + 1 : j \in positions => \E i \in 1 .. l + 1 : g[i] = j
    <3>1. ASSUME NEW j \in 1 .. n, j \in positions PROVE \E i \in 1 .. l + 1 : g[i] = j
      <4>1. PICK i \in 1 .. l : e[i] = j
        BY <1>1, <2>1, <3>1
      <4> QED
        BY <2>4, <2>5, <4>1
    <3> QED
      BY <1>3, <2>4, <2>5, <3>1
  <2>10. Chosen(V, s, positions, n + 1, u)
    <3>1. 1 .. Len(u) = 1 .. l + 1
      BY <2>2
    <3>2. g \in [1 .. Len(u) -> 1 .. n + 1]
      BY <2>6, <3>1
    <3>3. /\ \A i \in 1 .. Len(u) : u[i] = s[g[i]] /\ g[i] \in positions
          /\ \A i, j \in 1 .. Len(u) : i < j => g[i] < g[j]
          /\ \A j \in 1 .. n + 1 : j \in positions => \E i \in 1 .. Len(u) : g[i] = j
      BY <2>7, <2>8, <2>9, <3>1
    <3> QED
      BY <2>2, <3>2, <3>3 DEF Chosen
  <2> QED
    BY <1>5, <2>10 DEF u
<1> QED
  BY <1>4, <1>5

\* Picked is the recursive function its definition writes.
LEMMA PickedBuilt ==
    ASSUME NEW V, NEW s \in Seq(V), NEW positions
    PROVE  \E picked :
             /\ picked[0] = <<>>
             /\ \A i \in 1 .. Len(s) :
                    picked[i] = IF i \in positions THEN Append(picked[i - 1], s[i])
                                ELSE picked[i - 1]
             /\ Picked(s, positions) = picked[Len(s)]
<1> DEFINE N == Len(s)
           W == Seq(V)
           G == [p \in W \X (1 .. N) |->
                    IF p[2] \in positions THEN Append(p[1], s[p[2]]) ELSE p[1]]
           picked == CHOOSE f : f = [n \in 0 .. N |->
                IF n = 0 THEN <<>>
                ELSE IF n \in positions THEN Append(f[n - 1], s[n])
                ELSE f[n - 1]]
<1>1. Picked(s, positions) = picked[N]
  BY DEF Picked
<1>2. Builds(W, <<>>, N, G)
  BY DEF Builds
<1>3. PICK f : Built(f, W, <<>>, N, G)
  BY <1>2, RecursionBuilds
<1>4. f = [n \in 0 .. N |->
                IF n = 0 THEN <<>>
                ELSE IF n \in positions THEN Append(f[n - 1], s[n])
                ELSE f[n - 1]]
  <2>1. N \in Nat /\ \A i \in 0 .. N : i # 0 => i \in 1 .. N /\ i - 1 \in 0 .. N
    OBVIOUS
  <2>2. /\ f \in [0 .. N -> W] /\ f[0] = <<>>
        /\ \A i \in 1 .. N : f[i] = G[<<f[i - 1], i>>]
    BY <1>3 DEF Built
  <2>3. \A i \in 1 .. N : f[i - 1] \in W
    BY <2>1, <2>2
  <2>4. \A i \in 1 .. N :
            G[<<f[i - 1], i>>] = IF i \in positions THEN Append(f[i - 1], s[i]) ELSE f[i - 1]
    BY <2>3
  <2> HIDE DEF G
  <2>5. \A i \in 0 .. N :
            f[i] = IF i = 0 THEN <<>>
                   ELSE IF i \in positions THEN Append(f[i - 1], s[i])
                   ELSE f[i - 1]
    BY <2>1, <2>2, <2>4
  <2> QED
    BY <2>2, <2>5
<1>5. picked = [n \in 0 .. N |->
                IF n = 0 THEN <<>>
                ELSE IF n \in positions THEN Append(picked[n - 1], s[n])
                ELSE picked[n - 1]]
  BY <1>4
<1>6. N \in Nat
  OBVIOUS
<1>7. /\ picked[0] = <<>>
      /\ \A i \in 1 .. N :
            picked[i] = IF i \in positions THEN Append(picked[i - 1], s[i]) ELSE picked[i - 1]
  <2> HIDE DEF picked, N
  <2>1. \A i \in 0 .. N :
            picked[i] = IF i = 0 THEN <<>>
                        ELSE IF i \in positions THEN Append(picked[i - 1], s[i])
                        ELSE picked[i - 1]
    BY <1>5
  <2> QED
    BY <1>6, <2>1
<1> HIDE DEF picked
<1> QED
  BY <1>1, <1>7

\* What is picked is what stands at the positions, in its order.
LEMMA PickedChosen ==
    ASSUME NEW V, NEW s \in Seq(V), NEW positions
    PROVE  Chosen(V, s, positions, Len(s), Picked(s, positions))
<1>1. PICK picked :
        /\ picked[0] = <<>>
        /\ \A i \in 1 .. Len(s) :
               picked[i] = IF i \in positions THEN Append(picked[i - 1], s[i]) ELSE picked[i - 1]
        /\ Picked(s, positions) = picked[Len(s)]
  BY PickedBuilt
<1> DEFINE S == {n \in Nat : n <= Len(s) => Chosen(V, s, positions, n, picked[n])}
<1>2. 0 \in S
  <2>1. Chosen(V, s, positions, 0, <<>>)
    <3> DEFINE e == [i \in 1 .. 0 |-> 0]
    <3>1. <<>> \in Seq(V) /\ Len(<<>>) = 0 /\ (\A i \in 1 .. 0 : FALSE) /\ e \in [1 .. 0 -> 1 .. 0]
      OBVIOUS
    <3> HIDE DEF e
    <3> QED
      BY <3>1 DEF Chosen
  <2> QED
    BY <1>1, <2>1
<1>3. ASSUME NEW n \in Nat, n \in S PROVE n + 1 \in S
  <2> SUFFICES ASSUME n + 1 <= Len(s) PROVE Chosen(V, s, positions, n + 1, picked[n + 1])
    OBVIOUS
  <2>1. Chosen(V, s, positions, n, picked[n])
    BY <1>3
  <2>2. n + 1 \in 1 .. Len(s) /\ n + 1 - 1 = n
    OBVIOUS
  <2>3. picked[n + 1] = IF n + 1 \in positions THEN Append(picked[n], s[n + 1]) ELSE picked[n]
    BY <1>1, <2>2
  <2>4. Chosen(V, s, positions, n + 1,
               IF n + 1 \in positions THEN Append(picked[n], s[n + 1]) ELSE picked[n])
    BY <2>1, ChosenNext
  <2> QED
    BY <2>3, <2>4
<1> HIDE DEF S
<1>4. Len(s) \in S
  BY <1>2, <1>3, NaturalSteps
<1> QED
  BY <1>1, <1>4 DEF S

\* What is picked, as a set, and that its order is kept.
LEMMA PickedIs ==
    ASSUME NEW V, NEW s \in Seq(V), NEW positions
    PROVE  /\ Picked(s, positions) \in Seq(V)
           /\ Thins(Picked(s, positions), s)
           /\ Elements(Picked(s, positions)) = {s[i] : i \in {j \in 1 .. Len(s) : j \in positions}}
<1>1. PICK t \in Seq(V) : t = Picked(s, positions) /\ Chosen(V, s, positions, Len(s), t)
  BY PickedChosen DEF Chosen
<1>2. PICK e \in [1 .. Len(t) -> 1 .. Len(s)] :
        /\ \A i \in 1 .. Len(t) : t[i] = s[e[i]] /\ e[i] \in positions
        /\ \A i, j \in 1 .. Len(t) : i < j => e[i] < e[j]
        /\ \A j \in 1 .. Len(s) : j \in positions => \E i \in 1 .. Len(t) : e[i] = j
  BY <1>1 DEF Chosen
<1>3. Thins(t, s)
  BY <1>2 DEF Thins
<1>4. ASSUME NEW i \in 1 .. Len(t) PROVE \E j \in 1 .. Len(s) : j \in positions /\ t[i] = s[j]
  BY <1>2
<1>5. ASSUME NEW j \in 1 .. Len(s), j \in positions PROVE \E i \in 1 .. Len(t) : t[i] = s[j]
  BY <1>2, <1>5
<1>6. Elements(t) = {s[i] : i \in {j \in 1 .. Len(s) : j \in positions}}
  <2> DEFINE all == {s[i] : i \in {j \in 1 .. Len(s) : j \in positions}}
  <2>1. ASSUME NEW x \in Elements(t) PROVE x \in all
    <3>1. PICK i \in 1 .. Len(t) : x = t[i]
      BY DEF Elements
    <3> QED
      BY <1>4, <3>1
  <2>2. ASSUME NEW x \in all PROVE x \in Elements(t)
    <3>1. PICK j \in 1 .. Len(s) : j \in positions /\ x = s[j]
      OBVIOUS
    <3> QED
      BY <1>5, <3>1 DEF Elements
  <2> QED
    BY <2>1, <2>2
<1> QED
  BY <1>1, <1>3, <1>6

\* The empty sequence has no elements.
LEMMA NoElements == Elements(<<>>) = {}
<1>1. Len(<<>>) = 0 /\ 1 .. 0 = {}
  OBVIOUS
<1> QED
  BY <1>1 DEF Elements

\* A sequence of no elements is empty; another has a first and a last one.
LEMMA EmptyIs ==
    ASSUME NEW V, NEW s \in Seq(V)
    PROVE  /\ Elements(s) = {} => s = <<>>
           /\ s # <<>> => Head(s) = s[1] /\ Head(s) \in Elements(s) /\ Final(s) \in Elements(s)
           /\ Elements(s) \subseteq V
<1>1. Elements(s) = {} => s = <<>>
  <2> SUFFICES ASSUME s # <<>> PROVE Elements(s) # {}
    OBVIOUS
  <2>1. 1 \in 1 .. Len(s)
    OBVIOUS
  <2> QED
    BY <2>1 DEF Elements
<1>3. ASSUME s # <<>>
      PROVE  Head(s) = s[1] /\ Head(s) \in Elements(s) /\ Final(s) \in Elements(s)
  <2>1. 1 \in 1 .. Len(s) /\ Len(s) \in 1 .. Len(s) /\ Head(s) = s[1]
    BY <1>3
  <2> QED
    BY <2>1 DEF Elements, Final
<1>4. Elements(s) \subseteq V
  <2>1. \A i \in 1 .. Len(s) : s[i] \in V
    BY ElementOfSeq
  <2> QED
    BY <2>1 DEF Elements
<1> QED
  BY <1>1, <1>3, <1>4

\* Numbers one after the other make each record another, the first the smallest and the
\* last the greatest.
LEMMA NumberedIs ==
    ASSUME NEW V, NEW s \in Seq(V), \A x \in Elements(s) : x.seq \in Nat, Numbered(s)
    PROVE  /\ Plain(s)
           /\ s # <<>> => /\ Final(s).seq = Head(s).seq + Len(s) - 1
                          /\ \A x \in Elements(s) : Head(s).seq <= x.seq /\ x.seq <= Final(s).seq
<1>1. PICK l \in Nat : l = Len(s)
  OBVIOUS
<1>2. CASE s = <<>>
  <2>1. Len(s) = 0 /\ 1 .. 0 = {}
    BY <1>2
  <2> QED
    BY <1>2, <2>1 DEF Plain
<1>3. CASE s # <<>>
  <2>1. 1 \in 1 .. l /\ l \in 1 .. l /\ Head(s) = s[1] /\ Head(s) \in Elements(s)
    BY <1>1, <1>3, EmptyIs
  <2>2. PICK q \in Nat : q = s[1].seq
    BY <2>1
  <2>3. \A i \in 1 .. l : s[i].seq = q + (i - 1)
    BY <1>1, <2>2 DEF Numbered
  <2>4. ASSUME NEW i \in 1 .. l, NEW j \in 1 .. l, s[i] = s[j] PROVE i = j
    <3>1. q + (i - 1) = q + (j - 1)
      BY <2>3, <2>4
    <3> QED
      BY ONLY <2>2, <2>4, <3>1
  <2>5. Final(s).seq = q + l - 1
    BY <1>1, <2>1, <2>3 DEF Final
  <2>6. ASSUME NEW i \in 1 .. l PROVE q <= s[i].seq /\ s[i].seq <= q + l - 1
    <3>1. q <= q + (i - 1) /\ q + (i - 1) <= q + l - 1
      BY ONLY <2>2, <2>6, <1>1
    <3> QED
      BY <2>3, <3>1
  <2>7. Head(s).seq = q
    BY <2>1, <2>2
  <2> QED
    BY <1>1, <2>4, <2>5, <2>6, <2>7 DEF Plain, Elements
<1> QED
  BY <1>2, <1>3

\* Numbers that go up one by one.
LEMMA StepsNumber ==
    ASSUME NEW V, NEW s \in Seq(V), \A x \in Elements(s) : x.seq \in Nat,
           \A i \in 1 .. Len(s) : i + 1 \in 1 .. Len(s) => s[i + 1].seq = s[i].seq + 1
    PROVE  Numbered(s)
<1>1. PICK l \in Nat : l = Len(s)
  OBVIOUS
<1>2. CASE l = 0
  BY <1>1, <1>2 DEF Numbered
<1>3. CASE l # 0
  <2>1. PICK q \in Nat : q = s[1].seq
    <3>1. 1 \in 1 .. l
      BY <1>3
    <3> QED
      BY <1>1, <3>1 DEF Elements
  <2> DEFINE S == {n \in Nat : n + 1 <= l => s[n + 1].seq = q + n}
  <2>2. 0 \in S
    BY <2>1
  <2>3. ASSUME NEW n \in Nat, n \in S PROVE n + 1 \in S
    <3> SUFFICES ASSUME n + 1 + 1 <= l PROVE s[n + 1 + 1].seq = q + (n + 1)
      OBVIOUS
    <3>1. n + 1 \in 1 .. l /\ n + 1 + 1 \in 1 .. l /\ n + 1 <= l
      BY <1>1
    <3>2. s[n + 1 + 1].seq = s[n + 1].seq + 1
      BY <1>1, <3>1
    <3>3. s[n + 1].seq = q + n
      BY <2>3, <3>1
    <3>4. (q + n) + 1 = q + (n + 1)
      BY <2>1
    <3> QED
      BY <3>2, <3>3, <3>4
  <2> HIDE DEF S
  <2>4. Nat \subseteq S
    BY <2>2, <2>3, NaturalSteps
  <2>5. ASSUME NEW i \in 1 .. l PROVE s[i].seq = q + (i - 1)
    <3>1. i - 1 \in Nat /\ (i - 1) + 1 = i /\ i <= l
      BY <1>1
    <3>2. i - 1 \in S
      BY <2>4, <3>1
    <3> QED
      BY <3>1, <3>2 DEF S
  <2> QED
    BY <1>1, <2>1, <2>5 DEF Numbered
<1> QED
  BY <1>2, <1>3

\* What a reader has not read yet, of a book in its order.
LEMMA BeyondIs ==
    ASSUME NEW V, NEW s \in Seq(V), NEW cursor \in Nat, \A x \in Elements(s) : x.seq \in Nat,
           Numbered(s)
    PROVE  /\ Beyond(s, cursor) \in Seq(V)
           /\ Thins(Beyond(s, cursor), s)
           /\ Elements(Beyond(s, cursor)) = {x \in Elements(s) : x.seq > cursor}
           /\ Numbered(Beyond(s, cursor))
<1> DEFINE P == {i \in 1 .. Len(s) : s[i].seq > cursor}
<1>1. PICK t \in Seq(V) : t = Beyond(s, cursor) /\ Chosen(V, s, P, Len(s), t)
  <2>1. Chosen(V, s, P, Len(s), Picked(s, P))
    BY PickedChosen
  <2> QED
    BY <2>1 DEF Beyond, Chosen
<1>2. PICK e \in [1 .. Len(t) -> 1 .. Len(s)] :
        /\ \A i \in 1 .. Len(t) : t[i] = s[e[i]] /\ e[i] \in P
        /\ \A i, j \in 1 .. Len(t) : i < j => e[i] < e[j]
        /\ \A j \in 1 .. Len(s) : j \in P => \E i \in 1 .. Len(t) : e[i] = j
  BY <1>1 DEF Chosen
<1>3. Thins(t, s)
  BY <1>2 DEF Thins
<1>4. Elements(t) = {x \in Elements(s) : x.seq > cursor}
  <2>1. ASSUME NEW x \in Elements(t) PROVE x \in Elements(s) /\ x.seq > cursor
    <3>1. PICK i \in 1 .. Len(t) : x = t[i]
      BY DEF Elements
    <3> QED
      BY <1>2, <3>1 DEF Elements
  <2>2. ASSUME NEW x \in Elements(s), x.seq > cursor PROVE x \in Elements(t)
    <3>1. PICK j \in 1 .. Len(s) : x = s[j]
      BY DEF Elements
    <3>2. PICK i \in 1 .. Len(t) : e[i] = j
      BY <1>2, <2>2, <3>1
    <3> QED
      BY <1>2, <3>1, <3>2 DEF Elements
  <2> QED
    BY <2>1, <2>2
<1>5. PICK l \in Nat, m \in Nat : l = Len(s) /\ m = Len(t)
  OBVIOUS
<1>6. \A i \in 1 .. l : s[i].seq \in Nat
  BY <1>5 DEF Elements
<1>7. \A i \in 1 .. l : i + 1 \in 1 .. l => s[i + 1].seq = s[i].seq + 1
  <2> SUFFICES ASSUME NEW i \in 1 .. l, i + 1 \in 1 .. l PROVE s[i + 1].seq = s[i].seq + 1
    OBVIOUS
  <2>1. PICK q \in Nat : q = s[1].seq
    BY <1>6, 1 \in 1 .. l
  <2>2. s[i].seq = q + (i - 1) /\ s[i + 1].seq = q + (i + 1 - 1)
    BY <1>5, <2>1 DEF Numbered
  <2>3. q + (i + 1 - 1) = (q + (i - 1)) + 1
    BY ONLY q \in Nat, l \in Nat, i \in 1 .. l
  <2> QED
    BY <2>2, <2>3
<1>8. ASSUME NEW i \in 1 .. m, i + 1 \in 1 .. m PROVE t[i + 1].seq = t[i].seq + 1
  <2>1. PICK a \in 1 .. l : a = e[i] /\ a \in P /\ t[i] = s[a]
    BY <1>2, <1>5
  <2>2. PICK b \in 1 .. l : b = e[i + 1] /\ t[i + 1] = s[b]
    BY <1>2, <1>5, <1>8
  <2>3. a < b
    BY <1>2, <1>5, <1>8, <2>1, <2>2
  <2>4. a + 1 \in 1 .. l /\ a + 1 <= b
    BY <1>5, <2>3
  <2>5. s[a + 1].seq = s[a].seq + 1 /\ s[a].seq \in Nat /\ s[a].seq > cursor
    BY <1>6, <1>7, <2>1, <2>4
  <2>6. a + 1 \in P
    BY <1>5, <2>4, <2>5
  <2>7. PICK j \in 1 .. m : e[j] = a + 1
    BY <1>2, <1>5, <2>4, <2>6
  <2>8. i < j
    <3>1. j < i => e[j] < e[i]
      BY <1>2, <1>5
    <3>2. ~(j < i) /\ j # i
      BY <2>1, <2>7, <3>1
    <3> QED
      BY <1>8, <3>2
  <2>9. ~(i + 1 < j)
    <3>1. i + 1 < j => e[i + 1] < e[j]
      BY <1>2, <1>5, <1>8
    <3> QED
      BY <2>2, <2>4, <2>7, <3>1
  <2>10. j = i + 1
    BY <2>8, <2>9
  <2> QED
    BY <2>1, <2>2, <2>5, <2>7, <2>10
<1>9. Numbered(t)
  <2>1. \A x \in Elements(t) : x.seq \in Nat
    BY <1>4
  <2> QED
    BY <1>5, <1>8, <2>1, StepsNumber
<1> QED
  BY <1>1, <1>3, <1>4, <1>9

\* The client's own records.
LEMMA OursIs ==
    ASSUME NEW V, NEW s \in Seq(V)
    PROVE  /\ Ours(s) \in Seq(V) /\ Thins(Ours(s), s)
           /\ Elements(Ours(s)) = {x \in Elements(s) : x.book = Own}
<1> DEFINE P == {i \in 1 .. Len(s) : s[i].book = Own}
<1>1. /\ Picked(s, P) \in Seq(V) /\ Thins(Picked(s, P), s)
      /\ Elements(Picked(s, P)) = {s[i] : i \in {j \in 1 .. Len(s) : j \in P}}
  BY PickedIs
<1>2. {s[i] : i \in {j \in 1 .. Len(s) : j \in P}} = {x \in Elements(s) : x.book = Own}
  BY DEF Elements
<1> QED
  BY <1>1, <1>2 DEF Ours

\* The records of moments.
Moments(V) == \A x \in V : x.at \in 0 .. MaxTime

\* ByTime is the recursive function its definition writes.
LEMMA SortedBuilt ==
    ASSUME NEW V, NEW s \in Seq(V)
    PROVE  \E sorted :
             /\ sorted[0] = <<>>
             /\ \A t \in 1 .. MaxTime + 1 :
                    sorted[t] = sorted[t - 1] \o Picked(s, {i \in 1 .. Len(s) : s[i].at = t - 1})
             /\ ByTime(s) = sorted[MaxTime + 1]
<1> DEFINE N == MaxTime + 1
           W == Seq(V)
           On(t) == Picked(s, {i \in 1 .. Len(s) : s[i].at = t - 1})
           G == [p \in W \X (1 .. N) |-> p[1] \o On(p[2])]
           sorted == CHOOSE f : f = [t \in 0 .. N |->
                IF t = 0 THEN <<>>
                ELSE f[t - 1] \o Picked(s, {i \in 1 .. Len(s) : s[i].at = t - 1})]
<1>1. ByTime(s) = sorted[N]
  BY DEF ByTime
<1>2. \A t \in 1 .. N : On(t) \in W
  <2> SUFFICES ASSUME NEW t \in 1 .. N PROVE On(t) \in W
    OBVIOUS
  <2> DEFINE P == {i \in 1 .. Len(s) : s[i].at = t - 1}
  <2> HIDE DEF P
  <2>1. Picked(s, P) \in W
    BY PickedIs
  <2> QED
    BY <2>1 DEF P
<1> HIDE DEF On
<1>3. Builds(W, <<>>, N, G)
  <2>1. N \in Nat
    BY FeedAssumption
  <2>2. <<>> \in W
    OBVIOUS
  <2>3. \A w \in W, t \in 1 .. N : w \o On(t) \in W
    BY <1>2, ConcatProperties
  <2>4. \A p \in W \X (1 .. N) : p[1] \o On(p[2]) \in W
    BY <2>3
  <2> QED
    BY <2>1, <2>2, <2>4 DEF Builds
<1>4. PICK f : Built(f, W, <<>>, N, G)
  BY <1>3, RecursionBuilds
<1>5. f = [t \in 0 .. N |-> IF t = 0 THEN <<>> ELSE f[t - 1] \o On(t)]
  <2>1. N \in Nat /\ \A t \in 0 .. N : t # 0 => t \in 1 .. N /\ t - 1 \in 0 .. N
    BY FeedAssumption
  <2>2. /\ f \in [0 .. N -> W] /\ f[0] = <<>>
        /\ \A t \in 1 .. N : f[t] = G[<<f[t - 1], t>>]
    BY <1>4 DEF Built
  <2>3. \A t \in 1 .. N : f[t - 1] \in W
    BY <2>1, <2>2
  <2>4. \A t \in 1 .. N : G[<<f[t - 1], t>>] = f[t - 1] \o On(t)
    BY <2>3
  <2> HIDE DEF G
  <2>5. \A t \in 0 .. N : f[t] = IF t = 0 THEN <<>> ELSE f[t - 1] \o On(t)
    BY <2>1, <2>2, <2>4
  <2> QED
    BY <2>2, <2>5
<1>6. sorted = [t \in 0 .. N |-> IF t = 0 THEN <<>> ELSE sorted[t - 1] \o On(t)]
  BY <1>5 DEF On
<1>7. N \in Nat
  BY FeedAssumption
<1>8. /\ sorted[0] = <<>>
      /\ \A t \in 1 .. N : sorted[t] = sorted[t - 1] \o On(t)
  <2> HIDE DEF sorted, N
  <2>1. \A t \in 0 .. N : sorted[t] = IF t = 0 THEN <<>> ELSE sorted[t - 1] \o On(t)
    BY <1>6
  <2>2. 0 \in 0 .. N /\ \A t \in 1 .. N : t \in 0 .. N /\ t # 0
    BY <1>7
  <2>3. sorted[0] = <<>>
    BY <2>1, <2>2
  <2>4. ASSUME NEW t \in 1 .. N PROVE sorted[t] = sorted[t - 1] \o On(t)
    BY <2>1, <2>2
  <2> QED
    BY <2>3, <2>4
<1> HIDE DEF sorted
<1> QED
  BY <1>1, <1>8 DEF On

\* What is sorted up to a moment.
Sorting(V, s, t, r) ==
    /\ r \in Seq(V) /\ Elements(r) = {x \in Elements(s) : x.at < t}
    /\ Timely(r) /\ (Plain(s) => Plain(r))

\* One moment more.
LEMMA SortingNext ==
    ASSUME NEW V, Moments(V), NEW s \in Seq(V), NEW t \in Nat, NEW r, Sorting(V, s, t, r)
    PROVE  Sorting(V, s, t + 1, r \o Picked(s, {i \in 1 .. Len(s) : s[i].at = t}))
<1> DEFINE P == {i \in 1 .. Len(s) : s[i].at = t}
<1>1. PICK p \in Seq(V) :
        /\ p = Picked(s, P) /\ Thins(p, s)
        /\ Elements(p) = {s[i] : i \in {j \in 1 .. Len(s) : j \in P}}
  <2> DEFINE p == Picked(s, P)
  <2>1. /\ p \in Seq(V) /\ Thins(p, s)
        /\ Elements(p) = {s[i] : i \in {j \in 1 .. Len(s) : j \in P}}
    BY PickedIs
  <2>2. p = Picked(s, P)
    OBVIOUS
  <2> HIDE DEF p
  <2> QED
    BY <2>1, <2>2
<1>2. Elements(p) = {x \in Elements(s) : x.at = t}
  BY <1>1 DEF Elements
<1>3. \A x \in Elements(s) : x.at \in Nat
  BY EmptyIs DEF Moments
<1>4. r \in Seq(V) /\ Elements(r) = {x \in Elements(s) : x.at < t} /\ Timely(r)
      /\ (Plain(s) => Plain(r))
  BY DEF Sorting
<1>5. Timely(p)
  <2>1. \A i \in 1 .. Len(p) : p[i].at = t
    BY <1>2 DEF Elements
  <2> QED
    BY <2>1 DEF Timely
<1>6. Plain(s) => Plain(p)
  BY <1>1, ThinnedKeeps
<1>7. \A x \in Elements(r), y \in Elements(p) : x.at <= y.at /\ x.at # y.at
  BY <1>2, <1>3, <1>4
<1>8. PICK u \in Seq(V) :
        /\ u = r \o p /\ Elements(u) = Elements(r) \cup Elements(p) /\ Timely(u)
        /\ Plain(s) => Plain(u)
  <2> DEFINE u == r \o p
  <2>1. u \in Seq(V) /\ Elements(u) = Elements(r) \cup Elements(p) /\ Timely(u)
    <3>1. r \in Seq(V) /\ p \in Seq(V) /\ Timely(r) /\ Timely(p)
      BY <1>1, <1>4, <1>5
    <3>2. \A x \in Elements(r), y \in Elements(p) : x.at <= y.at
      BY <1>7
    <3> QED
      BY ONLY <3>1, <3>2, JoinedIs
  <2>2. Plain(s) => Plain(u)
    <3>1. \A x \in Elements(r) : x \notin Elements(p)
      BY <1>7
    <3> QED
      BY <1>1, <1>4, <1>6, <3>1, JoinedIs
  <2>3. u = r \o p
    OBVIOUS
  <2> HIDE DEF u
  <2> QED
    BY <2>1, <2>2, <2>3
<1>9. Elements(u) = {x \in Elements(s) : x.at < t + 1}
  <2>1. \A x \in Elements(s) : x.at < t + 1 <=> x.at < t \/ x.at = t
    BY <1>3
  <2> QED
    BY <1>2, <1>4, <1>8, <2>1
<1> QED
  BY <1>1, <1>8, <1>9 DEF Sorting

\* The records in the order of their moments.
LEMMA ByTimeIs ==
    ASSUME NEW V, Moments(V), NEW s \in Seq(V)
    PROVE  /\ ByTime(s) \in Seq(V) /\ Elements(ByTime(s)) = Elements(s) /\ Timely(ByTime(s))
           /\ Plain(s) => Plain(ByTime(s))
<1>1. PICK sorted :
        /\ sorted[0] = <<>>
        /\ \A t \in 1 .. MaxTime + 1 :
               sorted[t] = sorted[t - 1] \o Picked(s, {i \in 1 .. Len(s) : s[i].at = t - 1})
        /\ ByTime(s) = sorted[MaxTime + 1]
  BY SortedBuilt
<1>2. MaxTime \in Nat
  BY FeedAssumption
<1>3. \A x \in Elements(s) : x.at \in 0 .. MaxTime
  BY EmptyIs DEF Moments
<1> DEFINE S == {t \in Nat : t <= MaxTime + 1 => Sorting(V, s, t, sorted[t])}
<1>4. 0 \in S
  <2>1. <<>> \in Seq(V) /\ Len(<<>>) = 0 /\ 1 .. 0 = {}
    OBVIOUS
  <2>2. Timely(<<>>) /\ Plain(<<>>)
    BY <2>1 DEF Timely, Plain
  <2>3. {x \in Elements(s) : x.at < 0} = {}
    BY <1>2, <1>3
  <2>4. Sorting(V, s, 0, <<>>)
    BY <2>1, <2>2, <2>3, NoElements DEF Sorting
  <2> QED
    BY <1>1, <2>4
<1>5. ASSUME NEW t \in Nat, t \in S PROVE t + 1 \in S
  <2> SUFFICES ASSUME t + 1 <= MaxTime + 1 PROVE Sorting(V, s, t + 1, sorted[t + 1])
    OBVIOUS
  <2>1. Sorting(V, s, t, sorted[t])
    BY <1>2, <1>5
  <2>2. t + 1 \in 1 .. MaxTime + 1 /\ t + 1 - 1 = t
    BY <1>2
  <2>3. sorted[t + 1] = sorted[t] \o Picked(s, {i \in 1 .. Len(s) : s[i].at = t})
    <3> PICK u \in 1 .. MaxTime + 1 : u = t + 1 /\ u - 1 = t
      BY <2>2
    <3>1. sorted[u] = sorted[u - 1] \o Picked(s, {i \in 1 .. Len(s) : s[i].at = u - 1})
      BY <1>1
    <3> QED
      BY <3>1
  <2>4. Sorting(V, s, t + 1, sorted[t] \o Picked(s, {i \in 1 .. Len(s) : s[i].at = t}))
    BY <2>1, SortingNext
  <2> QED
    BY <2>3, <2>4
<1> HIDE DEF S
<1>6. Nat \subseteq S
  BY <1>4, <1>5, NaturalSteps
<1>7. Sorting(V, s, MaxTime + 1, ByTime(s))
  BY <1>1, <1>2, <1>6 DEF S
<1>8. {x \in Elements(s) : x.at < MaxTime + 1} = Elements(s)
  BY <1>2, <1>3
<1> QED
  BY <1>7, <1>8 DEF Sorting

\* What has every element of a plain sequence is at least as long.
LEMMA AsLong ==
    ASSUME NEW V, NEW s \in Seq(V), NEW t \in Seq(V), Plain(s), Elements(s) \subseteq Elements(t)
    PROVE  Len(s) <= Len(t)
<1>1. PICK m \in Nat, n \in Nat : m = Len(s) /\ n = Len(t)
  OBVIOUS
<1>2. \A i \in 1 .. m : \E j \in 1 .. n : t[j] = s[i]
  BY <1>1 DEF Elements
<1> DEFINE f == [i \in 1 .. m |-> CHOOSE j \in 1 .. n : t[j] = s[i]]
<1>3. \A i \in 1 .. m : f[i] \in 1 .. n /\ t[f[i]] = s[i]
  BY <1>2
<1>4. f \in [1 .. m -> 1 .. n]
  BY <1>3
<1> HIDE DEF f
<1>5. f \in Injection(1 .. m, 1 .. n)
  <2>1. ASSUME NEW i \in 1 .. m, NEW j \in 1 .. m, f[i] = f[j] PROVE i = j
    <3>1. s[i] = s[j]
      BY <1>3, <2>1
    <3> QED
      BY <1>1, <3>1 DEF Plain
  <2> QED
    BY <1>4, <2>1 DEF Injection, IsInjective
<1>6. /\ IsFiniteSet(1 .. m) /\ IsFiniteSet(1 .. n)
      /\ Cardinality(1 .. m) = m /\ Cardinality(1 .. n) = n
  <2>1. Cardinality(1 .. m) = (IF 1 > m THEN 0 ELSE m - 1 + 1)
    BY FS_Interval
  <2>2. Cardinality(1 .. n) = (IF 1 > n THEN 0 ELSE n - 1 + 1)
    BY FS_Interval
  <2> QED
    BY <2>1, <2>2, FS_Interval
<1>7. Cardinality(1 .. m) <= Cardinality(1 .. n)
  BY <1>5, <1>6, FS_Injection
<1>8. m <= n
  BY <1>6, <1>7
<1> QED
  BY <1>1, <1>8

-----------------------------------------------------------------------------
\* The invariant

\* A book has its last records, at most as many as it may hold.
Ring(b, most) ==
    /\ b \in [id : Nat \cup {Own}, records : Seq(Records({b.id})), next : Nat]
    /\ b.next <= most + 1 /\ Len(b.records) < b.next /\ Len(b.records) <= BookCapacity
    /\ \A i \in 1 .. Len(b.records) : b.records[i].seq = b.next - Len(b.records) + i - 1

\* What a daemon with a cursor may have answered.
Reply(s) ==
    /\ s \in Slices /\ s.book # Legacy /\ s.records \in Seq(Records({s.book}))
    /\ Numbered(s.records) /\ s.first # 0 /\ s.asof <= now
    /\ \A i \in 1 .. Len(s.records) : s.first <= s.records[i].seq /\ s.records[i].seq <= MaxSeq

Fetches ==
    [kind : {"poll", "operation"}, stale : BOOLEAN, cursor : Nat, slice : Slices \cup {NoBook}]
Feeds ==
    [cursor : 0 .. MaxSeq, book : Nat \cup {NoBook}, local : Nat, holding : Seq(Records(Nat \cup {Own})),
     released : Seq(Records({Own})), reset : BOOLEAN]

FeedTyped ==
    /\ now \in Window .. MaxTime
    /\ Ring(book, MaxSeq) /\ book.id # Own /\ Ring(own, MaxOwn) /\ own.id = Own
    /\ bound \in BOOLEAN /\ clearing \in BOOLEAN /\ tardy \in BOOLEAN
    /\ events \in Nat /\ accounted \in Nat
    /\ fetches \subseteq Fetches /\ last \in Slices \cup {NoBook}
    /\ feed.local < own.next /\ view \in Seq(Records(Nat \cup {Own}))

\* A daemon without a cursor: each answer is the whole log.
OldDaemon ==
    /\ bound
    /\ feed = [cursor |-> feed.cursor, book |-> NoBook, local |-> 0, holding |-> feed.holding,
               released |-> feed.released, reset |-> FALSE]
    /\ Plain(view) /\ (tardy \/ view = <<>>)
    /\ \A f \in fetches : f.slice # NoBook =>
        /\ f.slice.book = Legacy /\ Plain(f.slice.records)
        /\ f.slice.records \in Seq(Records({Legacy}))

\* What was answered, and the last answer the feed took, is of the daemon the client is
\* bound to, and begins after a cursor the feed has passed.
Replied ==
    /\ feed.book # Legacy
    /\ fetches # {} => bound
    /\ \A f \in fetches :
        /\ f.cursor <= feed.cursor
        /\ f.slice # NoBook =>
            /\ ~f.stale /\ Reply(f.slice) /\ f.slice.book = book.id
            /\ \A r \in Elements(f.slice.records) : r.seq < book.next
    /\ last = NoBook => feed.book = NoBook /\ feed.cursor = 0
    /\ last # NoBook =>
        /\ Reply(last) /\ feed.book = last.book /\ (bound => last.book = book.id)
        /\ \A r \in Elements(last.records) : r.seq <= feed.cursor

\* A record is on screen, held, or still to come.
ShownOnce ==
    /\ Plain(view) /\ Plain(feed.holding) /\ Plain(feed.released)
    /\ \A r \in Elements(feed.holding) : r \notin Elements(view) /\ r \notin Elements(feed.released)
    /\ \A r \in Elements(view) \cup Elements(feed.holding) \cup Elements(feed.released) :
        r.book = Own => r.seq <= feed.local
    /\ \A r \in Elements(feed.holding) : r.book # Own => r.book = feed.book /\ r.seq <= feed.cursor
    /\ ~feed.reset => \A r \in Elements(view) :
        r.book # Own => r.book = feed.book /\ r.seq <= feed.cursor

\* The client's lines on screen are kept for the next reset, or as many as fit.
OursKept ==
    /\ Len(feed.released) <= BookCapacity
    /\ \/ Len(feed.released) = BookCapacity
       \/ \A r \in Elements(view) : r.book = Own => r \in Elements(feed.released)

\* A record written before an answer was given is not after what the answer reached,
\* unless it was gone by then.
Told(asof, first, reached) ==
    /\ \A r \in Elements(book.records) : r.at < asof => r.seq <= reached
    /\ \A g \in fetches : g.slice # NoBook /\ first <= g.slice.first =>
        \A r \in Elements(g.slice.records) : r.at < asof => r.seq <= reached

Reached(f) == IF f.slice.records = <<>> THEN f.cursor ELSE Final(f.slice.records).seq

AllTold ==
    /\ \A f \in fetches : f.slice # NoBook => Told(f.slice.asof, f.slice.first, Reached(f))
    /\ last # NoBook /\ bound => Told(last.asof, last.first, feed.cursor)

\* Nothing that is still to come belongs before what is on screen.
InTime == ~tardy =>
    /\ Timely(view)
    /\ \A r \in Elements(view) \cup Elements(feed.released) : r.at + Window <= now
    /\ \A r \in Elements(view), h \in Elements(feed.holding) : r.at <= h.at
    /\ \A r \in Elements(view), o \in Elements(own.records) : o.seq > feed.local => r.at <= o.at
    /\ last # NoBook => \A r \in Elements(view) : r.at <= last.asof
    /\ last = NoBook => view = <<>> \/ feed.reset

NewDaemon == Replied /\ ShownOnce /\ OursKept /\ AllTold /\ InTime

FeedInv ==
    /\ FeedTyped /\ NoSilentGap /\ feed.cursor \in Nat
    /\ IF book.id = Legacy THEN OldDaemon ELSE feed \in Feeds /\ NewDaemon

-----------------------------------------------------------------------------
\* Books

AllRecords == Records(Nat \cup {Own})

\* A sequence of some records is a sequence of more.
LEMMA SeqWider ==
    ASSUME NEW V, NEW W, V \subseteq W, NEW s \in Seq(V)
    PROVE  s \in Seq(W)
OBVIOUS

\* The constants are numbers, and the records of fewer books are records.
LEMMA FeedConstants ==
    /\ BookCapacity \in Nat /\ BookCapacity # 0 /\ Limit \in Nat /\ Limit # 0
    /\ Window \in Nat /\ MaxTime \in Nat /\ Window <= MaxTime
    /\ MaxSeq \in Nat /\ MaxOwn \in Nat /\ MaxEvents \in Nat
    /\ Own \notin Nat /\ NoBook \notin Nat /\ NoBook # Own /\ NoBook \notin Slices
    /\ Legacy \in Nat /\ Moments(AllRecords)
    /\ \A books \in SUBSET (Nat \cup {Own}) : Records(books) \subseteq AllRecords
BY FeedAssumption DEF Legacy, Moments, AllRecords, Records

\* A book is in its order, its first number the first of its records.
LEMMA RingIs ==
    ASSUME NEW b, NEW most \in Nat, Ring(b, most)
    PROVE  /\ b.records \in Seq(Records({b.id})) /\ b.next \in Nat /\ b.next # 0
           /\ \A x \in Elements(b.records) : x \in Records({b.id}) /\ x.seq \in Nat /\ x.book = b.id
           /\ Numbered(b.records)
           /\ FirstSeq(b) \in Nat /\ FirstSeq(b) # 0 /\ FirstSeq(b) <= b.next
           /\ \A x \in Elements(b.records) : FirstSeq(b) <= x.seq /\ x.seq < b.next
           /\ b.records = <<>> => FirstSeq(b) = b.next
           /\ b.records # <<>> => Final(b.records).seq = b.next - 1
<1>1. /\ b.records \in Seq(Records({b.id})) /\ b.next \in Nat
      /\ Len(b.records) < b.next
      /\ \A i \in 1 .. Len(b.records) : b.records[i].seq = b.next - Len(b.records) + i - 1
  BY DEF Ring
<1>2. PICK l \in Nat, n \in Nat : l = Len(b.records) /\ n = b.next
  BY <1>1
<1>3. l < n /\ n # 0 /\ n - l \in Nat /\ n - l # 0
  BY <1>1, <1>2
<1>4. \A x \in Elements(b.records) : x \in Records({b.id})
  BY <1>1, EmptyIs
<1>5. \A x \in Elements(b.records) : x.seq \in Nat /\ x.book = b.id
  BY <1>4 DEF Records
<1>6. \A i \in 1 .. l : b.records[i].seq = (n - l) + (i - 1)
  <2> SUFFICES ASSUME NEW i \in 1 .. l PROVE b.records[i].seq = (n - l) + (i - 1)
    OBVIOUS
  <2>1. b.records[i].seq = n - l + i - 1
    BY <1>1, <1>2
  <2> QED
    BY <1>2, <2>1
<1>7. Numbered(b.records)
  <2> SUFFICES ASSUME NEW i \in 1 .. l PROVE b.records[i].seq = b.records[1].seq + (i - 1)
    BY <1>2 DEF Numbered
  <2>1. 1 \in 1 .. l
    BY <1>2
  <2>2. b.records[1].seq = (n - l) + (1 - 1)
    BY <1>6, <2>1
  <2> QED
    BY <1>3, <1>6, <2>2
<1>8. CASE b.records = <<>>
  <2>1. FirstSeq(b) = n /\ Elements(b.records) = {}
    BY <1>2, <1>8, NoElements DEF FirstSeq
  <2> QED
    BY <1>1, <1>2, <1>3, <1>4, <1>5, <1>7, <1>8, <2>1
<1>9. CASE b.records # <<>>
  <2>1. 1 \in 1 .. l /\ l \in 1 .. l
    BY <1>1, <1>2, <1>9
  <2>2. FirstSeq(b) = n - l
    <3>1. FirstSeq(b) = b.records[1].seq
      BY <1>1, <1>9, EmptyIs DEF FirstSeq
    <3> QED
      BY <1>3, <1>6, <2>1, <3>1
  <2>3. Final(b.records).seq = n - 1
    <3>1. Final(b.records).seq = (n - l) + (l - 1)
      BY <1>2, <1>6, <2>1 DEF Final
    <3> QED
      BY <1>2, <3>1
  <2>4. \A i \in 1 .. l : n - l <= b.records[i].seq /\ b.records[i].seq < n
    <3> SUFFICES ASSUME NEW i \in 1 .. l PROVE n - l <= b.records[i].seq /\ b.records[i].seq < n
      OBVIOUS
    <3>1. n - l <= (n - l) + (i - 1) /\ (n - l) + (i - 1) < n
      BY <1>2, <1>3
    <3> QED
      BY <1>6, <3>1
  <2>5. \A x \in Elements(b.records) : n - l <= x.seq /\ x.seq < n
    BY <1>2, <2>4 DEF Elements
  <2>6. n - l <= n
    BY <1>2
  <2> QED
    BY <1>1, <1>2, <1>3, <1>4, <1>5, <1>7, <1>9, <2>2, <2>3, <2>5, <2>6
<1> QED
  BY <1>8, <1>9

\* What is answered of a book.
LEMMA SinceIs ==
    ASSUME NEW b, NEW most \in Nat, Ring(b, most), NEW cursor \in Nat
    PROVE  LET s == Since(b, cursor) IN
           /\ s = [book |-> b.id, records |-> s.records, first |-> FirstSeq(b), asof |-> now,
                   skipped |-> s.skipped]
           /\ s.skipped \in Nat
           /\ s.records \in Seq(Records({b.id})) /\ Numbered(s.records)
           /\ \A x \in Elements(s.records) : x \in Elements(b.records) /\ x.seq > cursor
           /\ s.records = <<>> => \A x \in Elements(b.records) : x.seq <= cursor
           /\ s.records # <<>> => Final(s.records).seq = b.next - 1
<1> DEFINE s == Since(b, cursor)
           V == Records({b.id})
           matching == Beyond(b.records, cursor)
           part == LastOf(matching, Limit)
           missing == Monus(FirstSeq(b), cursor + 1) + Monus(Len(matching), Limit)
<1>1. s = [book |-> b.id, records |-> part, first |-> FirstSeq(b), asof |-> now,
           skipped |-> missing]
  BY DEF Since
<1>2. /\ b.records \in Seq(V) /\ Numbered(b.records)
      /\ \A x \in Elements(b.records) : x.seq \in Nat /\ x.seq < b.next
      /\ b.next \in Nat /\ FirstSeq(b) \in Nat
      /\ b.records # <<>> => Final(b.records).seq = b.next - 1
  BY RingIs
<1>3. /\ matching \in Seq(V) /\ Elements(matching) = {x \in Elements(b.records) : x.seq > cursor}
      /\ Numbered(matching)
  <2>1. PICK w : w = b.records
    OBVIOUS
  <2>2. w \in Seq(V) /\ Numbered(w) /\ \A x \in Elements(w) : x.seq \in Nat
    BY <1>2, <2>1
  <2> HIDE DEF V
  <2>3. /\ Beyond(w, cursor) \in Seq(V) /\ Numbered(Beyond(w, cursor))
        /\ Elements(Beyond(w, cursor)) = {x \in Elements(w) : x.seq > cursor}
    BY ONLY cursor \in Nat, <2>2, BeyondIs
  <2> QED
    BY <2>1, <2>3
<1>4. Limit \in Nat /\ Limit # 0
  BY FeedConstants
<1>5. missing \in Nat
  BY <1>2, <1>3, <1>4 DEF Monus
<1> HIDE DEF matching
<1>6. \A i \in 1 .. Len(matching) : matching[i].seq \in Nat
  BY <1>2, <1>3 DEF Elements
<1>7. /\ part \in Seq(V) /\ Thins(part, matching) /\ Numbered(part)
      /\ matching # <<>> => part # <<>> /\ Final(part) = Final(matching)
  <2>1. /\ part \in Seq(V) /\ Thins(part, matching)
        /\ Limit # 0 /\ matching # <<>> => part # <<>> /\ Final(part) = Final(matching)
    <3>1. matching \in Seq(V) /\ Limit \in Nat
      BY <1>3, <1>4
    <3> HIDE DEF V
    <3>2. part \in Seq(V) /\ Thins(part, matching)
      BY ONLY <3>1, LastOfIs
    <3>3. Limit # 0 /\ matching # <<>> => part # <<>> /\ Final(part) = Final(matching)
      BY ONLY <3>1, LastOfIs
    <3> QED
      BY <3>2, <3>3
  <2>2. Numbered(part)
    BY <1>3, <1>4, <1>6, LastOfIs
  <2> QED
    BY <1>4, <2>1, <2>2
<1>8. Elements(part) \subseteq Elements(matching)
  BY <1>3, <1>7, ThinnedKeeps
<1>9. part = <<>> => \A x \in Elements(b.records) : x.seq <= cursor
  <2> SUFFICES ASSUME part = <<>>, NEW x \in Elements(b.records) PROVE x.seq <= cursor
    OBVIOUS
  <2>1. Elements(matching) = {}
    BY <1>7, NoElements
  <2> QED
    BY <1>2, <1>3, <2>1
<1>10. ASSUME part # <<>> PROVE Final(part).seq = b.next - 1
  <2>1. matching # <<>>
    <3>1. ASSUME matching = <<>> PROVE FALSE
      <4>1. Elements(part) = {}
        BY <1>8, <3>1, NoElements
      <4> QED
        BY <1>7, <1>10, <4>1, EmptyIs
    <3> QED
      BY <3>1
  <2>2. Final(matching) \in Elements(matching) /\ Final(part) = Final(matching)
    BY <1>3, <1>7, <2>1, EmptyIs
  <2>3. b.records # <<>>
    BY <1>3, <2>2, NoElements
  <2>4. Final(b.records) \in Elements(b.records) /\ Final(b.records).seq = b.next - 1
    BY <1>2, <2>3, EmptyIs
  <2>5. Final(matching).seq \in Nat /\ Final(matching).seq > cursor /\ Final(matching).seq < b.next
    BY <1>2, <1>3, <2>2
  <2>6. Final(b.records) \in Elements(matching)
    BY <1>2, <1>3, <2>4, <2>5
  <2>7. Final(b.records).seq <= Final(matching).seq
    <3>1. \A x \in Elements(matching) : x.seq \in Nat
      BY <1>2, <1>3
    <3> QED
      BY <1>3, <2>1, <2>6, <3>1, NumberedIs
  <2> QED
    BY <1>2, <2>2, <2>4, <2>5, <2>7
<1> HIDE DEF part, missing
<1>11. s.records = part /\ s.skipped = missing
  BY <1>1
<1>12. \A x \in Elements(part) : x \in Elements(b.records) /\ x.seq > cursor
  BY <1>3, <1>8
<1> QED
  BY <1>1, <1>5, <1>7, <1>9, <1>10, <1>11, <1>12

\* The record a book writes.
Written(b) == [book |-> b.id, seq |-> b.next, at |-> now]

\* A book that writes stays a book, and has nothing new but the record.
LEMMA PushedIs ==
    ASSUME NEW b, NEW most \in Nat, Ring(b, most), b.next <= most, now \in 0 .. MaxTime
    PROVE  /\ Ring(Pushed(b), most) /\ Pushed(b).id = b.id /\ Pushed(b).next = b.next + 1
           /\ \A x \in Elements(Pushed(b).records) : x \in Elements(b.records) \/ x = Written(b)
<1> DEFINE V == Records({b.id})
<1>1. /\ b \in [id : Nat \cup {Own}, records : Seq(V), next : Nat]
      /\ Len(b.records) < b.next /\ Len(b.records) <= BookCapacity
      /\ \A i \in 1 .. Len(b.records) : b.records[i].seq = b.next - Len(b.records) + i - 1
  BY DEF Ring
<1>2. PICK l \in Nat, n \in Nat : l = Len(b.records) /\ n = b.next
  BY <1>1
<1>3. BookCapacity \in Nat
  BY FeedConstants
<1>4. Written(b) \in V /\ Written(b).seq = n
  BY <1>1, <1>2 DEF Written, Records
<1> HIDE DEF V
<1> DEFINE r == Append(b.records, Written(b))
           t == Tail(r)
<1>5. /\ r \in Seq(V) /\ Len(r) = l + 1 /\ r[l + 1] = Written(b)
      /\ \A i \in 1 .. l : r[i] = b.records[i]
  BY <1>1, <1>2, <1>4, LongerIs
<1>6. Pushed(b) = [id |-> b.id, records |-> IF Len(r) > BookCapacity THEN t ELSE r,
                   next |-> n + 1]
  <2>1. Pushed(b) = [b EXCEPT !.next = @ + 1,
                              !.records = IF Len(r) > BookCapacity THEN t ELSE r]
    BY DEF Pushed, Written
  <2> HIDE DEF r, t
  <2> QED
    BY <1>1, <1>2, <2>1
<1> HIDE DEF r
<1>7. /\ t \in Seq(V) /\ Len(t) = l /\ \A i \in 1 .. l : t[i] = r[i + 1]
  BY <1>2, <1>5
<1> HIDE DEF t
<1>8. \A i \in 1 .. l + 1 : r[i].seq = (n + 1) - (l + 1) + i - 1
  <2> SUFFICES ASSUME NEW i \in 1 .. l + 1 PROVE r[i].seq = (n + 1) - (l + 1) + i - 1
    OBVIOUS
  <2>1. CASE i = l + 1
    <3>1. r[i].seq = n
      BY <1>4, <1>5, <2>1
    <3> QED
      BY <1>2, <2>1, <3>1
  <2>2. CASE i \in 1 .. l
    <3>1. r[i].seq = n - l + i - 1
      BY <1>1, <1>2, <1>5, <2>2
    <3>2. n - l + i - 1 = (n + 1) - (l + 1) + i - 1
      BY ONLY l \in Nat, n \in Nat, <2>2
    <3> QED
      BY <3>1, <3>2
  <2>3. i = l + 1 \/ i \in 1 .. l
    BY <1>2
  <2> QED
    BY <2>1, <2>2, <2>3
<1>9. \A i \in 1 .. l : t[i].seq = (n + 1) - l + i - 1
  <2> SUFFICES ASSUME NEW i \in 1 .. l PROVE t[i].seq = (n + 1) - l + i - 1
    OBVIOUS
  <2>1. i + 1 \in 1 .. l + 1 /\ (n + 1) - (l + 1) + (i + 1) - 1 = (n + 1) - l + i - 1
    BY ONLY l \in Nat, n \in Nat, i \in 1 .. l
  <2>2. r[i + 1].seq = (n + 1) - (l + 1) + (i + 1) - 1
    BY <1>8, <2>1
  <2> QED
    BY <1>7, <2>1, <2>2
<1>10. Elements(r) \subseteq Elements(b.records) \cup {Written(b)}
  <2>1. \A i \in 1 .. l + 1 : i = l + 1 \/ i \in 1 .. l
    BY <1>2
  <2> QED
    BY <1>2, <1>5, <2>1 DEF Elements
<1>11. Elements(t) \subseteq Elements(r)
  <2>1. \A i \in 1 .. l : i + 1 \in 1 .. l + 1
    BY <1>2
  <2> QED
    BY <1>5, <1>7, <2>1 DEF Elements
<1>12. l < n /\ l <= BookCapacity /\ n <= most
  BY <1>1, <1>2
<1>13. ASSUME NEW c \in Seq(V), NEW k \in Nat, Len(c) = k, k < n + 1, k <= BookCapacity,
              Pushed(b) = [id |-> b.id, records |-> c, next |-> n + 1],
              \A i \in 1 .. k : c[i].seq = (n + 1) - k + i - 1
       PROVE  Ring(Pushed(b), most)
  <2>1. Pushed(b) \in [id : Nat \cup {Own}, records : Seq(V), next : Nat]
    BY <1>1, <1>2, <1>13
  <2>2. Pushed(b).id = b.id /\ Pushed(b).records = c /\ Pushed(b).next = n + 1
    BY <1>13
  <2>3. n + 1 <= most + 1
    BY <1>2, <1>12
  <2> QED
    BY <1>13, <2>1, <2>2, <2>3 DEF Ring, V
<1>14. CASE Len(r) > BookCapacity
  <2>1. Pushed(b) = [id |-> b.id, records |-> t, next |-> n + 1] /\ l < n + 1
    BY <1>2, <1>6, <1>12, <1>14
  <2>2. Ring(Pushed(b), most)
    BY <1>2, <1>7, <1>9, <1>12, <1>13, <2>1
  <2> QED
    BY <1>2, <1>10, <1>11, <2>1, <2>2
<1>15. CASE ~(Len(r) > BookCapacity)
  <2>1. Pushed(b) = [id |-> b.id, records |-> r, next |-> n + 1]
    BY <1>6, <1>15
  <2>2. l + 1 \in Nat /\ l + 1 < n + 1 /\ l + 1 <= BookCapacity
    BY <1>2, <1>3, <1>5, <1>12, <1>15
  <2>3. Ring(Pushed(b), most)
    BY <1>5, <1>8, <1>13, <2>1, <2>2
  <2> QED
    BY <1>2, <1>10, <2>1, <2>3
<1> QED
  BY <1>14, <1>15

\* So does one that is emptied, and a new one.
LEMMA EmptiedIs ==
    ASSUME NEW b, NEW most \in Nat, Ring(b, most)
    PROVE  /\ Ring(Emptied(b), most) /\ Emptied(b).id = b.id /\ Emptied(b).next = b.next
           /\ Emptied(b).records = <<>>
           /\ \A id \in Nat \cup {Own} : Ring(EmptyBook(id), most) /\ EmptyBook(id).id = id
                                         /\ EmptyBook(id).records = <<>> /\ EmptyBook(id).next = 1
<1>1. /\ b \in [id : Nat \cup {Own}, records : Seq(Records({b.id})), next : Nat]
      /\ b.next <= most + 1 /\ Len(b.records) < b.next /\ Len(b.records) \in Nat
  BY DEF Ring
<1>2. Len(<<>>) = 0 /\ 1 .. 0 = {} /\ \A V : <<>> \in Seq(V)
  OBVIOUS
<1>3. Emptied(b) = [id |-> b.id, records |-> <<>>, next |-> b.next]
  BY <1>1 DEF Emptied
<1>4. BookCapacity \in Nat
  BY FeedConstants
<1>5. Emptied(b) \in [id : Nat \cup {Own}, records : Seq(Records({b.id})), next : Nat]
  BY <1>1, <1>2, <1>3
<1>6. Emptied(b).id = b.id /\ Emptied(b).records = <<>> /\ Emptied(b).next = b.next
  BY <1>3
<1>7. 0 < b.next /\ 0 <= BookCapacity
  BY <1>1, <1>4
<1>8. Ring(Emptied(b), most)
  BY <1>1, <1>2, <1>5, <1>6, <1>7 DEF Ring
<1>9. ASSUME NEW id \in Nat \cup {Own}
      PROVE  Ring(EmptyBook(id), most) /\ EmptyBook(id).id = id
             /\ EmptyBook(id).records = <<>> /\ EmptyBook(id).next = 1
  <2>1. EmptyBook(id) = [id |-> id, records |-> <<>>, next |-> 1]
    BY DEF EmptyBook
  <2>2. EmptyBook(id) \in [id : Nat \cup {Own}, records : Seq(Records({id})), next : Nat]
    BY <1>2, <2>1
  <2>3. EmptyBook(id).id = id /\ EmptyBook(id).records = <<>> /\ EmptyBook(id).next = 1
    BY <2>1
  <2>4. 1 <= most + 1 /\ 0 < 1 /\ 0 <= BookCapacity
    BY <1>4
  <2> QED
    BY <1>2, <2>2, <2>3, <2>4 DEF Ring
<1> QED
  BY <1>6, <1>8, <1>9

\* A function on the first numbers is a sequence.
LEMMA FunctionIsSeq ==
    ASSUME NEW V, NEW n \in Nat, NEW f \in [1 .. n -> V]
    PROVE  f \in Seq(V) /\ Len(f) = n
OBVIOUS

\* The answer of an older daemon is its whole book, without moments.
LEMMA LegacyIs ==
    ASSUME NEW b, NEW most \in Nat, Ring(b, most), b.id = Legacy, now \in Nat
    PROVE  /\ LegacySlice(b) \in Slices /\ LegacySlice(b).book = Legacy
           /\ LegacySlice(b).records \in Seq(Records({Legacy}))
           /\ Plain(LegacySlice(b).records)
<1>1. /\ b.records \in Seq(Records({Legacy})) /\ Numbered(b.records)
      /\ \A x \in Elements(b.records) : x.seq \in Nat
  BY RingIs
<1>2. PICK l \in Nat, r \in Seq(Records({Legacy})) : r = b.records /\ l = Len(r)
  BY <1>1
<1> DEFINE u == [i \in DOMAIN r |-> [r[i] EXCEPT !.at = 0]]
<1>3. 0 \in 0 .. MaxTime /\ DOMAIN r = 1 .. l
  BY <1>2, FeedConstants
<1>4. \A i \in 1 .. l : r[i] \in Records({Legacy})
  BY <1>2
<1>5. \A i \in 1 .. l : u[i] = [r[i] EXCEPT !.at = 0]
  BY <1>3
<1>6. \A i \in 1 .. l : u[i] \in Records({Legacy}) /\ u[i].seq = r[i].seq
  BY <1>3, <1>4, <1>5 DEF Records
<1>7. u \in [1 .. l -> Records({Legacy})]
  BY <1>3, <1>6
<1>8. LegacySlice(b) = [book |-> Legacy, first |-> 1, asof |-> now, skipped |-> 0, records |-> u]
  BY <1>2 DEF LegacySlice
<1> HIDE DEF u
<1>9. u \in Seq(Records({Legacy})) /\ Len(u) = l
  BY <1>7, FunctionIsSeq
<1>10. \A i, j \in 1 .. l : r[i].seq = r[j].seq => i = j
  <2> SUFFICES ASSUME NEW i \in 1 .. l, NEW j \in 1 .. l, r[i].seq = r[j].seq PROVE i = j
    OBVIOUS
  <2>1. PICK q \in Nat : q = r[1].seq
    <3>1. 1 \in 1 .. l
      BY <1>2
    <3> QED
      BY <1>1, <1>2, <3>1 DEF Elements
  <2>2. q + (i - 1) = q + (j - 1)
    BY <1>1, <1>2, <2>1 DEF Numbered
  <2> QED
    BY ONLY <1>2, <2>1, <2>2, i \in 1 .. l, j \in 1 .. l
<1>11. Plain(u)
  BY <1>6, <1>9, <1>10 DEF Plain
<1>12. Records({Legacy}) \subseteq Records(Nat)
  BY FeedConstants DEF Records
<1>13. u \in Seq(Records(Nat))
  BY <1>9, <1>12, SeqWider
<1>14. LegacySlice(b) \in Slices
  BY <1>8, <1>13, FeedConstants DEF Slices
<1> QED
  BY <1>8, <1>9, <1>11, <1>14

-----------------------------------------------------------------------------
\* A round

\* A sequence in two parts.
LEMMA SplitIs ==
    ASSUME NEW V, NEW w \in Seq(V), NEW k \in Nat, k <= Len(w)
    PROVE  /\ SubSeq(w, 1, k) \in Seq(V) /\ SubSeq(w, k + 1, Len(w)) \in Seq(V)
           /\ Thins(SubSeq(w, 1, k), w) /\ Thins(SubSeq(w, k + 1, Len(w)), w)
           /\ Len(SubSeq(w, 1, k)) = k /\ Len(SubSeq(w, k + 1, Len(w))) = Len(w) - k
           /\ Elements(w) = Elements(SubSeq(w, 1, k)) \cup Elements(SubSeq(w, k + 1, Len(w)))
           /\ Plain(w) => \A x \in Elements(SubSeq(w, 1, k)) :
                              x \notin Elements(SubSeq(w, k + 1, Len(w)))
           /\ Timely(w) => \A x \in Elements(SubSeq(w, 1, k)),
                              y \in Elements(SubSeq(w, k + 1, Len(w))) : x.at <= y.at
<1>1. PICK n \in Nat : n = Len(w)
  OBVIOUS
<1>2. PICK a \in Seq(V) :
        /\ a = SubSeq(w, 1, k) /\ Len(a) = k /\ Thins(a, w) /\ \A i \in 1 .. k : a[i] = w[i]
  <2>0. PICK z \in Nat : z = 0
    OBVIOUS
  <2> DEFINE a == SubSeq(w, z + 1, k)
  <2>1. /\ a \in Seq(V) /\ Len(a) = k - z /\ Thins(a, w)
        /\ \A i \in 1 .. k - z : a[i] = w[z + i]
    <3>1. z <= k /\ w \in Seq(V) /\ k \in Nat /\ k <= Len(w)
      BY <2>0
    <3> QED
      BY ONLY <3>1, PartIs, z \in Nat
  <2>2. a = SubSeq(w, 1, k)
    BY <2>0
  <2> HIDE DEF a
  <2>3. Len(a) = k /\ \A i \in 1 .. k : a[i] = w[i]
    BY <2>0, <2>1
  <2> QED
    BY <2>1, <2>2, <2>3
<1>3. PICK b \in Seq(V) :
        /\ b = SubSeq(w, k + 1, Len(w)) /\ Len(b) = n - k /\ Thins(b, w)
        /\ \A i \in 1 .. n - k : b[i] = w[k + i]
  <2> DEFINE b == SubSeq(w, k + 1, n)
  <2>1. /\ b \in Seq(V) /\ Len(b) = n - k /\ Thins(b, w)
        /\ \A i \in 1 .. n - k : b[i] = w[k + i]
    BY <1>1, PartIs
  <2>2. b = SubSeq(w, k + 1, Len(w))
    BY <1>1
  <2> HIDE DEF b
  <2> QED
    BY <2>1, <2>2
<1>4. \A i \in 1 .. n : i \in 1 .. k \/ (i - k \in 1 .. n - k /\ i = k + (i - k))
  BY <1>1
<1>5. \A i \in 1 .. k : i \in 1 .. n
  BY <1>1
<1>6. \A i \in 1 .. n - k : k + i \in 1 .. n /\ (\A j \in 1 .. k : j < k + i)
  BY <1>1
<1>7. Elements(a) = {w[i] : i \in 1 .. k}
  BY <1>2 DEF Elements
<1>8. Elements(b) = {w[k + i] : i \in 1 .. n - k}
  BY <1>3 DEF Elements
<1>9. Elements(w) = Elements(a) \cup Elements(b)
  <2>1. ASSUME NEW i \in 1 .. n PROVE w[i] \in Elements(a) \cup Elements(b)
    <3>1. CASE i \in 1 .. k
      BY <1>7, <3>1
    <3>2. CASE i - k \in 1 .. n - k /\ i = k + (i - k)
      BY <1>8, <3>2
    <3> QED
      BY <1>4, <3>1, <3>2
  <2>2. \A i \in 1 .. k : w[i] \in Elements(w)
    BY <1>1, <1>5 DEF Elements
  <2>3. \A i \in 1 .. n - k : w[k + i] \in Elements(w)
    BY <1>1, <1>6 DEF Elements
  <2>4. Elements(w) \subseteq Elements(a) \cup Elements(b)
    BY <1>1, <2>1 DEF Elements
  <2> QED
    BY <1>7, <1>8, <2>2, <2>3, <2>4
<1>10. ASSUME Plain(w), NEW x \in Elements(a), x \in Elements(b) PROVE FALSE
  <2>1. PICK i \in 1 .. k : x = w[i]
    BY <1>7
  <2>2. PICK j \in 1 .. n - k : x = w[k + j]
    BY <1>8, <1>10
  <2>3. i \in 1 .. n /\ k + j \in 1 .. n /\ i < k + j
    BY <1>5, <1>6
  <2>4. i = k + j
    BY <1>1, <1>10, <2>1, <2>2, <2>3 DEF Plain
  <2> QED
    BY <2>3, <2>4
<1>11. ASSUME Timely(w), NEW x \in Elements(a), NEW y \in Elements(b) PROVE x.at <= y.at
  <2>1. PICK i \in 1 .. k : x = w[i]
    BY <1>7
  <2>2. PICK j \in 1 .. n - k : y = w[k + j]
    BY <1>8
  <2>3. i \in 1 .. n /\ k + j \in 1 .. n /\ i < k + j
    BY <1>5, <1>6
  <2> QED
    BY <1>1, <1>11, <2>1, <2>2, <2>3 DEF Timely
<1> QED
  BY <1>1, <1>2, <1>3, <1>9, <1>10, <1>11

\* What an absorbed round makes of the records it holds, in their order.
Settled(held) == Picked(held, {i \in 1 .. Len(held) : held[i].at <= now - Window})
Pending(held) == Picked(held, {i \in 1 .. Len(held) : held[i].at > now - Window})
Excess(held) == Monus(Len(Pending(held)), BookCapacity)
Released(held) == Settled(held) \o SubSeq(Pending(held), 1, Excess(held))
StillHeld(held) == SubSeq(Pending(held), Excess(held) + 1, Len(Pending(held)))

\* Each of them is released or held, and what is released comes first.
LEMMA ReleasedIs ==
    ASSUME NEW held \in Seq(AllRecords), Plain(held), Timely(held), now \in Nat, Window <= now
    PROVE  /\ Released(held) \in Seq(AllRecords) /\ StillHeld(held) \in Seq(AllRecords)
           /\ Plain(Released(held)) /\ Plain(StillHeld(held)) /\ Timely(Released(held))
           /\ Len(StillHeld(held)) <= BookCapacity
           /\ Elements(held) = Elements(Released(held)) \cup Elements(StillHeld(held))
           /\ \A x \in Elements(Released(held)) : x \notin Elements(StillHeld(held))
           /\ \A x \in Elements(Released(held)), y \in Elements(StillHeld(held)) : x.at <= y.at
           /\ Excess(held) \in Nat
           /\ Excess(held) = 0 => \A x \in Elements(Released(held)) : x.at + Window <= now
           /\ \A y \in Elements(StillHeld(held)) : y.at + Window > now
<1>1. PICK edge \in Nat : edge = now - Window
  BY FeedConstants
<1> DEFINE V == AllRecords
           w == Pending(held)
           s == Settled(held)
           k == Excess(held)
<1>2. \A x \in Elements(held) : x.at \in Nat
  BY EmptyIs, FeedConstants DEF Moments
<1>3. s \in Seq(V) /\ Thins(s, held) /\ Elements(s) = {x \in Elements(held) : x.at <= edge}
  <2> DEFINE P == {i \in 1 .. Len(held) : held[i].at <= now - Window}
  <2>1. /\ Picked(held, P) \in Seq(V) /\ Thins(Picked(held, P), held)
        /\ Elements(Picked(held, P)) = {held[i] : i \in {j \in 1 .. Len(held) : j \in P}}
    BY PickedIs
  <2>2. {held[i] : i \in {j \in 1 .. Len(held) : j \in P}} = {x \in Elements(held) : x.at <= edge}
    BY <1>1 DEF Elements
  <2> QED
    BY <2>1, <2>2 DEF Settled
<1>4. w \in Seq(V) /\ Thins(w, held) /\ Elements(w) = {x \in Elements(held) : x.at > edge}
  <2> DEFINE P == {i \in 1 .. Len(held) : held[i].at > now - Window}
  <2>1. /\ Picked(held, P) \in Seq(V) /\ Thins(Picked(held, P), held)
        /\ Elements(Picked(held, P)) = {held[i] : i \in {j \in 1 .. Len(held) : j \in P}}
    BY PickedIs
  <2>2. {held[i] : i \in {j \in 1 .. Len(held) : j \in P}} = {x \in Elements(held) : x.at > edge}
    BY <1>1 DEF Elements
  <2> QED
    BY <2>1, <2>2 DEF Pending
<1>5. Released(held) = s \o SubSeq(w, 1, k) /\ StillHeld(held) = SubSeq(w, k + 1, Len(w))
  BY DEF Released, StillHeld
<1>6. k \in Nat /\ k <= Len(w) /\ Len(w) - k <= BookCapacity
  <2>1. Len(w) \in Nat /\ BookCapacity \in Nat
    BY <1>4, FeedConstants
  <2> HIDE DEF w
  <2>2. Monus(Len(w), BookCapacity) \in Nat /\ Monus(Len(w), BookCapacity) <= Len(w)
        /\ Len(w) - Monus(Len(w), BookCapacity) <= BookCapacity
    BY <2>1 DEF Monus
  <2> QED
    BY <2>2 DEF w, Excess
<1>7. Plain(s) /\ Timely(s) /\ Plain(w) /\ Timely(w)
  BY <1>3, <1>4, ThinnedKeeps
<1> HIDE DEF w, s, k
<1>8. PICK a \in Seq(V), b \in Seq(V) :
        /\ a = SubSeq(w, 1, k) /\ b = SubSeq(w, k + 1, Len(w))
        /\ Thins(a, w) /\ Thins(b, w) /\ Len(a) = k /\ Len(b) = Len(w) - k
        /\ Elements(w) = Elements(a) \cup Elements(b)
        /\ \A x \in Elements(a) : x \notin Elements(b)
        /\ \A x \in Elements(a), y \in Elements(b) : x.at <= y.at
  <2> DEFINE a == SubSeq(w, 1, k)
             b == SubSeq(w, k + 1, Len(w))
  <2>1. /\ a \in Seq(V) /\ b \in Seq(V) /\ Thins(a, w) /\ Thins(b, w)
        /\ Len(a) = k /\ Len(b) = Len(w) - k
        /\ Elements(w) = Elements(a) \cup Elements(b)
        /\ Plain(w) => \A x \in Elements(a) : x \notin Elements(b)
        /\ Timely(w) => \A x \in Elements(a), y \in Elements(b) : x.at <= y.at
    BY <1>4, <1>6, SplitIs
  <2>2. a = SubSeq(w, 1, k) /\ b = SubSeq(w, k + 1, Len(w))
    OBVIOUS
  <2> HIDE DEF a, b
  <2> QED
    BY <1>7, <2>1, <2>2
<1>9. Plain(a) /\ Timely(a) /\ Plain(b)
  <2>1. w \in Seq(V) /\ Plain(w) /\ Timely(w)
    BY <1>4, <1>7
  <2>2. Thins(a, w) /\ Thins(b, w)
    BY <1>8
  <2>3. Plain(a) /\ Timely(a)
    BY <2>1, <2>2, ThinnedKeeps
  <2>4. Plain(b)
    BY <2>1, <2>2, ThinnedKeeps
  <2> QED
    BY <2>3, <2>4
<1>10. \A x \in Elements(s), y \in Elements(w) : x.at <= y.at /\ x # y
  BY <1>1, <1>2, <1>3, <1>4
<1>11. PICK r \in Seq(V) :
        /\ r = s \o a /\ Elements(r) = Elements(s) \cup Elements(a) /\ Plain(r) /\ Timely(r)
  <2> DEFINE r == s \o a
  <2>1. r \in Seq(V) /\ Elements(r) = Elements(s) \cup Elements(a)
    BY <1>3, JoinedIs
  <2>2. Plain(r)
    <3>1. \A x \in Elements(s) : x \notin Elements(a)
      BY <1>8, <1>10
    <3> QED
      BY <1>3, <1>7, <1>9, <3>1, JoinedIs
  <2>3. Timely(r)
    <3>1. \A x \in Elements(s), y \in Elements(a) : x.at <= y.at
      BY <1>8, <1>10
    <3> QED
      BY <1>3, <1>7, <1>9, <3>1, JoinedIs
  <2>4. r = s \o a
    OBVIOUS
  <2> HIDE DEF r
  <2> QED
    BY <2>1, <2>2, <2>3, <2>4
<1>12. Elements(held) = Elements(s) \cup Elements(w)
  <2>1. \A x \in Elements(held) : x.at <= edge \/ x.at > edge
    BY <1>1, <1>2
  <2> QED
    BY <1>3, <1>4, <2>1
<1>13. Elements(held) = Elements(r) \cup Elements(b)
  BY <1>8, <1>11, <1>12
<1>14. \A x \in Elements(r) : x \notin Elements(b)
  BY <1>8, <1>10, <1>11
<1>15. \A x \in Elements(r), y \in Elements(b) : x.at <= y.at
  BY <1>8, <1>10, <1>11
<1>16. ASSUME k = 0 PROVE \A x \in Elements(r) : x.at + Window <= now
  <2>1. a = <<>>
    BY <1>8, <1>16
  <2>2. Elements(r) = Elements(s)
    BY <1>11, <2>1, NoElements
  <2>3. \A x \in Elements(s) : x.at \in Nat /\ x.at <= edge
    BY <1>2, <1>3
  <2> QED
    BY <1>1, <2>2, <2>3, FeedConstants
<1>17. Released(held) = r /\ StillHeld(held) = b
  BY <1>5, <1>8, <1>11
<1>18. Len(b) <= BookCapacity
  BY <1>6, <1>8
<1>19. Excess(held) = k
  BY DEF k
<1>20. \A y \in Elements(b) : y.at + Window > now
  <2>1. \A y \in Elements(b) : y.at \in Nat /\ y.at > edge
    BY <1>2, <1>4, <1>8
  <2> QED
    BY <1>1, <2>1, FeedConstants
<1> QED
  BY <1>6, <1>9, <1>11, <1>13, <1>14, <1>15, <1>16, <1>17, <1>18, <1>19, <1>20

\* What a round does to the feed, the view and what was accounted for: fresh is what it
\* takes of the daemon's records, ours of the client's.
Round(slice, fresh, ours, released, held, overflows) ==
    /\ ours \in Seq(Records({Own})) /\ Numbered(ours)
    /\ \A x \in Elements(ours) : x \in Elements(own.records) /\ x.seq > feed.local
    /\ ours = <<>> => \A x \in Elements(own.records) : x.seq <= feed.local
    /\ ours # <<>> => Final(ours).seq = own.next - 1
    /\ fresh \in Seq(Records({slice.book})) /\ Numbered(fresh)
    /\ Elements(fresh) = {x \in Elements(slice.records) : x.seq > feed.cursor}
    /\ released \in Seq(AllRecords) /\ held \in Seq(AllRecords)
    /\ Plain(released) /\ Plain(held) /\ Timely(released)
    /\ Elements(released) \cup Elements(held)
         = Elements(feed.holding) \cup Elements(fresh) \cup Elements(ours)
    /\ \A x \in Elements(released) : x \notin Elements(held)
    /\ \A x \in Elements(released), y \in Elements(held) : x.at <= y.at
    /\ ~overflows => \A x \in Elements(released) : x.at + Window <= now
    /\ \A y \in Elements(held) : y.at + Window > now

\* What it leaves.
RoundLeaves(slice, fresh, ours, released, held, overflows) ==
    /\ last' = slice
    /\ feed' = [cursor |-> IF fresh = <<>> THEN feed.cursor ELSE Final(fresh).seq,
                book |-> slice.book,
                local |-> IF ours = <<>> THEN feed.local ELSE Final(ours).seq,
                holding |-> held,
                released |-> LastOf(feed.released \o Ours(released), BookCapacity),
                reset |-> FALSE]
    /\ view' = LastOf(IF feed.reset THEN ByTime(feed.released \o released) ELSE view \o released,
                      BookCapacity)
    /\ accounted' = Min({MaxSeq, (IF slice.book # feed.book THEN 0 ELSE accounted)
                                 + (IF fresh = <<>> THEN Monus(slice.first, feed.cursor + 1)
                                    ELSE Head(fresh).seq - feed.cursor - 1)
                                 + Len(fresh)})
    /\ tardy' = (tardy \/ overflows \/ slice.asof + Window < now
                 \/ (last # NoBook /\ slice.book = last.book /\ slice.first < last.first))

\* What an answer of a daemon with a cursor is.
LEMMA ReplyIs ==
    ASSUME NEW s, Reply(s)
    PROVE  /\ s.book \in Nat /\ s.book # Legacy /\ s.records \in Seq(Records({s.book}))
           /\ Numbered(s.records) /\ s.first \in Nat /\ s.asof \in Nat /\ s.asof <= now
           /\ \A x \in Elements(s.records) :
                /\ x \in Records({s.book}) /\ x.seq \in Nat /\ x.book = s.book
                /\ s.first <= x.seq /\ x.seq <= MaxSeq
<1>1. s \in Slices /\ s.book # Legacy /\ s.records \in Seq(Records({s.book}))
      /\ Numbered(s.records) /\ s.asof <= now
      /\ \A i \in 1 .. Len(s.records) : s.first <= s.records[i].seq /\ s.records[i].seq <= MaxSeq
  BY DEF Reply
<1>2. s.book \in Nat /\ s.first \in Nat /\ s.asof \in Nat
  BY <1>1 DEF Slices
<1>3. \A x \in Elements(s.records) : x \in Records({s.book})
  BY <1>1, EmptyIs
<1>4. \A x \in Elements(s.records) : x.seq \in Nat /\ x.book = s.book
  BY <1>3 DEF Records
<1>5. \A x \in Elements(s.records) : s.first <= x.seq /\ x.seq <= MaxSeq
  BY <1>1 DEF Elements
<1> QED
  BY <1>1, <1>2, <1>3, <1>4, <1>5

\* What a feed of a daemon with a cursor is.
LEMMA FeedIs ==
    ASSUME FeedInv, book.id # Legacy
    PROVE  /\ feed.cursor \in Nat /\ feed.cursor <= MaxSeq /\ feed.book \in Nat \cup {NoBook}
           /\ feed.book # Legacy
           /\ feed.local \in Nat /\ feed.holding \in Seq(AllRecords)
           /\ feed.released \in Seq(AllRecords) /\ feed.reset \in BOOLEAN
           /\ feed = [cursor |-> feed.cursor, book |-> feed.book, local |-> feed.local,
                      holding |-> feed.holding, released |-> feed.released, reset |-> feed.reset]
           /\ \A x \in Elements(feed.released) : x.book = Own
           /\ view \in Seq(AllRecords)
           /\ now \in Nat /\ Window <= now /\ now <= MaxTime
           /\ \A x \in Elements(view) \cup Elements(feed.holding) \cup Elements(feed.released) :
                x.seq \in Nat /\ x.at \in Nat
<1>1. feed \in Feeds /\ FeedTyped /\ feed.book # Legacy
  BY DEF FeedInv, NewDaemon, Replied
<1>2. feed.holding \in Seq(AllRecords) /\ view \in Seq(AllRecords)
  BY <1>1 DEF Feeds, FeedTyped, AllRecords
<1>3. feed.released \in Seq(Records({Own}))
  BY <1>1 DEF Feeds
<1>4. Records({Own}) \subseteq AllRecords
  BY FeedConstants
<1>5. feed.released \in Seq(AllRecords)
  BY <1>3, <1>4, SeqWider
<1>6. \A x \in Elements(feed.released) : x.book = Own
  <2>1. \A x \in Elements(feed.released) : x \in Records({Own})
    BY <1>3, EmptyIs
  <2> QED
    BY <2>1 DEF Records
<1>7. \A x \in Elements(view) \cup Elements(feed.holding) \cup Elements(feed.released) :
          x.seq \in Nat /\ x.at \in Nat
  <2>1. \A x \in Elements(view) \cup Elements(feed.holding) \cup Elements(feed.released) :
            x \in AllRecords
    BY <1>2, <1>5, EmptyIs
  <2>2. \A x \in AllRecords : x.seq \in Nat /\ x.at \in Nat
    BY FeedConstants DEF AllRecords, Records
  <2> QED
    BY <2>1, <2>2
<1>8. /\ feed.cursor \in Nat /\ feed.cursor <= MaxSeq /\ feed.book \in Nat \cup {NoBook}
      /\ feed.local \in Nat /\ feed.reset \in BOOLEAN
      /\ feed = [cursor |-> feed.cursor, book |-> feed.book, local |-> feed.local,
                 holding |-> feed.holding, released |-> feed.released, reset |-> feed.reset]
  BY <1>1, FeedConstants DEF Feeds
<1>9. now \in Nat /\ Window <= now /\ now <= MaxTime
  BY <1>1, FeedConstants DEF FeedTyped
<1> QED
  BY <1>1, <1>2, <1>5, <1>6, <1>7, <1>8, <1>9

\* A round takes what it has not seen, and shows what may be shown of what it holds.
LEMMA RoundIs ==
    ASSUME FeedInv, book.id # Legacy, NEW slice, Reply(slice), feed.book \in {NoBook, slice.book},
           Absorb(slice)
    PROVE  \E fresh, ours, released, held, overflows :
             /\ Round(slice, fresh, ours, released, held, overflows)
             /\ RoundLeaves(slice, fresh, ours, released, held, overflows)
<1> DEFINE local == Since(own, feed.local)
           ours == local.records
           fresh == Beyond(slice.records, feed.cursor)
           H == IF feed.book = slice.book THEN feed.holding ELSE Ours(feed.holding)
           R == IF fresh = <<>> THEN H ELSE H \o fresh
           remote == Taken(feed, slice)
           all == ByTime(R \o ours)
           batch == Absorbed(slice, local)
           cursor == IF fresh = <<>> THEN feed.cursor ELSE Final(fresh).seq
<1>1. /\ feed.cursor \in Nat /\ feed.local \in Nat /\ feed.holding \in Seq(AllRecords)
      /\ feed.released \in Seq(AllRecords) /\ feed.reset \in BOOLEAN
      /\ feed = [cursor |-> feed.cursor, book |-> feed.book, local |-> feed.local,
                 holding |-> feed.holding, released |-> feed.released, reset |-> feed.reset]
      /\ now \in Nat /\ Window <= now /\ view \in Seq(AllRecords)
  BY FeedIs
<1>2. /\ slice.book \in Nat /\ slice.book # Legacy /\ slice.records \in Seq(Records({slice.book}))
      /\ Numbered(slice.records) /\ slice.first \in Nat
      /\ \A x \in Elements(slice.records) : x.seq \in Nat /\ x.book = slice.book
  BY ReplyIs
<1>3. Ring(own, MaxOwn) /\ own.id = Own /\ ShownOnce /\ Replied
  BY DEF FeedInv, FeedTyped, NewDaemon
<1>4. feed.book # slice.book => feed.cursor = 0 /\ feed.book = NoBook
  <2>1. last # NoBook => feed.book = last.book /\ last.book \in Nat
    BY <1>3, ReplyIs DEF Replied
  <2>2. NoBook \notin Nat
    BY FeedConstants
  <2> QED
    BY <1>3, <2>1, <2>2 DEF Replied
<1>5. /\ ours \in Seq(Records({Own})) /\ Numbered(ours)
      /\ \A x \in Elements(ours) : x \in Elements(own.records) /\ x.seq > feed.local
      /\ ours = <<>> => \A x \in Elements(own.records) : x.seq <= feed.local
      /\ ours # <<>> => Final(ours).seq = own.next - 1
  <2>1. MaxOwn \in Nat
    BY FeedConstants
  <2> QED
    BY <1>1, <1>3, <2>1, SinceIs
<1>6. /\ fresh \in Seq(Records({slice.book})) /\ Numbered(fresh)
      /\ Elements(fresh) = {x \in Elements(slice.records) : x.seq > feed.cursor}
  BY <1>1, <1>2, BeyondIs
<1>7. H \in Seq(AllRecords) /\ Elements(H) = Elements(feed.holding) /\ Plain(H)
  <2>1. CASE feed.book = slice.book
    BY <1>1, <1>3, <2>1 DEF ShownOnce
  <2>2. CASE feed.book # slice.book
    <3>1. \A x \in Elements(feed.holding) : x.book = Own
      <4>1. \A x \in Elements(feed.holding) : x \in AllRecords
        BY <1>1, EmptyIs
      <4>2. \A x \in AllRecords : x.book \in Nat \cup {Own}
        BY DEF AllRecords, Records
      <4>3. \A x \in Elements(feed.holding) : x.book # Own => x.book = NoBook
        BY <1>3, <1>4, <2>2 DEF ShownOnce
      <4> QED
        BY <4>1, <4>2, <4>3, FeedConstants
    <3>2. /\ Ours(feed.holding) \in Seq(AllRecords) /\ Thins(Ours(feed.holding), feed.holding)
          /\ Elements(Ours(feed.holding)) = {x \in Elements(feed.holding) : x.book = Own}
      BY <1>1, OursIs
    <3>3. Elements(Ours(feed.holding)) = Elements(feed.holding)
      BY <3>1, <3>2
    <3>4. Plain(feed.holding)
      BY <1>3 DEF ShownOnce
    <3>5. Plain(Ours(feed.holding))
      BY <1>1, <3>2, <3>4, ThinnedKeeps
    <3> QED
      BY <2>2, <3>2, <3>3, <3>5
  <2> QED
    BY <2>1, <2>2
<1>8. remote = [cursor |-> cursor, book |-> slice.book, local |-> feed.local, holding |-> R,
                released |-> feed.released, reset |-> feed.reset]
  <2> DEFINE known == IF feed.book = slice.book THEN feed
                      ELSE [feed EXCEPT !.book = slice.book, !.cursor = 0, !.holding = Ours(@)]
             new == Fresh(known, slice)
  <2>1. remote = IF new = <<>> THEN known
                 ELSE [known EXCEPT !.cursor = Final(new).seq, !.holding = @ \o new]
    BY DEF Taken
  <2>2. known = [cursor |-> feed.cursor, book |-> slice.book, local |-> feed.local, holding |-> H,
                 released |-> feed.released, reset |-> feed.reset]
    <3> HIDE DEF new, remote
    <3>1. CASE feed.book = slice.book
      BY <1>1, <3>1
    <3>2. CASE feed.book # slice.book
      <4>1. known = [feed EXCEPT !.book = slice.book, !.cursor = 0, !.holding = Ours(@)]
        BY <3>2
      <4>2. H = Ours(feed.holding) /\ feed.cursor = 0
        BY <1>4, <3>2
      <4> HIDE DEF known, H
      <4> QED
        BY <1>1, <4>1, <4>2
    <3> QED
      BY <3>1, <3>2
  <2>3. new = fresh
    <3>1. known.cursor = feed.cursor
      BY <2>2
    <3> HIDE DEF known
    <3> QED
      BY <3>1 DEF Fresh
  <2> HIDE DEF known, new, H, fresh, remote
  <2> QED
    BY <2>1, <2>2, <2>3
<1> HIDE DEF H
<1>9. R \in Seq(AllRecords) /\ Elements(R) = Elements(feed.holding) \cup Elements(fresh) /\ Plain(R)
  <2>1. Records({slice.book}) \subseteq AllRecords
    BY <1>2, FeedConstants
  <2>2. fresh \in Seq(AllRecords)
    BY <1>6, <2>1, SeqWider
  <2>3. Plain(fresh)
    <3>1. \A x \in Elements(fresh) : x.seq \in Nat
      BY <1>2, <1>6
    <3> QED
      BY <1>6, <3>1, NumberedIs
  <2>4. \A x \in Elements(H) : x \notin Elements(fresh)
    <3>1. ASSUME NEW x \in Elements(feed.holding), x \in Elements(fresh) PROVE FALSE
      <4>1. x.book = slice.book /\ x.seq > feed.cursor /\ x.seq \in Nat
        BY <1>2, <1>6, <3>1
      <4>2. x.book # Own
        BY <1>2, <4>1, FeedConstants
      <4>3. x.seq <= feed.cursor
        BY <1>3, <4>2 DEF ShownOnce
      <4> QED
        BY <1>1, <4>1, <4>3
    <3> QED
      BY <1>7, <3>1
  <2> HIDE DEF fresh
  <2>5. CASE fresh = <<>>
    BY <1>7, <2>5, NoElements
  <2>6. CASE fresh # <<>>
    <3>1. H \o fresh \in Seq(AllRecords) /\ Elements(H \o fresh) = Elements(H) \cup Elements(fresh)
      BY <1>7, <2>2, JoinedIs
    <3>2. Plain(H \o fresh)
      BY <1>7, <2>2, <2>3, <2>4, JoinedIs
    <3> QED
      BY <1>7, <2>6, <3>1, <3>2
  <2> QED
    BY <2>5, <2>6
<1>10. /\ all \in Seq(AllRecords) /\ Plain(all) /\ Timely(all)
       /\ Elements(all) = Elements(feed.holding) \cup Elements(fresh) \cup Elements(ours)
  <2> HIDE DEF R, ours, fresh
  <2>1. Records({Own}) \subseteq AllRecords
    BY FeedConstants
  <2>2. ours \in Seq(AllRecords)
    BY <1>5, <2>1, SeqWider
  <2>3. \A x \in Elements(ours) : x.seq \in Nat /\ x.book = Own
    <3>1. \A x \in Elements(ours) : x \in Records({Own})
      BY <1>5, EmptyIs
    <3> QED
      BY <3>1 DEF Records
  <2>4. Plain(ours)
    BY <1>5, <2>3, NumberedIs
  <2>5. \A x \in Elements(R) : x \notin Elements(ours)
    <3>1. ASSUME NEW x \in Elements(R), x \in Elements(ours) PROVE FALSE
      <4>1. x.seq > feed.local /\ x.seq \in Nat /\ x.book = Own
        BY <1>5, <2>3, <3>1
      <4>2. CASE x \in Elements(feed.holding)
        <5>1. x.seq <= feed.local
          BY <1>3, <4>1, <4>2 DEF ShownOnce
        <5> QED
          BY <1>1, <4>1, <5>1
      <4>3. CASE x \in Elements(fresh)
        BY <1>2, <1>6, <4>1, <4>3, FeedConstants
      <4> QED
        BY <1>9, <4>2, <4>3
    <3> QED
      BY <3>1
  <2>6. /\ R \o ours \in Seq(AllRecords) /\ Elements(R \o ours) = Elements(R) \cup Elements(ours)
        /\ Plain(R \o ours)
    <3>1. R \o ours \in Seq(AllRecords) /\ Elements(R \o ours) = Elements(R) \cup Elements(ours)
      BY <1>9, <2>2, JoinedIs
    <3>2. Plain(R \o ours)
      BY <1>9, <2>2, <2>4, <2>5, JoinedIs
    <3> QED
      BY <3>1, <3>2
  <2>7. Moments(AllRecords)
    BY FeedConstants
  <2> DEFINE joined == R \o ours
  <2>8. /\ joined \in Seq(AllRecords) /\ Plain(joined)
        /\ Elements(joined) = Elements(feed.holding) \cup Elements(fresh) \cup Elements(ours)
    BY <1>9, <2>6
  <2>9. all = ByTime(joined)
    OBVIOUS
  <2> HIDE DEF joined, all
  <2>10. /\ ByTime(joined) \in Seq(AllRecords) /\ Elements(ByTime(joined)) = Elements(joined)
         /\ Timely(ByTime(joined)) /\ Plain(ByTime(joined))
    BY <2>7, <2>8, ByTimeIs
  <2> QED
    BY <2>8, <2>9, <2>10
<1> DEFINE released == Released(all)
           held == StillHeld(all)
           overflows == Excess(all) > 0
<1>11. /\ released \in Seq(AllRecords) /\ held \in Seq(AllRecords)
       /\ Plain(released) /\ Plain(held) /\ Timely(released)
       /\ Elements(released) \cup Elements(held)
            = Elements(feed.holding) \cup Elements(fresh) \cup Elements(ours)
       /\ \A x \in Elements(released) : x \notin Elements(held)
       /\ \A x \in Elements(released), y \in Elements(held) : x.at <= y.at
       /\ ~overflows => \A x \in Elements(released) : x.at + Window <= now
       /\ \A y \in Elements(held) : y.at + Window > now
  <2> HIDE DEF all
  <2>1. /\ released \in Seq(AllRecords) /\ held \in Seq(AllRecords)
        /\ Plain(released) /\ Plain(held) /\ Timely(released)
        /\ Elements(all) = Elements(released) \cup Elements(held)
        /\ \A x \in Elements(released) : x \notin Elements(held)
        /\ \A x \in Elements(released), y \in Elements(held) : x.at <= y.at
        /\ Excess(all) \in Nat
        /\ Excess(all) = 0 => \A x \in Elements(released) : x.at + Window <= now
        /\ \A y \in Elements(held) : y.at + Window > now
    BY <1>1, <1>10, ReleasedIs
  <2>2. ~overflows => Excess(all) = 0
    BY <2>1
  <2> HIDE DEF released, held, overflows
  <2> QED
    BY <1>10, <2>1, <2>2
<1>12. Round(slice, fresh, ours, released, held, overflows)
  <2> HIDE DEF fresh, ours, released, held, overflows
  <2> QED
    BY <1>5, <1>6, <1>11 DEF Round
<1>13. remote.holding = R /\ remote.local = feed.local /\ remote.released = feed.released
  <2> HIDE DEF remote, R, cursor
  <2> QED
    BY <1>8
<1>14. batch = [feed |-> [remote EXCEPT
                    !.reset = FALSE,
                    !.local = IF ours = <<>> THEN @ ELSE Final(ours).seq,
                    !.holding = held,
                    !.released = LastOf(@ \o Ours(released), BookCapacity)],
                reset |-> feed.reset,
                records |-> IF feed.reset THEN ByTime(feed.released \o released) ELSE released,
                overflows |-> overflows]
  <2>1. (slice.book = Legacy) = FALSE
    BY <1>2
  <2>2. (feed.reset \/ (~(slice.book = Legacy) /\ feed.book # slice.book /\ feed.book # NoBook))
          = feed.reset
    BY <1>1, <1>4
  <2> DEFINE legacy == slice.book = Legacy
             restarted == ~legacy /\ feed.book # slice.book
             restart == feed.reset \/ (restarted /\ feed.book # NoBook)
             taken == IF legacy THEN TakenLegacy(feed, slice) ELSE Taken(feed, slice)
             sorted == ByTime(taken.holding \o local.records)
             shown == Released(sorted)
  <2>3. batch = [feed |-> [taken EXCEPT
                    !.reset = FALSE,
                    !.local = IF legacy \/ ours = <<>> THEN @ ELSE Final(ours).seq,
                    !.holding = StillHeld(sorted),
                    !.released = LastOf(@ \o Ours(shown), BookCapacity)],
                reset |-> legacy \/ restart,
                records |-> IF restart THEN ByTime(feed.released \o shown) ELSE shown,
                overflows |-> Excess(sorted) > 0]
    BY DEF Absorbed, Released, StillHeld, Settled, Pending, Excess
  <2>4. legacy = FALSE /\ restart = feed.reset /\ taken = remote
    BY <2>1, <2>2
  <2>5. sorted = all
    <3> HIDE DEF remote, taken, R
    <3> QED
      BY <1>13, <2>4
  <2>6. shown = released /\ StillHeld(sorted) = held /\ (Excess(sorted) > 0) = overflows
    <3> HIDE DEF sorted, all
    <3> QED
      BY <2>5
  <2>7. (legacy \/ restart) = feed.reset
    BY <1>1, <2>4
  <2> HIDE DEF batch, legacy, restart, taken, sorted, shown, remote, all, held, released, overflows, ours
  <2> QED
    BY <2>3, <2>4, <2>6, <2>7
<1>15. batch.feed = [cursor |-> cursor, book |-> slice.book,
                     local |-> IF ours = <<>> THEN feed.local ELSE Final(ours).seq,
                     holding |-> held,
                     released |-> LastOf(feed.released \o Ours(released), BookCapacity),
                     reset |-> FALSE]
  <2> HIDE DEF remote, R, cursor, held, released, ours, overflows, batch
  <2> QED
    BY <1>8, <1>14
<1>16. /\ batch.reset = feed.reset /\ batch.overflows = overflows
       /\ batch.records = IF feed.reset THEN ByTime(feed.released \o released) ELSE released
  <2> HIDE DEF remote, held, released, ours, overflows, batch
  <2> QED
    BY <1>14
<1>17. /\ last' = slice /\ feed' = batch.feed
       /\ view' = LastOf((IF batch.reset THEN <<>> ELSE view) \o batch.records, BookCapacity)
       /\ tardy' = (tardy \/ batch.overflows \/ slice.asof + Window < now
                     \/ slice.book = Legacy
                     \/ (last # NoBook /\ slice.book = last.book /\ slice.first < last.first))
       /\ accounted' = Min({MaxSeq, (IF slice.book # feed.book THEN 0 ELSE accounted)
                                + Gap(feed, slice)
                                + Len(Fresh(IF slice.book # feed.book THEN NewFeed ELSE feed, slice))})
  BY DEF Absorb
<1>18. view' = LastOf(IF feed.reset THEN ByTime(feed.released \o released) ELSE view \o released,
                      BookCapacity)
  <2>1. CASE feed.reset
    <3>1. ByTime(feed.released \o released) \in Seq(AllRecords)
      <4> HIDE DEF released
      <4>1. feed.released \o released \in Seq(AllRecords)
        BY <1>1, <1>11, ConcatProperties
      <4>2. Moments(AllRecords)
        BY FeedConstants
      <4> DEFINE both == feed.released \o released
      <4> HIDE DEF both
      <4>3. ByTime(both) \in Seq(AllRecords)
        BY <4>1, <4>2, ByTimeIs DEF both
      <4> QED
        BY <4>3 DEF both
    <3> DEFINE again == ByTime(feed.released \o released)
    <3> HIDE DEF again
    <3>2. <<>> \o again = again
      BY <3>1, ConcatEmptySeq DEF again
    <3> HIDE DEF released, batch
    <3> QED
      BY <1>16, <1>17, <2>1, <3>2 DEF again
  <2>2. CASE ~feed.reset
    <3> HIDE DEF released, batch
    <3> QED
      BY <1>16, <1>17, <2>2
  <2> QED
    BY <2>1, <2>2
<1>19. Fresh(IF slice.book # feed.book THEN NewFeed ELSE feed, slice) = fresh
  <2>1. (IF slice.book # feed.book THEN NewFeed ELSE feed).cursor = feed.cursor
    BY <1>4 DEF NewFeed
  <2> QED
    BY <2>1 DEF Fresh
<1>20. Gap(feed, slice) = IF fresh = <<>> THEN Monus(slice.first, feed.cursor + 1)
                          ELSE Head(fresh).seq - feed.cursor - 1
  <2>1. (IF feed.book = slice.book THEN feed.cursor ELSE 0) = feed.cursor
    BY <1>4
  <2>2. [feed EXCEPT !.cursor = feed.cursor].cursor = feed.cursor
    BY <1>1
  <2>3. Fresh([feed EXCEPT !.cursor = feed.cursor], slice) = fresh
    BY <2>2 DEF Fresh
  <2> HIDE DEF fresh
  <2> QED
    BY <2>1, <2>3 DEF Gap
<1>21. RoundLeaves(slice, fresh, ours, released, held, overflows)
  <2> HIDE DEF fresh, ours, released, held, overflows, batch
  <2> QED
    BY <1>2, <1>15, <1>16, <1>17, <1>18, <1>19, <1>20 DEF RoundLeaves
<1> HIDE DEF fresh, ours, released, held, overflows
<1> QED
  BY <1>12, <1>21

-----------------------------------------------------------------------------
\* What a round keeps

\* A sequence of these elements.
LEMMA SeqNarrower ==
    ASSUME NEW V, NEW W, NEW s \in Seq(V), Elements(s) \subseteq W
    PROVE  s \in Seq(W)
<1>1. PICK n \in Nat : n = Len(s)
  OBVIOUS
<1>2. s \in [1 .. n -> V]
  BY <1>1
<1>3. \A i \in 1 .. n : s[i] \in W
  BY <1>1 DEF Elements
<1>4. s \in [1 .. n -> W]
  BY <1>2, <1>3
<1> QED
  BY <1>4, FunctionIsSeq

\* The feed is past everything it was answered, and past every record of the client.
LEMMA RoundCursors ==
    ASSUME FeedInv, book.id # Legacy, NEW slice, Reply(slice),
           NEW fresh, NEW ours, NEW released, NEW held, NEW overflows,
           Round(slice, fresh, ours, released, held, overflows),
           RoundLeaves(slice, fresh, ours, released, held, overflows)
    PROVE  /\ feed'.cursor \in Nat /\ feed.cursor <= feed'.cursor /\ feed'.cursor <= MaxSeq
           /\ \A x \in Elements(slice.records) : x.seq <= feed'.cursor
           /\ \A x \in Elements(fresh) : x.seq <= feed'.cursor /\ x.seq \in Nat /\ x.book = slice.book
           /\ feed'.local \in Nat /\ feed.local <= feed'.local /\ feed'.local < own.next
           /\ \A x \in Elements(own.records) : x.seq <= feed'.local
           /\ \A x \in Elements(ours) : x.seq <= feed'.local /\ x.seq \in Nat /\ x.book = Own
<1>1. /\ feed.cursor \in Nat /\ feed.cursor <= MaxSeq /\ feed.local \in Nat /\ feed.local < own.next
      /\ MaxSeq \in Nat
  BY FeedIs, FeedConstants DEF FeedInv, FeedTyped
<1>2. \A x \in Elements(slice.records) : x.seq \in Nat /\ x.book = slice.book /\ x.seq <= MaxSeq
  BY ReplyIs
<1>3. /\ own.next \in Nat /\ own.next # 0
      /\ \A x \in Elements(own.records) : x.seq \in Nat /\ x.book = Own /\ x.seq < own.next
  <2>1. Ring(own, MaxOwn) /\ own.id = Own /\ MaxOwn \in Nat
    BY FeedConstants DEF FeedInv, FeedTyped
  <2> QED
    BY <2>1, RingIs
<1>4. /\ fresh \in Seq(Records({slice.book})) /\ Numbered(fresh)
      /\ Elements(fresh) = {x \in Elements(slice.records) : x.seq > feed.cursor}
      /\ \A x \in Elements(ours) : x \in Elements(own.records) /\ x.seq > feed.local
      /\ ours = <<>> => \A x \in Elements(own.records) : x.seq <= feed.local
      /\ ours # <<>> => Final(ours).seq = own.next - 1
  BY DEF Round
<1>5. /\ feed'.cursor = IF fresh = <<>> THEN feed.cursor ELSE Final(fresh).seq
      /\ feed'.local = IF ours = <<>> THEN feed.local ELSE Final(ours).seq
  BY DEF RoundLeaves
<1>6. /\ feed'.cursor \in Nat /\ feed.cursor <= feed'.cursor /\ feed'.cursor <= MaxSeq
      /\ \A x \in Elements(slice.records) : x.seq <= feed'.cursor
  <2>1. CASE fresh = <<>>
    <3>1. Elements(fresh) = {}
      BY <2>1, NoElements
    <3> QED
      BY <1>1, <1>2, <1>4, <1>5, <2>1, <3>1
  <2>2. CASE fresh # <<>>
    <3>1. Final(fresh) \in Elements(fresh)
      BY <1>4, <2>2, EmptyIs
    <3>2. \A x \in Elements(fresh) : x.seq \in Nat
      BY <1>2, <1>4
    <3>3. \A x \in Elements(fresh) : x.seq <= Final(fresh).seq
      BY <1>4, <2>2, <3>2, NumberedIs
    <3>4. /\ Final(fresh).seq \in Nat /\ Final(fresh).seq > feed.cursor
          /\ Final(fresh).seq <= MaxSeq
      BY <1>2, <1>4, <3>1
    <3>5. \A x \in Elements(slice.records) : x.seq <= Final(fresh).seq
      <4> SUFFICES ASSUME NEW x \in Elements(slice.records) PROVE x.seq <= Final(fresh).seq
        OBVIOUS
      <4>1. CASE x.seq > feed.cursor
        BY <1>4, <3>3, <4>1
      <4>2. CASE ~(x.seq > feed.cursor)
        BY <1>1, <1>2, <3>4, <4>2
      <4> QED
        BY <4>1, <4>2
    <3> QED
      BY <1>1, <1>5, <2>2, <3>4, <3>5
  <2> QED
    BY <2>1, <2>2
<1>7. /\ feed'.local \in Nat /\ feed.local <= feed'.local /\ feed'.local < own.next
      /\ \A x \in Elements(own.records) : x.seq <= feed'.local
  <2>1. CASE ours = <<>>
    BY <1>1, <1>4, <1>5, <2>1
  <2>2. CASE ours # <<>>
    <3>1. feed'.local = own.next - 1
      BY <1>4, <1>5, <2>2
    <3> QED
      BY <1>1, <1>3, <3>1
  <2> QED
    BY <2>1, <2>2
<1>8. \A x \in Elements(fresh) : x.seq <= feed'.cursor /\ x.seq \in Nat /\ x.book = slice.book
  BY <1>2, <1>4, <1>6
<1>9. \A x \in Elements(ours) : x.seq <= feed'.local /\ x.seq \in Nat /\ x.book = Own
  BY <1>3, <1>4, <1>7
<1> QED
  BY <1>6, <1>7, <1>8, <1>9

\* What a round handles was neither shown nor kept, and belongs to the feed.
LEMMA RoundIsNew ==
    ASSUME FeedInv, book.id # Legacy, NEW slice, Reply(slice), feed.book \in {NoBook, slice.book},
           NEW fresh, NEW ours, NEW released, NEW held, NEW overflows,
           Round(slice, fresh, ours, released, held, overflows),
           RoundLeaves(slice, fresh, ours, released, held, overflows),
           NEW x \in Elements(released) \cup Elements(held)
    PROVE  /\ x \notin Elements(feed.released)
           /\ ~feed.reset => x \notin Elements(view)
           /\ x \in Elements(held) => x \notin Elements(released)
           /\ x.book = Own => x.seq <= feed'.local
           /\ x.book # Own => x.book = slice.book /\ x.seq <= feed'.cursor
<1>1. ShownOnce
  BY DEF FeedInv, NewDaemon
<1>2. /\ feed.cursor \in Nat /\ feed.local \in Nat
      /\ \A y \in Elements(feed.released) : y.book = Own
      /\ \A y \in Elements(view) \cup Elements(feed.holding) \cup Elements(feed.released) :
            y.seq \in Nat
  BY FeedIs
<1>3. /\ Elements(released) \cup Elements(held)
           = Elements(feed.holding) \cup Elements(fresh) \cup Elements(ours)
      /\ \A y \in Elements(released) : y \notin Elements(held)
      /\ \A y \in Elements(fresh) : y.seq > feed.cursor
      /\ \A y \in Elements(ours) : y.seq > feed.local
  BY DEF Round
<1>4. /\ feed'.cursor \in Nat /\ feed.cursor <= feed'.cursor
      /\ \A y \in Elements(fresh) : y.seq <= feed'.cursor /\ y.seq \in Nat /\ y.book = slice.book
      /\ feed'.local \in Nat /\ feed.local <= feed'.local
      /\ \A y \in Elements(ours) : y.seq <= feed'.local /\ y.seq \in Nat /\ y.book = Own
  BY RoundCursors
<1>5. slice.book \in Nat /\ slice.book # Own /\ NoBook # Own
  BY ReplyIs, FeedConstants
<1>6. x \in Elements(held) => x \notin Elements(released)
  BY <1>3
<1>7. CASE x \in Elements(feed.holding)
  <2>1. x \notin Elements(view) /\ x \notin Elements(feed.released)
    BY <1>1, <1>7 DEF ShownOnce
  <2>2. x.book = Own => x.seq <= feed'.local
    <3>1. x.book = Own => x.seq <= feed.local
      BY <1>1, <1>7 DEF ShownOnce
    <3>2. x.seq \in Nat
      BY <1>2, <1>7
    <3> QED
      BY <1>2, <1>4, <3>1, <3>2
  <2>3. x.book # Own => x.book = slice.book /\ x.seq <= feed'.cursor
    <3>1. x.book # Own => x.book = feed.book /\ x.seq <= feed.cursor
      BY <1>1, <1>7 DEF ShownOnce
    <3>2. x.seq \in Nat
      BY <1>2, <1>7
    <3>3. x.book \in Nat \cup {Own}
      <4>1. x \in AllRecords
        BY <1>7, FeedIs, EmptyIs
      <4> QED
        BY <4>1 DEF AllRecords, Records
    <3>4. x.book # Own => x.book = slice.book
      BY <3>1, <3>3, FeedConstants
    <3> QED
      BY <1>2, <1>4, <3>1, <3>2, <3>4
  <2> QED
    BY <1>6, <2>1, <2>2, <2>3
<1>8. CASE x \in Elements(fresh)
  <2>1. x.book = slice.book /\ x.seq > feed.cursor /\ x.seq \in Nat /\ x.book # Own
        /\ x.seq <= feed'.cursor
    BY <1>3, <1>4, <1>5, <1>8
  <2>2. x \notin Elements(feed.released)
    BY <1>2, <2>1
  <2>3. ~feed.reset => x \notin Elements(view)
    <3> SUFFICES ASSUME ~feed.reset, x \in Elements(view) PROVE FALSE
      OBVIOUS
    <3>1. x.seq <= feed.cursor
      BY <1>1, <2>1 DEF ShownOnce
    <3> QED
      BY <1>2, <2>1, <3>1
  <2> QED
    BY <1>6, <2>1, <2>2, <2>3
<1>9. CASE x \in Elements(ours)
  <2>1. x.book = Own /\ x.seq > feed.local /\ x.seq \in Nat /\ x.seq <= feed'.local
    BY <1>3, <1>4, <1>9
  <2>2. ASSUME x \in Elements(view) \cup Elements(feed.released) PROVE FALSE
    <3>1. x.seq <= feed.local
      BY <1>1, <2>1, <2>2 DEF ShownOnce
    <3> QED
      BY <1>2, <2>1, <3>1
  <2> QED
    BY <1>6, <2>1, <2>2
<1> QED
  BY <1>3, <1>7, <1>8, <1>9

\* What there is to see after a round, more than fits included.
Seen(released) == IF feed.reset THEN ByTime(feed.released \o released) ELSE view \o released

\* It is what there was and what is released, in this order.
LEMMA SeenIs ==
    ASSUME FeedInv, book.id # Legacy, NEW slice, Reply(slice), feed.book \in {NoBook, slice.book},
           NEW fresh, NEW ours, NEW released, NEW held, NEW overflows,
           Round(slice, fresh, ours, released, held, overflows),
           RoundLeaves(slice, fresh, ours, released, held, overflows)
    PROVE  /\ Seen(released) \in Seq(AllRecords) /\ Plain(Seen(released))
           /\ Elements(Seen(released))
                = (IF feed.reset THEN Elements(feed.released) ELSE Elements(view)) \cup Elements(released)
           /\ feed.reset => Timely(Seen(released))
           /\ ~feed.reset /\ Timely(view) /\ (\A x \in Elements(view), y \in Elements(released) : x.at <= y.at)
                => Timely(Seen(released))
           /\ view' = LastOf(Seen(released), BookCapacity)
           /\ feed.released \o released \in Seq(AllRecords) /\ Plain(feed.released \o released)
           /\ Len(feed.released \o released) = Len(feed.released) + Len(released)
           /\ Elements(feed.released \o released) = Elements(feed.released) \cup Elements(released)
<1>1. /\ feed.released \in Seq(AllRecords) /\ view \in Seq(AllRecords) /\ feed.reset \in BOOLEAN
  BY FeedIs
<1>2. released \in Seq(AllRecords) /\ Plain(released) /\ Timely(released)
  BY DEF Round
<1>3. Plain(view) /\ Plain(feed.released)
  BY DEF FeedInv, NewDaemon, ShownOnce
<1>4. \A x \in Elements(feed.released) : x \notin Elements(released)
  BY RoundIsNew
<1>5. ~feed.reset => \A x \in Elements(view) : x \notin Elements(released)
  BY RoundIsNew
<1>6. view' = LastOf(Seen(released), BookCapacity)
  BY DEF RoundLeaves, Seen
<1> DEFINE both == feed.released \o released
<1>7. /\ both \in Seq(AllRecords) /\ Plain(both) /\ Len(both) = Len(feed.released) + Len(released)
      /\ Elements(both) = Elements(feed.released) \cup Elements(released)
  <2>1. /\ both \in Seq(AllRecords) /\ Len(both) = Len(feed.released) + Len(released)
        /\ Elements(both) = Elements(feed.released) \cup Elements(released)
    BY <1>1, <1>2, JoinedIs
  <2>2. Plain(both)
    BY <1>1, <1>2, <1>3, <1>4, JoinedIs
  <2> QED
    BY <2>1, <2>2
<1>8. Moments(AllRecords)
  BY FeedConstants
<1>9. CASE feed.reset
  <2>1. Seen(released) = ByTime(both)
    BY <1>9 DEF Seen
  <2> HIDE DEF both
  <2>2. ByTime(both) \in Seq(AllRecords) /\ Elements(ByTime(both)) = Elements(both)
        /\ Timely(ByTime(both)) /\ Plain(ByTime(both))
    BY <1>7, <1>8, ByTimeIs
  <2>3. /\ Seen(released) \in Seq(AllRecords) /\ Plain(Seen(released)) /\ Timely(Seen(released))
        /\ Elements(Seen(released)) = Elements(feed.released) \cup Elements(released)
    BY <1>7, <2>1, <2>2
  <2> QED
    BY <1>6, <1>7, <1>9, <2>3 DEF both
<1>10. CASE ~feed.reset
  <2> DEFINE seen == view \o released
  <2>1. Seen(released) = seen
    BY <1>10 DEF Seen
  <2>2. seen \in Seq(AllRecords) /\ Elements(seen) = Elements(view) \cup Elements(released)
    BY <1>1, <1>2, JoinedIs
  <2>3. Plain(seen)
    BY <1>1, <1>2, <1>3, <1>5, <1>10, JoinedIs
  <2>4. Timely(view) /\ (\A x \in Elements(view), y \in Elements(released) : x.at <= y.at)
           => Timely(seen)
    BY <1>1, <1>2, JoinedIs
  <2> HIDE DEF seen
  <2> QED
    BY <1>6, <1>7, <1>10, <2>1, <2>2, <2>3, <2>4
<1> QED
  BY <1>9, <1>10

\* The client's lines that are kept: those there were and those that are released.
Keepers(released) == feed.released \o Ours(released)

\* They are the client's, each once.
LEMMA KeepersAre ==
    ASSUME FeedInv, book.id # Legacy, NEW slice, Reply(slice), feed.book \in {NoBook, slice.book},
           NEW fresh, NEW ours, NEW released, NEW held, NEW overflows,
           Round(slice, fresh, ours, released, held, overflows),
           RoundLeaves(slice, fresh, ours, released, held, overflows)
    PROVE  /\ Keepers(released) \in Seq(Records({Own})) /\ Plain(Keepers(released))
           /\ Elements(Keepers(released))
                = Elements(feed.released) \cup {x \in Elements(released) : x.book = Own}
           /\ Len(feed.released) <= Len(Keepers(released))
           /\ feed'.released = LastOf(Keepers(released), BookCapacity)
<1>1. feed.released \in Seq(Records({Own})) /\ Plain(feed.released)
  BY DEF FeedInv, NewDaemon, ShownOnce, Feeds
<1>2. released \in Seq(AllRecords) /\ Plain(released)
  BY DEF Round
<1> DEFINE mine == Ours(released)
<1>3. /\ mine \in Seq(AllRecords) /\ Thins(mine, released)
      /\ Elements(mine) = {x \in Elements(released) : x.book = Own}
  BY <1>2, OursIs
<1>4. Plain(mine)
  BY <1>2, <1>3, ThinnedKeeps
<1>5. mine \in Seq(Records({Own}))
  <2>1. \A x \in AllRecords : x.book = Own => x \in Records({Own})
    BY DEF AllRecords, Records
  <2>2. \A x \in Elements(mine) : x \in AllRecords /\ x.book = Own
    BY <1>3, EmptyIs
  <2>3. Elements(mine) \subseteq Records({Own})
    BY <2>1, <2>2
  <2> HIDE DEF mine
  <2> QED
    BY <1>3, <2>3, SeqNarrower
<1>6. \A x \in Elements(feed.released) : x \notin Elements(mine)
  BY <1>3, RoundIsNew
<1> HIDE DEF mine
<1> DEFINE both == feed.released \o mine
<1>7. /\ both \in Seq(Records({Own})) /\ Len(both) = Len(feed.released) + Len(mine)
      /\ Elements(both) = Elements(feed.released) \cup Elements(mine)
  BY <1>1, <1>5, JoinedIs
<1>8. Plain(both)
  BY <1>1, <1>4, <1>5, <1>6, JoinedIs
<1>9. Len(feed.released) <= Len(both)
  <2>1. Len(feed.released) \in Nat /\ Len(mine) \in Nat
    BY <1>1, <1>5
  <2> QED
    BY <1>7, <2>1
<1>10. both = Keepers(released)
  BY DEF Keepers, mine
<1>11. feed'.released = LastOf(Keepers(released), BookCapacity)
  BY DEF RoundLeaves, Keepers
<1> HIDE DEF both
<1> QED
  BY <1>3, <1>7, <1>8, <1>9, <1>10, <1>11

\* What fits of the keepers.
LEMMA KeptIs ==
    ASSUME FeedInv, book.id # Legacy, NEW slice, Reply(slice), feed.book \in {NoBook, slice.book},
           NEW fresh, NEW ours, NEW released, NEW held, NEW overflows,
           Round(slice, fresh, ours, released, held, overflows),
           RoundLeaves(slice, fresh, ours, released, held, overflows)
    PROVE  /\ feed'.released \in Seq(Records({Own})) /\ Plain(feed'.released)
           /\ Len(feed'.released) <= BookCapacity
           /\ Elements(feed'.released)
                \subseteq Elements(feed.released) \cup {x \in Elements(released) : x.book = Own}
           /\ \/ Len(feed'.released) = BookCapacity
              \/ /\ Len(feed.released) < BookCapacity
                 /\ Elements(feed'.released)
                      = Elements(feed.released) \cup {x \in Elements(released) : x.book = Own}
<1> DEFINE k == Keepers(released)
<1>1. /\ k \in Seq(Records({Own})) /\ Plain(k)
      /\ Elements(k) = Elements(feed.released) \cup {x \in Elements(released) : x.book = Own}
      /\ Len(feed.released) <= Len(k)
      /\ feed'.released = LastOf(k, BookCapacity)
  BY KeepersAre
<1>2. BookCapacity \in Nat /\ Len(k) \in Nat /\ Len(feed.released) \in Nat
  BY <1>1, FeedConstants DEF FeedInv, NewDaemon, Feeds
<1> HIDE DEF k
<1> DEFINE t == LastOf(k, BookCapacity)
<1>3. /\ t \in Seq(Records({Own})) /\ Len(t) <= BookCapacity /\ Thins(t, k)
      /\ Len(k) <= BookCapacity => t = k
      /\ Len(k) >= BookCapacity => Len(t) = BookCapacity
  BY <1>1, <1>2, LastOfIs
<1> HIDE DEF t
<1>4. Plain(t) /\ Elements(t) \subseteq Elements(k)
  BY <1>1, <1>3, ThinnedKeeps
<1>5. feed'.released = t
  BY <1>1 DEF t
<1>6. \/ Len(t) = BookCapacity
      \/ Len(feed.released) < BookCapacity /\ Elements(t) = Elements(k)
  BY <1>1, <1>2, <1>3
<1> QED
  BY <1>1, <1>3, <1>4, <1>5, <1>6

\* What is on screen after a round.
LEMMA ScreenIs ==
    ASSUME FeedInv, book.id # Legacy, NEW slice, Reply(slice), feed.book \in {NoBook, slice.book},
           NEW fresh, NEW ours, NEW released, NEW held, NEW overflows,
           Round(slice, fresh, ours, released, held, overflows),
           RoundLeaves(slice, fresh, ours, released, held, overflows)
    PROVE  /\ view' \in Seq(AllRecords) /\ Plain(view') /\ Elements(view') \subseteq Elements(Seen(released))
           /\ Timely(Seen(released)) => Timely(view')
           /\ Len(view') < BookCapacity => view' = Seen(released)
<1> DEFINE s == Seen(released)
<1>1. s \in Seq(AllRecords) /\ Plain(s) /\ view' = LastOf(s, BookCapacity)
  BY SeenIs
<1>2. BookCapacity \in Nat /\ Len(s) \in Nat
  BY <1>1, FeedConstants
<1> HIDE DEF s
<1> DEFINE t == LastOf(s, BookCapacity)
<1>3. /\ t \in Seq(AllRecords) /\ Thins(t, s)
      /\ Len(s) <= BookCapacity => t = s
      /\ Len(s) >= BookCapacity => Len(t) = BookCapacity
  BY <1>1, <1>2, LastOfIs
<1> HIDE DEF t
<1>4. Plain(t) /\ Elements(t) \subseteq Elements(s)
  BY <1>1, <1>3, ThinnedKeeps
<1>5. Timely(s) => Timely(t)
  BY <1>1, <1>3, ThinnedKeeps
<1>6. view' = t
  BY <1>1 DEF t
<1>7. Len(t) < BookCapacity => t = s
  BY <1>2, <1>3
<1> QED
  BY <1>3, <1>4, <1>5, <1>6, <1>7 DEF s

\* A record is on screen, held, or still to come, also after a round.
LEMMA RoundShows ==
    ASSUME FeedInv, book.id # Legacy, NEW slice, Reply(slice), feed.book \in {NoBook, slice.book},
           NEW fresh, NEW ours, NEW released, NEW held, NEW overflows,
           Round(slice, fresh, ours, released, held, overflows),
           RoundLeaves(slice, fresh, ours, released, held, overflows)
    PROVE  ShownOnce' /\ OursKept' /\ feed' \in Feeds /\ view' \in Seq(AllRecords)
<1>1. /\ feed'.holding = held /\ feed'.book = slice.book /\ feed'.reset = FALSE
      /\ feed' = [cursor |-> feed'.cursor, book |-> slice.book, local |-> feed'.local,
                  holding |-> held, released |-> feed'.released, reset |-> FALSE]
  BY DEF RoundLeaves
<1>2. held \in Seq(AllRecords) /\ Plain(held)
  BY DEF Round
<1>3. /\ feed'.cursor \in Nat /\ feed.cursor <= feed'.cursor /\ feed'.cursor <= MaxSeq
      /\ feed'.local \in Nat /\ feed.local <= feed'.local
  BY RoundCursors
<1>4. /\ feed.cursor \in Nat /\ feed.local \in Nat
      /\ \A x \in Elements(feed.released) : x.book = Own
      /\ \A x \in Elements(view) \cup Elements(feed.released) : x.seq \in Nat
  BY FeedIs
<1>5. /\ feed'.released \in Seq(Records({Own})) /\ Plain(feed'.released)
      /\ Len(feed'.released) <= BookCapacity
      /\ Elements(feed'.released)
           \subseteq Elements(feed.released) \cup {x \in Elements(released) : x.book = Own}
      /\ \/ Len(feed'.released) = BookCapacity
         \/ /\ Len(feed.released) < BookCapacity
            /\ Elements(feed'.released)
                 = Elements(feed.released) \cup {x \in Elements(released) : x.book = Own}
  BY KeptIs
<1>6. view' \in Seq(AllRecords) /\ Plain(view') /\ Elements(view') \subseteq Elements(Seen(released))
  BY ScreenIs
<1>7. Elements(Seen(released))
        = (IF feed.reset THEN Elements(feed.released) ELSE Elements(view)) \cup Elements(released)
  BY SeenIs
<1>8. \A x \in Elements(released) \cup Elements(held) :
        /\ x \notin Elements(feed.released)
        /\ ~feed.reset => x \notin Elements(view)
        /\ x \in Elements(held) => x \notin Elements(released)
        /\ x.book = Own => x.seq <= feed'.local
        /\ x.book # Own => x.book = slice.book /\ x.seq <= feed'.cursor
  BY RoundIsNew
<1>9. ShownOnce /\ OursKept /\ slice.book \in Nat
  BY ReplyIs DEF FeedInv, NewDaemon
<1>10. feed.book = slice.book \/ (feed.book = NoBook /\ feed.cursor = 0)
  <2>1. last # NoBook => feed.book = last.book /\ last.book \in Nat
    BY ReplyIs DEF FeedInv, NewDaemon, Replied
  <2> QED
    BY <2>1, FeedConstants DEF FeedInv, NewDaemon, Replied
<1>11. feed' \in Feeds
  <2>1. feed'.cursor \in 0 .. MaxSeq
    BY <1>3, FeedConstants
  <2>2. held \in Seq(Records(Nat \cup {Own}))
    BY <1>2 DEF AllRecords
  <2> QED
    BY <1>1, <1>3, <1>5, <1>9, <2>1, <2>2 DEF Feeds
<1>12. \A x \in Elements(held) : x \notin Elements(view') /\ x \notin Elements(feed'.released)
  BY <1>5, <1>6, <1>7, <1>8
<1>13. \A x \in Elements(view') \cup Elements(held) \cup Elements(feed'.released) :
          x.book = Own => x.seq <= feed'.local
  <2> SUFFICES ASSUME NEW x \in Elements(view') \cup Elements(held) \cup Elements(feed'.released),
                      x.book = Own
               PROVE  x.seq <= feed'.local
    OBVIOUS
  <2>1. CASE x \in Elements(released) \cup Elements(held)
    BY <1>8, <2>1
  <2>2. CASE x \in Elements(view) \cup Elements(feed.released)
    <3>1. x.seq <= feed.local /\ x.seq \in Nat
      BY <1>4, <1>9, <2>2 DEF ShownOnce
    <3> QED
      BY <1>3, <1>4, <3>1
  <2> QED
    BY <1>5, <1>6, <1>7, <2>1, <2>2
<1>14. \A x \in Elements(held) : x.book # Own => x.book = slice.book /\ x.seq <= feed'.cursor
  BY <1>8
<1>15. \A x \in Elements(view') : x.book # Own => x.book = slice.book /\ x.seq <= feed'.cursor
  <2> SUFFICES ASSUME NEW x \in Elements(view'), x.book # Own
               PROVE  x.book = slice.book /\ x.seq <= feed'.cursor
    OBVIOUS
  <2>1. CASE x \in Elements(released)
    BY <1>8, <2>1
  <2>2. CASE x \notin Elements(released)
    <3>1. ~feed.reset /\ x \in Elements(view)
      BY <1>4, <1>6, <1>7, <2>2
    <3>2. x.book = feed.book /\ x.seq <= feed.cursor /\ x.seq \in Nat
      BY <1>4, <1>9, <3>1 DEF ShownOnce
    <3>3. x.book \in Nat \cup {Own}
      <4>1. x \in AllRecords
        BY <3>1, FeedIs, EmptyIs
      <4> QED
        BY <4>1 DEF AllRecords, Records
    <3>4. x.book = slice.book
      BY <1>10, <3>2, <3>3, FeedConstants
    <3> QED
      BY <1>3, <1>4, <3>2, <3>4
  <2> QED
    BY <2>1, <2>2
<1>16. ShownOnce'
  <2>1. Plain(view)' /\ Plain(feed.holding)' /\ Plain(feed.released)'
    BY <1>1, <1>2, <1>5, <1>6 DEF Plain
  <2>2. (\A r \in Elements(feed.holding) : r \notin Elements(view) /\ r \notin Elements(feed.released))'
    BY <1>1, <1>12 DEF Elements
  <2>3. (\A r \in Elements(view) \cup Elements(feed.holding) \cup Elements(feed.released) :
            r.book = Own => r.seq <= feed.local)'
    BY <1>1, <1>13 DEF Elements
  <2>4. (\A r \in Elements(feed.holding) :
            r.book # Own => r.book = feed.book /\ r.seq <= feed.cursor)'
    BY <1>1, <1>14 DEF Elements
  <2>5. (~feed.reset => \A r \in Elements(view) :
            r.book # Own => r.book = feed.book /\ r.seq <= feed.cursor)'
    BY <1>1, <1>15 DEF Elements
  <2> QED
    BY <2>1, <2>2, <2>3, <2>4, <2>5 DEF ShownOnce
<1>17. OursKept'
  <2>1. ASSUME Len(feed'.released) # BookCapacity, NEW x \in Elements(view'), x.book = Own
        PROVE  x \in Elements(feed'.released)
    <3>1. /\ Len(feed.released) < BookCapacity
          /\ Elements(feed'.released)
               = Elements(feed.released) \cup {y \in Elements(released) : y.book = Own}
      BY <1>5, <2>1
    <3>2. Len(feed.released) # BookCapacity
      <4>1. Len(feed.released) \in Nat
        BY FeedIs
      <4> QED
        BY <3>1, <4>1, FeedConstants
    <3>3. \A y \in Elements(view) : y.book = Own => y \in Elements(feed.released)
      BY <1>9, <3>2 DEF OursKept
    <3> QED
      BY <1>6, <1>7, <2>1, <3>1, <3>3
  <2> QED
    BY <1>5, <2>1 DEF OursKept, Elements
<1> QED
  BY <1>6, <1>11, <1>16, <1>17

\* The smaller of two numbers.
LEMMA MinIs ==
    ASSUME NEW a \in Nat, NEW b \in Nat
    PROVE  Min({a, b}) \in Nat /\ Min({a, b}) = IF a <= b THEN a ELSE b
<1> DEFINE m == IF a <= b THEN a ELSE b
<1>1. m \in {a, b} /\ \A y \in {a, b} : m <= y
  OBVIOUS
<1>2. Min({a, b}) \in {a, b} /\ \A y \in {a, b} : Min({a, b}) <= y
  BY <1>1 DEF Min
<1> QED
  BY <1>1, <1>2

\* What the feed goes past in a round it takes, or says that it is missing.
LEMMA RoundAccounts ==
    ASSUME FeedInv, book.id # Legacy, NEW slice, Reply(slice), feed.book \in {NoBook, slice.book},
           NEW fresh, NEW ours, NEW released, NEW held, NEW overflows,
           Round(slice, fresh, ours, released, held, overflows),
           RoundLeaves(slice, fresh, ours, released, held, overflows)
    PROVE  NoSilentGap' /\ accounted' \in Nat
<1>1. /\ feed.cursor \in Nat /\ MaxSeq \in Nat /\ accounted \in Nat
      /\ slice.book \in Nat /\ slice.book # Legacy /\ slice.first \in Nat /\ NoBook \notin Nat
  BY FeedIs, ReplyIs, FeedConstants DEF FeedInv, FeedTyped
<1>2. feed'.cursor \in Nat /\ feed'.cursor <= MaxSeq
  BY RoundCursors
<1>3. feed'.cursor = IF fresh = <<>> THEN feed.cursor ELSE Final(fresh).seq
  BY DEF RoundLeaves
<1> DEFINE base == IF slice.book # feed.book THEN 0 ELSE accounted
           gap == IF fresh = <<>> THEN Monus(slice.first, feed.cursor + 1)
                  ELSE Head(fresh).seq - feed.cursor - 1
<1>4. accounted' = Min({MaxSeq, base + gap + Len(fresh)})
  BY DEF RoundLeaves
<1>5. base \in Nat /\ base >= feed.cursor
  <2>1. CASE slice.book # feed.book
    <3>1. feed.book = NoBook
      BY <2>1
    <3>2. last # NoBook => feed.book = last.book /\ last.book \in Nat
      BY ReplyIs DEF FeedInv, NewDaemon, Replied
    <3>3. feed.cursor = 0
      BY <1>1, <3>1, <3>2 DEF FeedInv, NewDaemon, Replied
    <3> QED
      BY <2>1, <3>3
  <2>2. CASE slice.book = feed.book
    <3>1. accounted >= feed.cursor
      BY <1>1, <2>2 DEF FeedInv, NoSilentGap
    <3> QED
      BY <1>1, <2>2, <3>1
  <2> QED
    BY <2>1, <2>2
<1> HIDE DEF base
<1>6. /\ fresh \in Seq(Records({slice.book})) /\ Numbered(fresh)
      /\ \A x \in Elements(fresh) : x \in Elements(slice.records) /\ x.seq > feed.cursor
  BY DEF Round
<1>7. \A x \in Elements(fresh) : x.seq \in Nat
  BY <1>6, ReplyIs
<1>8. gap \in Nat /\ base + gap + Len(fresh) >= feed'.cursor /\ Len(fresh) \in Nat
  <2>1. CASE fresh = <<>>
    <3>1. Monus(slice.first, feed.cursor + 1) \in Nat /\ Len(fresh) = 0
      BY <1>1, <2>1 DEF Monus
    <3> QED
      BY <1>1, <1>3, <1>5, <2>1, <3>1
  <2>2. CASE fresh # <<>>
    <3>1. Head(fresh) \in Elements(fresh)
      BY <1>6, <2>2, EmptyIs
    <3>2. Final(fresh).seq = Head(fresh).seq + Len(fresh) - 1
      BY <1>6, <1>7, <2>2, NumberedIs
    <3>3. PICK h \in Nat, l \in Nat : h = Head(fresh).seq /\ l = Len(fresh) /\ h > feed.cursor
      BY <1>6, <1>7, <3>1
    <3>4. feed'.cursor = h + l - 1 /\ gap = h - feed.cursor - 1
      BY <1>3, <2>2, <3>2, <3>3
    <3>5. PICK b \in Nat, c \in Nat : b = base /\ c = feed.cursor /\ b >= c
      BY <1>1, <1>5
    <3>6. h > c /\ b >= c
      BY <3>3, <3>5
    <3>7. h - c - 1 \in Nat /\ b + (h - c - 1) + l >= h + l - 1
      BY ONLY h \in Nat, l \in Nat, b \in Nat, c \in Nat, <3>6
    <3> HIDE DEF gap
    <3> QED
      BY <3>3, <3>4, <3>5, <3>7
  <2> QED
    BY <2>1, <2>2
<1> HIDE DEF gap
<1>9. PICK sum \in Nat : sum = base + gap + Len(fresh) /\ sum >= feed'.cursor
  BY <1>5, <1>8
<1>10. accounted' \in Nat /\ accounted' >= feed'.cursor
  <2>1. accounted' = Min({MaxSeq, sum})
    BY <1>4, <1>9
  <2>2. Min({MaxSeq, sum}) \in Nat /\ Min({MaxSeq, sum}) = IF MaxSeq <= sum THEN MaxSeq ELSE sum
    BY <1>1, MinIs
  <2> QED
    BY <1>1, <1>2, <1>9, <2>1, <2>2
<1> QED
  BY <1>10 DEF NoSilentGap

\* As long as answers come in time a round shows nothing before what is on screen.
LEMMA RoundInTime ==
    ASSUME FeedInv, book.id # Legacy, NEW slice, Reply(slice), feed.book \in {NoBook, slice.book},
           NEW fresh, NEW ours, NEW released, NEW held, NEW overflows,
           Round(slice, fresh, ours, released, held, overflows),
           RoundLeaves(slice, fresh, ours, released, held, overflows),
           now' = now, own' = own,
           last # NoBook /\ ~tardy' => \A x \in Elements(fresh) : last.asof <= x.at
    PROVE  InTime'
<1> SUFFICES ASSUME ~tardy'
             PROVE  /\ Timely(view')
                    /\ \A r \in Elements(view') \cup Elements(feed'.released) : r.at + Window <= now
                    /\ \A r \in Elements(view'), h \in Elements(held) : r.at <= h.at
                    /\ \A r \in Elements(view'), o \in Elements(own.records) :
                            o.seq > feed'.local => r.at <= o.at
                    /\ \A r \in Elements(view') : r.at <= slice.asof
                    /\ slice # NoBook
  <2>1. last' = slice /\ feed'.holding = held
    BY DEF RoundLeaves
  <2> QED
    BY <2>1 DEF InTime, Timely, Elements
<1>1. /\ feed'.holding = held
      /\ ~tardy /\ ~overflows /\ ~(slice.asof + Window < now)
  BY DEF RoundLeaves
<1>2. /\ slice.asof \in Nat /\ slice \in Slices /\ slice # NoBook /\ Window \in Nat /\ now \in Nat
      /\ \A x \in Elements(slice.records) : x.at \in Nat
  <2>1. \A x \in Elements(slice.records) : x \in Records({slice.book})
    BY ReplyIs
  <2>2. slice \in Slices
    BY DEF Reply
  <2>3. slice # NoBook /\ Window \in Nat
    BY <2>2, FeedConstants
  <2>4. \A x \in Records({slice.book}) : x.at \in Nat
    BY FeedConstants DEF Records
  <2>5. slice.asof \in Nat /\ now \in Nat
    BY ReplyIs, FeedIs
  <2> QED
    BY <2>1, <2>2, <2>3, <2>4, <2>5
<1>3. /\ Timely(view)
      /\ \A r \in Elements(view) \cup Elements(feed.released) : r.at + Window <= now
      /\ \A r \in Elements(view), h \in Elements(feed.holding) : r.at <= h.at
      /\ \A r \in Elements(view), o \in Elements(own.records) : o.seq > feed.local => r.at <= o.at
      /\ last # NoBook => \A r \in Elements(view) : r.at <= last.asof
      /\ last = NoBook => view = <<>> \/ feed.reset
  BY <1>1 DEF FeedInv, NewDaemon, InTime
<1>4. \A x \in Elements(view) \cup Elements(feed.released) \cup Elements(feed.holding) : x.at \in Nat
  BY FeedIs
<1>5. /\ Elements(released) \cup Elements(held)
           = Elements(feed.holding) \cup Elements(fresh) \cup Elements(ours)
      /\ \A x \in Elements(ours) : x \in Elements(own.records) /\ x.seq > feed.local
      /\ Elements(fresh) \subseteq Elements(slice.records)
      /\ \A x \in Elements(released) : x.at + Window <= now
      /\ \A y \in Elements(held) : y.at + Window > now
      /\ released \in Seq(AllRecords) /\ held \in Seq(AllRecords)
  BY <1>1 DEF Round
<1>6. \A x \in Elements(released) \cup Elements(held) : x.at \in Nat
  <2>1. \A x \in Elements(released) \cup Elements(held) : x \in AllRecords
    BY <1>5, EmptyIs
  <2> QED
    BY <2>1, FeedConstants DEF Moments
<1>7. ASSUME ~feed.reset, NEW r \in Elements(view), NEW y \in Elements(released) PROVE r.at <= y.at
  <2>1. CASE y \in Elements(feed.holding)
    BY <1>3, <2>1
  <2>2. CASE y \in Elements(ours)
    BY <1>3, <1>5, <2>2
  <2>3. CASE y \in Elements(fresh)
    <3>1. view # <<>>
      BY NoElements
    <3>2. last # NoBook
      BY <1>3, <1>7, <3>1
    <3>3. last.asof <= y.at /\ r.at <= last.asof
      BY <1>3, <2>3, <3>2
    <3>4. last.asof \in Nat /\ r.at \in Nat /\ y.at \in Nat
      <4>1. last.asof \in Nat
        BY <3>2, ReplyIs DEF FeedInv, NewDaemon, Replied
      <4> QED
        BY <1>4, <1>6, <4>1
    <3> QED
      BY <3>3, <3>4
  <2> QED
    BY <1>5, <2>1, <2>2, <2>3
<1>8. Timely(Seen(released))
  <2>1. feed.reset => Timely(Seen(released))
    BY SeenIs
  <2>2. ~feed.reset /\ Timely(view) /\ (\A x \in Elements(view), y \in Elements(released) : x.at <= y.at)
           => Timely(Seen(released))
    BY SeenIs
  <2> QED
    BY <1>3, <1>7, <2>1, <2>2
<1>9. Timely(view') /\ Elements(view') \subseteq Elements(Seen(released))
  BY <1>8, ScreenIs
<1>10. Elements(Seen(released))
        = (IF feed.reset THEN Elements(feed.released) ELSE Elements(view)) \cup Elements(released)
  BY SeenIs
<1>11. Elements(feed'.released)
          \subseteq Elements(feed.released) \cup {x \in Elements(released) : x.book = Own}
  BY KeptIs
<1>12. \A r \in Elements(view') \cup Elements(feed'.released) :
          r.at + Window <= now /\ r.at \in Nat
  BY <1>3, <1>4, <1>5, <1>6, <1>9, <1>10, <1>11
<1>13. \A r \in Elements(view'), h \in Elements(held) : r.at <= h.at
  <2> SUFFICES ASSUME NEW r \in Elements(view'), NEW h \in Elements(held) PROVE r.at <= h.at
    OBVIOUS
  <2>1. r.at \in Nat /\ h.at \in Nat /\ r.at + Window <= now /\ h.at + Window > now
    BY <1>5, <1>6, <1>12
  <2> QED
    BY <1>2, <2>1
<1>14. \A o \in Elements(own.records) : ~(o.seq > feed'.local)
  <2>1. \A o \in Elements(own.records) : o.seq <= feed'.local
    BY RoundCursors
  <2>2. \A o \in Elements(own.records) : o.seq \in Nat
    BY RingIs, FeedConstants DEF FeedInv, FeedTyped
  <2>3. feed'.local \in Nat
    BY RoundCursors
  <2> QED
    BY <2>1, <2>2, <2>3
<1>15. \A r \in Elements(view') : r.at <= slice.asof
  <2> SUFFICES ASSUME NEW r \in Elements(view') PROVE r.at <= slice.asof
    OBVIOUS
  <2>1. r.at \in Nat /\ r.at + Window <= now /\ now <= slice.asof + Window
    BY <1>1, <1>2, <1>12
  <2> QED
    BY <1>2, <2>1
<1> QED
  BY <1>2, <1>9, <1>12, <1>13, <1>14, <1>15

\* A round takes no line of the client off the screen but for want of room.
LEMMA RoundStays ==
    ASSUME FeedInv, book.id # Legacy, NEW slice, Reply(slice), feed.book \in {NoBook, slice.book},
           NEW fresh, NEW ours, NEW released, NEW held, NEW overflows,
           Round(slice, fresh, ours, released, held, overflows),
           RoundLeaves(slice, fresh, ours, released, held, overflows),
           Len(view') < BookCapacity,
           NEW x \in Elements(view), x.book = Own
    PROVE  x \in Elements(view')
<1>1. view' = Seen(released)
  BY ScreenIs
<1>2. /\ Seen(released) \in Seq(AllRecords)
      /\ Elements(Seen(released))
           = (IF feed.reset THEN Elements(feed.released) ELSE Elements(view)) \cup Elements(released)
  BY SeenIs
<1>3. CASE ~feed.reset
  BY <1>1, <1>2, <1>3
<1>4. CASE feed.reset
  <2>1. feed.released \in Seq(AllRecords) /\ Plain(feed.released)
    BY FeedIs DEF FeedInv, NewDaemon, ShownOnce
  <2>2. Elements(feed.released) \subseteq Elements(Seen(released))
    BY <1>2, <1>4
  <2>3. Len(feed.released) <= Len(Seen(released))
    BY <1>2, <2>1, <2>2, AsLong
  <2>4. Len(feed.released) \in Nat /\ Len(Seen(released)) \in Nat /\ BookCapacity \in Nat
    BY <1>2, <2>1, FeedConstants
  <2>5. Len(feed.released) # BookCapacity
    BY <1>1, <2>3, <2>4
  <2>6. x \in Elements(feed.released)
    BY <2>5 DEF FeedInv, NewDaemon, OursKept
  <2> QED
    BY <1>1, <2>2, <2>6
<1> QED
  BY <1>3, <1>4

-----------------------------------------------------------------------------
\* The steps that are not a round

\* What was asked for before is asked for no more.
LEMMA StaleIs ==
    ASSUME NEW fs, fs \subseteq Fetches, NEW g \in Stale(fs)
    PROVE  g \in Fetches /\ g.stale /\ g.cursor = 0 /\ g.slice = NoBook /\ fs # {}
<1>1. PICK f \in fs : g = [f EXCEPT !.stale = TRUE, !.cursor = 0, !.slice = NoBook]
  BY DEF Stale
<1>2. f \in Fetches
  OBVIOUS
<1> QED
  BY <1>1, <1>2 DEF Fetches

\* Nothing is asked for but what was, or what has no answer yet.
Quiet(fs) ==
    /\ fs \subseteq Fetches
    /\ \A g \in fs : g \in fetches \/ (g.slice = NoBook /\ g.cursor <= feed.cursor)

\* Time passes, the books go on, the view stays or is cleared, and no answer comes.
Calm ==
    /\ now <= now' /\ now' \in 0 .. MaxTime
    /\ Ring(book', MaxSeq) /\ book'.id = book.id /\ book.next <= book'.next
    /\ \A x \in Elements(book'.records) : x \in Elements(book.records) \/ x.at = now
    /\ Ring(own', MaxOwn) /\ own'.id = Own /\ own.next <= own'.next
    /\ \A x \in Elements(own'.records) : x \in Elements(own.records) \/ x.at = now
    /\ bound' = bound /\ Quiet(fetches') /\ (fetches' # {} => bound)
    /\ last' = last /\ feed' = feed /\ view' \in {view, <<>>}
    /\ clearing' \in BOOLEAN /\ events' \in Nat
    /\ accounted' = accounted /\ tardy' = tardy

\* A calm step leaves the types.
LEMMA CalmTyped == FeedInv /\ Calm => FeedTyped'
<1> SUFFICES ASSUME FeedInv, Calm PROVE FeedTyped'
  OBVIOUS
<1>1. FeedTyped
  BY DEF FeedInv
<1>2. now' \in Window .. MaxTime
  BY <1>1, FeedConstants DEF FeedTyped, Calm
<1>3. (Ring(book, MaxSeq) /\ book.id # Own /\ Ring(own, MaxOwn) /\ own.id = Own)'
  BY <1>1, FeedConstants DEF FeedTyped, Calm, Ring
<1>4. /\ bound' \in BOOLEAN /\ clearing' \in BOOLEAN /\ tardy' \in BOOLEAN
      /\ events' \in Nat /\ accounted' \in Nat
      /\ fetches' \subseteq Fetches /\ last' \in Slices \cup {NoBook}
  BY <1>1 DEF FeedTyped, Calm, Quiet
<1>5. feed'.local < own'.next
  <2>1. own.next \in Nat /\ own'.next \in Nat /\ own.next <= own'.next /\ feed' = feed
        /\ feed.local < own.next
    BY <1>1 DEF FeedTyped, Calm, Ring
  <2>2. feed.local \in Nat
    BY FeedIs DEF FeedInv, OldDaemon
  <2> QED
    BY <2>1, <2>2
<1>6. view' \in Seq(Records(Nat \cup {Own}))
  <2>1. <<>> \in Seq(Records(Nat \cup {Own}))
    OBVIOUS
  <2> QED
    BY <1>1, <2>1 DEF FeedTyped, Calm
<1> QED
  BY <1>2, <1>3, <1>4, <1>5, <1>6 DEF FeedTyped

\* It leaves an older daemon's feed.
LEMMA CalmOld == FeedInv /\ Calm /\ book.id = Legacy => OldDaemon'
<1> SUFFICES ASSUME FeedInv, Calm, book.id = Legacy PROVE OldDaemon'
  OBVIOUS
<1>1. OldDaemon /\ FeedTyped
  BY DEF FeedInv
<1>2. Plain(view') /\ (tardy' \/ view' = <<>>)
  <2>1. Len(<<>>) = 0 /\ 1 .. 0 = {}
    OBVIOUS
  <2>2. Plain(<<>>)
    BY <2>1 DEF Plain
  <2> QED
    BY <1>1, <2>2 DEF OldDaemon, Calm
<1>3. \A g \in fetches' : g.slice # NoBook => g \in fetches
  BY DEF Calm, Quiet
<1> QED
  BY <1>1, <1>2, <1>3 DEF OldDaemon, Calm, Plain

\* What was told stays told.
LEMMA CalmTold ==
    ASSUME FeedInv, Calm, NEW asof \in Nat, NEW first, NEW reached, asof <= now,
           Told(asof, first, reached)
    PROVE  Told(asof, first, reached)'
<1>1. now \in Nat
  BY FeedConstants DEF FeedInv, FeedTyped
<1>2. \A x \in Elements(book'.records) : x.at < asof => x.seq <= reached
  BY <1>1 DEF Told, Calm
<1>3. \A g \in fetches' : g.slice # NoBook => g \in fetches
  BY DEF Calm, Quiet
<1>4. \A g \in fetches' : g.slice # NoBook /\ first <= g.slice.first =>
          \A r \in Elements(g.slice.records) : r.at < asof => r.seq <= reached
  BY <1>3 DEF Told
<1> QED
  BY <1>2, <1>4 DEF Told, Elements

\* An answer stays an answer.
LEMMA CalmReply ==
    ASSUME Calm, FeedInv, NEW s, Reply(s)
    PROVE  Reply(s)'
<1>1. s.asof \in Nat /\ s.asof <= now /\ now \in Nat /\ now' \in Nat /\ now <= now'
  <2>1. s.asof \in Nat /\ s.asof <= now
    BY ReplyIs
  <2>2. now \in Window .. MaxTime /\ now <= now' /\ now' \in 0 .. MaxTime
    BY DEF Calm, FeedInv, FeedTyped
  <2>3. Window \in Nat /\ MaxTime \in Nat
    BY FeedConstants
  <2> QED
    BY <2>1, <2>2, <2>3
<1>2. s.asof <= now'
  BY <1>1
<1> QED
  BY <1>2 DEF Reply, Numbered

\* It leaves the feed of another.
LEMMA CalmNew == FeedInv /\ Calm /\ book.id # Legacy => feed' \in Feeds /\ NewDaemon'
<1> SUFFICES ASSUME FeedInv, Calm, book.id # Legacy PROVE feed' \in Feeds /\ NewDaemon'
  OBVIOUS
<1>1. /\ feed \in Feeds /\ Replied /\ ShownOnce /\ OursKept /\ AllTold /\ InTime /\ FeedTyped
      /\ feed' = feed /\ last' = last /\ view' \in {view, <<>>} /\ tardy' = tardy
      /\ bound' = bound /\ book'.id = book.id
  BY DEF FeedInv, NewDaemon, Calm
<1>2. \A g \in fetches' : g.slice # NoBook => g \in fetches
  BY DEF Calm, Quiet
<1>3. /\ book.next \in Nat /\ book'.next \in Nat /\ book.next <= book'.next
      /\ now \in Nat /\ now' \in Nat /\ now <= now' /\ feed.cursor \in Nat
  <2>1. book.next \in Nat /\ book'.next \in Nat /\ book.next <= book'.next
    BY <1>1 DEF Calm, FeedTyped, Ring
  <2>2. now \in Window .. MaxTime /\ now <= now' /\ now' \in 0 .. MaxTime
    BY <1>1 DEF Calm, FeedTyped
  <2>3. Window \in Nat /\ MaxTime \in Nat
    BY FeedConstants
  <2>4. now \in Nat /\ now' \in Nat
    BY <2>2, <2>3
  <2>5. feed.cursor \in Nat
    BY DEF FeedInv
  <2> QED
    BY <2>1, <2>2, <2>4, <2>5
<1>4. Elements(view') \subseteq Elements(view) /\ Plain(view') /\ (Timely(view) => Timely(view'))
  <2>1. Len(<<>>) = 0 /\ 1 .. 0 = {}
    OBVIOUS
  <2>2. Plain(<<>>) /\ Timely(<<>>)
    BY <2>1 DEF Plain, Timely
  <2> QED
    BY <1>1, <2>2, NoElements DEF ShownOnce
<1>5. Replied'
  <2>1. (\A f \in fetches :
            /\ f.cursor <= feed.cursor
            /\ f.slice # NoBook =>
                /\ ~f.stale /\ Reply(f.slice) /\ f.slice.book = book.id
                /\ \A r \in Elements(f.slice.records) : r.seq < book.next)'
    <3> SUFFICES ASSUME NEW f \in fetches'
                 PROVE  /\ f.cursor <= feed.cursor
                        /\ f.slice # NoBook =>
                            /\ ~f.stale /\ Reply(f.slice)' /\ f.slice.book = book.id
                            /\ \A r \in Elements(f.slice.records) : r.seq < book'.next
      BY <1>1 DEF Elements
    <3>1. f.cursor <= feed.cursor
      BY <1>1 DEF Calm, Quiet, Replied
    <3>2. ASSUME f.slice # NoBook
          PROVE  /\ ~f.stale /\ Reply(f.slice)' /\ f.slice.book = book.id
                 /\ \A r \in Elements(f.slice.records) : r.seq < book'.next
      <4>1. /\ ~f.stale /\ Reply(f.slice) /\ f.slice.book = book.id
            /\ \A r \in Elements(f.slice.records) : r.seq < book.next
        BY <1>1, <1>2, <3>2 DEF Replied
      <4>2. Reply(f.slice)'
        BY <4>1, CalmReply
      <4>3. \A r \in Elements(f.slice.records) : r.seq \in Nat
        BY <4>1, ReplyIs
      <4> QED
        BY <1>3, <4>1, <4>2, <4>3
    <3> QED
      BY <3>1, <3>2
  <2>2. (fetches # {} => bound)' /\ (feed.book # Legacy)'
    BY <1>1 DEF Calm, Replied
  <2>3. (last = NoBook => feed.book = NoBook /\ feed.cursor = 0)'
    BY <1>1 DEF Replied
  <2>4. (last # NoBook =>
            /\ Reply(last) /\ feed.book = last.book /\ (bound => last.book = book.id)
            /\ \A r \in Elements(last.records) : r.seq <= feed.cursor)'
    <3>1. last # NoBook => Reply(last)'
      BY <1>1, CalmReply DEF Replied
    <3> QED
      BY <1>1, <3>1 DEF Replied, Elements, Reply, Numbered
  <2> QED
    BY <2>1, <2>2, <2>3, <2>4 DEF Replied
<1>6. ShownOnce'
  <2>1. Plain(view)' /\ Plain(feed.holding)' /\ Plain(feed.released)'
    BY <1>1, <1>4 DEF Plain, ShownOnce
  <2>2. (\A r \in Elements(feed.holding) : r \notin Elements(view) /\ r \notin Elements(feed.released))'
    BY <1>1, <1>4 DEF Elements, ShownOnce
  <2>3. (\A r \in Elements(view) \cup Elements(feed.holding) \cup Elements(feed.released) :
            r.book = Own => r.seq <= feed.local)'
    BY <1>1, <1>4 DEF Elements, ShownOnce
  <2>4. (\A r \in Elements(feed.holding) :
            r.book # Own => r.book = feed.book /\ r.seq <= feed.cursor)'
    BY <1>1 DEF Elements, ShownOnce
  <2>5. (~feed.reset => \A r \in Elements(view) :
            r.book # Own => r.book = feed.book /\ r.seq <= feed.cursor)'
    BY <1>1, <1>4 DEF Elements, ShownOnce
  <2> QED
    BY <2>1, <2>2, <2>3, <2>4, <2>5 DEF ShownOnce
<1>7. OursKept'
  BY <1>1, <1>4 DEF OursKept, Elements
<1>8. AllTold'
  <2>1. ASSUME NEW f \in fetches', f.slice # NoBook
        PROVE  Told(f.slice.asof, f.slice.first, Reached(f))'
    <3>1. f \in fetches /\ Reply(f.slice) /\ Told(f.slice.asof, f.slice.first, Reached(f))
      BY <1>1, <1>2, <2>1 DEF AllTold, Replied
    <3>2. f.slice.asof \in Nat /\ f.slice.asof <= now
      BY <3>1, ReplyIs
    <3> QED
      BY <3>1, <3>2, CalmTold
  <2>2. ASSUME last # NoBook, bound PROVE Told(last.asof, last.first, feed.cursor)'
    <3>1. Reply(last) /\ Told(last.asof, last.first, feed.cursor)
      BY <1>1, <2>2 DEF AllTold, Replied
    <3>2. last.asof \in Nat /\ last.asof <= now
      BY <3>1, ReplyIs
    <3>3. PICK a, b, c : a = last.asof /\ b = last.first /\ c = feed.cursor /\ a \in Nat
      BY <3>2
    <3>4. Told(a, b, c)'
      BY <3>1, <3>2, <3>3, CalmTold
    <3> QED
      BY <1>1, <3>3, <3>4
  <2> QED
    BY <1>1, <2>1, <2>2 DEF AllTold
<1>9. InTime'
  <2> SUFFICES ASSUME ~tardy'
               PROVE  /\ Timely(view')
                      /\ \A r \in Elements(view') \cup Elements(feed.released) : r.at + Window <= now'
                      /\ \A r \in Elements(view'), h \in Elements(feed.holding) : r.at <= h.at
                      /\ \A r \in Elements(view'), o \in Elements(own'.records) :
                              o.seq > feed.local => r.at <= o.at
                      /\ last # NoBook => \A r \in Elements(view') : r.at <= last.asof
                      /\ last = NoBook => view' = <<>> \/ feed.reset
    BY <1>1 DEF InTime, Timely, Elements
  <2>1. /\ Timely(view)
        /\ \A r \in Elements(view) \cup Elements(feed.released) : r.at + Window <= now
        /\ \A r \in Elements(view), h \in Elements(feed.holding) : r.at <= h.at
        /\ \A r \in Elements(view), o \in Elements(own.records) : o.seq > feed.local => r.at <= o.at
        /\ last # NoBook => \A r \in Elements(view) : r.at <= last.asof
        /\ last = NoBook => view = <<>> \/ feed.reset
    BY <1>1 DEF InTime
  <2>2. \A r \in Elements(view) \cup Elements(feed.released) : r.at \in Nat
    BY FeedIs
  <2>3. \A r \in Elements(view') \cup Elements(feed.released) : r.at + Window <= now'
    BY <1>3, <1>4, <2>1, <2>2, FeedConstants
  <2>4. \A r \in Elements(view'), o \in Elements(own'.records) : o.seq > feed.local => r.at <= o.at
    <3> SUFFICES ASSUME NEW r \in Elements(view'), NEW o \in Elements(own'.records),
                        o.seq > feed.local
                 PROVE  r.at <= o.at
      OBVIOUS
    <3>1. CASE o \in Elements(own.records)
      BY <1>4, <2>1, <3>1
    <3>2. CASE o.at = now
      BY <1>3, <1>4, <2>1, <2>2, <3>2, FeedConstants
    <3> QED
      BY <3>1, <3>2 DEF Calm
  <2> QED
    BY <1>1, <1>4, <2>1, <2>3, <2>4
<1> QED
  BY <1>1, <1>5, <1>6, <1>7, <1>8, <1>9 DEF NewDaemon

\* It leaves the invariant.
LEMMA CalmKeeps == FeedInv /\ Calm => FeedInv'
<1> SUFFICES ASSUME FeedInv, Calm PROVE FeedInv'
  OBVIOUS
<1>1. NoSilentGap' /\ (feed.cursor \in Nat)'
  BY DEF FeedInv, Calm, NoSilentGap
<1>2. book'.id = book.id
  BY DEF Calm
<1> QED
  BY <1>1, <1>2, CalmTyped, CalmOld, CalmNew DEF FeedInv

\* What is asked for is asked of the daemon the client is bound to.
LEMMA AskedIsBound == FeedInv /\ fetches # {} => bound
BY DEF FeedInv, OldDaemon, NewDaemon, Replied

\* What a calm step leaves alone.
LEMMA CalmAlone ==
    ASSUME FeedInv
    PROVE  /\ now \in Nat /\ now \in 0 .. MaxTime
           /\ Ring(book, MaxSeq) /\ Ring(own, MaxOwn) /\ own.id = Own
           /\ book.next \in Nat /\ own.next \in Nat /\ book.next <= book.next /\ own.next <= own.next
           /\ now <= now
           /\ Quiet(fetches) /\ (fetches # {} => bound) /\ Quiet(Stale(fetches))
           /\ \A fs \in SUBSET fetches : Quiet(fs)
           /\ clearing \in BOOLEAN /\ events \in Nat /\ feed.cursor \in Nat
<1>1. FeedTyped /\ feed.cursor \in Nat
  BY DEF FeedInv
<1>2. now \in Window .. MaxTime /\ Window \in Nat /\ MaxTime \in Nat
  BY <1>1, FeedConstants DEF FeedTyped
<1>3. now \in Nat /\ now \in 0 .. MaxTime /\ now <= now
  BY <1>2
<1>4. fetches \subseteq Fetches
  BY <1>1 DEF FeedTyped
<1>5. \A fs \in SUBSET fetches : Quiet(fs)
  BY <1>4 DEF Quiet
<1>6. Quiet(Stale(fetches))
  <2>1. \A g \in Stale(fetches) : g \in Fetches /\ g.slice = NoBook /\ g.cursor = 0
    BY <1>4, StaleIs
  <2>2. 0 <= feed.cursor
    BY <1>1
  <2> QED
    BY <2>1, <2>2 DEF Quiet
<1>7. book.next \in Nat /\ own.next \in Nat /\ book.next <= book.next /\ own.next <= own.next
  BY <1>1 DEF FeedTyped, Ring
<1> QED
  BY <1>1, <1>3, <1>5, <1>6, <1>7, AskedIsBound DEF FeedTyped

\* Time, the books' writers and the user's clears are calm steps.
LEMMA WritersAreCalm ==
    ASSUME FeedInv, TimePasses \/ DaemonLogs \/ ClientLogs \/ ClearView \/ ClearBook
    PROVE  Calm
<1> USE CalmAlone
<1>1. CASE TimePasses
  <2>1. now' \in 0 .. MaxTime /\ now <= now'
    BY <1>1, FeedConstants DEF TimePasses
  <2> QED
    BY <1>1, <2>1 DEF TimePasses, Calm, feedGhosts
<1>2. CASE DaemonLogs
  <2>1. /\ Ring(Pushed(book), MaxSeq) /\ Pushed(book).id = book.id
        /\ Pushed(book).next = book.next + 1
        /\ \A x \in Elements(Pushed(book).records) : x \in Elements(book.records) \/ x = Written(book)
    BY <1>2, PushedIs, FeedConstants DEF DaemonLogs
  <2>2. Written(book).at = now
    BY DEF Written
  <2>3. book.next <= book'.next
    BY <1>2, <2>1 DEF DaemonLogs
  <2> QED
    BY <1>2, <2>1, <2>2, <2>3 DEF DaemonLogs, Calm, feedGhosts
<1>3. CASE ClientLogs
  <2>1. /\ Ring(Pushed(own), MaxOwn) /\ Pushed(own).id = own.id
        /\ Pushed(own).next = own.next + 1
        /\ \A x \in Elements(Pushed(own).records) : x \in Elements(own.records) \/ x = Written(own)
    BY <1>3, PushedIs, FeedConstants DEF ClientLogs
  <2>2. Written(own).at = now
    BY DEF Written
  <2>3. own.next <= own'.next
    BY <1>3, <2>1 DEF ClientLogs
  <2> QED
    BY <1>3, <2>1, <2>2, <2>3 DEF ClientLogs, Calm, feedGhosts
<1>4. CASE ClearView
  <2>1. Ring(Emptied(own), MaxOwn) /\ Emptied(own).id = own.id /\ Emptied(own).next = own.next
        /\ Emptied(own).records = <<>>
    BY EmptiedIs, FeedConstants
  <2>2. \A x \in Elements(own'.records) : x \in Elements(own.records) \/ x.at = now
    BY <1>4, <2>1, NoElements DEF ClearView
  <2>3. events' \in Nat /\ bound
    BY <1>4 DEF ClearView, Disturb
  <2> QED
    BY <1>4, <2>1, <2>2, <2>3 DEF ClearView, Calm
<1>5. CASE ClearBook
  <2>1. Ring(Emptied(book), MaxSeq) /\ Emptied(book).id = book.id
        /\ Emptied(book).next = book.next /\ Emptied(book).records = <<>>
    BY EmptiedIs, FeedConstants
  <2>2. \A x \in Elements(book'.records) : x \in Elements(book.records) \/ x.at = now
    BY <1>5, <2>1, NoElements DEF ClearBook
  <2> QED
    BY <1>5, <2>1, <2>2 DEF ClearBook, Calm, feedGhosts
<1> QED
  BY <1>1, <1>2, <1>3, <1>4, <1>5

\* So is what asks, and an answer nobody waits for.
LEMMA AskersAreCalm ==
    ASSUME FeedInv, Poll \/ Operate \/ \E f \in fetches : f.stale /\ Land(f)
    PROVE  Calm
<1>1. /\ FeedTyped /\ feed.cursor \in Nat
      /\ now \in 0 .. MaxTime /\ now <= now /\ own.id = Own
      /\ Ring(book, MaxSeq) /\ Ring(own, MaxOwn)
      /\ book.next <= book.next /\ own.next <= own.next
      /\ clearing \in BOOLEAN /\ events \in Nat
      /\ Quiet(fetches) /\ Quiet(Stale(fetches)) /\ \A fs \in SUBSET fetches : Quiet(fs)
  BY CalmAlone DEF FeedInv
<1>2. ASSUME NEW kind \in {"poll", "operation"}
      PROVE  Quiet({Begun(kind)})
  <2>1. Begun(kind) \in Fetches
    BY <1>1 DEF Begun, Fetches
  <2>2. Begun(kind).slice = NoBook /\ Begun(kind).cursor <= feed.cursor
    BY <1>1 DEF Begun
  <2> QED
    BY <2>1, <2>2 DEF Quiet
<1>3. \A a, b : Quiet(a) /\ Quiet(b) => Quiet(a \cup b)
  BY DEF Quiet
<1>4. CASE Poll
  <2>1. Quiet(fetches') /\ bound
    BY <1>1, <1>2, <1>3, <1>4 DEF Poll
  <2> QED
    BY <1>1, <1>4, <2>1 DEF Poll, Calm, feedGhosts
<1>5. CASE Operate
  <2>1. Quiet(fetches') /\ bound /\ events' \in Nat
    BY <1>1, <1>2, <1>3, <1>5 DEF Operate, Disturb
  <2> QED
    BY <1>1, <1>5, <2>1 DEF Operate, Calm, feedGhosts
<1>6. CASE \E f \in fetches : f.stale /\ Land(f)
  <2>1. PICK f \in fetches : f.stale /\ Land(f)
    BY <1>6
  <2>2. fetches' = fetches \ {f} /\ bound
    BY <2>1, AskedIsBound DEF Land
  <2>3. Quiet(fetches')
    BY <1>1, <2>2
  <2> QED
    BY <1>1, <2>1, <2>2, <2>3 DEF Land, Calm
<1> QED
  BY <1>4, <1>5, <1>6

-----------------------------------------------------------------------------
\* An answer is given

\* What a daemon with a cursor answers.
LEMMA AnswerIs ==
    ASSUME FeedInv, book.id # Legacy, NEW cursor \in Nat
    PROVE  LET s == Since(book, cursor) IN
           /\ Reply(s) /\ s.book = book.id /\ s.asof = now /\ s.first = FirstSeq(book)
           /\ \A x \in Elements(s.records) : x \in Elements(book.records) /\ x.seq < book.next
           /\ s.records = <<>> => \A x \in Elements(book.records) : x.seq <= cursor
           /\ s.records # <<>> => Final(s.records).seq = book.next - 1
<1> DEFINE s == Since(book, cursor)
<1>1. Ring(book, MaxSeq) /\ MaxSeq \in Nat /\ now \in Nat /\ book.id \in Nat
  <2>1. Ring(book, MaxSeq) /\ book.id # Own
    BY DEF FeedInv, FeedTyped
  <2>2. book.id \in Nat
    BY <2>1 DEF Ring
  <2> QED
    BY <2>1, <2>2, CalmAlone, FeedConstants
<1>2. /\ s = [book |-> book.id, records |-> s.records, first |-> FirstSeq(book), asof |-> now,
              skipped |-> s.skipped]
      /\ s.skipped \in Nat
      /\ s.records \in Seq(Records({book.id})) /\ Numbered(s.records)
      /\ \A x \in Elements(s.records) : x \in Elements(book.records) /\ x.seq > cursor
      /\ s.records = <<>> => \A x \in Elements(book.records) : x.seq <= cursor
      /\ s.records # <<>> => Final(s.records).seq = book.next - 1
  BY <1>1, SinceIs
<1>3. /\ \A x \in Elements(book.records) : x.seq \in Nat
      /\ FirstSeq(book) \in Nat /\ FirstSeq(book) # 0
      /\ \A x \in Elements(book.records) : FirstSeq(book) <= x.seq /\ x.seq < book.next
  BY <1>1, RingIs
<1>4. book.next \in Nat /\ book.next <= MaxSeq + 1
  BY <1>1 DEF Ring
<1> HIDE DEF s
<1>5. PICK q, k : q = s.records /\ k = s.skipped /\ k \in Nat
  BY <1>2
<1>6. s = [book |-> book.id, records |-> q, first |-> FirstSeq(book), asof |-> now, skipped |-> k]
  BY <1>2, <1>5
<1>7. q \in Seq(Records(Nat))
  <2>1. Records({book.id}) \subseteq Records(Nat)
    BY <1>1 DEF Records
  <2> QED
    BY <1>2, <1>5, <2>1, SeqWider
<1>8. s \in Slices
  BY <1>1, <1>3, <1>5, <1>6, <1>7 DEF Slices
<1>9. s.book = book.id /\ s.first = FirstSeq(book) /\ s.asof = now
  BY <1>6
<1>10. \A i \in 1 .. Len(s.records) : s.first <= s.records[i].seq /\ s.records[i].seq <= MaxSeq
  <2> SUFFICES ASSUME NEW i \in 1 .. Len(s.records)
               PROVE  s.first <= s.records[i].seq /\ s.records[i].seq <= MaxSeq
    OBVIOUS
  <2>1. s.records[i] \in Elements(book.records)
    BY <1>2 DEF Elements
  <2>2. PICK x \in Nat : x = s.records[i].seq
    BY <1>3, <2>1
  <2>3. FirstSeq(book) <= x /\ x < book.next
    BY <1>3, <2>1, <2>2
  <2>4. x <= MaxSeq
    BY <1>1, <1>4, <2>3
  <2> QED
    BY <1>9, <2>2, <2>3, <2>4
<1>11. Reply(s)
  BY <1>1, <1>2, <1>3, <1>8, <1>9, <1>10 DEF Reply
<1> QED
  BY <1>2, <1>3, <1>9, <1>11 DEF s

\* The fetch that has its answer.
Given(f) ==
    [f EXCEPT !.slice = IF book.id = Legacy THEN LegacySlice(book) ELSE Since(book, f.cursor)]

\* What it is.
LEMMA GivenIs ==
    ASSUME FeedInv, NEW f \in fetches, Serve(f)
    PROVE  /\ f.stale = FALSE /\ f.cursor \in Nat /\ bound
           /\ Given(f) \in Fetches /\ Given(f).cursor = f.cursor /\ ~Given(f).stale
           /\ Given(f).slice = (IF book.id = Legacy THEN LegacySlice(book) ELSE Since(book, f.cursor))
           /\ fetches' = (fetches \ {f}) \cup {Given(f)}
<1>1. f \in Fetches /\ Ring(book, MaxSeq) /\ now \in Nat /\ bound
  BY CalmAlone, AskedIsBound DEF FeedInv, FeedTyped
<1>2. /\ f = [kind |-> f.kind, stale |-> f.stale, cursor |-> f.cursor, slice |-> f.slice]
      /\ f.kind \in {"poll", "operation"} /\ f.stale \in BOOLEAN /\ f.cursor \in Nat
  BY <1>1 DEF Fetches
<1>3. ~f.stale /\ fetches' = (fetches \ {f}) \cup {Given(f)}
  BY DEF Serve, Given
<1>4. PICK s \in Slices : s = IF book.id = Legacy THEN LegacySlice(book) ELSE Since(book, f.cursor)
  <2>1. CASE book.id = Legacy
    <3>1. LegacySlice(book) \in Slices
      BY <1>1, <2>1, LegacyIs, FeedConstants
    <3> QED
      BY <2>1, <3>1
  <2>2. CASE book.id # Legacy
    <3>1. Since(book, f.cursor) \in Slices
      BY <1>2, <2>2, AnswerIs DEF Reply
    <3> QED
      BY <2>2, <3>1
  <2> QED
    BY <2>1, <2>2
<1>5. Given(f) = [f EXCEPT !.slice = s]
  BY <1>4 DEF Given
<1>6. Given(f) = [kind |-> f.kind, stale |-> f.stale, cursor |-> f.cursor, slice |-> s]
  BY <1>2, <1>5
<1>7. Given(f) \in Fetches
  BY <1>2, <1>6 DEF Fetches
<1> QED
  BY <1>1, <1>2, <1>3, <1>4, <1>6, <1>7

\* What was told is still true of the new answer: it is what stands in the book.
LEMMA ServeTold ==
    ASSUME FeedInv, book.id # Legacy, NEW f \in fetches, Serve(f),
           NEW asof, NEW first, NEW reached, Told(asof, first, reached)
    PROVE  Told(asof, first, reached)'
<1>1. book' = book /\ fetches' = (fetches \ {f}) \cup {Given(f)}
  BY GivenIs DEF Serve
<1>2. \A r \in Elements(Given(f).slice.records) : r \in Elements(book.records)
  BY GivenIs, AnswerIs
<1>3. /\ \A r \in Elements(book.records) : r.at < asof => r.seq <= reached
      /\ \A g \in fetches : g.slice # NoBook /\ first <= g.slice.first =>
          \A r \in Elements(g.slice.records) : r.at < asof => r.seq <= reached
  BY DEF Told
<1>4. \A g \in fetches' : g.slice # NoBook /\ first <= g.slice.first =>
          \A r \in Elements(g.slice.records) : r.at < asof => r.seq <= reached
  BY <1>1, <1>2, <1>3
<1>5. \A r \in Elements(book'.records) : r.at < asof => r.seq <= reached
  BY <1>1, <1>3
<1> QED
  BY <1>4, <1>5 DEF Told, Elements

\* The answer reaches the end of the book: nothing another answer has, and that was not
\* gone by now, is after it.
LEMMA GivenTold ==
    ASSUME FeedInv, book.id # Legacy, NEW f \in fetches, Serve(f), NEW g, g = Given(f)
    PROVE  Told(g.slice.asof, g.slice.first, Reached(g))'
<1> DEFINE s == Since(book, f.cursor)
<1>1. /\ Given(f).slice = s /\ f.cursor \in Nat /\ Given(f).cursor = f.cursor
      /\ fetches' = (fetches \ {f}) \cup {Given(f)} /\ book' = book
  BY GivenIs DEF Serve
<1>2. /\ s.asof = now /\ s.first = FirstSeq(book)
      /\ \A x \in Elements(s.records) : x \in Elements(book.records) /\ x.seq < book.next
      /\ s.records = <<>> => \A x \in Elements(book.records) : x.seq <= f.cursor
      /\ s.records # <<>> => Final(s.records).seq = book.next - 1
  BY <1>1, AnswerIs
<1> HIDE DEF s
<1>3. Ring(book, MaxSeq) /\ book.next \in Nat
  BY CalmAlone
<1>4. /\ \A x \in Elements(book.records) : x.seq \in Nat /\ FirstSeq(book) <= x.seq /\ x.seq < book.next
      /\ book.records = <<>> => FirstSeq(book) = book.next
      /\ book.records # <<>> => Final(book.records).seq = book.next - 1
      /\ book.records \in Seq(Records({book.id}))
      /\ FirstSeq(book) \in Nat
  BY <1>3, RingIs, FeedConstants
<1> DEFINE reached == Reached(Given(f))
<1>5. reached = IF s.records = <<>> THEN f.cursor ELSE book.next - 1
  BY <1>1, <1>2 DEF Reached
<1> HIDE DEF reached
<1>6. \A x \in Elements(book.records) : x.seq <= reached
  <2>1. CASE s.records = <<>>
    BY <1>2, <1>5, <2>1
  <2>2. CASE s.records # <<>>
    BY <1>3, <1>4, <1>5, <2>2
  <2> QED
    BY <2>1, <2>2
<1>7. book.records # <<>> => \A n \in Nat : n < book.next => n <= reached
  <2> SUFFICES ASSUME book.records # <<>>, NEW n \in Nat, n < book.next PROVE n <= reached
    OBVIOUS
  <2>1. Final(book.records) \in Elements(book.records)
    BY <1>4, EmptyIs
  <2>2. book.next - 1 <= reached
    BY <1>4, <1>6, <2>1
  <2>3. reached \in Int
    BY <1>1, <1>3, <1>5
  <2> QED
    BY <1>3, <2>2, <2>3
<1>8. ASSUME NEW h \in fetches, h.slice # NoBook, FirstSeq(book) <= h.slice.first,
             NEW r \in Elements(h.slice.records)
      PROVE  r.seq <= reached
  <2>1. Reply(h.slice) /\ r.seq < book.next
    BY <1>8 DEF FeedInv, NewDaemon, Replied
  <2>2. r.seq \in Nat /\ h.slice.first \in Nat /\ h.slice.first <= r.seq
    BY <1>8, <2>1, ReplyIs
  <2>3. book.records # <<>>
    BY <1>3, <1>4, <1>8, <2>1, <2>2
  <2> QED
    BY <1>7, <2>1, <2>2, <2>3
<1>9. \A h \in fetches' : h.slice # NoBook /\ s.first <= h.slice.first =>
          \A r \in Elements(h.slice.records) : r.at < s.asof => r.seq <= reached
  BY <1>1, <1>2, <1>6, <1>8
<1>10. \A r \in Elements(book'.records) : r.at < s.asof => r.seq <= reached
  BY <1>1, <1>6
<1>11. PICK a, b, c : a = g.slice.asof /\ b = g.slice.first /\ c = Reached(g)
  OBVIOUS
<1>12. a = s.asof /\ b = s.first /\ c = reached
  BY <1>1, <1>11 DEF reached
<1>13. Told(a, b, c)'
  BY <1>9, <1>10, <1>12 DEF Told, Elements
<1> QED
  BY <1>11, <1>13

\* An answer keeps the invariant.
LEMMA ServeKeeps ==
    ASSUME FeedInv, NEW f \in fetches, Serve(f)
    PROVE  FeedInv'
<1>1. /\ bound /\ f.cursor \in Nat
      /\ fetches' = (fetches \ {f}) \cup {Given(f)}
      /\ Given(f) \in Fetches /\ Given(f).cursor = f.cursor /\ ~Given(f).stale
      /\ Given(f).slice = (IF book.id = Legacy THEN LegacySlice(book) ELSE Since(book, f.cursor))
  BY GivenIs
<1>2. /\ now' = now /\ book' = book /\ own' = own /\ bound' = bound /\ last' = last /\ feed' = feed
      /\ view' = view /\ clearing' = clearing /\ events' = events /\ accounted' = accounted
      /\ tardy' = tardy
  BY DEF Serve, feedGhosts
<1>3. PICK g : g = Given(f)
  OBVIOUS
<1>4. fetches' = (fetches \ {f}) \cup {g}
  BY <1>1, <1>3
<1>5. FeedTyped'
  BY <1>1, <1>2 DEF FeedInv, FeedTyped, Ring
<1>6. NoSilentGap' /\ (feed.cursor \in Nat)'
  BY <1>2 DEF FeedInv, NoSilentGap
<1>7. CASE book.id = Legacy
  <2>1. /\ g.slice.book = Legacy /\ Plain(g.slice.records)
        /\ g.slice.records \in Seq(Records({Legacy}))
    <3>1. Ring(book, MaxSeq) /\ MaxSeq \in Nat /\ now \in Nat
      BY CalmAlone, FeedConstants
    <3> QED
      BY <1>1, <1>3, <1>7, <3>1, LegacyIs
  <2>2. OldDaemon
    BY <1>7 DEF FeedInv
  <2>3. OldDaemon'
    <3>1. \A h \in fetches' : h.slice # NoBook =>
            /\ h.slice.book = Legacy /\ Plain(h.slice.records)
            /\ h.slice.records \in Seq(Records({Legacy}))
      BY <1>4, <2>1, <2>2 DEF OldDaemon
    <3>2. (\A h \in fetches : h.slice # NoBook =>
            /\ h.slice.book = Legacy /\ Plain(h.slice.records)
            /\ h.slice.records \in Seq(Records({Legacy})))'
      BY <3>1 DEF Plain
    <3>3. (bound /\ Plain(view) /\ (tardy \/ view = <<>>))'
      BY <1>2, <2>2 DEF OldDaemon, Plain
    <3>4. feed' = [cursor |-> feed'.cursor, book |-> NoBook, local |-> 0, holding |-> feed'.holding,
                   released |-> feed'.released, reset |-> FALSE]
      BY <1>2, <2>2 DEF OldDaemon
    <3> QED
      BY <3>2, <3>3, <3>4 DEF OldDaemon
  <2> QED
    BY <1>2, <1>5, <1>6, <1>7, <2>3 DEF FeedInv
<1>8. CASE book.id # Legacy
  <2>1. feed \in Feeds /\ Replied /\ ShownOnce /\ OursKept /\ AllTold /\ InTime
    BY <1>8 DEF FeedInv, NewDaemon
  <2>2. /\ Reply(g.slice) /\ g.slice.book = book.id
        /\ \A x \in Elements(g.slice.records) : x.seq < book.next
    BY <1>1, <1>3, <1>8, AnswerIs
  <2>3. \A s : Reply(s) => Reply(s)'
    BY <1>2 DEF Reply, Numbered
  <2>4. Replied'
    <3>1. \A h \in fetches' :
            /\ h.cursor <= feed.cursor
            /\ h.slice # NoBook =>
                /\ ~h.stale /\ Reply(h.slice) /\ h.slice.book = book.id
                /\ \A r \in Elements(h.slice.records) : r.seq < book.next
      <4>1. g.cursor <= feed.cursor /\ ~g.stale
        BY <1>1, <1>3, <2>1 DEF Replied
      <4> QED
        BY <1>4, <2>1, <2>2, <4>1 DEF Replied
    <3>2. (\A h \in fetches :
            /\ h.cursor <= feed.cursor
            /\ h.slice # NoBook =>
                /\ ~h.stale /\ Reply(h.slice) /\ h.slice.book = book.id
                /\ \A r \in Elements(h.slice.records) : r.seq < book.next)'
      BY <1>2, <2>3, <3>1 DEF Elements
    <3>3. (fetches # {} => bound)' /\ (feed.book # Legacy)'
      BY <1>1, <1>2, <2>1 DEF Replied
    <3>4. (last = NoBook => feed.book = NoBook /\ feed.cursor = 0)'
      BY <1>2, <2>1 DEF Replied
    <3>5. (last # NoBook =>
            /\ Reply(last) /\ feed.book = last.book /\ (bound => last.book = book.id)
            /\ \A r \in Elements(last.records) : r.seq <= feed.cursor)'
      <4>1. last # NoBook => Reply(last)'
        BY <1>2, <2>1 DEF Replied, Reply, Numbered
      <4> QED
        BY <1>2, <2>1, <4>1 DEF Replied, Elements, Reply, Numbered
    <3> QED
      BY <3>2, <3>3, <3>4, <3>5 DEF Replied
  <2>5. ShownOnce'
    BY <1>2, <2>1 DEF ShownOnce, Plain, Elements
  <2>6. OursKept'
    BY <1>2, <2>1 DEF OursKept, Elements
  <2>7. InTime'
    BY <1>2, <2>1 DEF InTime, Timely, Elements
  <2>8. AllTold'
    <3>1. ASSUME NEW h \in fetches', h.slice # NoBook
          PROVE  Told(h.slice.asof, h.slice.first, Reached(h))'
      <4>1. CASE h = g
        BY <1>3, <1>8, <4>1, GivenTold
      <4>2. CASE h \in fetches
        <5>1. Told(h.slice.asof, h.slice.first, Reached(h))
          BY <2>1, <3>1, <4>2 DEF AllTold
        <5>2. PICK a, b, c : a = h.slice.asof /\ b = h.slice.first /\ c = Reached(h)
          OBVIOUS
        <5>3. Told(a, b, c)'
          BY <1>8, <5>1, <5>2, ServeTold
        <5> QED
          BY <5>2, <5>3
      <4> QED
        BY <1>4, <4>1, <4>2
    <3>2. ASSUME last # NoBook PROVE Told(last.asof, last.first, feed.cursor)'
      <4>1. Told(last.asof, last.first, feed.cursor)
        BY <1>1, <2>1, <3>2 DEF AllTold
      <4>2. PICK a, b, c : a = last.asof /\ b = last.first /\ c = feed.cursor
        OBVIOUS
      <4>3. Told(a, b, c)'
        BY <1>8, <4>1, <4>2, ServeTold
      <4> QED
        BY <1>2, <4>2, <4>3
    <3> QED
      BY <1>2, <3>1, <3>2 DEF AllTold
  <2>9. feed' \in Feeds /\ NewDaemon'
    BY <1>2, <2>1, <2>4, <2>5, <2>6, <2>7, <2>8 DEF NewDaemon
  <2> QED
    BY <1>2, <1>5, <1>6, <1>8, <2>9 DEF FeedInv
<1> QED
  BY <1>7, <1>8

-----------------------------------------------------------------------------
\* A round keeps the invariant

\* What was told stays told of what comes after it.
LEMMA RoundTold ==
    ASSUME FeedInv, book.id # Legacy, book' = book, Quiet(fetches'),
           NEW asof, NEW first, NEW reached \in Int, NEW further \in Int, reached <= further,
           Told(asof, first, reached)
    PROVE  Told(asof, first, further)'
<1>1. \A r \in Elements(book.records) : r.seq \in Nat
  BY CalmAlone, RingIs, FeedConstants
<1>2. \A g \in fetches : g.slice # NoBook => \A r \in Elements(g.slice.records) : r.seq \in Nat
  BY ReplyIs DEF FeedInv, NewDaemon, Replied
<1>3. \A g \in fetches' : g.slice # NoBook => g \in fetches
  BY DEF Quiet
<1>4. \A r \in Elements(book.records) : r.at < asof => r.seq <= further
  BY <1>1 DEF Told
<1>5. ASSUME NEW g \in fetches', g.slice # NoBook, first <= g.slice.first,
             NEW r \in Elements(g.slice.records), r.at < asof
      PROVE  r.seq <= further
  <2>1. r.seq <= reached /\ r.seq \in Nat
    BY <1>2, <1>3, <1>5 DEF Told
  <2> QED
    BY <2>1
<1> QED
  BY <1>4, <1>5 DEF Told, Elements

\* A round of a daemon with a cursor keeps the invariant.
LEMMA RoundKeeps ==
    ASSUME FeedInv, book.id # Legacy, NEW slice, Reply(slice), feed.book \in {NoBook, slice.book},
           NEW fresh, NEW ours, NEW released, NEW held, NEW overflows,
           Round(slice, fresh, ours, released, held, overflows),
           RoundLeaves(slice, fresh, ours, released, held, overflows),
           UNCHANGED <<now, book, own, bound, clearing, events>>,
           Quiet(fetches'), fetches' # {} => bound,
           last # NoBook /\ ~tardy' => \A x \in Elements(fresh) : last.asof <= x.at,
           bound => slice.book = book.id /\ Told(slice.asof, slice.first, feed'.cursor)
    PROVE  FeedInv'
<1>1. /\ now' = now /\ book' = book /\ own' = own /\ bound' = bound
      /\ clearing' = clearing /\ events' = events
  OBVIOUS
<1>2. /\ feed'.cursor \in Nat /\ feed.cursor <= feed'.cursor
      /\ \A x \in Elements(slice.records) : x.seq <= feed'.cursor
      /\ feed'.local \in Nat /\ feed'.local < own.next
  BY RoundCursors
<1>3. last' = slice /\ feed'.book = slice.book
  BY DEF RoundLeaves
<1>4. slice \in Slices /\ slice # NoBook /\ slice.book # Legacy
  BY FeedConstants DEF Reply
<1>5. ShownOnce' /\ OursKept' /\ feed' \in Feeds /\ view' \in Seq(AllRecords)
  BY RoundShows
<1>6. NoSilentGap' /\ accounted' \in Nat
  BY RoundAccounts
<1>7. InTime'
  BY <1>1, RoundInTime
<1>8. FeedTyped'
  <2>1. tardy' \in BOOLEAN
    BY DEF RoundLeaves
  <2>2. fetches' \subseteq Fetches
    BY DEF Quiet
  <2>3. FeedTyped
    BY DEF FeedInv
  <2>4. (now \in Window .. MaxTime)'
        /\ (Ring(book, MaxSeq) /\ book.id # Own /\ Ring(own, MaxOwn) /\ own.id = Own)'
        /\ (bound \in BOOLEAN /\ clearing \in BOOLEAN /\ events \in Nat)'
    BY <1>1, <2>3 DEF FeedTyped, Ring
  <2> QED
    BY <1>1, <1>2, <1>3, <1>4, <1>5, <1>6, <2>1, <2>2, <2>4 DEF FeedTyped, AllRecords
<1>9. Replied /\ AllTold
  BY DEF FeedInv, NewDaemon
<1>10. \A g \in fetches' : g.slice # NoBook => g \in fetches
  BY DEF Quiet
<1>11. Replied'
  <2>1. ASSUME NEW g \in fetches'
        PROVE  g.cursor <= feed'.cursor
    <3>1. g.cursor <= feed.cursor
      BY <1>9, <2>1 DEF Quiet, Replied
    <3>2. g.cursor \in Nat
      BY <2>1 DEF Quiet, Fetches
    <3>3. feed.cursor \in Nat
      BY DEF FeedInv
    <3> QED
      BY <1>2, <3>1, <3>2, <3>3
  <2>2. \A g \in fetches' : g.slice # NoBook =>
            /\ ~g.stale /\ Reply(g.slice) /\ g.slice.book = book.id
            /\ \A r \in Elements(g.slice.records) : r.seq < book.next
    BY <1>9, <1>10 DEF Replied
  <2>3. (\A f \in fetches :
            /\ f.cursor <= feed.cursor
            /\ f.slice # NoBook =>
                /\ ~f.stale /\ Reply(f.slice) /\ f.slice.book = book.id
                /\ \A r \in Elements(f.slice.records) : r.seq < book.next)'
    BY <1>1, <2>1, <2>2 DEF Elements, Reply, Numbered
  <2>4. (last # NoBook =>
            /\ Reply(last) /\ feed.book = last.book /\ (bound => last.book = book.id)
            /\ \A r \in Elements(last.records) : r.seq <= feed.cursor)'
    BY <1>1, <1>2, <1>3 DEF Elements, Reply, Numbered
  <2>5. (fetches # {} => bound)' /\ (feed.book # Legacy)'
    BY <1>1, <1>3, <1>4
  <2>6. (last = NoBook => feed.book = NoBook /\ feed.cursor = 0)'
    BY <1>3, <1>4
  <2> QED
    BY <2>3, <2>4, <2>5, <2>6 DEF Replied
<1>12. AllTold'
  <2>1. ASSUME NEW h \in fetches', h.slice # NoBook
        PROVE  Told(h.slice.asof, h.slice.first, Reached(h))'
    <3>1. h \in fetches /\ Told(h.slice.asof, h.slice.first, Reached(h)) /\ Reply(h.slice)
      BY <1>9, <1>10, <2>1 DEF AllTold, Replied
    <3>2. Reached(h) \in Int
      <4>1. h.cursor \in Nat
        BY <2>1 DEF Quiet, Fetches
      <4>2. h.slice.records # <<>> => Final(h.slice.records) \in Elements(h.slice.records)
        <5>1. h.slice.records \in Seq(Records({h.slice.book}))
          BY <3>1, ReplyIs
        <5> QED
          BY <5>1, EmptyIs
      <4>3. \A x \in Elements(h.slice.records) : x.seq \in Nat
        BY <3>1, ReplyIs
      <4> QED
        BY <4>1, <4>2, <4>3 DEF Reached
    <3>3. PICK p, q, r : p = h.slice.asof /\ q = h.slice.first /\ r = Reached(h)
      OBVIOUS
    <3>4. r \in Int /\ r <= r
      BY <3>2, <3>3
    <3>5. Told(p, q, r)'
      BY <1>1, <3>1, <3>3, <3>4, RoundTold
    <3> QED
      BY <3>3, <3>5
  <2>2. ASSUME bound PROVE Told(last.asof, last.first, feed.cursor)'
    <3>1. PICK p, q, r : p = slice.asof /\ q = slice.first /\ r = feed'.cursor
      OBVIOUS
    <3>2. r \in Int /\ r <= r
      BY <1>2, <3>1
    <3>3. Told(p, q, r)
      BY <2>2, <3>1
    <3>4. Told(p, q, r)'
      BY <1>1, <3>2, <3>3, RoundTold
    <3> QED
      BY <1>3, <3>1, <3>4
  <2> QED
    BY <1>1, <2>1, <2>2 DEF AllTold
<1> QED
  BY <1>1, <1>2, <1>5, <1>6, <1>7, <1>8, <1>11, <1>12 DEF FeedInv, NewDaemon

\* The last answer tells of what comes next: what it did not reach was not written when
\* it was given.
LEMMA FreshIsLater ==
    ASSUME FeedInv, book.id # Legacy, bound, NEW slice, Reply(slice), slice.book = book.id,
           NEW f \in fetches, slice = f.slice,
           NEW fresh, NEW ours, NEW released, NEW held, NEW overflows,
           Round(slice, fresh, ours, released, held, overflows),
           RoundLeaves(slice, fresh, ours, released, held, overflows),
           last # NoBook, ~tardy', NEW x \in Elements(fresh)
    PROVE  last.asof <= x.at
<1>1. Reply(last) /\ last.book = book.id /\ Told(last.asof, last.first, feed.cursor)
  BY DEF FeedInv, NewDaemon, Replied, AllTold
<1>2. last.first \in Nat /\ last.asof \in Nat
  BY <1>1, ReplyIs
<1>3. slice.first \in Nat
  BY ReplyIs
<1>4. ~(slice.first < last.first)
  BY <1>1 DEF RoundLeaves
<1>5. x \in Elements(slice.records) /\ x.seq > feed.cursor
  BY DEF Round
<1>6. x \in Records({slice.book}) /\ x.seq \in Nat /\ feed.cursor \in Nat /\ slice # NoBook
  <2>1. slice # NoBook
    BY FeedConstants DEF Reply
  <2> QED
    BY <1>5, <2>1, ReplyIs DEF FeedInv
<1>7. x.at \in Nat
  BY <1>6, FeedConstants DEF Records
<1>8. x.at < last.asof => x.seq <= feed.cursor
  BY <1>1, <1>2, <1>3, <1>4, <1>5, <1>6 DEF Told
<1> QED
  BY <1>2, <1>5, <1>6, <1>7, <1>8

\* The answer of a daemon with a cursor is applied.
LEMMA LandKeeps ==
    ASSUME FeedInv, book.id # Legacy, NEW f \in fetches, ~f.stale, Land(f)
    PROVE  FeedInv'
<1>1. /\ f.slice # NoBook /\ Absorb(f.slice)
      /\ UNCHANGED <<now, book, own, bound, clearing, events>>
      /\ fetches' = (IF f.kind = "operation" THEN Stale(fetches \ {f}) ELSE fetches \ {f})
  BY DEF Land
<1>2. Replied /\ AllTold /\ bound
  BY AskedIsBound DEF FeedInv, NewDaemon
<1>3. PICK slice : slice = f.slice
  OBVIOUS
<1>4. Reply(slice) /\ slice.book = book.id /\ f.cursor <= feed.cursor
      /\ Told(slice.asof, slice.first, Reached(f))
  BY <1>1, <1>2, <1>3 DEF Replied, AllTold
<1>5. feed.book \in {NoBook, slice.book}
  BY <1>2, <1>4 DEF Replied
<1>6. PICK fresh, ours, released, held, overflows :
        /\ Round(slice, fresh, ours, released, held, overflows)
        /\ RoundLeaves(slice, fresh, ours, released, held, overflows)
  BY <1>1, <1>3, <1>4, <1>5, RoundIs
<1>7. /\ feed'.cursor \in Nat /\ feed.cursor <= feed'.cursor
      /\ \A x \in Elements(slice.records) : x.seq <= feed'.cursor
  BY <1>4, <1>6, RoundCursors
<1>8. Quiet(fetches')
  <2>1. fetches \subseteq Fetches /\ feed.cursor \in Nat
    BY DEF FeedInv, FeedTyped
  <2>2. \A g \in Stale(fetches \ {f}) : g \in Fetches /\ g.slice = NoBook /\ g.cursor = 0
    BY <2>1, StaleIs
  <2>3. 0 <= feed.cursor
    BY <2>1
  <2> QED
    BY <1>1, <2>1, <2>2, <2>3 DEF Quiet
<1>9. Reached(f) \in Int /\ Reached(f) <= feed'.cursor
  <2>1. CASE slice.records = <<>>
    <3>1. f.cursor \in Nat /\ feed.cursor \in Nat
      BY DEF FeedInv, FeedTyped, Fetches
    <3> QED
      BY <1>3, <1>4, <1>7, <2>1, <3>1 DEF Reached
  <2>2. CASE slice.records # <<>>
    <3>1. slice.records \in Seq(Records({slice.book}))
          /\ \A x \in Elements(slice.records) : x.seq \in Nat
      BY <1>4, ReplyIs
    <3>2. Final(slice.records) \in Elements(slice.records)
      BY <2>2, <3>1, EmptyIs
    <3> QED
      BY <1>3, <1>7, <2>2, <3>1, <3>2 DEF Reached
  <2> QED
    BY <2>1, <2>2
<1>10. Told(slice.asof, slice.first, feed'.cursor)
  <2>1. PICK r, c : r = Reached(f) /\ c = feed'.cursor
    OBVIOUS
  <2>2. /\ \A x \in Elements(book.records) : x.seq \in Nat
        /\ \A g \in fetches : g.slice # NoBook => \A x \in Elements(g.slice.records) : x.seq \in Nat
    <3>1. \A x \in Elements(book.records) : x.seq \in Nat
      BY CalmAlone, RingIs, FeedConstants
    <3>2. \A g \in fetches : g.slice # NoBook => Reply(g.slice)
      BY <1>2 DEF Replied
    <3> QED
      BY <3>1, <3>2, ReplyIs
  <2>3. r \in Int /\ c \in Int /\ r <= c
    BY <1>7, <1>9, <2>1
  <2>4. \A n \in Nat : n <= r => n <= c
    BY <2>3
  <2>5. Told(slice.asof, slice.first, r)
    BY <1>4, <2>1
  <2>6. Told(slice.asof, slice.first, c)
    BY <2>2, <2>4, <2>5 DEF Told
  <2> QED
    BY <2>1, <2>6
<1>11. last # NoBook /\ ~tardy' => \A x \in Elements(fresh) : last.asof <= x.at
  BY <1>2, <1>3, <1>4, <1>6, FreshIsLater
<1> QED
  BY <1>1, <1>2, <1>4, <1>5, <1>6, <1>8, <1>10, <1>11, RoundKeeps

\* A round that fails brings nothing new of the daemon's.
LEMMA FailsKeeps == FeedInv /\ RoundFails => FeedInv'
<1> SUFFICES ASSUME FeedInv, RoundFails PROVE FeedInv'
  OBVIOUS
<1>1. /\ ~bound /\ last # NoBook /\ Absorb(last)
      /\ UNCHANGED <<now, book, own, bound, fetches, clearing, events>>
  BY DEF RoundFails
<1>2. book.id # Legacy
  BY <1>1 DEF FeedInv, OldDaemon
<1>3. /\ Reply(last) /\ feed.book = last.book /\ fetches = {}
      /\ \A r \in Elements(last.records) : r.seq <= feed.cursor
  BY <1>1, <1>2 DEF FeedInv, NewDaemon, Replied
<1>4. PICK slice : slice = last
  OBVIOUS
<1>5. PICK fresh, ours, released, held, overflows :
        /\ Round(slice, fresh, ours, released, held, overflows)
        /\ RoundLeaves(slice, fresh, ours, released, held, overflows)
  BY <1>1, <1>2, <1>3, <1>4, RoundIs
<1>6. Elements(fresh) = {}
  <2>1. Elements(fresh) = {x \in Elements(slice.records) : x.seq > feed.cursor}
    BY <1>5 DEF Round
  <2>2. \A x \in Elements(slice.records) : x.seq \in Nat
    BY <1>3, <1>4, ReplyIs
  <2>3. feed.cursor \in Nat
    BY DEF FeedInv
  <2> QED
    BY <1>3, <1>4, <2>1, <2>2, <2>3
<1>7. Quiet(fetches')
  BY <1>1, CalmAlone
<1>8. fetches' = {}
  BY <1>1, <1>3
<1> QED
  BY <1>1, <1>2, <1>3, <1>4, <1>5, <1>6, <1>7, <1>8, RoundKeeps

-----------------------------------------------------------------------------
\* A round of an older daemon

\* What it accounts for is a number.
LEMMA WholeAccounts ==
    ASSUME FeedInv, book.id = Legacy, NEW slice, slice \in Slices, slice.book = Legacy,
           slice.records \in Seq(Records({Legacy})), Absorb(slice)
    PROVE  accounted' \in Nat
<1> DEFINE fresh == Beyond(slice.records, 0)
<1>1. feed = [cursor |-> feed.cursor, book |-> NoBook, local |-> 0, holding |-> feed.holding,
              released |-> feed.released, reset |-> FALSE]
  BY DEF FeedInv, OldDaemon
<1>2. slice.first \in Nat
  BY DEF Slices
<1>3. /\ fresh \in Seq(Records({Legacy}))
      /\ Elements(fresh) = {slice.records[i] : i \in {j \in 1 .. Len(slice.records) :
                                j \in {i \in 1 .. Len(slice.records) : slice.records[i].seq > 0}}}
  BY PickedIs DEF Beyond
<1>4. \A x \in Elements(fresh) : x.seq > 0
  BY <1>3
<1>5. \A x \in Elements(fresh) : x \in Records({Legacy})
  BY <1>3, EmptyIs
<1>6. \A x \in Elements(fresh) : x.seq \in Nat
  BY <1>5 DEF Records
<1>7. slice.book # feed.book
  <2>1. feed.book = NoBook
    BY <1>1
  <2> QED
    BY <2>1, FeedConstants
<1>8. Fresh(NewFeed, slice) = fresh
  BY DEF Fresh, NewFeed
<1>9. Gap(feed, slice) = IF fresh = <<>> THEN Monus(slice.first, 0 + 1)
                         ELSE Head(fresh).seq - 0 - 1
  <2>1. (IF feed.book = slice.book THEN feed.cursor ELSE 0) = 0
    BY <1>7
  <2>2. [feed EXCEPT !.cursor = 0].cursor = 0
    BY <1>1
  <2>3. Fresh([feed EXCEPT !.cursor = 0], slice) = fresh
    BY <2>2 DEF Fresh
  <2> HIDE DEF fresh
  <2> QED
    BY <2>1, <2>3 DEF Gap
<1> HIDE DEF fresh
<1>10. Gap(feed, slice) \in Nat
  <2>1. CASE fresh = <<>>
    BY <1>2, <1>9, <2>1 DEF Monus
  <2>2. CASE fresh # <<>>
    <3>1. Head(fresh) \in Elements(fresh)
      BY <1>3, <2>2, EmptyIs
    <3>2. PICK q \in Nat : q = Head(fresh).seq /\ q > 0
      BY <1>4, <1>6, <3>1
    <3>3. q - 0 - 1 \in Nat
      BY <3>2
    <3> QED
      BY <1>9, <2>2, <3>2, <3>3
  <2> QED
    BY <2>1, <2>2
<1>11. accounted' = Min({MaxSeq, 0 + Gap(feed, slice) + Len(fresh)})
  BY <1>7, <1>8 DEF Absorb
<1>12. Len(fresh) \in Nat
  BY <1>3
<1>13. 0 + Gap(feed, slice) + Len(fresh) \in Nat
  BY <1>10, <1>12
<1> QED
  BY <1>11, <1>13, MinIs, FeedConstants

\* It replaces what is on screen by the whole log, and holds the rest of it.
LEMMA WholeIs ==
    ASSUME FeedInv, book.id = Legacy, NEW slice, slice \in Slices, slice.book = Legacy,
           slice.records \in Seq(Records({Legacy})), Plain(slice.records), Absorb(slice)
    PROVE  \E all :
             /\ all \in Seq(AllRecords) /\ Plain(all) /\ Timely(all)
             /\ last' = slice /\ tardy' = TRUE
             /\ feed' = [cursor |-> Len(slice.records), book |-> NoBook, local |-> 0,
                         holding |-> StillHeld(all),
                         released |-> LastOf(feed.released \o Ours(Released(all)), BookCapacity),
                         reset |-> FALSE]
             /\ view' = LastOf(Released(all), BookCapacity)
<1> DEFINE local == Since(own, feed.local)
           ours == local.records
           all == ByTime(slice.records \o ours)
           batch == Absorbed(slice, local)
           released == Released(all)
           held == StillHeld(all)
<1>1. /\ feed = [cursor |-> feed.cursor, book |-> NoBook, local |-> 0, holding |-> feed.holding,
                 released |-> feed.released, reset |-> FALSE]
      /\ Ring(own, MaxOwn) /\ own.id = Own /\ now \in Nat /\ Window <= now
  <2>1. now \in Window .. MaxTime /\ Window \in Nat /\ MaxTime \in Nat
    BY FeedConstants DEF FeedInv, FeedTyped
  <2> QED
    BY <2>1 DEF FeedInv, FeedTyped, OldDaemon
<1>2. feed.local = 0 /\ feed.book = NoBook /\ feed.reset = FALSE
  BY <1>1
<1>3. /\ ours \in Seq(Records({Own})) /\ Numbered(ours)
      /\ \A x \in Elements(ours) : x \in Elements(own.records)
  <2>1. MaxOwn \in Nat /\ feed.local \in Nat
    BY <1>2, FeedConstants
  <2> QED
    BY <1>1, <2>1, SinceIs
<1>4. all \in Seq(AllRecords) /\ Plain(all) /\ Timely(all)
  <2> DEFINE joined == slice.records \o ours
  <2> HIDE DEF ours
  <2>1. slice.records \in Seq(AllRecords) /\ ours \in Seq(AllRecords)
    <3>1. Records({Own}) \subseteq AllRecords /\ Records({Legacy}) \subseteq AllRecords
      BY FeedConstants
    <3> QED
      BY <1>3, <3>1, SeqWider
  <2>2. Plain(ours) /\ \A x \in Elements(ours) : x.book = Own
    <3>1. \A x \in Elements(ours) : x \in Records({Own})
      BY <1>3, EmptyIs
    <3>2. \A x \in Elements(ours) : x.seq \in Nat /\ x.book = Own
      BY <3>1 DEF Records
    <3> QED
      BY <1>3, <3>2, NumberedIs
  <2>3. \A x \in Elements(slice.records) : x.book # Own
    <3>1. \A x \in Elements(slice.records) : x \in Records({Legacy})
      BY EmptyIs
    <3>2. \A x \in Elements(slice.records) : x.book = Legacy
      BY <3>1 DEF Records
    <3> QED
      BY <3>2, FeedConstants
  <2>4. joined \in Seq(AllRecords) /\ Plain(joined)
    BY <2>1, <2>2, <2>3, JoinedIs
  <2>5. all = ByTime(joined) /\ Moments(AllRecords)
    BY FeedConstants
  <2> HIDE DEF joined, all
  <2>6. ByTime(joined) \in Seq(AllRecords) /\ Timely(ByTime(joined)) /\ Plain(ByTime(joined))
    BY <2>4, <2>5, ByTimeIs
  <2> QED
    BY <2>5, <2>6
<1>5. TakenLegacy(feed, slice)
        = [cursor |-> Len(slice.records), book |-> NoBook, local |-> 0,
           holding |-> slice.records, released |-> feed.released, reset |-> FALSE]
  <2>1. PICK a, b, c, d, e, z :
            /\ a = feed.cursor /\ b = feed.holding /\ c = feed.released /\ d = FALSE
            /\ e = NoBook /\ z = 0
    OBVIOUS
  <2>2. PICK n, s, g : n = Len(slice.records) /\ s = slice.records /\ g = feed
    OBVIOUS
  <2>3. g = [cursor |-> a, book |-> e, local |-> z, holding |-> b, released |-> c, reset |-> d]
    BY <1>1, <2>1, <2>2
  <2>4. [g EXCEPT !.holding = s, !.cursor = n, !.local = z]
          = [cursor |-> n, book |-> e, local |-> z, holding |-> s, released |-> c, reset |-> d]
    <3>1. PICK h : h = [g EXCEPT !.holding = s, !.cursor = n, !.local = z]
      OBVIOUS
    <3>2. DOMAIN h = {"cursor", "book", "local", "holding", "released", "reset"}
      BY ONLY <2>3, <3>1
    <3>3. h = [i \in {"cursor", "book", "local", "holding", "released", "reset"} |-> h[i]]
      BY ONLY <3>1, <3>2
    <3>4. h.cursor = n /\ h.book = e /\ h.local = z /\ h.holding = s /\ h.released = c /\ h.reset = d
      BY ONLY <2>3, <3>1
    <3> QED
      BY ONLY <3>1, <3>3, <3>4
  <2> QED
    BY ONLY <2>1, <2>2, <2>4 DEF TakenLegacy
<1> DEFINE remote == TakenLegacy(feed, slice)
<1>6. batch = [feed |-> [remote EXCEPT
                    !.reset = FALSE, !.local = @,
                    !.holding = held,
                    !.released = LastOf(@ \o Ours(released), BookCapacity)],
               reset |-> TRUE,
               records |-> released,
               overflows |-> Excess(all) > 0]
  <2> DEFINE legacy == slice.book = Legacy
             restarted == ~legacy /\ feed.book # slice.book
             restart == feed.reset \/ (restarted /\ feed.book # NoBook)
             taken == IF legacy THEN TakenLegacy(feed, slice) ELSE Taken(feed, slice)
             sorted == ByTime(taken.holding \o local.records)
             shown == Released(sorted)
  <2>1. batch = [feed |-> [taken EXCEPT
                    !.reset = FALSE,
                    !.local = IF legacy \/ ours = <<>> THEN @ ELSE Final(ours).seq,
                    !.holding = StillHeld(sorted),
                    !.released = LastOf(@ \o Ours(shown), BookCapacity)],
                reset |-> legacy \/ restart,
                records |-> IF restart THEN ByTime(feed.released \o shown) ELSE shown,
                overflows |-> Excess(sorted) > 0]
    BY DEF Absorbed, Released, StillHeld, Settled, Pending, Excess
  <2>2. legacy = TRUE /\ restart = FALSE /\ taken = remote /\ (legacy \/ restart) = TRUE
    BY <1>2
  <2>3. remote.holding = slice.records
    BY <1>5
  <2>4. sorted = all
    <3> HIDE DEF remote, taken
    <3> QED
      BY <2>2, <2>3
  <2>5. shown = released /\ StillHeld(sorted) = held /\ Excess(sorted) = Excess(all)
    <3> HIDE DEF sorted, all
    <3> QED
      BY <2>4
  <2> HIDE DEF batch, legacy, restart, taken, sorted, shown, remote, all, held, released, ours
  <2> QED
    BY <2>1, <2>2, <2>5
<1> HIDE DEF all, held, released, batch
<1>7. batch.feed = [cursor |-> Len(slice.records), book |-> NoBook, local |-> 0,
                    holding |-> held,
                    released |-> LastOf(feed.released \o Ours(released), BookCapacity),
                    reset |-> FALSE]
  <2>1. batch.feed = [remote EXCEPT !.reset = FALSE, !.local = @, !.holding = held,
                                    !.released = LastOf(@ \o Ours(released), BookCapacity)]
    BY <1>6
  <2>2. PICK c, n, s : c = feed.released /\ n = Len(slice.records) /\ s = slice.records
    OBVIOUS
  <2>3. remote = [cursor |-> n, book |-> NoBook, local |-> 0, holding |-> s, released |-> c,
                  reset |-> FALSE]
    BY <1>5, <2>2
  <2> HIDE DEF remote
  <2> QED
    BY ONLY <2>1, <2>2, <2>3
<1>8. batch.reset = TRUE /\ batch.records = released
  BY <1>6
<1>9. last' = slice /\ feed' = batch.feed
      /\ view' = LastOf((IF batch.reset THEN <<>> ELSE view) \o batch.records, BookCapacity)
  BY DEF Absorb, batch
<1>10. tardy' = TRUE
  BY DEF Absorb
<1>11. released \in Seq(AllRecords)
  BY <1>1, <1>4, ReleasedIs DEF released
<1>12. <<>> \o released = released
  BY <1>11, ConcatEmptySeq
<1>13. view' = LastOf(released, BookCapacity)
  BY <1>8, <1>9, <1>12
<1> QED
  BY <1>4, <1>7, <1>9, <1>10, <1>13 DEF held, released

\* It keeps the invariant.
LEMMA WholeKeeps ==
    ASSUME FeedInv, book.id = Legacy, NEW f \in fetches, ~f.stale, Land(f)
    PROVE  FeedInv'
<1>1. /\ f.slice # NoBook /\ Absorb(f.slice)
      /\ UNCHANGED <<now, book, own, bound, clearing, events>>
      /\ fetches' = (IF f.kind = "operation" THEN Stale(fetches \ {f}) ELSE fetches \ {f})
  BY DEF Land
<1>2. PICK slice : slice = f.slice
  OBVIOUS
<1>3. fetches \subseteq Fetches
  BY DEF FeedInv, FeedTyped
<1>4. /\ slice \in Slices /\ slice.book = Legacy /\ Plain(slice.records)
      /\ slice.records \in Seq(Records({Legacy})) /\ Absorb(slice)
  <2>1. slice \in Slices
    BY <1>1, <1>2, <1>3 DEF Fetches
  <2> QED
    BY <1>1, <1>2, <2>1 DEF FeedInv, OldDaemon
<1>5. PICK all :
        /\ all \in Seq(AllRecords) /\ Plain(all) /\ Timely(all)
        /\ last' = slice /\ tardy' = TRUE
        /\ feed' = [cursor |-> Len(slice.records), book |-> NoBook, local |-> 0,
                    holding |-> StillHeld(all),
                    released |-> LastOf(feed.released \o Ours(Released(all)), BookCapacity),
                    reset |-> FALSE]
        /\ view' = LastOf(Released(all), BookCapacity)
  BY <1>4, WholeIs
<1>6. view' \in Seq(AllRecords) /\ Plain(view')
  <2>1. now \in Window .. MaxTime /\ Window \in Nat /\ MaxTime \in Nat
    BY FeedConstants DEF FeedInv, FeedTyped
  <2>2. Released(all) \in Seq(AllRecords) /\ Plain(Released(all))
    BY <1>5, <2>1, ReleasedIs
  <2>3. /\ LastOf(Released(all), BookCapacity) \in Seq(AllRecords)
        /\ Thins(LastOf(Released(all), BookCapacity), Released(all))
    BY <2>2, LastOfIs, FeedConstants
  <2>4. Plain(LastOf(Released(all), BookCapacity))
    BY <2>2, <2>3, ThinnedKeeps
  <2> QED
    BY <1>5, <2>3, <2>4
<1>7. feed'.cursor \in Nat /\ feed'.local = 0 /\ feed'.book = NoBook
  BY <1>4, <1>5
<1>8. accounted' \in Nat
  BY <1>4, WholeAccounts
<1>9. fetches' \subseteq Fetches /\ \A g \in fetches' : g.slice # NoBook => g \in fetches
  <2>1. \A g \in Stale(fetches \ {f}) : g \in Fetches /\ g.slice = NoBook
    BY <1>3, StaleIs
  <2> QED
    BY <1>1, <1>3, <2>1
<1>10. FeedTyped'
  <2>1. FeedTyped
    BY DEF FeedInv
  <2>2. (now \in Window .. MaxTime)'
        /\ (Ring(book, MaxSeq) /\ book.id # Own /\ Ring(own, MaxOwn) /\ own.id = Own)'
        /\ (bound \in BOOLEAN /\ clearing \in BOOLEAN /\ events \in Nat)'
    BY <1>1, <2>1 DEF FeedTyped, Ring
  <2>3. 0 < own'.next
    <3>1. own.next \in Nat /\ own.next # 0
      BY <2>1, RingIs, FeedConstants DEF FeedTyped
    <3> QED
      BY <1>1, <3>1
  <2> QED
    BY <1>4, <1>5, <1>6, <1>7, <1>8, <1>9, <2>2, <2>3 DEF FeedTyped, AllRecords
<1>11. OldDaemon'
  <2>1. OldDaemon
    BY DEF FeedInv
  <2>2. (bound /\ Plain(view) /\ tardy)'
    BY <1>1, <1>5, <1>6, <2>1 DEF OldDaemon, Plain
  <2>3. feed' = [cursor |-> feed'.cursor, book |-> NoBook, local |-> 0, holding |-> feed'.holding,
                 released |-> feed'.released, reset |-> FALSE]
    BY <1>5
  <2>4. (\A g \in fetches : g.slice # NoBook =>
            /\ g.slice.book = Legacy /\ Plain(g.slice.records)
            /\ g.slice.records \in Seq(Records({Legacy})))'
    BY <1>9, <2>1 DEF OldDaemon, Plain
  <2> QED
    BY <2>2, <2>3, <2>4 DEF OldDaemon
<1>12. NoSilentGap'
  BY <1>7 DEF NoSilentGap
<1> QED
  BY <1>1, <1>7, <1>10, <1>11, <1>12 DEF FeedInv

-----------------------------------------------------------------------------
\* Daemons come and go

\* Another daemon begins an empty book, and answers nothing yet.
LEMMA RestartKeeps == FeedInv /\ Restart => FeedInv'
<1> SUFFICES ASSUME FeedInv, Restart PROVE FeedInv'
  OBVIOUS
<1>1. /\ bound /\ book.id # Legacy /\ events' = events + 1 /\ book' = EmptyBook(book.id + 1)
      /\ bound' = FALSE /\ fetches' = {} /\ clearing' = FALSE
      /\ now' = now /\ own' = own /\ last' = last /\ feed' = feed /\ view' = view
      /\ accounted' = accounted /\ tardy' = tardy
  BY DEF Restart, Disturb, feedGhosts
<1>2. /\ FeedTyped /\ NoSilentGap /\ feed.cursor \in Nat /\ feed \in Feeds
      /\ Replied /\ ShownOnce /\ OursKept /\ InTime
  BY <1>1 DEF FeedInv, NewDaemon
<1>3. book.id \in Nat /\ Ring(book, MaxSeq)
  BY <1>2 DEF FeedTyped, Ring
<1>4. book.id + 1 \in Nat /\ book.id + 1 # Legacy /\ book.id + 1 # Own
  <2>1. book.id + 1 \in Nat /\ book.id + 1 # 0
    BY <1>3
  <2> QED
    BY <2>1, FeedConstants DEF Legacy
<1>5. /\ Ring(book', MaxSeq) /\ book'.id = book.id + 1
  BY <1>1, <1>3, <1>4, EmptiedIs, FeedConstants
<1>6. FeedTyped'
  <2>1. (Ring(own, MaxOwn))'
    BY <1>1, <1>2 DEF FeedTyped, Ring
  <2>2. events' \in Nat
    BY <1>1, <1>2 DEF FeedTyped
  <2>3. fetches' \subseteq Fetches
    BY <1>1
  <2>4. (Ring(book, MaxSeq))'
    BY <1>5 DEF Ring
  <2> QED
    BY <1>1, <1>2, <1>4, <1>5, <2>1, <2>2, <2>3, <2>4 DEF FeedTyped
<1>7. Replied'
  <2>1. (last # NoBook =>
            /\ Reply(last) /\ feed.book = last.book /\ (bound => last.book = book.id)
            /\ \A r \in Elements(last.records) : r.seq <= feed.cursor)'
    BY <1>1, <1>2 DEF Replied, Elements, Reply, Numbered
  <2>2. (feed.book # Legacy /\ (last = NoBook => feed.book = NoBook /\ feed.cursor = 0))'
    BY <1>1, <1>2 DEF Replied
  <2> QED
    BY <1>1, <2>1, <2>2 DEF Replied
<1>8. ShownOnce'
  BY <1>1, <1>2 DEF ShownOnce, Plain, Elements
<1>9. OursKept'
  BY <1>1, <1>2 DEF OursKept, Elements
<1>10. InTime'
  BY <1>1, <1>2 DEF InTime, Timely, Elements
<1>11. AllTold'
  BY <1>1 DEF AllTold
<1>12. NoSilentGap' /\ feed'.cursor \in Nat /\ feed' \in Feeds
  BY <1>1, <1>2 DEF NoSilentGap
<1> QED
  BY <1>4, <1>5, <1>6, <1>7, <1>8, <1>9, <1>10, <1>11, <1>12 DEF FeedInv, NewDaemon

\* A failed call leaves the books as they are.
LEMMA CallFailsKeeps == FeedInv /\ CallFails => FeedInv'
<1> SUFFICES ASSUME FeedInv, CallFails PROVE FeedInv'
  OBVIOUS
<1>1. /\ bound /\ book.id # Legacy /\ events' = events + 1 /\ book' = book
      /\ bound' = FALSE /\ fetches' = {} /\ clearing' = clearing
      /\ now' = now /\ own' = own /\ last' = last /\ feed' = feed /\ view' = view
      /\ accounted' = accounted /\ tardy' = tardy
  BY DEF CallFails, Disturb, feedGhosts
<1>2. /\ FeedTyped /\ NoSilentGap /\ feed.cursor \in Nat /\ feed \in Feeds
      /\ Replied /\ ShownOnce /\ OursKept /\ InTime
  BY <1>1 DEF FeedInv, NewDaemon
<1>3. FeedTyped'
  <2>1. (Ring(own, MaxOwn))' /\ (Ring(book, MaxSeq))'
    BY <1>1, <1>2 DEF FeedTyped, Ring
  <2>2. events' \in Nat /\ fetches' \subseteq Fetches
    BY <1>1, <1>2 DEF FeedTyped
  <2> QED
    BY <1>1, <1>2, <2>1, <2>2 DEF FeedTyped
<1>4. Replied'
  BY <1>1, <1>2 DEF Replied, Elements, Reply, Numbered
<1>5. ShownOnce'
  BY <1>1, <1>2 DEF ShownOnce, Plain, Elements
<1>6. OursKept' /\ InTime'
  BY <1>1, <1>2 DEF OursKept, InTime, Timely, Elements
<1>7. AllTold' /\ NoSilentGap' /\ feed'.cursor \in Nat /\ feed' \in Feeds
  BY <1>1, <1>2 DEF AllTold, NoSilentGap
<1> QED
  BY <1>1, <1>2, <1>3, <1>4, <1>5, <1>6, <1>7 DEF FeedInv, NewDaemon

\* The client that is bound again forgets the daemon's records, and keeps its own.
LEMMA RebindKeeps == FeedInv /\ Rebind => FeedInv'
<1> SUFFICES ASSUME FeedInv, Rebind PROVE FeedInv'
  OBVIOUS
<1>1. /\ ~bound /\ bound' = TRUE /\ feed' = ResetRemote(feed) /\ last' = NoBook /\ accounted' = 0
      /\ now' = now /\ book' = book /\ own' = own /\ fetches' = fetches /\ view' = view
      /\ clearing' = clearing /\ events' = events /\ tardy' = tardy
  BY DEF Rebind
<1>2. book.id # Legacy
  BY <1>1 DEF FeedInv, OldDaemon
<1>3. /\ FeedTyped /\ feed \in Feeds /\ Replied /\ ShownOnce /\ OursKept /\ InTime /\ fetches = {}
  BY <1>1, <1>2 DEF FeedInv, NewDaemon, Replied
<1>4. /\ feed = [cursor |-> feed.cursor, book |-> feed.book, local |-> feed.local,
                 holding |-> feed.holding, released |-> feed.released, reset |-> feed.reset]
      /\ feed.holding \in Seq(AllRecords)
  BY <1>2, FeedIs
<1> DEFINE ours == Ours(feed.holding)
<1>5. /\ ours \in Seq(AllRecords) /\ Thins(ours, feed.holding)
      /\ Elements(ours) = {x \in Elements(feed.holding) : x.book = Own}
  BY <1>4, OursIs
<1> HIDE DEF ours
<1>6. Plain(ours)
  <2>1. Plain(feed.holding)
    BY <1>3 DEF ShownOnce
  <2> QED
    BY <1>4, <1>5, <2>1, ThinnedKeeps
<1>7. feed' = [cursor |-> 0, book |-> NoBook, local |-> feed.local, holding |-> ours,
               released |-> feed.released, reset |-> TRUE]
  <2>1. PICK g : g = feed
    OBVIOUS
  <2>2. feed' = [g EXCEPT !.cursor = 0, !.book = NoBook, !.holding = ours, !.reset = TRUE]
    <3>1. PICK h : h = [g EXCEPT !.cursor = 0, !.book = NoBook, !.holding = Ours(@), !.reset = TRUE]
      OBVIOUS
    <3>2. feed' = h
      BY <1>1, <2>1, <3>1 DEF ResetRemote
    <3>3. Ours(g.holding) = ours
      BY <2>1 DEF ours
    <3> QED
      BY ONLY <3>1, <3>2, <3>3
  <2>3. g = [cursor |-> g.cursor, book |-> g.book, local |-> g.local,
             holding |-> g.holding, released |-> g.released, reset |-> g.reset]
    BY <1>4, <2>1
  <2>4. feed' = [cursor |-> 0, book |-> NoBook, local |-> g.local, holding |-> ours,
                 released |-> g.released, reset |-> TRUE]
    BY ONLY <2>2, <2>3
  <2> QED
    BY <2>1, <2>4
<1>8. /\ feed'.cursor = 0 /\ feed'.book = NoBook /\ feed'.local = feed.local /\ feed'.holding = ours
      /\ feed'.released = feed.released /\ feed'.reset = TRUE
  BY <1>7
<1>9. feed' \in Feeds
  <2>1. /\ feed.local \in Nat /\ feed.released \in Seq(Records({Own}))
    BY <1>3 DEF Feeds
  <2>2. 0 \in 0 .. MaxSeq
    BY FeedConstants
  <2>3. ours \in Seq(Records(Nat \cup {Own}))
    BY <1>5 DEF AllRecords
  <2> QED
    BY <1>7, <2>1, <2>2, <2>3 DEF Feeds
<1>10. FeedTyped'
  <2>1. (Ring(book, MaxSeq) /\ Ring(own, MaxOwn))'
    BY <1>1, <1>3 DEF FeedTyped, Ring
  <2> QED
    BY <1>1, <1>3, <1>8, <2>1 DEF FeedTyped
<1>11. Replied'
  <2>1. (feed.book # Legacy)'
    BY <1>8, FeedConstants
  <2> QED
    BY <1>1, <1>3, <1>8, <2>1 DEF Replied
<1>12. ShownOnce'
  <2>1. Plain(view)' /\ Plain(feed.holding)' /\ Plain(feed.released)'
    BY <1>1, <1>3, <1>6, <1>8 DEF ShownOnce, Plain
  <2>2. Elements(feed'.holding) = {x \in Elements(feed.holding) : x.book = Own}
        /\ Elements(view') = Elements(view) /\ Elements(feed'.released) = Elements(feed.released)
    BY <1>1, <1>5, <1>8
  <2>3. /\ \A r \in Elements(feed'.holding) :
              r \notin Elements(view') /\ r \notin Elements(feed'.released)
        /\ \A r \in Elements(view') \cup Elements(feed'.holding) \cup Elements(feed'.released) :
              r.book = Own => r.seq <= feed'.local
    BY <1>3, <1>8, <2>2 DEF ShownOnce
  <2>4. \A r \in Elements(feed'.holding) : r.book = Own
    BY <2>2
  <2> QED
    BY <1>8, <2>1, <2>3, <2>4 DEF ShownOnce, Elements
<1>13. OursKept'
  BY <1>1, <1>3, <1>8 DEF OursKept, Elements
<1>14. InTime'
  <2> SUFFICES ASSUME ~tardy'
               PROVE  /\ Timely(view')
                      /\ \A r \in Elements(view') \cup Elements(feed'.released) : r.at + Window <= now'
                      /\ \A r \in Elements(view'), h \in Elements(feed'.holding) : r.at <= h.at
                      /\ \A r \in Elements(view'), o \in Elements(own'.records) :
                              o.seq > feed'.local => r.at <= o.at
                      /\ last' # NoBook => \A r \in Elements(view') : r.at <= last'.asof
                      /\ last' = NoBook => view' = <<>> \/ feed'.reset
    BY DEF InTime, Timely, Elements
  <2>1. /\ Timely(view)
        /\ \A r \in Elements(view) \cup Elements(feed.released) : r.at + Window <= now
        /\ \A r \in Elements(view), h \in Elements(feed.holding) : r.at <= h.at
        /\ \A r \in Elements(view), o \in Elements(own.records) : o.seq > feed.local => r.at <= o.at
    BY <1>1, <1>3 DEF InTime
  <2> QED
    BY <1>1, <1>5, <1>8, <2>1
<1>15. AllTold'
  BY <1>1, <1>3 DEF AllTold
<1>16. NoSilentGap' /\ feed'.cursor \in Nat
  BY <1>8 DEF NoSilentGap
<1> QED
  BY <1>1, <1>2, <1>9, <1>10, <1>11, <1>12, <1>13, <1>14, <1>15, <1>16 DEF FeedInv, NewDaemon

-----------------------------------------------------------------------------
\* The invariant holds

\* It holds at the beginning.
LEMMA FeedStarts == FeedInit => FeedInv
<1> SUFFICES ASSUME FeedInit PROVE FeedInv
  OBVIOUS
<1>1. /\ now = Window /\ own = EmptyBook(Own) /\ bound = TRUE /\ fetches = {} /\ last = NoBook
      /\ feed = NewFeed /\ view = <<>> /\ clearing = FALSE /\ events = 0
      /\ accounted = 0 /\ tardy = FALSE
  BY DEF FeedInit
<1>2. PICK id \in {Legacy, 1} : book = EmptyBook(id)
  BY DEF FeedInit
<1>3. id \in Nat /\ id # Own
  BY FeedConstants DEF Legacy
<1>4. Len(<<>>) = 0 /\ 1 .. 0 = {} /\ \A V : <<>> \in Seq(V)
  OBVIOUS
<1>5. \A key \in Nat \cup {Own}, most \in Nat :
        Ring(EmptyBook(key), most) /\ EmptyBook(key).id = key /\ EmptyBook(key).next = 1
  <2> SUFFICES ASSUME NEW key \in Nat \cup {Own}, NEW most \in Nat
               PROVE  Ring(EmptyBook(key), most) /\ EmptyBook(key).id = key
                      /\ EmptyBook(key).next = 1
    OBVIOUS
  <2>1. EmptyBook(key) = [id |-> key, records |-> <<>>, next |-> 1]
    BY DEF EmptyBook
  <2>2. EmptyBook(key) \in [id : Nat \cup {Own}, records : Seq(Records({key})), next : Nat]
    BY <1>4, <2>1
  <2>3. EmptyBook(key).id = key /\ EmptyBook(key).records = <<>> /\ EmptyBook(key).next = 1
    BY <2>1
  <2>4. 1 <= most + 1 /\ 0 < 1 /\ 0 <= BookCapacity
    BY FeedConstants
  <2> QED
    BY <1>4, <2>2, <2>3, <2>4 DEF Ring
<1>6. /\ feed = [cursor |-> 0, book |-> NoBook, local |-> 0, holding |-> <<>>,
                 released |-> <<>>, reset |-> FALSE]
  BY <1>1 DEF NewFeed
<1>7. /\ feed.cursor = 0 /\ feed.book = NoBook /\ feed.local = 0 /\ feed.holding = <<>>
      /\ feed.released = <<>> /\ feed.reset = FALSE
  BY <1>6
<1>8. FeedTyped
  <2>1. now \in Window .. MaxTime
    BY <1>1, FeedConstants
  <2>2. Ring(book, MaxSeq) /\ book.id = id /\ Ring(own, MaxOwn) /\ own.id = Own /\ own.next = 1
    BY <1>1, <1>2, <1>3, <1>5, FeedConstants
  <2>3. 0 \in Nat /\ 0 < 1
    OBVIOUS
  <2> QED
    BY <1>1, <1>3, <1>4, <1>7, <2>1, <2>2, <2>3 DEF FeedTyped
<1>9. Plain(<<>>) /\ Timely(<<>>) /\ Elements(<<>>) = {}
  BY <1>4 DEF Plain, Timely, Elements
<1>10. NoSilentGap /\ feed.cursor \in Nat
  BY <1>7 DEF NoSilentGap
<1>11. CASE book.id = Legacy
  <2>1. OldDaemon
    BY <1>1, <1>6, <1>7, <1>9 DEF OldDaemon
  <2> QED
    BY <1>8, <1>10, <1>11, <2>1 DEF FeedInv
<1>12. CASE book.id # Legacy
  <2>1. feed \in Feeds
    <3>1. 0 \in 0 .. MaxSeq
      BY FeedConstants
    <3> QED
      BY <1>4, <1>6, <3>1 DEF Feeds
  <2>2. Replied
    BY <1>1, <1>7, FeedConstants DEF Replied
  <2>3. ShownOnce
    BY <1>1, <1>7, <1>9 DEF ShownOnce
  <2>4. OursKept
    <3>1. Len(feed.released) = 0 /\ 0 <= BookCapacity
      BY <1>4, <1>7, FeedConstants
    <3> QED
      BY <1>1, <1>9, <3>1 DEF OursKept
  <2>5. AllTold
    BY <1>1 DEF AllTold
  <2>6. InTime
    BY <1>1, <1>7, <1>9 DEF InTime
  <2> QED
    BY <1>8, <1>10, <1>12, <2>1, <2>2, <2>3, <2>4, <2>5, <2>6 DEF FeedInv, NewDaemon
<1> QED
  BY <1>11, <1>12

\* Every step keeps it.
LEMMA FeedSteps == FeedInv /\ [FeedNext]_feedVars => FeedInv'
<1> SUFFICES ASSUME FeedInv, [FeedNext]_feedVars PROVE FeedInv'
  OBVIOUS
<1>1. CASE TimePasses \/ DaemonLogs \/ ClientLogs \/ ClearView \/ ClearBook
  BY <1>1, WritersAreCalm, CalmKeeps
<1>2. CASE Poll \/ Operate \/ \E f \in fetches : f.stale /\ Land(f)
  BY <1>2, AskersAreCalm, CalmKeeps
<1>3. CASE Restart \/ CallFails
  BY <1>3, RestartKeeps, CallFailsKeeps
<1>4. CASE Rebind
  BY <1>4, RebindKeeps
<1>5. CASE RoundFails
  BY <1>5, FailsKeeps
<1>6. CASE \E f \in fetches : Serve(f)
  BY <1>6, ServeKeeps
<1>7. CASE \E f \in fetches : ~f.stale /\ Land(f)
  BY <1>7, LandKeeps, WholeKeeps
<1>8. CASE UNCHANGED feedVars
  <2>1. /\ now' = now /\ book' = book /\ own' = own /\ bound' = bound /\ fetches' = fetches
        /\ last' = last /\ feed' = feed /\ view' = view /\ clearing' = clearing /\ events' = events
        /\ accounted' = accounted /\ tardy' = tardy
    BY <1>8 DEF feedVars, feedGhosts
  <2>2. Calm
    BY <2>1, CalmAlone DEF Calm
  <2> QED
    BY <2>2, CalmKeeps
<1> QED
  BY <1>1, <1>2, <1>3, <1>4, <1>5, <1>6, <1>7, <1>8 DEF FeedNext

\* What it says of the view.
LEMMA ViewFollows == FeedInv => ViewIsALog
<1> SUFFICES ASSUME FeedInv PROVE ViewIsALog
  OBVIOUS
<1>1. view \in Seq(AllRecords)
  BY DEF FeedInv, FeedTyped, AllRecords
<1>2. DOMAIN view = 1 .. Len(view) /\ Len(view) \in Nat
  BY <1>1
<1>3. Plain(view) /\ (~tardy => Timely(view))
  <2>1. Len(<<>>) = 0 /\ 1 .. 0 = {}
    OBVIOUS
  <2>2. Timely(<<>>)
    BY <2>1 DEF Timely
  <2> QED
    BY <2>2 DEF FeedInv, OldDaemon, NewDaemon, ShownOnce, InTime
<1>4. NeverTwice
  BY <1>2, <1>3 DEF NeverTwice, IsInjective, Plain
<1>5. InOrder
  BY <1>2, <1>3 DEF InOrder, Timely
<1>6. NoSilentGap
  BY DEF FeedInv
<1> QED
  BY <1>4, <1>5, <1>6 DEF ViewIsALog

\* The view is a log: no line is shown twice, however the poll and the operations
\* overtake each other; as long as the answers come in time the lines are in the order
\* they were written in; and what is missing was announced (absorb and absorb_logs).
THEOREM ViewIsAlwaysALog == FeedSpec => []ViewIsALog
<1>1. FeedSpec => []FeedInv
  BY FeedStarts, FeedSteps, PTL DEF FeedSpec
<1> QED
  BY <1>1, ViewFollows, PTL

-----------------------------------------------------------------------------
\* The client's lines stay

\* What a sequence has, as a function.
LEMMA RangeIs ==
    ASSUME NEW V, NEW s \in Seq(V)
    PROVE  Range(s) = Elements(s)
<1>1. DOMAIN s = 1 .. Len(s)
  OBVIOUS
<1> QED
  BY <1>1 DEF Range, Elements

\* A round of a daemon with a cursor leaves the client's lines.
LEMMA RoundStaysAll ==
    ASSUME FeedInv, book.id # Legacy, NEW slice, Reply(slice), feed.book \in {NoBook, slice.book},
           Absorb(slice), Len(view') < BookCapacity
    PROVE  Range(Ours(view)) \subseteq Range(view')
<1>1. PICK fresh, ours, released, held, overflows :
        /\ Round(slice, fresh, ours, released, held, overflows)
        /\ RoundLeaves(slice, fresh, ours, released, held, overflows)
  BY RoundIs
<1>2. \A x \in Elements(view) : x.book = Own => x \in Elements(view')
  BY <1>1, RoundStays
<1>3. view' \in Seq(AllRecords)
  BY <1>1, RoundShows
<1>4. Range(view') = Elements(view')
  BY <1>3, RangeIs
<1>5. /\ Ours(view) \in Seq(AllRecords)
      /\ Elements(Ours(view)) = {x \in Elements(view) : x.book = Own}
  BY FeedIs, OursIs
<1>6. Range(Ours(view)) = Elements(Ours(view))
  BY <1>5, RangeIs
<1> QED
  BY <1>2, <1>4, <1>5, <1>6

\* Whatever leaves the view leaves them.
LEMMA SameViewStays == FeedInv /\ view' = view => Range(Ours(view)) \subseteq Range(view')
<1> SUFFICES ASSUME FeedInv, view' = view PROVE Range(Ours(view)) \subseteq Range(view)
  OBVIOUS
<1>1. view \in Seq(AllRecords)
  BY DEF FeedInv, FeedTyped, AllRecords
<1>2. /\ Ours(view) \in Seq(AllRecords)
      /\ Elements(Ours(view)) = {x \in Elements(view) : x.book = Own}
  BY <1>1, OursIs
<1>3. Range(Ours(view)) = Elements(Ours(view)) /\ Range(view) = Elements(view)
  BY <1>1, <1>2, RangeIs
<1> QED
  BY <1>2, <1>3

\* Every step does but the user's.
LEMMA OursStaySteps ==
    ASSUME FeedInv, FeedNext, events' = events, Len(view') < BookCapacity,
           last' = NoBook \/ last'.book # Legacy
    PROVE  Range(Ours(view)) \subseteq Range(view')
<1>1. CASE ClearView \/ Restart \/ CallFails \/ Operate
  <2>1. events' = events + 1 /\ events \in Nat
    BY <1>1 DEF ClearView, Restart, CallFails, Operate, Disturb, FeedInv, FeedTyped
  <2> QED
    BY <2>1
<1>2. CASE TimePasses \/ DaemonLogs \/ ClientLogs \/ ClearBook \/ Rebind \/ Poll
  <2>1. view' = view
    BY <1>2 DEF TimePasses, DaemonLogs, ClientLogs, ClearBook, Rebind, Poll
  <2> QED
    BY <2>1, SameViewStays
<1>3. CASE \E f \in fetches : Serve(f) \/ (f.stale /\ Land(f))
  <2>1. view' = view
    BY <1>3 DEF Serve, Land
  <2> QED
    BY <2>1, SameViewStays
<1>4. CASE RoundFails
  <2>1. ~bound /\ last # NoBook /\ Absorb(last)
    BY <1>4 DEF RoundFails
  <2>2. book.id # Legacy
    BY <2>1 DEF FeedInv, OldDaemon
  <2>3. Reply(last) /\ feed.book = last.book
    BY <2>1, <2>2 DEF FeedInv, NewDaemon, Replied
  <2>4. PICK slice : slice = last
    OBVIOUS
  <2>5. Reply(slice) /\ feed.book = slice.book /\ Absorb(slice)
    BY <2>1, <2>3, <2>4
  <2> QED
    BY <2>2, <2>5, RoundStaysAll
<1>5. CASE \E f \in fetches : ~f.stale /\ Land(f)
  <2>1. PICK f \in fetches : ~f.stale /\ Land(f)
    BY <1>5
  <2>2. PICK slice : slice = f.slice
    OBVIOUS
  <2>3. slice # NoBook /\ Absorb(slice) /\ last' = slice
    BY <2>1, <2>2 DEF Land, Absorb
  <2>4. CASE book.id = Legacy
    BY <2>2, <2>3, <2>4 DEF FeedInv, OldDaemon
  <2>5. CASE book.id # Legacy
    <3>1. Reply(slice) /\ slice.book = book.id /\ bound
      BY <2>2, <2>3, <2>5, AskedIsBound DEF FeedInv, NewDaemon, Replied
    <3>2. feed.book \in {NoBook, slice.book}
      BY <2>5, <3>1 DEF FeedInv, NewDaemon, Replied
    <3> QED
      BY <2>3, <2>5, <3>1, <3>2, RoundStaysAll
  <2> QED
    BY <2>4, <2>5
<1> QED
  BY <1>1, <1>2, <1>3, <1>4, <1>5 DEF FeedNext

\* The client's own lines outlive the daemon: no round, and no change of the daemon,
\* takes one off the view but to make room for others or because an older daemon answers
\* with the whole log (reset_remote, absorb).
THEOREM OursAlwaysStay == FeedSpec => OursStay
<1>1. FeedSpec => []FeedInv
  BY FeedStarts, FeedSteps, PTL DEF FeedSpec
<1>2. FeedInv /\ [FeedNext]_feedVars
        => [/\ events' = events /\ Len(view') < BookCapacity
            /\ last' = NoBook \/ last'.book # Legacy
            => Range(Ours(view)) \subseteq Range(view')]_feedVars
  BY OursStaySteps
<1> QED
  BY <1>1, <1>2, PTL DEF FeedSpec, OursStay
=============================================================================
