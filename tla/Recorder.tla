------------------------------ MODULE Recorder ------------------------------
(***************************************************************************)
(* The recorder in front of the journal (crates/oxidom/src/diagnostics.rs):*)
(* equal observations of the watchdog are summed up in buckets before they *)
(* are written, and what could not be written is counted until a record of *)
(* the gap is.                                                             *)
(*                                                                         *)
(* The emission mutex is held from the reduction of a fact to the last of  *)
(* its writes, so one call follows another. A subject is a session of one  *)
(* generation; a key adds the attempt and policy under which it is         *)
(* observed and the cause that is seen.                                    *)
(***************************************************************************)
EXTENDS Naturals, Sequences

CONSTANTS
    Keys,         \* what observations tell apart: [subject, policy, cause]
    Batch,        \* observations that fill a bucket
    MaxBuckets,
    MaxOrdinal,   \* the greatest ordinal, u64::MAX
    MaxCount,     \* the greatest count, u64::MAX
    MaxFacts      \* bound on the facts recorded

ASSUME RecorderAssumption ==
    /\ Batch \in Nat /\ MaxBuckets \in Nat \ {0}
    /\ MaxOrdinal \in Nat /\ MaxCount \in Nat /\ MaxFacts \in Nat

VARIABLES
    fenced,       \* closed
    ordinal,      \* of the last fact accepted
    disabled,     \* aggregation_disabled
    buckets,      \* oldest first
    output,       \* the events the call in progress has still to write
    closing,      \* it attempts a gap at its end
    lost,         \* Persistence: what was not confirmed
    facts,        \* facts accepted so far
    confirmed,    \* occurrences in events that were written
    excused,      \* occurrences in gaps that were written
    vague         \* one of these gaps said that its counts are only a lower bound

tallies == <<facts, confirmed, excused, vague>>
runtime == <<fenced, ordinal, disabled, buckets>>
recorderVars == <<runtime, output, closing, lost, tallies>>

NothingLost == [attempts |-> 0, occurrences |-> 0, saturated |-> FALSE]

\* An event that stands for so many occurrences.
Occurrences(n) == [occurrences |-> n]
Single == Occurrences(1)

-----------------------------------------------------------------------------
(* Runtime: what a fact makes of the buckets, and what is written of it.   *)

\* Wrong on purpose: an observation that came alone is not worth a summary.
FlushedOne(bucket) == IF bucket.suppressed > 1 THEN <<Occurrences(bucket.suppressed)>> ELSE <<>>

\* Bucket::flush
Flushed(bucket) == IF bucket.suppressed = 0 THEN <<>> ELSE <<Occurrences(bucket.suppressed)>>

\* The buckets of these keys are flushed one after the other, and the others kept.
Flush(gone, some) ==
    LET done[i \in 0 .. Len(some)] ==
            IF i = 0 THEN [buckets |-> <<>>, output |-> <<>>]
            ELSE IF some[i].key \in gone
            THEN [done[i - 1] EXCEPT !.output = @ \o Flushed(some[i])]
            ELSE [done[i - 1] EXCEPT !.buckets = Append(@, some[i])]
    IN  done[Len(some)]

\* What remains, and what is written, when the buckets of these keys are closed.
Closed(gone, remaining, events) ==
    [Flush(gone, remaining) EXCEPT !.output = @ \o events]

\* An observation joins its bucket, or opens one and is written.
Joined(some, key) ==
    LET i == CHOOSE i \in DOMAIN some : some[i].key = key
        grown == [some[i] EXCEPT !.suppressed = @ + 1]
    IN  IF \E j \in DOMAIN some : some[j].key = key
        THEN IF grown.suppressed = Batch
             THEN [buckets |-> [some EXCEPT ![i].suppressed = 0], output |-> Flushed(grown)]
             ELSE [buckets |-> [some EXCEPT ![i] = grown], output |-> <<>>]
        ELSE LET full == Len(some) = MaxBuckets IN
             [buckets |-> Append(IF full THEN Tail(some) ELSE some, [key |-> key, suppressed |-> 0]),
              output |-> (IF full THEN Flushed(Head(some)) ELSE <<>>) \o <<Single>>]

\* A changed cause, or an action, closes the bucket of the cause before; an action is
\* written itself.
Observed(key, acts) ==
    LET changed == {k \in Keys : k.subject = key.subject /\ k.policy = key.policy
                                 /\ (acts \/ k # key)}
        before == Closed(changed, buckets, <<>>)
        after == IF acts THEN [buckets |-> before.buckets, output |-> <<Single>>]
                 ELSE Joined(before.buckets, key)
    IN  [after EXCEPT !.output = before.output \o @]

\* retire
Retired(subject, events) ==
    Closed({k \in Keys : k.subject = subject}, buckets, events)

\* reduce_and_emit: the reduction happens at once, the writes follow.
Reduce(result, atEnd) ==
    /\ output = <<>> /\ ~closing
    /\ buckets' = result.buckets
    /\ output' = result.output
    /\ closing' = atEnd
    /\ UNCHANGED <<lost, confirmed, excused, vague>>

\* accept, after the fence: the ordinal runs out once and for all.
Accept(result) ==
    /\ facts < MaxFacts
    /\ facts' = facts + 1
    /\ ordinal' = IF disabled \/ ordinal = MaxOrdinal THEN ordinal ELSE ordinal + 1
    /\ disabled' = (disabled \/ ordinal = MaxOrdinal)
    /\ Reduce(IF disabled THEN [buckets |-> buckets, output |-> <<Single>>]
              ELSE IF ordinal = MaxOrdinal THEN Closed(Keys, buckets, <<Single>>)
              ELSE result, FALSE)
    /\ UNCHANGED fenced

\* A phase, a problem and the like are accepted even after the fence.
Milestone == Accept([buckets |-> buckets, output |-> <<Single>>])

Observation == ~fenced /\ \E key \in Keys, acts \in BOOLEAN : Accept(Observed(key, acts))

SessionRetired ==
    ~fenced /\ \E key \in Keys : Accept(Retired(key.subject, <<Single>>))

\* Recorder::retire adds no event, and is not fenced.
Retire ==
    /\ \E key \in Keys : Reduce(Retired(key.subject, <<>>), FALSE)
    /\ UNCHANGED <<fenced, ordinal, disabled, facts>>

CloseRuntime ==
    /\ fenced' = TRUE
    /\ Reduce(Closed(Keys, buckets, <<>>), TRUE)
    /\ UNCHANGED <<ordinal, disabled, facts>>

-----------------------------------------------------------------------------
(* Persistence: each write succeeds or fails.                              *)

\* checked_add, and unwrap_or(u64::MAX)
Saturating(a, b) == IF a + b > MaxCount THEN MaxCount ELSE a + b

Missed(gap, n) ==
    [attempts |-> Saturating(gap.attempts, 1),
     occurrences |-> Saturating(gap.occurrences, n),
     saturated |-> gap.saturated \/ gap.attempts + 1 > MaxCount \/ gap.occurrences + n > MaxCount]

\* flush_gap: what is left to report after one attempt, if there is anything to report.
\* What a written gap says, the tallies keep.
FlushGap(works) ==
    LET told == lost # NothingLost /\ works IN
    /\ excused' = IF told THEN excused + lost.occurrences ELSE excused
    /\ vague' = (vague \/ (told /\ lost.saturated))

AfterGap(works) == IF works THEN NothingLost ELSE lost

\* emit: a gap is attempted before the event.
Write ==
    /\ output # <<>>
    /\ \E gap, event \in BOOLEAN :
        LET n == Head(output).occurrences IN
        /\ FlushGap(gap)
        /\ lost' = IF event THEN AfterGap(gap) ELSE Missed(AfterGap(gap), n)
        /\ confirmed' = IF event THEN confirmed + n ELSE confirmed
    /\ output' = Tail(output)
    /\ UNCHANGED <<runtime, closing, facts>>

WriteGap ==
    /\ output = <<>> /\ closing
    /\ \E gap \in BOOLEAN : FlushGap(gap) /\ lost' = AfterGap(gap)
    /\ closing' = FALSE
    /\ UNCHANGED <<runtime, output, facts, confirmed>>

-----------------------------------------------------------------------------
RecorderInit ==
    /\ fenced = FALSE /\ ordinal = 0 /\ disabled = FALSE /\ buckets = <<>>
    /\ output = <<>> /\ closing = FALSE
    /\ lost = NothingLost
    /\ facts = 0 /\ confirmed = 0 /\ excused = 0 /\ vague = FALSE

RecorderNext ==
    \/ Milestone \/ Observation \/ SessionRetired \/ Retire \/ CloseRuntime
    \/ Write \/ WriteGap

RecorderSpec == RecorderInit /\ [][RecorderNext]_recorderVars

-----------------------------------------------------------------------------
RecorderTypeOK ==
    /\ ordinal \in 0 .. MaxOrdinal
    /\ Len(buckets) <= MaxBuckets
    /\ \A i, j \in DOMAIN buckets : buckets[i].key = buckets[j].key => i = j
    /\ \A i \in DOMAIN buckets : buckets[i].key \in Keys /\ buckets[i].suppressed < Batch
    /\ {lost.attempts, lost.occurrences} \subseteq 0 .. MaxCount

Total(counts) ==
    LET sum[i \in 0 .. Len(counts)] == IF i = 0 THEN 0 ELSE sum[i - 1] + counts[i]
    IN  sum[Len(counts)]

Held == Total([i \in 1 .. Len(buckets) |-> buckets[i].suppressed])
Unwritten == Total([i \in 1 .. Len(output) |-> output[i].occurrences])
Tally == confirmed + excused + lost.occurrences + Held + Unwritten

\* Every accepted fact is written, counted in a gap, or still held, and exactly once; it
\* is missing from the counts only where they say themselves that they are too low. What
\* is held when the runtime is closed is written or counted, and nothing is held later.
FactsAreAccounted ==
    /\ Tally = facts \/ (Tally < facts /\ (lost.saturated \/ vague))
    /\ fenced => Held = 0
=============================================================================
