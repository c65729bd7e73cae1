------------------------------ MODULE LogFeed -------------------------------
(***************************************************************************)
(* The log as the desktop client shows it: the daemon's book of records    *)
(* (logbook.rs), read over the bus from a cursor by a poll and by whatever *)
(* operation just ended, merged with the client's own book into one        *)
(* ordered view (logfeed.rs, and its callers in window.rs).                *)
(*                                                                         *)
(* A record is its book, its number in it and the moment it was written.   *)
(* An older daemon has no cursor: its book is Legacy, and each answer is   *)
(* the whole of it, with neither numbers nor moments.  One capacity bounds *)
(* the books, what is held, and the view.  A call may fail although the    *)
(* daemon lives on, and a new daemon is another book.  Neither is modelled *)
(* of an older daemon: it stays, and is not recovered from.                *)
(***************************************************************************)
EXTENDS Naturals, Sequences, FiniteSetsExt, Functions

CONSTANTS
    BookCapacity,    \* of a book, of the held records and of the view
    Limit,       \* LOG_FETCH_LIMIT
    Window,      \* REORDER_WINDOW_MS, in ticks
    Own,         \* the client's own book
    NoBook,        \* no slice, no book
    MaxSeq,      \* bound on the daemon's records, by book
    MaxOwn,      \* bound on the client's records
    MaxTime,
    MaxEvents    \* bound on the user's clears and operations, the restarts and the failed calls

Legacy == 0

Records(books) == [book : books, seq : Nat, at : 0 .. MaxTime]
Slices ==
    [book : Nat, records : Seq(Records(Nat)), first : Nat, asof : Nat, skipped : Nat]

ASSUME FeedAssumption ==
    /\ BookCapacity \in Nat \ {0} /\ Limit \in Nat \ {0}
    /\ Window \in Nat /\ MaxTime \in Nat /\ Window <= MaxTime
    /\ MaxSeq \in Nat /\ MaxOwn \in Nat /\ MaxEvents \in Nat
    /\ Own \notin Nat /\ NoBook \notin Nat \cup {Own} /\ NoBook \notin Slices

VARIABLES
    now,
    book,        \* the daemon's: its id, its records, the next number
    own,         \* the client's
    bound,       \* the client is bound to the daemon that runs
    fetches,     \* the poll and the operation in progress
    last,        \* last_remote_logs
    feed,        \* LogFeed
    view,        \* the records on screen
    clearing,    \* the daemon's book is still to be cleared
    events,      \* clears, operations, restarts and failed calls so far
    accounted,   \* records of this book the feed took or said were missing
    tardy        \* something was released before what precedes it could arrive

feedGhosts == <<accounted, tardy>>
feedVars == <<now, book, own, bound, fetches, last, feed, view, clearing, events, feedGhosts>>

-----------------------------------------------------------------------------
\* Sequences of records

\* What stands at these positions, in its order.
Picked(s, positions) ==
    LET picked[n \in 0 .. Len(s)] ==
            IF n = 0 THEN <<>>
            ELSE IF n \in positions THEN Append(picked[n - 1], s[n])
            ELSE picked[n - 1]
    IN  picked[Len(s)]

Beyond(s, cursor) == Picked(s, {i \in 1 .. Len(s) : s[i].seq > cursor})

Ours(s) == Picked(s, {i \in 1 .. Len(s) : s[i].book = Own})

ByTime(s) ==
    LET sorted[t \in 0 .. MaxTime + 1] ==
            IF t = 0 THEN <<>>
            ELSE sorted[t - 1] \o Picked(s, {i \in 1 .. Len(s) : s[i].at = t - 1})
    IN  sorted[MaxTime + 1]

Final(s) == s[Len(s)]

Monus(a, b) == IF a > b THEN a - b ELSE 0

LastOf(s, n) == SubSeq(s, Monus(Len(s), n) + 1, Len(s))

-----------------------------------------------------------------------------
\* Books

EmptyBook(id) == [id |-> id, records |-> <<>>, next |-> 1]

\* push: the oldest record goes when there are too many.
Pushed(b) ==
    LET records == Append(b.records, [book |-> b.id, seq |-> b.next, at |-> now])
    IN  [b EXCEPT !.next = @ + 1,
                  !.records = IF Len(records) > BookCapacity THEN Tail(records) ELSE records]

\* clear does not rewind the numbers.
Emptied(b) == [b EXCEPT !.records = <<>>]

FirstSeq(b) == IF b.records = <<>> THEN b.next ELSE Head(b.records).seq

\* since: the newest after the cursor, and what could not be returned.
Since(b, cursor) ==
    LET matching == Beyond(b.records, cursor)
    IN  [book |-> b.id, records |-> LastOf(matching, Limit), first |-> FirstSeq(b), asof |-> now,
         skipped |-> Monus(FirstSeq(b), cursor + 1) + Monus(Len(matching), Limit)]

\* from_legacy_lines: everything, sorted before whatever has a moment.
LegacySlice(b) ==
    [book |-> Legacy, first |-> 1, asof |-> now, skipped |-> 0,
     records |-> [i \in DOMAIN b.records |-> [b.records[i] EXCEPT !.at = 0]]]

-----------------------------------------------------------------------------
\* The feed

NewFeed == [cursor |-> 0, book |-> NoBook, local |-> 0, holding |-> <<>>,
            released |-> <<>>, reset |-> FALSE]

\* Wrong on purpose: what the client itself has shown is not shown again.
ResetAll(f) ==
    [f EXCEPT !.cursor = 0, !.book = NoBook, !.holding = Ours(@), !.released = <<>>,
              !.reset = TRUE]

\* reset_remote
ResetRemote(f) ==
    [f EXCEPT !.cursor = 0, !.book = NoBook, !.holding = Ours(@), !.reset = TRUE]

\* The round of a daemon without a cursor replaces everything, the client's own
\* records included, which are read again for the next round.
TakenLegacy(f, slice) ==
    [f EXCEPT !.holding = slice.records, !.cursor = Len(slice.records), !.local = 0]

\* Wrong on purpose: the cursor of the request is trusted.
FreshAsServed(f, slice) == slice.records

\* What the feed has not seen of a slice: another round may have taken part of it.
Fresh(f, slice) == Beyond(slice.records, f.cursor)

Taken(f, slice) ==
    LET known == IF f.book = slice.book THEN f
                 ELSE [f EXCEPT !.book = slice.book, !.cursor = 0, !.holding = Ours(@)]
        fresh == Fresh(known, slice)
    IN  IF fresh = <<>> THEN known
        ELSE [known EXCEPT !.cursor = Final(fresh).seq, !.holding = @ \o fresh]

\* The records missing between the feed's own cursor and the first it has not seen.
Gap(f, slice) ==
    LET cursor == IF f.book = slice.book THEN f.cursor ELSE 0
        fresh == Fresh([f EXCEPT !.cursor = cursor], slice)
    IN  IF fresh = <<>> THEN Monus(slice.first, cursor + 1)
                        ELSE Head(fresh).seq - cursor - 1

\* absorb: one round of both books, and what may be shown of it.
Absorbed(slice, local) ==
    LET legacy == slice.book = Legacy
        restarted == ~legacy /\ feed.book # slice.book
        restart == feed.reset \/ (restarted /\ feed.book # NoBook)
        remote == IF legacy THEN TakenLegacy(feed, slice) ELSE Taken(feed, slice)
        held == ByTime(remote.holding \o local.records)
        settled == Picked(held, {i \in 1 .. Len(held) : held[i].at <= now - Window})
        waiting == Picked(held, {i \in 1 .. Len(held) : held[i].at > now - Window})
        excess == Monus(Len(waiting), BookCapacity)
        released == settled \o SubSeq(waiting, 1, excess)
    IN  [feed |-> [remote EXCEPT
                    !.reset = FALSE,
                    !.local = IF legacy \/ local.records = <<>> THEN @
                              ELSE Final(local.records).seq,
                    !.holding = SubSeq(waiting, excess + 1, Len(waiting)),
                    !.released = LastOf(@ \o Ours(released), BookCapacity)],
         reset |-> legacy \/ restart,
         records |-> IF restart THEN ByTime(feed.released \o released) ELSE released,
         overflows |-> excess > 0]

\* absorb_logs and the append of the view.
Absorb(slice) ==
    LET local == Since(own, feed.local)
        batch == Absorbed(slice, local)
        reset == slice.book # feed.book
    IN  /\ last' = slice
        /\ feed' = batch.feed
        /\ view' = LastOf((IF batch.reset THEN <<>> ELSE view) \o batch.records, BookCapacity)
        /\ accounted' = Min({MaxSeq, (IF reset THEN 0 ELSE accounted) + Gap(feed, slice)
                                     + Len(Fresh(IF reset THEN NewFeed ELSE feed, slice))})
        /\ tardy' = (tardy \/ batch.overflows \/ slice.asof + Window < now
                     \/ slice.book = Legacy
                     \/ (last # NoBook /\ slice.book = last.book /\ slice.first < last.first))

-----------------------------------------------------------------------------
\* The books are written and cleared

\* bump_epoch: what was asked for before is not applied, whatever it answers.
Stale(fs) == {[f EXCEPT !.stale = TRUE, !.cursor = 0, !.slice = NoBook] : f \in fs}

TimePasses ==
    /\ now < MaxTime
    /\ now' = now + 1
    /\ UNCHANGED <<book, own, bound, fetches, last, feed, view, clearing, events, feedGhosts>>

DaemonLogs ==
    /\ book.next <= MaxSeq
    /\ book' = Pushed(book)
    /\ UNCHANGED <<now, own, bound, fetches, last, feed, view, clearing, events, feedGhosts>>

ClientLogs ==
    /\ own.next <= MaxOwn
    /\ own' = Pushed(own)
    /\ UNCHANGED <<now, book, bound, fetches, last, feed, view, clearing, events, feedGhosts>>

Disturb == events < MaxEvents /\ events' = events + 1

\* The user clears the view and both books, the daemon's through a thread.
ClearView ==
    /\ bound /\ Disturb
    /\ view' = <<>>
    /\ own' = Emptied(own)
    /\ clearing' = TRUE
    /\ fetches' = Stale(fetches)
    /\ UNCHANGED <<now, book, bound, last, feed, accounted, tardy>>

ClearBook ==
    /\ clearing
    /\ clearing' = FALSE
    /\ book' = Emptied(book)
    /\ UNCHANGED <<now, own, bound, fetches, last, feed, view, events, feedGhosts>>

\* Another daemon takes the place of the one the client is bound to: what was asked of
\* it is not answered any more;
Restart ==
    /\ bound /\ book.id # Legacy /\ Disturb
    /\ book' = EmptyBook(book.id + 1)
    /\ bound' = FALSE
    /\ fetches' = {} /\ clearing' = FALSE
    /\ UNCHANGED <<now, own, last, feed, view, feedGhosts>>

\* or it stays, but a call to it fails: the client gives its binding and its rounds up;
\* the thread of a clear goes on.
CallFails ==
    /\ bound /\ book.id # Legacy /\ Disturb
    /\ bound' = FALSE
    /\ fetches' = {}
    /\ UNCHANGED <<now, book, own, last, feed, view, clearing, feedGhosts>>

\* A round that fails shows what it can of the client's own records.
RoundFails ==
    /\ ~bound /\ last # NoBook
    /\ Absorb(last)
    /\ UNCHANGED <<now, book, own, bound, fetches, clearing, events>>

\* The recovery binds the client again.
Rebind ==
    /\ ~bound
    /\ bound' = TRUE
    /\ feed' = ResetRemote(feed)
    /\ last' = NoBook
    /\ accounted' = 0
    /\ UNCHANGED <<now, book, own, fetches, view, clearing, events, tardy>>

-----------------------------------------------------------------------------
\* Fetches

\* Each reads the cursor when it begins and the book when its call gets there.
Begun(kind) == [kind |-> kind, stale |-> FALSE, cursor |-> feed.cursor, slice |-> NoBook]

Busy(kind) == \E f \in fetches : f.kind = kind

Poll ==
    /\ bound /\ ~Busy("poll")
    /\ fetches' = fetches \cup {Begun("poll")}
    /\ UNCHANGED <<now, book, own, bound, last, feed, view, clearing, events, feedGhosts>>

\* client_job: an operation makes the rounds before it stale.
Operate ==
    /\ bound /\ ~Busy("operation") /\ Disturb
    /\ fetches' = Stale(fetches) \cup {Begun("operation")}
    /\ UNCHANGED <<now, book, own, bound, last, feed, view, clearing, feedGhosts>>

\* logs_since
Serve(f) ==
    /\ ~f.stale /\ f.slice = NoBook
    /\ fetches' = (fetches \ {f}) \cup {[f EXCEPT !.slice =
                    IF book.id = Legacy THEN LegacySlice(book) ELSE Since(book, f.cursor)]}
    /\ UNCHANGED <<now, book, own, bound, last, feed, view, clearing, events, feedGhosts>>

\* The answer is applied unless the user acted since; that of an operation makes the
\* polls in progress stale.
Land(f) ==
    /\ f.stale \/ f.slice # NoBook
    /\ fetches' = IF f.kind = "operation" /\ ~f.stale THEN Stale(fetches \ {f})
                  ELSE fetches \ {f}
    /\ IF f.stale THEN UNCHANGED <<last, feed, view, accounted, tardy>> ELSE Absorb(f.slice)
    /\ UNCHANGED <<now, book, own, bound, clearing, events>>

-----------------------------------------------------------------------------
FeedInit ==
    /\ now = Window
    /\ \E id \in {Legacy, 1} : book = EmptyBook(id)
    /\ own = EmptyBook(Own)
    /\ bound = TRUE /\ fetches = {} /\ last = NoBook
    /\ feed = NewFeed /\ view = <<>>
    /\ clearing = FALSE /\ events = 0
    /\ accounted = 0 /\ tardy = FALSE

FeedNext ==
    \/ TimePasses \/ DaemonLogs \/ ClientLogs
    \/ ClearView \/ ClearBook \/ Restart \/ CallFails \/ RoundFails \/ Rebind
    \/ Poll \/ Operate
    \/ \E f \in fetches : Serve(f) \/ Land(f)

FeedSpec == FeedInit /\ [][FeedNext]_feedVars

-----------------------------------------------------------------------------
FeedTypeOK ==
    /\ book.next \in 1 .. MaxSeq + 1 /\ own.next \in 1 .. MaxOwn + 1
    /\ Len(book.records) <= BookCapacity /\ Len(view) <= BookCapacity
    /\ feed.cursor < book.next \/ ~bound \/ book.id = Legacy
    /\ feed.local < own.next
    /\ Len(feed.holding) <= BookCapacity

\* However the poll and the operations overtake each other, no line is shown twice.
NeverTwice == IsInjective(view)

\* A record of the daemon's book the feed has gone past was taken or announced as
\* missing ("a gap the reader cannot see is a log that lies").
NoSilentGap ==
    feed.book \notin {NoBook, Legacy} => accounted >= feed.cursor

\* As long as answers are applied within the window the view is in the order the lines
\* were written in, whichever book they come from.
InOrder == ~tardy => \A i, j \in DOMAIN view : i < j => view[i].at <= view[j].at

\* The view is a log: each line once, in its place, and what is missing is announced.
ViewIsALog == NeverTwice /\ InOrder /\ NoSilentGap

\* The client's own lines outlive the daemon: no round takes one off the view but to
\* make room for others.
OursStay ==
    [][/\ events' = events /\ Len(view') < BookCapacity
       /\ last' = NoBook \/ last'.book # Legacy
       => Range(Ours(view)) \subseteq Range(view')]_feedVars
=============================================================================
