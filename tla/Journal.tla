------------------------------- MODULE Journal -------------------------------
(***************************************************************************)
(* The file of structured diagnostics (diagnostics.rs and reader.rs of     *)
(* oxidom-core): a current generation and one backup, appended to by any   *)
(* process of the daemon under one lock, and read page by page from a      *)
(* cursor that outlives both.                                              *)
(*                                                                         *)
(* A record is written in two parts, of which the second ends its line; a  *)
(* generation is the sequence of parts it holds. A process may die, and a  *)
(* call of the operating system may fail, between any two steps. What was  *)
(* written stays: the loss of power is outside what the code promises.     *)
(* Permissions and the checks of the kind of a file are left out.          *)
(***************************************************************************)
EXTENDS Naturals, Sequences, FiniteSetsExt

CONSTANTS
    Writers,     \* processes that write: the daemon, and one that may be starting
    Inodes,      \* numbers of files; that of a file that is gone is given again
    FileCapacity,    \* MAX_FILE_BYTES, in parts
    Limits,      \* the sizes of a page, in records
    MaxRecords,  \* bound on the records written
    Nothing         \* no file, holder of the lock, cursor or page

ASSUME JournalAssumption ==
    /\ FileCapacity \in Nat /\ MaxRecords \in Nat
    /\ Nothing \notin Writers
    /\ Nothing \notin [inode : Inodes, file : Nat, bytes : Seq([record : Nat, part : {1, 2}])]

VARIABLES
    lock,        \* who holds oxidom-daemon.log.lock
    current,     \* the generation that is appended to
    backup,      \* the one before
    writer,      \* where each process is in access()
    records,     \* records begun so far
    files,       \* files created so far
    cursor,      \* the position of the reader
    page,        \* the last page read
    history,     \* the complete lines, in the order they were written
    acked,       \* the records whose write was reported to have succeeded
    seen         \* the part of the history the cursor stands for

journalGhosts == <<history, acked, seen>>
journalVars == <<lock, current, backup, writer, records, files, cursor, page, journalGhosts>>

Part(record, i) == [record |-> record, part |-> i]
EndsLine(p) == p.part = 2
Absent == [step |-> "absent", record |-> 0, file |-> 0, length |-> 0]

\* How many complete lines a sequence of parts has.
Lines(bytes) == Cardinality({i \in DOMAIN bytes : EndsLine(bytes[i])})

\* The records that can be read from a generation: a line that mixes two is none.
Whole(generation) ==
    IF generation = Nothing THEN {}
    ELSE {r \in 1 .. MaxRecords :
            \E i \in 1 .. Len(generation.bytes) - 1 :
                generation.bytes[i] = Part(r, 1) /\ generation.bytes[i + 1] = Part(r, 2)}

-----------------------------------------------------------------------------
(* Writing: Diagnostics::access.                                           *)

AtStep(w, step) == writer[w].step = step
Go(w, step) == writer' = [writer EXCEPT ![w].step = step]

\* The guard of the lock and the descriptors are dropped; the process goes on, unless it
\* was opening the journal and could not, which leaves it without one.
Return(w, opened) ==
    /\ lock' = IF lock = w THEN Nothing ELSE lock
    /\ writer' = [writer EXCEPT ![w] =
                    IF opened \/ @.record # 0 THEN [Absent EXCEPT !.step = "idle"] ELSE Absent]

\* Wrong on purpose: the answer of try_lock is not looked at.
LockAnyway(w) ==
    /\ AtStep(w, "absent") \/ (AtStep(w, "idle") /\ records < MaxRecords)
    /\ lock' = w
    /\ records' = IF AtStep(w, "idle") THEN records + 1 ELSE records
    /\ writer' = [writer EXCEPT ![w] = [Absent EXCEPT !.step = "locked",
                    !.record = IF AtStep(w, "idle") THEN records + 1 ELSE 0]]
    /\ UNCHANGED <<current, backup, files, cursor, page, journalGhosts>>

\* A process that starts opens the journal; later it appends records. Who finds the lock
\* taken gives up, which changes nothing here.
Lock(w) ==
    /\ AtStep(w, "absent") \/ (AtStep(w, "idle") /\ records < MaxRecords)
    /\ lock = Nothing
    /\ lock' = w
    /\ records' = IF AtStep(w, "idle") THEN records + 1 ELSE records
    /\ writer' = [writer EXCEPT ![w] = [Absent EXCEPT !.step = "locked",
                    !.record = IF AtStep(w, "idle") THEN records + 1 ELSE 0]]
    /\ UNCHANGED <<current, backup, files, cursor, page, journalGhosts>>

\* create_current. The number of a file that was renamed over is free again.
CreateCurrent ==
    /\ current = Nothing
    /\ files' = files + 1
    /\ \E i \in Inodes :
        /\ backup # Nothing => backup.inode # i
        /\ current' = [inode |-> i, file |-> files + 1, bytes |-> <<>>]

OpenCurrent(w) ==
    /\ AtStep(w, "locked")
    /\ IF current = Nothing THEN CreateCurrent ELSE UNCHANGED <<current, files>>
    /\ writer' = [writer EXCEPT ![w].step = "open", ![w].file = current'.file]
    /\ UNCHANGED <<lock, backup, records, cursor, page, journalGhosts>>

\* The parts up to the last one that ends a line.
Repaired(bytes) == SubSeq(bytes, 1, Max({0} \cup {i \in DOMAIN bytes : EndsLine(bytes[i])}))

RepairTail(w) ==
    /\ AtStep(w, "open")
    /\ LET bytes == Repaired(current.bytes) IN
        /\ current' = [current EXCEPT !.bytes = bytes]
        /\ IF writer[w].record = 0 THEN Return(w, TRUE)
           ELSE /\ writer' = [writer EXCEPT ![w].step = "whole", ![w].length = Len(bytes)]
                /\ UNCHANGED lock
    /\ UNCHANGED <<backup, records, files, cursor, page, journalGhosts>>

Fits(w) == writer[w].length + 2 <= FileCapacity

Rotate(w) ==
    /\ AtStep(w, "whole") /\ ~Fits(w)
    /\ current # Nothing
    /\ backup' = current /\ current' = Nothing
    /\ Go(w, "renamed")
    /\ UNCHANGED <<lock, records, files, cursor, page, journalGhosts>>

Renew(w) ==
    /\ AtStep(w, "renamed")
    /\ CreateCurrent
    /\ writer' = [writer EXCEPT ![w].step = "fresh", ![w].file = current'.file, ![w].length = 0]
    /\ UNCHANGED <<lock, backup, records, cursor, page, journalGhosts>>

\* A descriptor follows its file through a rename.
Change(generation, file, Op(_)) ==
    IF generation # Nothing /\ generation.file = file
    THEN [generation EXCEPT !.bytes = Op(@)] ELSE generation

Append1(w, i) ==
    LET op(bytes) == Append(bytes, Part(writer[w].record, i)) IN
    /\ current' = Change(current, writer[w].file, op)
    /\ backup' = Change(backup, writer[w].file, op)

WriteFirst(w) ==
    /\ (AtStep(w, "whole") /\ Fits(w)) \/ AtStep(w, "fresh")
    /\ Append1(w, 1)
    /\ Go(w, "partly")
    /\ UNCHANGED <<lock, records, files, cursor, page, journalGhosts>>

WriteRest(w) ==
    /\ AtStep(w, "partly")
    /\ Append1(w, 2)
    /\ history' = Append(history, writer[w].record)
    /\ Go(w, "written")
    /\ UNCHANGED <<lock, records, files, cursor, page, acked, seen>>

\* Data and directory are synchronized.
Succeed(w) ==
    /\ AtStep(w, "written")
    /\ acked' = acked \cup {writer[w].record}
    /\ Return(w, TRUE)
    /\ UNCHANGED <<current, backup, records, files, cursor, page, history, seen>>

\* An error before anything was appended is returned at once.
GiveUp(w) ==
    /\ writer[w].step \in {"locked", "open", "whole", "renamed", "fresh"}
    /\ Return(w, FALSE)
    /\ UNCHANGED <<current, backup, records, files, cursor, page, journalGhosts>>

\* An error later has the file cut back to what it was, if that works.
RollBack(w) ==
    /\ writer[w].step \in {"partly", "written"}
    /\ LET op(bytes) == SubSeq(bytes, 1, Min({writer[w].length, Len(bytes)})) IN
        \/ /\ current' = Change(current, writer[w].file, op)
           /\ backup' = Change(backup, writer[w].file, op)
           /\ history' = IF AtStep(w, "written") THEN SubSeq(history, 1, Len(history) - 1)
                         ELSE history
        \/ UNCHANGED <<current, backup, history>>
    /\ Return(w, FALSE)
    /\ UNCHANGED <<records, files, cursor, page, acked, seen>>

\* The process dies, or ends; the lock goes with it.
Exit(w) ==
    /\ ~AtStep(w, "absent")
    /\ lock' = IF lock = w THEN Nothing ELSE lock
    /\ writer' = [writer EXCEPT ![w] = Absent]
    /\ UNCHANGED <<current, backup, records, files, cursor, page, journalGhosts>>

-----------------------------------------------------------------------------
(* Reading: read_inner.                                                    *)

\* The backup comes before the current generation.
Generations ==
    (IF backup = Nothing THEN <<>> ELSE <<backup>>) \o (IF current = Nothing THEN <<>> ELSE <<current>>)

Prefix(generation, offset) == SubSeq(generation.bytes, 1, offset)

\* Wrong on purpose: what was consumed is not compared.
MatchesByIdentity(position, generation) ==
    /\ position.inode = generation.inode
    /\ position.offset <= Len(generation.bytes)
    /\ \/ position.offset = 0 \/ EndsLine(generation.bytes[position.offset])
       \/ generation # current /\ position.offset = Len(generation.bytes)

\* Cursor::matches; the consumed parts stand for their hash.
Matches(position, generation) ==
    /\ position.inode = generation.inode
    /\ position.offset <= Len(generation.bytes)
    /\ \/ position.offset = 0 \/ EndsLine(generation.bytes[position.offset])
       \/ generation # current /\ position.offset = Len(generation.bytes)
    /\ position.hash = Prefix(generation, position.offset)

\* One round of the loop of read_inner, at offset p.offset of generation p.index.
Advanced(p, limit) ==
    LET generation == Generations[p.index]
        rest == SubSeq(generation.bytes, p.offset + 1, Len(generation.bytes))
        ends == {i \in DOMAIN rest : EndsLine(rest[i])}
        line == SubSeq(rest, 1, Min(ends))
    IN  IF rest = <<>> /\ p.index < Len(Generations)
        THEN [p EXCEPT !.index = @ + 1, !.offset = 0]
        ELSE IF Len(p.records) = limit THEN p
        ELSE IF ends = {}
        THEN IF rest = <<>> \/ generation = current THEN p
             ELSE [p EXCEPT !.rejected = @ + 1, !.offset = Len(generation.bytes)]
        ELSE IF Len(line) = 2 /\ line[1] = Part(line[2].record, 1)
        THEN [p EXCEPT !.records = Append(@, line[1].record), !.offset = @ + Len(line)]
        ELSE [p EXCEPT !.rejected = @ + 1, !.offset = @ + Len(line)]

\* The complete lines from a position to the end.
LinesFrom(index, offset) ==
    LET tail == IF index < Len(Generations) THEN Lines(Generations[index + 1].bytes) ELSE 0
        bytes == Generations[index].bytes
    IN  tail + Lines(SubSeq(bytes, offset + 1, Len(bytes)))

\* The shared lock excludes writers; a page is made of one snapshot.
Read(limit) ==
    /\ lock = Nothing /\ Generations # <<>>
    /\ LET found == IF cursor = Nothing THEN {}
                    ELSE {i \in DOMAIN Generations : Matches(cursor, Generations[i])}
           start == IF found = {} THEN [index |-> 1, offset |-> 0]
                    ELSE [index |-> Min(found), offset |-> cursor.offset]
           rounds == 2 * FileCapacity + 2
           walk[n \in 0 .. rounds] ==
               IF n = 0 THEN [index |-> start.index, offset |-> start.offset,
                              records |-> <<>>, rejected |-> 0]
               ELSE Advanced(walk[n - 1], limit)
           end == walk[rounds]
           last == Generations[end.index]
           from == IF found = {} THEN Len(history) - LinesFrom(1, 0) ELSE seen
           to == Len(history) - LinesFrom(end.index, end.offset)
       IN  /\ page' = [records |-> end.records, rejected |-> end.rejected,
                       gap |-> cursor # Nothing /\ found = {},
                       reused |-> found # {} /\ cursor.offset = 0
                                  /\ cursor.file # Generations[start.index].file,
                       from |-> from, to |-> to]
           /\ cursor' = IF cursor # Nothing \/ end.index # 1 \/ end.offset # 0 \/ last.bytes # <<>>
                        THEN [inode |-> last.inode, file |-> last.file,
                              offset |-> end.offset, hash |-> Prefix(last, end.offset)]
                        ELSE Nothing
           /\ seen' = to
    /\ UNCHANGED <<lock, current, backup, writer, records, files, history, acked>>

-----------------------------------------------------------------------------
JournalInit ==
    /\ lock = Nothing
    /\ current = Nothing /\ backup = Nothing
    /\ writer = [w \in Writers |-> Absent]
    /\ records = 0 /\ files = 0
    /\ cursor = Nothing /\ page = Nothing
    /\ history = <<>> /\ acked = {} /\ seen = 0

Write(w) ==
    \/ Lock(w) \/ OpenCurrent(w) \/ RepairTail(w) \/ Rotate(w) \/ Renew(w)
    \/ WriteFirst(w) \/ WriteRest(w) \/ Succeed(w)

JournalNext ==
    \/ \E w \in Writers : Write(w) \/ GiveUp(w) \/ RollBack(w) \/ Exit(w)
    \/ \E limit \in Limits : Read(limit)

JournalSpec == JournalInit /\ [][JournalNext]_journalVars

-----------------------------------------------------------------------------
JournalTypeOK ==
    /\ lock \in Writers \cup {Nothing}
    /\ \A generation \in {current, backup} \ {Nothing} :
        generation.inode \in Inodes /\ Len(generation.bytes) <= FileCapacity
    /\ backup # Nothing => backup.bytes = Repaired(backup.bytes)
    /\ records \in 0 .. MaxRecords /\ seen <= Len(history)

\* A record whose write succeeded is in the journal, and leaves it only with the backup
\* that a rotation replaces: no failure, death or second writer takes it away.
AcknowledgedStands ==
    [][/\ acked' \ acked \subseteq Whole(current')
       /\ \A r \in acked : r \in Whole(current) \cup Whole(backup) =>
            \/ r \in Whole(current') \cup Whole(backup')
            \/ r \in Whole(backup) /\ current # Nothing /\ backup'.file = current.file]_journalVars

\* A page continues where the one before ended, or announces a gap and begins with the
\* oldest record there is; in between it leaves out and repeats nothing, and finds no line
\* that is none. A cursor that has consumed nothing of its file stands for any file of the
\* same number: "exact restoration" (storage.md) is all the code can see of it.
PagesAreContinuous ==
    page # Nothing =>
        /\ page.rejected = 0
        /\ page.reused \/ page.records = SubSeq(history, page.from + 1, page.to)
=============================================================================
