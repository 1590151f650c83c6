------------------------------ MODULE GameLog ------------------------------
(***************************************************************************)
(* The game log: a VRChat client writes a log file, the watcher tails it   *)
(* from a persisted offset, the scanner and the session tracker turn its   *)
(* lines into events of a session, and the feed writer stores them in      *)
(* batches.  (game-logs/{tail,watcher,sessions,parser}.ts,                 *)
(* wiring/{log-bridge,feed-writer}.ts and the SQL of store/queries.ts.)    *)
(*                                                                         *)
(* One path.  A line is two units on disk, so that a read can end in the   *)
(* middle of it.  Its text is its kind and, in "says", the second it was   *)
(* written in and the fields by which the store tells events apart: two    *)
(* lines may have one text.  "run" numbers what the client has put at the  *)
(* path since it was first seen: a rotation is a new run under a new key,  *)
(* a truncation a new run under the same key.  Time is two flags: "stale"  *)
(* (the file was last seen to grow staleAfterMs ago) and "old" (it was     *)
(* last written that long ago).                                            *)
(***************************************************************************)
EXTENDS Naturals, Sequences, FiniteSets, Functions

CONSTANTS
  Scripts,      \* what every run of the client may write: sequences of texts
  MaxStarts,    \* starts of the daemon
  MaxBuffered,  \* maxBufferedEvents of a session tracker
  Chunk,        \* maxChunkBytes of one read, in units
  HeadSize      \* ATTRIBUTION_HEAD_BYTES, in units

Kinds == {"event", "auth", "env", "quit"}
Texts == [kind : Kinds, says : Nat]

ASSUME GameLogAssumption ==
  /\ {MaxStarts, MaxBuffered, Chunk} \subseteq Nat \ {0}
  /\ HeadSize \in Nat
  /\ Scripts \in Seq(SUBSET Seq(Texts))

VARIABLES
  disk,     \* the file: its run and key, the texts of its lines, is the last one half
            \* written, and what the client has still to write
  old,      \* the file was last written more than staleAfterMs ago
  stored,   \* log_offsets: the byte offset of every key, and of which run (0: no row)
  exits,    \* sessions: exit_kind of every row, "open" while ended_at is null
  db,       \* events: the rows written
  status,   \* the daemon: "down", "up" or "stopping"
  starts,   \* how often it has started
  file,     \* WatchedFile with its FileTail, LogScanner and SessionTracker
  hand,     \* the result of a read that poll() has still to work through
  bus,      \* the events the sink has emitted since the start, in order
  flushed,  \* how many of them the feed writer has taken from its queue
  excuse    \* history: why a line under the stored offset may be missing

daemonVars == <<file, hand, bus, flushed>>
storeVars == <<stored, exits, db>>
vars == <<disk, old, stored, exits, db, status, starts, file, hand, bus, flushed, excuse>>

MaxRuns == Len(Scripts)
Keys == 1 .. MaxRuns

\* A row of sessions is identified by (log_path, started_at): the birth time of
\* the file (its key), or the time a truncation was noticed (key and run).
Rows == Keys \X (0 .. MaxRuns)

\* Why the record of a line may be wrong: the daemon went with something in hand,
\* a batch could not be written, a file was resumed that is not the one the offset
\* belongs to, the offset of the bytes before a truncation stayed in the store when
\* the file was adopted from its top, a truncation was read in the middle of a line,
\* a rotation was read through the tail of the old file before a scan has seen it, or
\* a session began behind the authentication line and the head did not give it.
Excuses == {"held", "failed", "overgrown", "pinned", "cut", "swapped", "headless"}
NoLine == [run |-> 0, line |-> 0, text |-> [kind |-> "none", says |-> 0], whole |-> FALSE]
NoTracker == [row |-> <<0, 0>>, authenticated |-> FALSE, buffered |-> <<>>, exit |-> "none"]
NoFile == [key |-> 0, run |-> 0, offset |-> 0, carry |-> NoLine, block |-> NoLine,
           tracker |-> NoTracker, row |-> <<0, 0>>, stale |-> FALSE,
           primed |-> FALSE, finished |-> FALSE]
NoHand == [lines |-> <<>>, read |-> FALSE, truncated |-> FALSE,
           resumed |-> FALSE, grew |-> FALSE]

Size == IF disk.half THEN 2 * Len(disk.lines) - 1 ELSE 2 * Len(disk.lines)
LineOnDisk(i) == [run |-> disk.run, line |-> i, text |-> disk.lines[i], whole |-> TRUE]
Least(a, b) == IF a < b THEN a ELSE b
Most(a, b) == IF a < b THEN b ELSE a

Init ==
  /\ disk = [run |-> 0, key |-> 0, lines |-> <<>>, half |-> FALSE, script |-> <<>>]
  /\ old = FALSE
  /\ stored = [k \in Keys |-> [run |-> 0, pos |-> 0]]
  /\ exits = [r \in Rows |-> "none"]
  /\ db = {}
  /\ status = "down"
  /\ starts = 0
  /\ file = NoFile
  /\ hand = NoHand
  /\ bus = <<>>
  /\ flushed = 0
  /\ excuse = {}

-----------------------------------------------------------------------------
(* SessionTracker and LogScanner, as functions of their state.             *)

Live(t) == t.exit = "live"

\* A record s holds a tracker, the open block of its scanner and the events
\* that have reached the sink.
Stamp(t, l) ==
  [run |-> l.run, line |-> l.line, text |-> l.text, row |-> t.row, account |-> t.authenticated]

FlushBuffer(s) ==
  [s EXCEPT !.out = @ \o [n \in DOMAIN s.tracker.buffered |-> Stamp(s.tracker, s.tracker.buffered[n])],
            !.tracker.buffered = <<>>]

Emit(s, l) ==
  IF s.tracker.authenticated
  THEN [s EXCEPT !.out = Append(@, Stamp(s.tracker, l))]
  ELSE LET held == [s EXCEPT !.tracker.buffered = Append(@, l)]
       IN IF Len(held.tracker.buffered) >= MaxBuffered THEN FlushBuffer(held) ELSE held

EndSession(s, kind) ==
  IF Live(s.tracker) THEN [FlushBuffer(s) EXCEPT !.tracker.exit = kind] ELSE s

Authenticate(s) == FlushBuffer([s EXCEPT !.tracker.authenticated = TRUE])

\* Mutant: the authentication line leaves before the events held in front of it.
IngestEventFirst(s, l) ==
  IF ~Live(s.tracker) THEN s
  ELSE CASE l.text.kind = "auth" ->
              FlushBuffer([s EXCEPT !.tracker.authenticated = TRUE,
                                    !.out = Append(@, Stamp([s.tracker EXCEPT !.authenticated = TRUE], l))])
         [] l.text.kind = "quit" -> EndSession(Emit(s, l), "clean")
         [] OTHER           -> Emit(s, l)

IngestEvent(s, l) ==
  IF ~Live(s.tracker) THEN s
  ELSE CASE l.text.kind = "auth" -> Emit(Authenticate(s), l)
         [] l.text.kind = "quit" -> EndSession(Emit(s, l), "clean")
         [] OTHER           -> Emit(s, l)

\* Mutant: the header line that closes a block drops it.
CloseBlockSilently(s) == [s EXCEPT !.block = NoLine]

\* A header line closes the open block; the rest of a line whose beginning was
\* read by another process has no header and is a continuation of nothing.
CloseBlock(s) == IF s.block = NoLine THEN s ELSE [IngestEvent(s, s.block) EXCEPT !.block = NoLine]

PushLine(s, l) ==
  IF ~Live(s.tracker) \/ ~l.whole THEN s
  ELSE IF l.text.kind = "env" THEN [CloseBlock(s) EXCEPT !.block = l]
  ELSE IngestEvent(CloseBlock(s), l)

ScanState(f) == [tracker |-> f.tracker, block |-> f.block, out |-> <<>>]

\* finish(): the held half line counts as a line, the open block as complete.
Finish(f, kind) ==
  LET pending == IF f.carry = NoLine THEN ScanState(f) ELSE PushLine(ScanState(f), f.carry)
  IN EndSession(IF Live(pending.tracker) THEN CloseBlock(pending) ELSE pending, kind)

Finished(f, s) ==
  [f EXCEPT !.tracker = s.tracker, !.block = s.block, !.carry = NoLine, !.finished = TRUE]

\* wake(): a tracker and, in the store, a row that is open (again).
Wake(f) == [f EXCEPT !.tracker =
  [row |-> f.row, authenticated |-> FALSE, buffered |-> <<>>, exit |-> "live"]]

\* attributeFromHead(): the authentication line, if the head of the file can be read
\* and has it by now.  It is not tried again.
AuthInHead ==
  \E i \in DOMAIN disk.lines : disk.lines[i].kind = "auth" /\ 2 * i <= Least(Size, HeadSize)
AttributeFromHead(f, readable) ==
  IF readable /\ AuthInHead THEN [f EXCEPT !.tracker.authenticated = TRUE] ELSE f

\* A session for which the first n lines, or their beginnings, are past has missed
\* the authentication line for good.
Headless(n, readable) ==
  /\ ~(readable /\ AuthInHead)
  /\ \E j \in DOMAIN disk.lines : j <= n /\ disk.lines[j].kind = "auth"

-----------------------------------------------------------------------------
(* The client and the file system.                                         *)

\* The client starts: the first file at the path, a new file (rotation) or the
\* same one emptied (truncation).
ClientStarts(rewrite) ==
  /\ disk.run < MaxRuns
  /\ rewrite => disk.run > 0
  /\ \E script \in Scripts[disk.run + 1] :
       disk' = [run |-> disk.run + 1,
                key |-> IF rewrite THEN disk.key ELSE disk.run + 1,
                lines |-> <<>>, half |-> FALSE, script |-> script]
  /\ old' = FALSE
  /\ UNCHANGED <<storeVars, status, starts, daemonVars, excuse>>

ClientWritesHalf ==
  /\ ~disk.half
  /\ disk.script # <<>>
  /\ disk' = [disk EXCEPT !.lines = Append(@, Head(disk.script)), !.half = TRUE,
                          !.script = Tail(@)]
  /\ old' = FALSE
  /\ UNCHANGED <<storeVars, status, starts, daemonVars, excuse>>

ClientEndsLine ==
  /\ disk.half
  /\ disk' = [disk EXCEPT !.half = FALSE]
  /\ old' = FALSE
  /\ UNCHANGED <<storeVars, status, starts, daemonVars, excuse>>

Watching == file # NoFile /\ ~file.finished

\* staleAfterMs passes.  While the daemon is up it has polled the file many
\* times by then, so it has read what was written before.
TimePasses ==
  /\ disk.run > 0
  /\ ~old
  /\ hand = NoHand
  /\ status = "up" /\ Watching => file.offset = Size /\ file.key = disk.key
  /\ old' = TRUE
  /\ file' = IF file = NoFile THEN file ELSE [file EXCEPT !.stale = TRUE]
  /\ UNCHANGED <<disk, storeVars, status, starts, hand, bus, flushed, excuse>>
-----------------------------------------------------------------------------
(* The daemon.                                                             *)

\* Mutant: the store leaves the open rows of another process alone.
DaemonStartsAmongGhosts ==
  /\ status = "down"
  /\ starts < MaxStarts
  /\ status' = "up"
  /\ starts' = starts + 1
  /\ UNCHANGED <<disk, old, storeVars, daemonVars, excuse>>

\* The store's constructor closes the rows another process has left open.
DaemonStarts ==
  /\ status = "down"
  /\ starts < MaxStarts
  /\ status' = "up"
  /\ starts' = starts + 1
  /\ exits' = [r \in Rows |-> IF exits[r] = "open" THEN "unknown" ELSE exits[r]]
  /\ UNCHANGED <<disk, old, stored, db, daemonVars, excuse>>

\* adopt(): the file resumes at its stored offset, unless that is past its end;
\* it is dormant if there is nothing left to read.
Adopted(readable) ==
  LET resumable == stored[disk.key].run > 0 /\ stored[disk.key].pos <= Size
      start == IF resumable THEN stored[disk.key].pos ELSE 0
      fresh == [NoFile EXCEPT !.key = disk.key, !.run = disk.run, !.offset = start,
                              !.row = <<disk.key, 0>>, !.stale = old]
  IN IF resumable /\ start >= Size THEN fresh
     ELSE IF start > 0 THEN AttributeFromHead(Wake(fresh), readable) ELSE Wake(fresh)

\* A file is resumed although it is not the one the offset was stored for.
Overgrown(run, pos) == run # disk.run /\ pos > 0 /\ pos <= Size

Opened(f) == IF f.tracker = NoTracker THEN {} ELSE {f.tracker.row}

\* The rows of the store once the watcher has the file f.
ExitsWith(f) ==
  [r \in Rows |-> IF r \notin Opened(f) THEN exits[r]
                 ELSE IF Live(f.tracker) THEN "open" ELSE f.tracker.exit]

\* Mutant: a path that is watched is never looked at again.
ScanOnce ==
  /\ file = NoFile
  /\ status = "up" /\ hand = NoHand
  /\ disk.run > 0
  /\ LET ends == file # NoFile /\ ~file.finished /\ file.tracker # NoTracker
         s == Finish(file, "crash")
     IN \E readable \in BOOLEAN : \E f \in {Adopted(readable)} :
        /\ bus' = IF ends THEN bus \o s.out ELSE bus
        /\ exits' = IF ends THEN [ExitsWith(f) EXCEPT ![file.tracker.row] = s.tracker.exit]
                    ELSE ExitsWith(f)
        /\ file' = f
        /\ excuse' = excuse
             \cup (IF Overgrown(stored[disk.key].run, stored[disk.key].pos) THEN {"overgrown"} ELSE {})
             \cup (IF f.tracker # NoTracker /\ Headless((f.offset + 1) \div 2, readable) THEN {"headless"} ELSE {})
  /\ UNCHANGED <<disk, old, stored, db, status, starts, hand, flushed>>

\* scan(): a new path is adopted; a path whose key has changed ends its session first.
Scan ==
  /\ status = "up" /\ hand = NoHand
  /\ disk.run > 0
  /\ file = NoFile \/ file.key # disk.key
  /\ LET ends == file # NoFile /\ ~file.finished /\ file.tracker # NoTracker
         s == Finish(file, "crash")
     IN \E readable \in BOOLEAN : \E f \in {Adopted(readable)} :
        /\ bus' = IF ends THEN bus \o s.out ELSE bus
        /\ exits' = IF ends THEN [ExitsWith(f) EXCEPT ![file.tracker.row] = s.tracker.exit]
                    ELSE ExitsWith(f)
        /\ file' = f
        /\ excuse' = excuse
             \cup (IF Overgrown(stored[disk.key].run, stored[disk.key].pos) THEN {"overgrown"} ELSE {})
             \cup (IF f.tracker # NoTracker /\ Headless((f.offset + 1) \div 2, readable) THEN {"headless"} ELSE {})
  /\ UNCHANGED <<disk, old, stored, db, status, starts, hand, flushed>>

\* FileTail.read(): stat, reset if the file is shorter than the offset, one chunk, split.
ReadTail ==
  /\ status = "up" /\ hand = NoHand
  /\ Watching
  /\ LET truncated == Size < file.offset
         from == IF truncated THEN 0 ELSE file.offset
         to == from + Least(Size - from, Chunk)
         carry == IF truncated THEN NoLine ELSE file.carry
         split == {i \in DOMAIN disk.lines : from < 2 * i /\ 2 * i <= to}
         whole(i) == 2 * i - 1 > from \/ (carry # NoLine /\ carry.run = disk.run)
     IN /\ hand' = [lines |-> [n \in 1 .. Cardinality(split) |->
                       LET i == (from \div 2) + n
                       IN [LineOnDisk(i) EXCEPT !.whole = whole(i)]],
                    read |-> TRUE, truncated |-> truncated,
                    resumed |-> file.offset > 0, grew |-> to > from]
        /\ file' = [file EXCEPT !.offset = to,
             !.carry = IF to = from THEN carry
                       ELSE IF to % 2 = 1 THEN LineOnDisk((to + 1) \div 2) ELSE NoLine,
             !.run = disk.run]
        /\ excuse' = excuse
             \cup (IF file.key # disk.key THEN {"swapped"} ELSE {})
             \cup (IF ~truncated /\ Overgrown(file.run, file.offset) THEN {"overgrown"} ELSE {})
  /\ UNCHANGED <<disk, old, storeVars, status, starts, bus, flushed>>

\* A truncation seen by the read: the old session ends, with what the tail holds,
\* which by now is the half line the same read has ended in.
Truncated(f) ==
  [f EXCEPT !.tracker = NoTracker, !.block = NoLine, !.row = <<f.key, f.run>>,
            !.carry = IF f.tracker = NoTracker THEN @ ELSE NoLine,
            !.finished = FALSE, !.primed = FALSE]

\* Mutant: a session that begins in the middle of the file is not attributed.
WokenUnattributed(f, readable) ==
  IF hand.lines = <<>> \/ f.tracker # NoTracker THEN f ELSE Wake(f)

\* A file without a session gets one with its first lines.
Woken(f, readable) ==
  IF hand.lines = <<>> \/ f.tracker # NoTracker THEN f
  ELSE IF hand.resumed /\ ~hand.truncated THEN AttributeFromHead(Wake(f), readable) ELSE Wake(f)

\* The lines go through the scanner to the tracker until a quit marker ends it.
IngestLines(f) ==
  IF f.tracker = NoTracker THEN ScanState(f)
  ELSE LET after[n \in 0 .. Len(hand.lines)] ==
             IF n = 0 THEN ScanState(f) ELSE PushLine(after[n - 1], hand.lines[n])
       IN after[Len(hand.lines)]

\* reapStale(): the session of a file that has been quiet for too long is over, and
\* the file is not read again.
Reaped(f) ==
  IF f.stale /\ Live(f.tracker) /\ ~f.finished
  THEN LET s == Finish(f, "crash") IN [file |-> Finished(f, s), out |-> s.out]
  ELSE [file |-> f, out |-> <<>>]

\* The rest of poll() and of tick(): a truncation, the session, the lines, the
\* offset, the clock of the file, and reapStale().
IngestRead ==
  /\ hand.read
  /\ LET ends == hand.truncated /\ file.tracker # NoTracker
         last == Finish(file, "crash")
     IN \E readable \in BOOLEAN :
        \E woken \in {Woken(IF hand.truncated THEN Truncated(file) ELSE file, readable)} :
        \E s \in {IngestLines(woken)} :
        \E reaped \in {Reaped([woken EXCEPT
              !.tracker = s.tracker, !.block = s.block,
              !.finished = (s.tracker.exit = "clean"),
              !.stale = (@ /\ ~(hand.grew /\ woken.primed)), !.primed = TRUE])} :
        \E out \in {(IF ends THEN last.out ELSE <<>>) \o s.out \o reaped.out} :
          /\ file' = reaped.file
          /\ bus' = bus \o out
          /\ exits' = IF ends THEN [ExitsWith(reaped.file) EXCEPT ![file.tracker.row] = last.tracker.exit]
                      ELSE ExitsWith(reaped.file)
          /\ stored' = [stored EXCEPT ![file.key] =
               [run |-> file.run,
                pos |-> IF hand.truncated THEN file.offset ELSE Most(@.pos, file.offset)]]
          /\ excuse' = excuse \cup (IF ends /\ file.carry # NoLine THEN {"cut"} ELSE {})
               \cup (IF ~hand.truncated /\ stored[file.key].pos > file.offset THEN {"pinned"} ELSE {})
               \cup (IF status = "stopping" /\ out # <<>> THEN {"held"} ELSE {})
               \cup (IF hand.lines # <<>> /\ file.tracker = NoTracker
                        /\ Headless(hand.lines[1].line - (IF hand.lines[1].whole THEN 1 ELSE 0), readable)
                    THEN {"headless"} ELSE {})
  /\ hand' = NoHand
  /\ UNCHANGED <<disk, old, db, status, starts, flushed>>

\* A tick without a read: the file is not due, or it cannot be read, which poll()
\* counts as its first read all the same.
TickWithoutRead ==
  /\ status = "up" /\ hand = NoHand
  /\ Watching
  /\ \E missing \in BOOLEAN :
       LET reaped == Reaped([file EXCEPT !.primed = @ \/ missing])
       IN /\ file' = reaped.file
          /\ bus' = bus \o reaped.out
          /\ exits' = ExitsWith(reaped.file)
  /\ UNCHANGED <<disk, old, stored, db, status, starts, hand, flushed, excuse>>

-----------------------------------------------------------------------------
(* The feed writer, and the end of the daemon.                             *)

Queue == SubSeq(bus, flushed + 1, Len(bus))

\* INSERT OR IGNORE under ux_events_gamelog_dedupe: of the rows of one session that
\* say the same in the same second only the first is kept, whether the next one is a
\* replay of its line or another line.
Says(e) == <<e.text, e.row>>
Recorded(rows) ==
  db \cup {rows[n] : n \in {n \in DOMAIN rows :
              /\ \A d \in db : Says(d) # Says(rows[n])
              /\ \A m \in 1 .. n - 1 : Says(rows[m]) # Says(rows[n])}}

Flush ==
  /\ status = "up"
  /\ Queue # <<>>
  /\ db' = Recorded(Queue)
  /\ flushed' = Len(bus)
  /\ UNCHANGED <<disk, old, stored, exits, status, starts, file, hand, bus, excuse>>

\* The insert throws: the batch is reported and dropped.
FlushFails ==
  /\ status = "up"
  /\ Queue # <<>>
  /\ flushed' = Len(bus)
  /\ excuse' = excuse \cup {"failed"}
  /\ UNCHANGED <<disk, old, storeVars, status, starts, file, hand, bus>>

\* What the daemon has in hand when it goes and no restart reads again.
Held ==
  /\ Watching
  /\ stored[file.key].pos % 2 = 1 \/ file.block # NoLine \/ file.tracker.buffered # <<>>

Gone(lost) ==
  /\ status' = "down"
  /\ file' = NoFile /\ hand' = NoHand
  /\ bus' = <<>> /\ flushed' = 0
  /\ excuse' = IF lost THEN excuse \cup {"held"} ELSE excuse
  /\ UNCHANGED <<disk, old, stored, exits, starts>>

\* stop(): the watcher leaves its sessions open and the feed writer is detached
\* with a last flush.  A tick under way is not waited for: it goes on.
DaemonStops ==
  /\ status = "up"
  /\ db' = Recorded(Queue)
  /\ \/ /\ ~hand.read
        /\ Gone(Held)
     \/ /\ hand.read
        /\ status' = "stopping"
        /\ flushed' = Len(bus)
        /\ UNCHANGED <<disk, old, stored, exits, starts, file, hand, bus, excuse>>

DaemonExits == status = "stopping" /\ Gone(Held) /\ UNCHANGED db
DaemonKilled == status = "up" /\ Gone(Held \/ Queue # <<>>) /\ UNCHANGED db

Next ==
  \/ \E rewrite \in BOOLEAN : ClientStarts(rewrite)
  \/ ClientWritesHalf \/ ClientEndsLine
  \/ TimePasses
  \/ DaemonStarts \/ Scan \/ ReadTail \/ IngestRead \/ TickWithoutRead
  \/ Flush \/ FlushFails \/ DaemonStops \/ DaemonExits \/ DaemonKilled

\* The poll loop re-arms its timer after every tick, the feed writer its own with
\* every event; a file that can be read again and again at last is.
Fairness ==
  /\ SF_vars(Scan) /\ SF_vars(ReadTail) /\ WF_vars(IngestRead)
  /\ WF_vars(Flush)
  /\ WF_vars(DaemonStarts) /\ WF_vars(DaemonExits)

Spec == Init /\ [][Next]_vars
FairSpec == Spec /\ Fairness
-----------------------------------------------------------------------------
(* Properties.                                                             *)

\* The events the store has, or will have with the next flush.
Saved == db \cup Range(Queue)

InHand(run, i) ==
  \/ \E n \in DOMAIN file.tracker.buffered :
       file.tracker.buffered[n].run = run /\ file.tracker.buffered[n].line = i
  \/ file.block.run = run /\ file.block.line = i

AfterQuit(i) == \E j \in DOMAIN disk.lines : j < i /\ disk.lines[j].kind = "quit"

\* The variables hold what the code keeps in them.
TypeOK ==
  /\ disk.run \in 0 .. MaxRuns /\ disk.key \in 0 .. MaxRuns
  /\ disk.lines # <<>> => disk.lines \o disk.script \in Scripts[disk.run]
  /\ {old, file.stale, file.primed, file.finished, hand.read} \subseteq BOOLEAN
  /\ \A k \in Keys : stored[k].pos \in Nat /\ stored[k].run \in 0 .. disk.run
  /\ exits \in [Rows -> {"none", "open", "clean", "crash", "unknown"}]
  /\ status \in {"down", "up", "stopping"} /\ starts \in 0 .. MaxStarts
  /\ file.offset \in Nat /\ file.run \in 0 .. disk.run /\ flushed \in 0 .. Len(bus)
  /\ Len(file.tracker.buffered) < MaxBuffered
  /\ excuse \subseteq Excuses

\* A line under the stored offset is never read again, so what it says has to be
\* stored, queued for the store, or held by the tracker or the scanner: whatever way
\* reads, restarts, rotations and the reaper interleave.  The only ways to lose
\* it are the first four excuses.  Of lines that say the same in one second the
\* store keeps one (007_log_offsets.sql:91), and that row is counted for each.
NothingSkipped ==
  (excuse \subseteq {"cut", "swapped", "headless"} /\ status = "up" /\ disk.run > 0
     /\ stored[disk.key].run = disk.run) =>
    \A i \in 1 .. (stored[disk.key].pos \div 2) :
      \/ \E e \in Saved : e.text = disk.lines[i]
      \/ InHand(disk.run, i)
      \/ AfterQuit(i)

\* The rows that are open in the store are exactly the session the watcher
\* follows: no ghost survives a restart, a rotation, a truncation or the reaper.
\* (With the type invariant.)
OpenRowsAreFollowed ==
  /\ TypeOK
  /\ status = "up" =>
    {r \in Rows : exits[r] = "open"} = IF Live(file.tracker) THEN {file.tracker.row} ELSE {}

\* Within one life of the daemon the events leave in the order of the file, no
\* line twice: the buffer in front of the authentication line included.
Before(d, e) == d.run < e.run \/ (d.run = e.run /\ d.line < e.line)
InOrderOnce ==
  {"swapped", "cut"} \cap excuse = {} => \A m, n \in DOMAIN bus : m < n => Before(bus[m], bus[n])

\* An event behind the authentication line of its run carries the account, also
\* when the daemon has begun to read in the middle of the file; unless the head of
\* the file, which is then read once, fails to give the line ("headless").
KnownAccountIsStamped ==
  excuse = {} =>
    \A e \in Saved : (e.run = disk.run /\ \E i \in 1 .. e.line : disk.lines[i].kind = "auth") => e.account

\* A daemon that stays up reads the file to its end, unless its session is over.
ReadToTheEnd ==
  []<>(\/ disk.run = 0 \/ status = "down"
      \/ (file.key = disk.key /\ (file.offset = Size \/ file.finished)))
=============================================================================
