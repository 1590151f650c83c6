---------------------------- MODULE GameLogProofs ----------------------------
EXTENDS GameLog, FiniteSetTheorems, SequenceTheorems, WellFoundedInduction, TLAPS

(***************************************************************************)
(* The game log: for every set of scripts, every size of a read and of the *)
(* buffer and every number of starts.                                      *)
(***************************************************************************)

Lines == [run : Keys, line : Nat \ {0}, text : Texts, whole : BOOLEAN]
Blocks == {l \in Lines : l.text.kind = "env"} \cup {NoLine}
Trackers == [row : Rows, authenticated : BOOLEAN, buffered : Seq(Lines), exit : {"live", "clean", "crash"}]
Stamps == [run : Keys, line : Nat \ {0}, text : Texts, row : Rows, account : BOOLEAN]
Halves == {l \in Lines : l.whole} \cup {NoLine}
Files == [key : Keys, run : Keys, offset : Nat, carry : Halves, block : Blocks,
          tracker : Trackers \cup {NoTracker}, row : Rows, stale : BOOLEAN,
          primed : BOOLEAN, finished : BOOLEAN]
Hands == [lines : Seq(Lines), read : BOOLEAN, truncated : BOOLEAN, resumed : BOOLEAN, grew : BOOLEAN]

DiskFits ==
  /\ disk \in [run : 0 .. MaxRuns, key : 0 .. MaxRuns, lines : Seq(Texts), half : BOOLEAN, script : Seq(Texts)]
  /\ disk.run = 0 => disk.lines = <<>> /\ disk.script = <<>>
  /\ disk.run > 0 => disk.key > 0 /\ disk.lines \o disk.script \in Scripts[disk.run]
  /\ disk.key <= disk.run
  /\ disk.half => disk.lines # <<>>

StoreFits ==
  /\ stored \in [Keys -> [run : 0 .. MaxRuns, pos : Nat]]
  /\ \A k \in Keys : stored[k].run <= disk.run
  /\ exits \in [Rows -> {"none", "open", "clean", "crash", "unknown"}]
  /\ db \subseteq Stamps

Working(t) == t.exit = "live" /\ Len(t.buffered) < MaxBuffered /\ (t.authenticated => t.buffered = <<>>)
Over(t) == t.exit \in {"clean", "crash"} /\ t.buffered = <<>>

\* A file of the watcher, its session and the row of it.
Sound(f) ==
  /\ f \in Files
  /\ f.row[1] = f.key /\ f.row[2] <= f.run
  /\ f.tracker # NoTracker => f.tracker.row = f.row
  /\ IF f.finished THEN f.tracker # NoTracker /\ Over(f.tracker) /\ f.block = NoLine
     ELSE f.tracker # NoTracker => Working(f.tracker)
  /\ f.tracker = NoTracker => f.block = NoLine

DaemonFits ==
  /\ old \in BOOLEAN /\ status \in {"down", "up", "stopping"} /\ starts \in 0 .. MaxStarts
  /\ hand \in Hands /\ bus \in Seq(Stamps) /\ flushed \in 0 .. Len(bus) /\ excuse \subseteq Excuses
  /\ status = "down" => file = NoFile /\ hand = NoHand
  /\ file = NoFile => bus = <<>>
  /\ ~hand.read => hand = NoHand
  /\ hand.read => Watching
  /\ file # NoFile => /\ Sound(file) /\ file.run <= disk.run /\ file.key <= disk.key
                      /\ hand.truncated => file.row[2] < file.run
                      /\ file.run = disk.run => file.offset <= Size

OpenIsFollowed ==
  status # "down" =>
    \A r \in Rows : exits[r] = "open" <=> Live(file.tracker) /\ r = file.tracker.row

LogTyped == DiskFits /\ StoreFits /\ DaemonFits

\* The place of a line; what has left or waits in the buffer of a tracker; and with
\* the open block of its scanner.
Place(x) == <<x.run, x.line, x.text>>
Places(q) == [n \in 1 .. Len(q) |-> Place(q[n])]
Core(s) == Places(s.out) \o Places(s.tracker.buffered)
Contents(s) == IF s.block = NoLine THEN Core(s) ELSE Append(Core(s), Place(s.block))
Content(f) == Contents(ScanState(f))

\* How many lines of the file have gone through the tracker, and what has.
Through == (file.offset \div 2) - Len(hand.lines)
Passed(a) == a[1] < file.run \/ (a[1] = file.run /\ a[2] <= Through)

ReadFits ==
  file # NoFile =>
    /\ \A n \in DOMAIN hand.lines : hand.lines[n].run = file.run /\ hand.lines[n].line = Through + n
    /\ file.carry # NoLine /\ ~file.finished =>
         /\ file.offset % 2 = 1
         /\ \/ file.carry.run < file.run /\ hand.lines = <<>>
            \/ file.carry.run = file.run /\ file.carry.line = file.offset \div 2 + 1
    /\ Len(hand.lines) <= file.offset \div 2
    /\ hand.truncated => Through = 0

\* What has left since the start, and what the watcher still holds.
Story == Places(bus) \o Content(file)
Precedes(a, b) == a[1] < b[1] \/ (a[1] = b[1] /\ a[2] < b[2])
Ascending(p) == \A m, n \in 1 .. Len(p) : m < n => Precedes(p[m], p[n])

\* What has been taken from the file so far is behind what the watcher has still to take.
Following ==
  /\ file.run = disk.run => file.key = disk.key
  /\ \A a \in Range(Story) : a[1] <= file.run /\ (file.finished \/ Passed(a))
  /\ file.carry # NoLine /\ ~file.finished => \A a \in Range(Story) : Precedes(a, Place(file.carry))
Clean == {"swapped", "cut"} \cap excuse = {}
Ordered == Clean => Ascending(Story) /\ (file # NoFile => Following)

AuthUpTo(n) == \E i \in 1 .. n : i \in DOMAIN disk.lines /\ disk.lines[i].kind = "auth"
OfDisk(x) == x.run = disk.run => x.line \in DOMAIN disk.lines
\* An event that has left is of a line on disk, and carries the account if it is known by then.
Known(e) ==
  /\ e.run <= disk.run
  /\ e.run = disk.run => e.line \in DOMAIN disk.lines /\ (e.account \/ ~AuthUpTo(e.line))

\* A session without an account has not passed an authentication line, not even one
\* whose beginning another process has read.
Waiting ==
  /\ ~AuthUpTo(Through)
  /\ \A n \in DOMAIN hand.lines : ~hand.lines[n].whole => hand.lines[n].text.kind # "auth"
  /\ file.offset % 2 = 1 /\ file.carry = NoLine =>
        file.offset \div 2 + 1 \in DOMAIN disk.lines /\ disk.lines[file.offset \div 2 + 1].kind # "auth"

AllKnown == \A e \in db \cup Range(bus) : Known(e)
FileWaits ==
  file # NoFile /\ file.run = disk.run =>
    /\ ~file.finished /\ file.carry # NoLine => file.carry.run = file.run
    /\ Live(file.tracker) /\ ~file.tracker.authenticated /\ ~hand.truncated => Waiting
Attributed == excuse = {} => AllKnown /\ FileWaits

\* A read from the top of the file has seen all of its lines, and one that ends in the middle
\* of a line holds its beginning.
TopFits ==
  /\ hand.truncated \/ (hand.read /\ ~hand.resumed) =>
       Through = 0 /\ \A n \in DOMAIN hand.lines : hand.lines[n].whole
  /\ \A n \in DOMAIN hand.lines : n > 1 => hand.lines[n].whole
  /\ hand.lines # <<>> /\ file.offset % 2 = 1 => file.carry # NoLine

KindsFit ==
  file # NoFile /\ file.run = disk.run =>
     /\ \A n \in DOMAIN hand.lines : OfDisk(hand.lines[n]) /\ hand.lines[n].text = disk.lines[hand.lines[n].line]
     /\ file.carry # NoLine /\ ~file.finished /\ file.carry.run = disk.run => OfDisk(file.carry) /\ file.carry.text = disk.lines[file.carry.line]

\* The store has the offsets of the files the watcher has followed, and of the run it was in.
KeysFit ==
  /\ \A k \in Keys : k > disk.key => stored[k] = [run |-> 0, pos |-> 0]
  /\ file # NoFile => \A k \in Keys : k > file.key => stored[k] = [run |-> 0, pos |-> 0]
  /\ \A k \in Keys : stored[k].run = disk.run /\ disk.run > 0 /\ "pinned" \notin excuse => stored[k].pos <= Size
  /\ file # NoFile => stored[file.key].run <= file.run

\* A daemon that stops has flushed its queue.
Drained == status = "stopping" /\ "held" \notin excuse => flushed = Len(bus)

\* The places of what is stored, queued for the store or held.  A line of the file is
\* accounted for when its place is one of them, when the store has a row that says the
\* same, or when it is behind the end of the session.
Safe == {Place(e) : e \in db} \cup Range(Places(Queue)) \cup Range(Content(file))
Spot(i) == <<disk.run, i, disk.lines[i]>>
Accounted(i) ==
  \/ AfterQuit(i)
  \/ i \in DOMAIN disk.lines /\ (Spot(i) \in Safe \/ \E e \in db : e.text = disk.lines[i])

\* A line that poll() has still to work through, or the beginning of one that the tail holds.
InTail(i) ==
  \/ \E n \in DOMAIN hand.lines : hand.lines[n].whole /\ hand.lines[n].line = i
  \/ file.carry # NoLine /\ file.carry.run = disk.run /\ file.carry.line = i

Lossless == excuse \subseteq {"cut", "swapped", "headless"}
Resumed == disk.run > 0 /\ stored[disk.key].run = disk.run
\* The lines under the offset of the store, and the one it is in the middle of once the
\* session that has read its beginning is gone.
Kept ==
  Lossless /\ Resumed =>
    \A i \in Nat \ {0} :
      2 * i <= stored[disk.key].pos \/ (~Watching /\ 2 * i <= stored[disk.key].pos + 1) => Accounted(i)

\* The lines behind the tail, the one that a read has ended in included.
Reading ==
  Lossless /\ Watching /\ file.key = disk.key /\ file.run = disk.run =>
    /\ Resumed => ~hand.truncated /\ stored[disk.key].pos <= file.offset
    /\ \A i \in Nat \ {0} : 2 * i <= file.offset + 1 => Accounted(i) \/ InTail(i)
-----------------------------------------------------------------------------
(* Tools: numbers and sequences.                                           *)

LEMMA Counting ==
  ASSUME NEW n \in Nat, NEW S, 0 \in S, \A i \in 1 .. n : i - 1 \in S => i \in S
  PROVE  0 .. n \subseteq S
<1> DEFINE R == {ss \in Nat \X Nat : ss[1] < ss[2]}
           T == (0 .. n) \ S
<1> SUFFICES ASSUME T # {}
             PROVE  FALSE
  OBVIOUS
<1>1. IsWellFoundedOn(R, Nat) /\ T \subseteq Nat
  BY NatLessThanWellFounded DEF OpToRel
<1>2. PICK x \in T : \A y \in T : <<y, x>> \notin R
  BY <1>1, WFMin
<1>3. x \in 1 .. n /\ x - 1 \in 0 .. n /\ x \in Nat /\ x - 1 \in Nat /\ x - 1 < x
  BY <1>2
<1>4. x - 1 \in S
  <2>1. x - 1 \in T => <<x - 1, x>> \notin R
    BY <1>2
  <2>2. <<x - 1, x>> \in R
    BY <1>3
  <2>3. QED
    BY <1>3, <2>1, <2>2
<1>5. QED
  BY <1>2, <1>3, <1>4

LEMMA Bounds ==
  /\ MaxStarts \in Nat \ {0} /\ MaxBuffered \in Nat \ {0} /\ Chunk \in Nat \ {0}
  /\ MaxRuns \in Nat /\ Scripts \in Seq(SUBSET Seq(Texts))
BY GameLogAssumption DEF MaxRuns

Spots == Keys \X (Nat \ {0}) \X Texts
Located == Lines \cup Stamps

LEMMA PlaceIsSpot == \A x \in Located : Place(x) \in Spots
BY DEF Located, Lines, Stamps, Place, Spots

LEMMA PlacesOf ==
  ASSUME NEW q \in Seq(Located)
  PROVE  /\ Places(q) \in Seq(Spots) /\ Len(Places(q)) = Len(q)
         /\ \A n \in 1 .. Len(q) : Places(q)[n] = Place(q[n])
<1>1. \A n \in 1 .. Len(q) : q[n] \in Located
  OBVIOUS
<1>2. QED
  BY <1>1, PlaceIsSpot DEF Places

LEMMA PlacesOfNone == Places(<<>>) = <<>>
BY DEF Places

LEMMA PlacesOfConcat ==
  ASSUME NEW q \in Seq(Located), NEW r \in Seq(Located)
  PROVE  Places(q \o r) = Places(q) \o Places(r)
<1>1. /\ q \o r \in Seq(Located) /\ Len(q \o r) = Len(q) + Len(r) /\ Len(q) \in Nat /\ Len(r) \in Nat
      /\ \A n \in 1 .. Len(q) + Len(r) : (q \o r)[n] = IF n <= Len(q) THEN q[n] ELSE r[n - Len(q)]
  BY ConcatProperties, LenProperties
<1>2. /\ Places(q) \in Seq(Spots) /\ Len(Places(q)) = Len(q) /\ Places(r) \in Seq(Spots) /\ Len(Places(r)) = Len(r)
      /\ \A n \in 1 .. Len(q) : Places(q)[n] = Place(q[n])
      /\ \A n \in 1 .. Len(r) : Places(r)[n] = Place(r[n])
  BY PlacesOf
<1>3. /\ Places(q) \o Places(r) \in Seq(Spots) /\ Len(Places(q) \o Places(r)) = Len(q) + Len(r)
      /\ \A n \in 1 .. Len(q) + Len(r) : (Places(q) \o Places(r))[n] =
            IF n <= Len(q) THEN Places(q)[n] ELSE Places(r)[n - Len(q)]
  <2> DEFINE a == Places(q)
             b == Places(r)
  <2>1. a \in Seq(Spots) /\ b \in Seq(Spots) /\ Len(a) = Len(q) /\ Len(b) = Len(r)
    BY <1>2
  <2> HIDE DEF a, b
  <2>2. /\ a \o b \in Seq(Spots) /\ Len(a \o b) = Len(a) + Len(b)
        /\ \A n \in 1 .. Len(a) + Len(b) : (a \o b)[n] = IF n <= Len(a) THEN a[n] ELSE b[n - Len(a)]
    BY <2>1, ConcatProperties
  <2>3. /\ a \o b \in Seq(Spots) /\ Len(a \o b) = Len(q) + Len(r)
        /\ \A n \in 1 .. Len(q) + Len(r) : (a \o b)[n] = IF n <= Len(q) THEN a[n] ELSE b[n - Len(q)]
    BY <2>1, <2>2
  <2>4. QED
    BY <2>3 DEF a, b
<1>4. \A n \in 1 .. Len(q) + Len(r) : Place((q \o r)[n]) = (Places(q) \o Places(r))[n]
  <2> TAKE n \in 1 .. Len(q) + Len(r)
  <2>1. CASE n <= Len(q)
    <3>1. n \in 1 .. Len(q)
      BY <1>1, <2>1
    <3>2. QED
      BY <1>1, <1>2, <1>3, <2>1, <3>1
  <2>2. CASE ~(n <= Len(q))
    <3>1. n - Len(q) \in 1 .. Len(r)
      BY <1>1, <2>2
    <3>2. QED
      BY <1>1, <1>2, <1>3, <2>2, <3>1
  <2>3. QED
    BY <2>1, <2>2
<1>5. /\ Places(q \o r) \in Seq(Spots) /\ Len(Places(q \o r)) = Len(q) + Len(r)
      /\ \A n \in 1 .. Len(q) + Len(r) : Places(q \o r)[n] = Place((q \o r)[n])
  BY <1>1, PlacesOf
<1>6. QED
  BY <1>3, <1>4, <1>5, SeqEqual

LEMMA PlacesOfAppend ==
  ASSUME NEW q \in Seq(Located), NEW x \in Located
  PROVE  Places(Append(q, x)) = Append(Places(q), Place(x))
<1>1. <<x>> \in Seq(Located) /\ Append(q, x) = q \o <<x>>
  BY AppendIsConcat
<1>2. Places(<<x>>) = <<Place(x)>>
  <2>1. Len(<<x>>) = 1 /\ <<x>>[1] = x
    OBVIOUS
  <2>2. /\ Places(<<x>>) \in Seq(Spots) /\ Len(Places(<<x>>)) = 1 /\ Places(<<x>>)[1] = Place(x)
    <3>1. 1 \in 1 .. Len(<<x>>)
      BY <2>1
    <3>2. /\ Places(<<x>>) \in Seq(Spots) /\ Len(Places(<<x>>)) = Len(<<x>>)
          /\ \A n \in 1 .. Len(<<x>>) : Places(<<x>>)[n] = Place(<<x>>[n])
      BY <1>1, PlacesOf
    <3>3. QED
      BY <2>1, <3>1, <3>2
  <2>3. /\ <<Place(x)>> \in Seq(Spots) /\ Len(<<Place(x)>>) = 1 /\ <<Place(x)>>[1] = Place(x)
    BY PlaceIsSpot
  <2>4. \A i \in 1 .. 1 : Places(<<x>>)[i] = <<Place(x)>>[i]
    BY <2>2, <2>3
  <2>5. QED
    BY <2>2, <2>3, <2>4, SeqEqual
<1>3. Append(Places(q), Place(x)) = Places(q) \o <<Place(x)>>
  BY PlacesOf, PlaceIsSpot, AppendIsConcat
<1>4. QED
  BY <1>1, <1>2, <1>3, PlacesOfConcat
-----------------------------------------------------------------------------
(* The scanner and the tracker: a line that is pushed follows what has     *)
(* left, what is held in front of the authentication line, and the block.  *)

ScanStates == [tracker : Trackers, block : Blocks, out : Seq(Stamps)]

\* Who has an account, of what t has stamped since s.
StampedAs(s, t, known) == \A x \in Range(t.out) : x \in Range(s.out) \/ x.account = known

SameSession(s, t) == t.block = s.block /\ t.tracker.row = s.tracker.row

LEMMA ScanFields ==
  ASSUME NEW s \in ScanStates
  PROVE  /\ s = [tracker |-> s.tracker, block |-> s.block, out |-> s.out]
         /\ s.tracker = [row |-> s.tracker.row, authenticated |-> s.tracker.authenticated,
                         buffered |-> s.tracker.buffered, exit |-> s.tracker.exit]
         /\ s.tracker \in Trackers /\ s.block \in Blocks /\ s.out \in Seq(Stamps)
         /\ s.tracker.row \in Rows /\ s.tracker.authenticated \in BOOLEAN
         /\ s.tracker.buffered \in Seq(Lines) /\ s.tracker.exit \in {"live", "clean", "crash"}
         /\ s.out \in Seq(Located) /\ s.tracker.buffered \in Seq(Located)
BY SeqMonotonic DEF ScanStates, Trackers, Located

LEMMA NoLineIs == /\ NoLine \notin Lines /\ NoLine \in Blocks /\ NoLine.run = 0 /\ NoLine.line = 0
                  /\ \A b \in Blocks : b = NoLine \/ (b \in Lines /\ b.text.kind = "env")
BY DEF NoLine, Lines, Blocks, Keys, Kinds

LEMMA CoreIs ==
  ASSUME NEW s \in ScanStates
  PROVE  Core(s) \in Seq(Spots) /\ Contents(s) \in Seq(Spots)
<1>1. Core(s) \in Seq(Spots)
  BY ScanFields, PlacesOf, ConcatProperties DEF Core
<1>2. QED
  BY <1>1, NoLineIs, PlaceIsSpot, AppendProperties, ScanFields DEF Contents, Located

LEMMA StampIs ==
  ASSUME NEW t \in Trackers, NEW l \in Lines
  PROVE  /\ Stamp(t, l) \in Stamps /\ Place(Stamp(t, l)) = Place(l)
         /\ Stamp(t, l).account = t.authenticated
BY DEF Stamp, Trackers, Lines, Stamps, Place

LEMMA StampsAdded ==
  ASSUME NEW a \in Seq(Stamps), NEW b \in Seq(Stamps)
  PROVE  a \o b \in Seq(Stamps) /\ Range(a \o b) = Range(a) \cup Range(b)
BY ConcatProperties, RangeConcatenation

LEMMA RangeAppended ==
  ASSUME NEW S, NEW a \in Seq(S), NEW x \in S
  PROVE  Range(Append(a, x)) = Range(a) \cup {x}
<1>1. Append(a, x) = a \o <<x>> /\ <<x>> \in Seq(S)
  BY AppendIsConcat
<1>2. Range(<<x>>) = {x}
  BY DEF Range
<1>3. Range(a \o <<x>>) = Range(a) \cup Range(<<x>>)
  <2> DEFINE y == <<x>>
  <2>1. y \in Seq(S)
    BY <1>1
  <2> HIDE DEF y
  <2>2. Range(a \o y) = Range(a) \cup Range(y)
    BY <2>1, RangeConcatenation
  <2>3. QED
    BY <2>2 DEF y
<1>4. QED
  BY <1>1, <1>2, <1>3

LEMMA AppendedLater ==
  ASSUME NEW S, NEW a \in Seq(S), NEW b \in Seq(S), NEW x \in S
  PROVE  a \o Append(b, x) = Append(a \o b, x)
<1>1. Append(b, x) = b \o <<x>> /\ <<x>> \in Seq(S)
  BY AppendIsConcat
<1>2. a \o b \in Seq(S)
  BY ConcatProperties
<1>3. Append(a \o b, x) = (a \o b) \o <<x>>
  BY <1>2, AppendIsConcat
<1>4. QED
  BY <1>1, <1>3, ConcatAssociative

\* FlushBuffer lets go of the buffer.
LEMMA FlushIs ==
  ASSUME NEW s \in ScanStates
  PROVE  /\ FlushBuffer(s) \in ScanStates
         /\ SameSession(s, FlushBuffer(s)) /\ FlushBuffer(s).tracker.exit = s.tracker.exit
         /\ FlushBuffer(s).tracker.authenticated = s.tracker.authenticated
         /\ FlushBuffer(s).tracker.buffered = <<>>
         /\ Core(FlushBuffer(s)) = Core(s)
         /\ StampedAs(s, FlushBuffer(s), s.tracker.authenticated)
         /\ Range(s.out) \subseteq Range(FlushBuffer(s).out)
<1> DEFINE k == s.tracker
           q == k.buffered
           new == [n \in DOMAIN q |-> Stamp(k, q[n])]
           t == FlushBuffer(s)
<1>1. /\ q \in Seq(Lines) /\ k \in Trackers /\ s.out \in Seq(Stamps) /\ s.block \in Blocks
      /\ Len(q) \in Nat /\ DOMAIN q = 1 .. Len(q) /\ s.out \in Seq(Located) /\ q \in Seq(Located)
  BY ScanFields, LenProperties
<1>2. \A n \in 1 .. Len(q) : q[n] \in Lines
  BY <1>1, ElementOfSeq
<1>3. \A n \in 1 .. Len(q) : /\ Stamp(k, q[n]) \in Stamps /\ Place(Stamp(k, q[n])) = Place(q[n])
                             /\ Stamp(k, q[n]).account = k.authenticated
  BY <1>1, <1>2, StampIs
<1>4. /\ new = [n \in 1 .. Len(q) |-> Stamp(k, q[n])] /\ new \in Seq(Stamps) /\ Len(new) = Len(q)
      /\ DOMAIN new = 1 .. Len(q)
  <2> HIDE DEF q, k
  <2>1. new = [n \in 1 .. Len(q) |-> Stamp(k, q[n])]
    BY <1>1
  <2>2. new \in [1 .. Len(q) -> Stamps]
    BY <1>3, <2>1
  <2>3. QED
    BY <1>1, <2>1, <2>2
<1> DEFINE emptied == [k EXCEPT !.buffered = <<>>]
<1>5. t = [s EXCEPT !.out = s.out \o new, !.tracker = emptied]
  BY DEF FlushBuffer, ScanStates
<1>6. emptied \in Trackers /\ emptied.buffered = <<>>
  BY <1>1, EmptySeq DEF Trackers
<1> HIDE DEF t, new, emptied
<1>8. s.out \o new \in Seq(Stamps) /\ Range(s.out \o new) = Range(s.out) \cup Range(new)
  BY <1>1, <1>4, StampsAdded
<1>9. t \in ScanStates /\ t.out = s.out \o new /\ t.tracker = emptied /\ t.block = s.block
  <2> DEFINE o == s.out \o new
  <2>1. o \in Seq(Stamps) /\ t = [s EXCEPT !.out = o, !.tracker = emptied]
    BY <1>5, <1>8
  <2> HIDE DEF o
  <2>2. t \in ScanStates /\ t.out = o /\ t.tracker = emptied /\ t.block = s.block
    <3>1. emptied \in Trackers
      BY <1>6
    <3>2. o \in Seq(Stamps)
      BY <2>1
    <3>3. t = [s EXCEPT !.out = o, !.tracker = emptied]
      BY <2>1
    <3>4. QED
      BY <3>1, <3>2, <3>3 DEF ScanStates
  <2>3. QED
    BY <2>2 DEF o
<1>10. new \in Seq(Located)
  BY <1>4, SeqMonotonic DEF Located
<1>11. Places(new) = Places(q)
  <2>1. /\ Places(new) \in Seq(Spots) /\ Len(Places(new)) = Len(q)
        /\ \A n \in 1 .. Len(q) : Places(new)[n] = Place(new[n])
    BY <1>4, <1>10, PlacesOf
  <2>2. /\ Places(q) \in Seq(Spots) /\ Len(Places(q)) = Len(q)
        /\ \A n \in 1 .. Len(q) : Places(q)[n] = Place(q[n])
    BY <1>1, PlacesOf
  <2>3. \A n \in 1 .. Len(q) : Place(new[n]) = Place(q[n])
    BY <1>3, <1>4
  <2>4. \A n \in 1 .. Len(q) : Places(new)[n] = Places(q)[n]
    BY <2>1, <2>2, <2>3
  <2>5. QED
    BY <2>1, <2>2, <2>4, SeqEqual
<1>12. Core(t) = Core(s)
  <2>1. Places(t.out) = Places(s.out) \o Places(q)
    BY <1>1, <1>9, <1>10, <1>11, PlacesOfConcat
  <2>2. Places(t.out) \in Seq(Spots)
    BY <1>9, ScanFields, PlacesOf
  <2>3. Core(t) = Places(t.out) \o <<>>
    BY <1>6, <1>9, PlacesOfNone DEF Core
  <2>4. QED
    BY <2>1, <2>2, <2>3, ConcatEmptySeq DEF Core
<1>13. \A x \in Range(new) : x.account = s.tracker.authenticated
  BY <1>3, <1>4 DEF Range
<1>14. StampedAs(s, t, s.tracker.authenticated) /\ Range(s.out) \subseteq Range(t.out)
  BY <1>8, <1>9, <1>13 DEF StampedAs
<1>15. QED
  <2>1. /\ emptied.row = k.row /\ emptied.authenticated = k.authenticated /\ emptied.exit = k.exit
        /\ emptied.buffered = <<>>
    BY <1>1 DEF emptied, Trackers
  <2>2. QED
    BY <1>9, <1>12, <1>14, <2>1 DEF t, SameSession

\* A line that is emitted leaves, or waits behind what waits.
LEMMA EmitIs ==
  ASSUME NEW s \in ScanStates, NEW l \in Lines, Working(s.tracker)
  PROVE  /\ Emit(s, l) \in ScanStates /\ SameSession(s, Emit(s, l)) /\ Working(Emit(s, l).tracker)
         /\ Emit(s, l).tracker.authenticated = s.tracker.authenticated
         /\ Core(Emit(s, l)) = Append(Core(s), Place(l))
         /\ StampedAs(s, Emit(s, l), s.tracker.authenticated)
         /\ Range(s.out) \subseteq Range(Emit(s, l).out)
<1> DEFINE k == s.tracker
           q == k.buffered
           t == Emit(s, l)
<1>1. /\ q \in Seq(Lines) /\ k \in Trackers /\ s.out \in Seq(Stamps) /\ s.block \in Blocks
      /\ Len(q) \in Nat /\ s.out \in Seq(Located) /\ q \in Seq(Located) /\ l \in Located
      /\ k.authenticated \in BOOLEAN
  BY ScanFields, LenProperties DEF Located
<1>2. k.exit = "live" /\ Len(q) < MaxBuffered /\ (k.authenticated => q = <<>>)
  BY DEF Working
<1>3. Core(s) \in Seq(Spots) /\ Place(l) \in Spots
  BY <1>1, CoreIs, PlaceIsSpot
<1>4. CASE k.authenticated
  <2> DEFINE o == Append(s.out, Stamp(k, l))
  <2>1. t = [s EXCEPT !.out = o]
    BY <1>4 DEF Emit, ScanStates
  <2>2. o \in Seq(Stamps) /\ Stamp(k, l) \in Stamps /\ Stamp(k, l) \in Located
    BY <1>1, StampIs, AppendProperties DEF Located
  <2>3. Range(o) = Range(s.out) \cup {Stamp(k, l)}
    BY <1>1, <2>2, RangeAppended
  <2>4. Places(o) = Append(Places(s.out), Place(l))
    BY <1>1, <2>2, StampIs, PlacesOfAppend
  <2> HIDE DEF o, t
  <2>5. t \in ScanStates /\ t.out = o /\ t.tracker = k /\ t.block = s.block
    BY <2>1, <2>2 DEF ScanStates
  <2>6. Core(t) = Append(Core(s), Place(l))
    <3>1. Places(o) \in Seq(Spots) /\ Places(s.out) \in Seq(Spots)
      BY <1>1, <2>2, PlacesOf, SeqMonotonic DEF Located
    <3>2. Places(q) = <<>>
      BY <1>2, <1>4, PlacesOfNone
    <3>3. Core(t) = Places(o) /\ Core(s) = Places(s.out)
      BY <2>5, <3>1, <3>2, ConcatEmptySeq DEF Core
    <3>4. QED
      BY <2>4, <3>3
  <2>7. StampedAs(s, t, k.authenticated) /\ Range(s.out) \subseteq Range(t.out)
    BY <1>1, <2>3, <2>5, StampIs DEF StampedAs
  <2>8. QED
    BY <2>5, <2>6, <2>7 DEF t, SameSession
<1>5. CASE ~k.authenticated
  <2> DEFINE longer == Append(q, l)
             kept == [k EXCEPT !.buffered = longer]
             held == [s EXCEPT !.tracker.buffered = Append(@, l)]
  <2>1. t = IF Len(held.tracker.buffered) >= MaxBuffered THEN FlushBuffer(held) ELSE held
    BY <1>5 DEF Emit
  <2>2. longer \in Seq(Lines) /\ Len(longer) = Len(q) + 1 /\ longer \in Seq(Located)
    BY <1>1, AppendProperties, SeqMonotonic DEF Located
  <2>3. held = [s EXCEPT !.tracker = kept]
    BY DEF ScanStates, Trackers
  <2>4. /\ kept \in Trackers /\ kept.buffered = longer /\ kept.row = k.row /\ kept.exit = k.exit
        /\ kept.authenticated = k.authenticated
    <3> HIDE DEF longer
    <3>1. QED
      BY <1>1, <2>2 DEF Trackers
  <2>5. Places(longer) = Append(Places(q), Place(l))
    BY <1>1, PlacesOfAppend
  <2> HIDE DEF longer, kept, held, t
  <2>6. held \in ScanStates /\ held.out = s.out /\ held.tracker = kept /\ held.block = s.block
    BY <2>3, <2>4 DEF ScanStates
  <2>7. Core(held) = Append(Core(s), Place(l))
    <3>1. Places(s.out) \in Seq(Spots) /\ Places(q) \in Seq(Spots)
      BY <1>1, PlacesOf
    <3>2. Core(held) = Places(s.out) \o Append(Places(q), Place(l))
      BY <2>4, <2>5, <2>6 DEF Core
    <3>3. QED
      BY <1>3, <3>1, <3>2, AppendedLater DEF Core
  <2>8. CASE Len(longer) >= MaxBuffered
    <3>1. t = FlushBuffer(held)
      BY <2>1, <2>4, <2>6, <2>8
    <3>2. /\ t \in ScanStates /\ SameSession(held, t) /\ t.tracker.exit = kept.exit
          /\ t.tracker.authenticated = kept.authenticated /\ t.tracker.buffered = <<>>
          /\ Core(t) = Core(held) /\ StampedAs(held, t, kept.authenticated)
          /\ Range(held.out) \subseteq Range(t.out)
      BY <2>6, <3>1, FlushIs
    <3>3. Len(<<>>) < MaxBuffered
      BY Bounds, EmptySeq
    <3>4. QED
      BY <1>2, <2>4, <2>6, <2>7, <3>2, <3>3 DEF t, SameSession, Working, StampedAs
  <2>9. CASE ~(Len(longer) >= MaxBuffered)
    <3>1. t = held
      BY <2>1, <2>4, <2>6, <2>9
    <3>2. Len(longer) < MaxBuffered
      BY <2>2, <2>9, Bounds
    <3>3. QED
      BY <1>2, <1>5, <2>4, <2>6, <2>7, <3>1, <3>2 DEF t, SameSession, Working, StampedAs
  <2>10. QED
    BY <2>8, <2>9
<1>6. QED
  BY <1>1, <1>4, <1>5

LEMMA AuthenticateIs ==
  ASSUME NEW s \in ScanStates, Working(s.tracker)
  PROVE  /\ Authenticate(s) \in ScanStates /\ SameSession(s, Authenticate(s)) /\ Working(Authenticate(s).tracker)
         /\ Authenticate(s).tracker.authenticated = TRUE
         /\ Core(Authenticate(s)) = Core(s) /\ StampedAs(s, Authenticate(s), TRUE)
         /\ Range(s.out) \subseteq Range(Authenticate(s).out)
<1> DEFINE known == [s.tracker EXCEPT !.authenticated = TRUE]
           u == [s EXCEPT !.tracker.authenticated = TRUE]
<1>1. u = [s EXCEPT !.tracker = known]
  BY DEF ScanStates, Trackers
<1>2. /\ known \in Trackers /\ known.authenticated = TRUE /\ known.row = s.tracker.row
      /\ known.exit = s.tracker.exit /\ known.buffered = s.tracker.buffered
  BY ScanFields DEF Trackers
<1>3. Authenticate(s) = FlushBuffer(u)
  BY DEF Authenticate
<1> HIDE DEF known, u
<1>4. u \in ScanStates /\ u.tracker = known /\ u.block = s.block /\ u.out = s.out
  BY <1>1, <1>2 DEF ScanStates
<1>5. Core(u) = Core(s)
  BY <1>2, <1>4 DEF Core
<1>6. Len(<<>>) < MaxBuffered
  BY Bounds, EmptySeq
<1>7. QED
  BY <1>2, <1>3, <1>4, <1>5, <1>6, FlushIs DEF SameSession, Working, StampedAs

\* The end of a session: its buffer leaves.
LEMMA EndSessionIs ==
  ASSUME NEW s \in ScanStates, Working(s.tracker), NEW kind \in {"clean", "crash"}
  PROVE  /\ EndSession(s, kind) \in ScanStates /\ SameSession(s, EndSession(s, kind))
         /\ EndSession(s, kind).tracker.exit = kind /\ Over(EndSession(s, kind).tracker)
         /\ EndSession(s, kind).tracker.authenticated = s.tracker.authenticated
         /\ Core(EndSession(s, kind)) = Core(s)
         /\ StampedAs(s, EndSession(s, kind), s.tracker.authenticated)
         /\ Range(s.out) \subseteq Range(EndSession(s, kind).out)
<1> DEFINE u == FlushBuffer(s)
           ended == [u.tracker EXCEPT !.exit = kind]
           t == EndSession(s, kind)
<1>1. t = [u EXCEPT !.tracker.exit = kind]
  BY DEF EndSession, Live, Working
<1>2. /\ u \in ScanStates /\ SameSession(s, u) /\ u.tracker.authenticated = s.tracker.authenticated
      /\ u.tracker.buffered = <<>> /\ Core(u) = Core(s) /\ StampedAs(s, u, s.tracker.authenticated)
      /\ Range(s.out) \subseteq Range(u.out)
  BY FlushIs
<1> HIDE DEF u, t
<1>3. t = [u EXCEPT !.tracker = ended]
  BY <1>1, <1>2 DEF ScanStates, Trackers
<1>4. /\ ended \in Trackers /\ ended.exit = kind /\ ended.row = u.tracker.row
      /\ ended.authenticated = u.tracker.authenticated /\ ended.buffered = u.tracker.buffered
  <2>1. u.tracker \in Trackers
    BY <1>2, ScanFields
  <2>2. QED
    BY <2>1 DEF Trackers
<1> HIDE DEF ended
<1>5. t \in ScanStates /\ t.tracker = ended /\ t.block = u.block /\ t.out = u.out
  BY <1>2, <1>3, <1>4 DEF ScanStates
<1>6. Core(t) = Core(u)
  BY <1>4, <1>5 DEF Core
<1>7. QED
  BY <1>2, <1>4, <1>5, <1>6 DEF t, SameSession, Over, StampedAs

\* An event goes behind what there is; the authentication line lets go of what waits for
\* it, the line that says the client quits ends the session.
LEMMA IngestEventIs ==
  ASSUME NEW s \in ScanStates, NEW l \in Lines, Working(s.tracker)
  PROVE  /\ IngestEvent(s, l) \in ScanStates /\ SameSession(s, IngestEvent(s, l))
         /\ IF l.text.kind = "quit" THEN Over(IngestEvent(s, l).tracker) /\ IngestEvent(s, l).tracker.exit = "clean"
            ELSE Working(IngestEvent(s, l).tracker)
         /\ IngestEvent(s, l).tracker.authenticated = (s.tracker.authenticated \/ l.text.kind = "auth")
         /\ Core(IngestEvent(s, l)) = Append(Core(s), Place(l))
         /\ StampedAs(s, IngestEvent(s, l), IngestEvent(s, l).tracker.authenticated)
         /\ Range(s.out) \subseteq Range(IngestEvent(s, l).out)
<1>1. s.tracker.exit = "live" /\ s.tracker.authenticated \in BOOLEAN
  BY ScanFields DEF Working
<1>2. CASE l.text.kind = "auth"
  <2> DEFINE u == Authenticate(s)
  <2>1. IngestEvent(s, l) = Emit(u, l)
    BY <1>1, <1>2 DEF IngestEvent, Live
  <2>2. /\ u \in ScanStates /\ SameSession(s, u) /\ Working(u.tracker) /\ u.tracker.authenticated = TRUE
        /\ Core(u) = Core(s) /\ StampedAs(s, u, TRUE) /\ Range(s.out) \subseteq Range(u.out)
    BY AuthenticateIs
  <2> HIDE DEF u
  <2>3. /\ Emit(u, l) \in ScanStates /\ SameSession(u, Emit(u, l)) /\ Working(Emit(u, l).tracker)
        /\ Emit(u, l).tracker.authenticated = TRUE
        /\ Core(Emit(u, l)) = Append(Core(u), Place(l))
        /\ StampedAs(u, Emit(u, l), TRUE) /\ Range(u.out) \subseteq Range(Emit(u, l).out)
    BY <2>2, EmitIs
  <2>4. QED
    BY <1>2, <2>1, <2>2, <2>3 DEF SameSession, StampedAs
<1>3. CASE l.text.kind = "quit"
  <2> DEFINE u == Emit(s, l)
  <2>1. IngestEvent(s, l) = EndSession(u, "clean")
    BY <1>1, <1>3 DEF IngestEvent, Live
  <2>2. /\ u \in ScanStates /\ SameSession(s, u) /\ Working(u.tracker)
        /\ u.tracker.authenticated = s.tracker.authenticated
        /\ Core(u) = Append(Core(s), Place(l)) /\ StampedAs(s, u, s.tracker.authenticated)
        /\ Range(s.out) \subseteq Range(u.out)
    BY EmitIs
  <2> HIDE DEF u
  <2> DEFINE t == EndSession(u, "clean")
  <2>3. /\ t \in ScanStates /\ SameSession(u, t) /\ t.tracker.exit = "clean" /\ Over(t.tracker)
        /\ t.tracker.authenticated = u.tracker.authenticated /\ Core(t) = Core(u)
        /\ StampedAs(u, t, u.tracker.authenticated) /\ Range(u.out) \subseteq Range(t.out)
    BY <2>2, EndSessionIs
  <2> HIDE DEF t
  <2>4. t.tracker.authenticated = (s.tracker.authenticated \/ l.text.kind = "auth")
    BY <1>1, <1>3, <2>2, <2>3
  <2>5. QED
    BY <1>3, <2>1, <2>2, <2>3, <2>4 DEF SameSession, StampedAs, t
<1>4. CASE l.text.kind \notin {"auth", "quit"}
  <2>1. IngestEvent(s, l) = Emit(s, l)
    BY <1>1, <1>4 DEF IngestEvent, Live
  <2>2. /\ Emit(s, l) \in ScanStates /\ SameSession(s, Emit(s, l)) /\ Working(Emit(s, l).tracker)
        /\ Emit(s, l).tracker.authenticated = s.tracker.authenticated
        /\ Core(Emit(s, l)) = Append(Core(s), Place(l))
        /\ StampedAs(s, Emit(s, l), s.tracker.authenticated)
        /\ Range(s.out) \subseteq Range(Emit(s, l).out)
    BY EmitIs
  <2>3. Emit(s, l).tracker.authenticated = (s.tracker.authenticated \/ l.text.kind = "auth")
    BY <1>1, <1>4, <2>2
  <2>4. QED
    BY <1>4, <2>1, <2>2, <2>3
<1>5. QED
  BY <1>2, <1>3, <1>4

LEMMA StampsArePlaced ==
  ASSUME NEW s \in ScanStates, NEW x \in Range(s.out)
  PROVE  Place(x) \in Range(Core(s)) /\ Place(x) \in Range(Contents(s))
<1>1. /\ s.out \in Seq(Located) /\ s.tracker.buffered \in Seq(Located) /\ Core(s) \in Seq(Spots)
  BY ScanFields, CoreIs
<1>2. /\ Places(s.out) \in Seq(Spots) /\ Places(s.tracker.buffered) \in Seq(Spots)
      /\ Len(Places(s.out)) = Len(s.out) /\ \A n \in 1 .. Len(s.out) : Places(s.out)[n] = Place(s.out[n])
  BY <1>1, PlacesOf
<1>3. Range(Core(s)) = Range(Places(s.out)) \cup Range(Places(s.tracker.buffered))
  BY <1>2, RangeConcatenation DEF Core
<1>4. PICK n \in 1 .. Len(s.out) : x = s.out[n]
  BY <1>1, RangeEquality
<1>5. Place(x) \in Range(Places(s.out))
  BY <1>2, <1>4, RangeEquality
<1>6. s.block # NoLine => Range(Contents(s)) = Range(Core(s)) \cup {Place(s.block)}
  <2>1. s.block # NoLine => Place(s.block) \in Spots
    BY ScanFields, NoLineIs, PlaceIsSpot DEF Located
  <2>2. QED
    BY <1>1, <2>1, RangeAppended DEF Contents
<1>7. s.block = NoLine => Contents(s) = Core(s)
  BY DEF Contents
<1>8. QED
  BY <1>3, <1>5, <1>6, <1>7

LEMMA CloseBlockIs ==
  ASSUME NEW s \in ScanStates, Working(s.tracker)
  PROVE  /\ CloseBlock(s) \in ScanStates /\ CloseBlock(s).block = NoLine
         /\ CloseBlock(s).tracker.row = s.tracker.row /\ Working(CloseBlock(s).tracker)
         /\ CloseBlock(s).tracker.authenticated = s.tracker.authenticated
         /\ Core(CloseBlock(s)) = Contents(s)
         /\ StampedAs(s, CloseBlock(s), s.tracker.authenticated)
         /\ Range(s.out) \subseteq Range(CloseBlock(s).out)
<1>1. CASE s.block = NoLine
  BY <1>1 DEF CloseBlock, StampedAs, Contents
<1>2. CASE s.block # NoLine
  <2> DEFINE u == IngestEvent(s, s.block)
             t == CloseBlock(s)
  <2>1. t = [u EXCEPT !.block = NoLine]
    BY <1>2 DEF CloseBlock
  <2>2. s.block \in Lines /\ s.block.text.kind = "env" /\ s.tracker.authenticated \in BOOLEAN
    BY <1>2, ScanFields, NoLineIs
  <2>3. /\ u \in ScanStates /\ SameSession(s, u) /\ Working(u.tracker)
        /\ u.tracker.authenticated = s.tracker.authenticated
        /\ Core(u) = Append(Core(s), Place(s.block))
        /\ StampedAs(s, u, u.tracker.authenticated) /\ Range(s.out) \subseteq Range(u.out)
    BY <2>2, IngestEventIs
  <2> HIDE DEF u, t
  <2>4. t \in ScanStates /\ t.block = NoLine /\ t.tracker = u.tracker /\ t.out = u.out
    BY <2>1, <2>3, NoLineIs DEF ScanStates
  <2>5. Core(t) = Core(u)
    BY <2>4 DEF Core
  <2>6. QED
    BY <1>2, <2>3, <2>4, <2>5 DEF t, SameSession, StampedAs, Contents
<1>3. QED
  BY <1>1, <1>2

\* What the scanner makes of a whole line in front of a tracker at work.
Pushed(s, l, t) ==
  /\ t \in ScanStates /\ t.tracker.row = s.tracker.row
  /\ IF l.text.kind = "quit" THEN Over(t.tracker) /\ t.tracker.exit = "clean" /\ t.block = NoLine
     ELSE Working(t.tracker)
  /\ t.tracker.authenticated = (s.tracker.authenticated \/ l.text.kind = "auth")
  /\ Contents(t) = Append(Contents(s), Place(l))
  /\ Range(s.out) \subseteq Range(t.out)
  /\ \A x \in Range(t.out) :
       \/ x \in Range(s.out) \/ x.account
       \/ ~s.tracker.authenticated /\ (l.text.kind = "auth" => Place(x) \in Range(Contents(s)))

LEMMA PushLineIs ==
  ASSUME NEW s \in ScanStates, NEW l \in Lines
  PROVE  /\ ~l.whole \/ ~Live(s.tracker) => PushLine(s, l) = s
         /\ l.whole /\ Working(s.tracker) => Pushed(s, l, PushLine(s, l))
<1>1. ~l.whole \/ ~Live(s.tracker) => PushLine(s, l) = s
  BY DEF PushLine
<1>2. ASSUME l.whole, Working(s.tracker)
      PROVE  Pushed(s, l, PushLine(s, l))
  <2> DEFINE u == CloseBlock(s)
             t == PushLine(s, l)
  <2>1. t = IF l.text.kind = "env" THEN [u EXCEPT !.block = l] ELSE IngestEvent(u, l)
    BY <1>2 DEF PushLine, Live, Working
  <2>2. /\ u \in ScanStates /\ u.block = NoLine /\ u.tracker.row = s.tracker.row /\ Working(u.tracker)
        /\ u.tracker.authenticated = s.tracker.authenticated /\ Core(u) = Contents(s)
        /\ StampedAs(s, u, s.tracker.authenticated) /\ Range(s.out) \subseteq Range(u.out)
    BY <1>2, CloseBlockIs
  <2> HIDE DEF u
  <2>3. s.tracker.authenticated \in BOOLEAN
    BY ScanFields
  <2>4. \A x \in Range(u.out) : /\ Place(x) \in Range(Contents(s))
                                /\ x \in Range(s.out) \/ x.account \/ ~s.tracker.authenticated
    BY <2>2, <2>3, StampsArePlaced DEF StampedAs
  <2>5. CASE l.text.kind = "env"
    <3> HIDE DEF t
    <3>1. t = [u EXCEPT !.block = l]
      BY <2>1, <2>5
    <3>2. l \in Blocks /\ l # NoLine
      BY <2>5, NoLineIs DEF Blocks
    <3>3. t \in ScanStates /\ t.block = l /\ t.tracker = u.tracker /\ t.out = u.out
      BY <2>2, <3>1, <3>2 DEF ScanStates
    <3>4. Core(t) = Core(u)
      BY <3>3 DEF Core
    <3>5. Contents(t) = Append(Contents(s), Place(l))
      BY <2>2, <3>2, <3>3, <3>4 DEF Contents
    <3>6. t.tracker.authenticated = (s.tracker.authenticated \/ l.text.kind = "auth")
      BY <2>2, <2>3, <2>5, <3>3
    <3>7. QED
      BY <2>2, <2>4, <2>5, <3>3, <3>5, <3>6 DEF Pushed, t
  <2>6. CASE l.text.kind # "env"
    <3>1. t = IngestEvent(u, l)
      BY <2>1, <2>6
    <3> HIDE DEF t
    <3>2. /\ t \in ScanStates /\ SameSession(u, t)
          /\ IF l.text.kind = "quit" THEN Over(t.tracker) /\ t.tracker.exit = "clean" ELSE Working(t.tracker)
          /\ t.tracker.authenticated = (u.tracker.authenticated \/ l.text.kind = "auth")
          /\ Core(t) = Append(Core(u), Place(l))
          /\ StampedAs(u, t, t.tracker.authenticated) /\ Range(u.out) \subseteq Range(t.out)
      BY <2>2, <3>1, IngestEventIs
    <3>3. Contents(t) = Append(Contents(s), Place(l)) /\ t.block = NoLine /\ t.tracker.row = s.tracker.row
      BY <2>2, <3>2 DEF Contents, SameSession
    <3>4. ASSUME NEW x \in Range(t.out)
          PROVE  \/ x \in Range(s.out) \/ x.account
                 \/ ~s.tracker.authenticated /\ (l.text.kind = "auth" => Place(x) \in Range(Contents(s)))
      <4>1. CASE x \in Range(u.out)
        BY <2>4, <4>1
      <4>2. CASE x.account = t.tracker.authenticated
        BY <2>2, <2>3, <3>2, <4>2
      <4>3. QED
        BY <3>2, <3>4, <4>1, <4>2 DEF StampedAs
    <3>5. Range(s.out) \subseteq Range(t.out)
      BY <2>2, <3>2
    <3>6. QED
      BY <2>2, <3>2, <3>3, <3>4, <3>5 DEF Pushed, t
  <2>7. QED
    BY <2>5, <2>6
<1>3. QED
  BY <1>1, <1>2

LEMMA NothingHeld ==
  ASSUME NEW s \in ScanStates, s.tracker.buffered = <<>>
  PROVE  Places(s.out) = Core(s)
<1> DEFINE p == Places(s.out)
<1>1. p \in Seq(Spots)
  BY ScanFields, PlacesOf
<1>2. Core(s) = p \o <<>>
  BY PlacesOfNone DEF Core
<1> HIDE DEF p
<1>3. p \o <<>> = p
  BY <1>1, ConcatEmptySeq
<1>4. QED
  BY <1>2, <1>3 DEF p

\* All that a session holds when it ends, the half line included, leaves.
Ending(f) == IF f.carry = NoLine THEN Contents(ScanState(f)) ELSE Append(Contents(ScanState(f)), Place(f.carry))

LEMMA FinishIs ==
  ASSUME NEW f, f.tracker \in Trackers, f.block \in Blocks, f.carry \in Halves, Working(f.tracker)
  PROVE  /\ ScanState(f) \in ScanStates
         /\ Finish(f, "crash") \in ScanStates /\ Finish(f, "crash").block = NoLine
         /\ Finish(f, "crash").tracker.row = f.tracker.row /\ Over(Finish(f, "crash").tracker)
         /\ Places(Finish(f, "crash").out) = Ending(f)
         /\ \A x \in Range(Finish(f, "crash").out) :
              \/ x.account
              \/ /\ ~f.tracker.authenticated
                 /\ f.carry = NoLine \/ f.carry.text.kind = "auth" => Place(x) \in Range(Contents(ScanState(f)))
<1> DEFINE s == ScanState(f)
           w == IF f.carry = NoLine THEN s ELSE PushLine(s, f.carry)
           t == Finish(f, "crash")
<1>1. /\ s \in ScanStates /\ s.tracker = f.tracker /\ s.block = f.block /\ s.out = <<>>
      /\ Range(s.out) = {}
  BY EmptySeq DEF ScanState, ScanStates, Range
<1>2. t = EndSession(IF Live(w.tracker) THEN CloseBlock(w) ELSE w, "crash")
  BY DEF Finish
<1>3. f.carry = NoLine \/ (f.carry \in Lines /\ f.carry.whole)
  BY DEF Halves
<1> HIDE DEF s, t
<1>4. /\ w \in ScanStates /\ w.tracker.row = f.tracker.row /\ Contents(w) = Ending(f)
      /\ Working(w.tracker) \/ (Over(w.tracker) /\ w.block = NoLine)
      /\ \A x \in Range(w.out) :
           \/ x.account
           \/ /\ ~f.tracker.authenticated
              /\ f.carry = NoLine \/ f.carry.text.kind = "auth" => Place(x) \in Range(Contents(s))
      /\ ~w.tracker.authenticated =>
           /\ ~f.tracker.authenticated
           /\ f.carry = NoLine => Contents(w) = Contents(s)
           /\ f.carry # NoLine => f.carry.text.kind # "auth"
  <2>1. CASE f.carry = NoLine
    BY <1>1, <2>1 DEF Ending, s
  <2>2. CASE f.carry # NoLine
    <3>1. w = PushLine(s, f.carry) /\ f.carry \in Lines /\ f.carry.whole
      BY <1>3, <2>2
    <3> HIDE DEF w
    <3>2. Pushed(s, f.carry, w)
      BY <1>1, <3>1, PushLineIs
    <3>3. f.tracker.authenticated \in BOOLEAN
      BY <1>1, ScanFields
    <3>4. /\ w \in ScanStates /\ w.tracker.row = f.tracker.row
          /\ Contents(w) = Append(Contents(s), Place(f.carry))
          /\ w.tracker.authenticated = (f.tracker.authenticated \/ f.carry.text.kind = "auth")
          /\ Working(w.tracker) \/ (Over(w.tracker) /\ w.block = NoLine)
      BY <1>1, <3>2 DEF Pushed
    <3>5. \A x \in Range(w.out) :
           \/ x.account
           \/ ~f.tracker.authenticated /\ (f.carry.text.kind = "auth" => Place(x) \in Range(Contents(s)))
      BY <1>1, <3>2 DEF Pushed
    <3>6. QED
      BY <2>2, <3>3, <3>4, <3>5 DEF Ending, s
  <2>3. QED
    BY <2>1, <2>2
<1> HIDE DEF w
<1>5. CASE Working(w.tracker)
  <2> DEFINE u == CloseBlock(w)
  <2>1. t = EndSession(u, "crash")
    BY <1>2, <1>5 DEF Live, Working
  <2>2. /\ u \in ScanStates /\ u.block = NoLine /\ u.tracker.row = w.tracker.row /\ Working(u.tracker)
        /\ u.tracker.authenticated = w.tracker.authenticated
        /\ Core(u) = Contents(w) /\ StampedAs(w, u, w.tracker.authenticated)
    BY <1>4, <1>5, CloseBlockIs
  <2> HIDE DEF u
  <2>3. /\ t \in ScanStates /\ SameSession(u, t) /\ Over(t.tracker) /\ Core(t) = Core(u)
        /\ StampedAs(u, t, u.tracker.authenticated)
    BY <2>1, <2>2, EndSessionIs
  <2>4. t.tracker.buffered = <<>> /\ t.block = NoLine
    BY <2>2, <2>3 DEF Over, SameSession
  <2>5. Places(t.out) = Core(t)
    BY <2>3, <2>4, NothingHeld
  <2>6. ASSUME NEW x \in Range(t.out)
        PROVE  \/ x.account
               \/ /\ ~f.tracker.authenticated
                  /\ f.carry = NoLine \/ f.carry.text.kind = "auth" => Place(x) \in Range(Contents(s))
    <3>1. x \in Range(w.out) \/ x.account = w.tracker.authenticated
      BY <2>2, <2>3 DEF StampedAs
    <3>2. w.tracker.authenticated \in BOOLEAN
      BY <1>4, ScanFields
    <3>3. Place(x) \in Range(Contents(w))
      BY <2>2, <2>3, StampsArePlaced
    <3>4. QED
      BY <1>4, <3>1, <3>2, <3>3
  <2>7. QED
    BY <1>1, <1>4, <2>2, <2>3, <2>4, <2>5, <2>6 DEF s, t, SameSession
<1>6. CASE Over(w.tracker) /\ w.block = NoLine
  <2>1. t = w
    BY <1>2, <1>6 DEF EndSession, Live, Over
  <2>2. w.tracker.buffered = <<>>
    BY <1>6 DEF Over
  <2>3. Places(w.out) = Core(w) /\ Core(w) = Contents(w)
    BY <1>4, <1>6, <2>2, NothingHeld DEF Contents
  <2>4. QED
    BY <1>1, <1>4, <1>6, <2>1, <2>3 DEF s, t
<1>7. QED
  BY <1>4, <1>5, <1>6
-----------------------------------------------------------------------------
(* The lines of a read, one after the other.                               *)

Chain(a, f, n) ==
  /\ a = [i \in 0 .. n |-> a[i]]
  /\ a[0] = ScanState(f)
  /\ \A i \in 1 .. n : a[i] = PushLine(a[i - 1], hand.lines[i])

LEMMA ChainExists ==
  ASSUME NEW n \in Nat, NEW f
  PROVE  \E a : Chain(a, f, n)
<1> DEFINE S == {m \in 0 .. n : \E a : Chain(a, f, m)}
<1>1. 0 \in S
  <2> DEFINE a == [i \in 0 .. 0 |-> ScanState(f)]
  <2>1. Chain(a, f, 0)
    BY DEF Chain
  <2>2. QED
    BY <2>1
<1>2. ASSUME NEW m \in 1 .. n, m - 1 \in S
      PROVE  m \in S
  <2>1. PICK a : Chain(a, f, m - 1)
    BY <1>2
  <2> DEFINE last == PushLine(a[m - 1], hand.lines[m])
             h == [i \in 0 .. m |-> IF i = m THEN last ELSE a[i]]
  <2>2. /\ h = [i \in 0 .. m |-> h[i]]
        /\ h[m] = last /\ \A i \in 0 .. m - 1 : h[i] = a[i]
    OBVIOUS
  <2>3. h[0] = ScanState(f)
    BY <2>1 DEF Chain
  <2>4. \A i \in 1 .. m - 1 : a[i] = PushLine(a[i - 1], hand.lines[i])
    BY <2>1 DEF Chain
  <2> HIDE DEF h
  <2>5. \A i \in 1 .. m : i - 1 \in 0 .. m - 1 /\ (i # m => i \in 1 .. m - 1 /\ i \in 0 .. m - 1)
    OBVIOUS
  <2>6. \A i \in 1 .. m : h[i] = PushLine(h[i - 1], hand.lines[i])
    <3> TAKE i \in 1 .. m
    <3>1. CASE i = m
      <4>1. h[i - 1] = a[m - 1]
        BY <2>2, <2>5, <3>1
      <4>2. QED
        BY <2>2, <3>1, <4>1
    <3>2. CASE i # m
      <4>1. i \in 1 .. m - 1 /\ h[i] = a[i] /\ h[i - 1] = a[i - 1]
        BY <2>2, <2>5, <3>2
      <4>2. QED
        BY <2>4, <4>1
    <3>3. QED
      BY <3>1, <3>2
  <2>7. Chain(h, f, m)
    BY <2>2, <2>3, <2>6 DEF Chain
  <2>8. QED
    BY <2>7
<1> HIDE DEF S
<1>3. 0 .. n \subseteq S
  BY <1>1, <1>2, Counting
<1>4. QED
  BY <1>3 DEF S

LEMMA IngestIsChain ==
  ASSUME NEW f, f.tracker # NoTracker, hand.lines \in Seq(Lines)
  PROVE  \E a : Chain(a, f, Len(hand.lines)) /\ IngestLines(f) = a[Len(hand.lines)]
<1> DEFINE N == Len(hand.lines)
           Rec(a) == a = [n \in 0 .. N |-> IF n = 0 THEN ScanState(f) ELSE PushLine(a[n - 1], hand.lines[n])]
           after == CHOOSE a : Rec(a)
<1>1. IngestLines(f) = after[N]
  BY DEF IngestLines
<1>2. N \in Nat
  BY LenProperties
<1> HIDE DEF N
<1>3. \E a : Rec(a)
  <2>1. PICK a : Chain(a, f, N)
    BY <1>2, ChainExists
  <2>2. \A n \in 0 .. N : a[n] = IF n = 0 THEN ScanState(f) ELSE PushLine(a[n - 1], hand.lines[n])
    <3> TAKE n \in 0 .. N
    <3>1. n = 0 \/ n \in 1 .. N
      BY <1>2
    <3>2. QED
      BY <2>1, <3>1 DEF Chain
  <2>3. a = [n \in 0 .. N |-> a[n]]
    BY <2>1 DEF Chain
  <2>4. Rec(a)
    BY <2>2, <2>3
  <2>5. QED
    BY <2>4
<1>4. Rec(after)
  BY <1>3
<1> HIDE DEF after
<1>5. Chain(after, f, N)
  <2>1. 0 \in 0 .. N /\ \A i \in 1 .. N : i \in 0 .. N /\ i # 0
    BY <1>2
  <2>2. \A n \in 0 .. N : after[n] = IF n = 0 THEN ScanState(f) ELSE PushLine(after[n - 1], hand.lines[n])
    BY <1>4
  <2>3. after = [i \in 0 .. N |-> after[i]]
    BY <1>4
  <2>4. QED
    BY <2>1, <2>2, <2>3 DEF Chain
<1>6. QED
  BY <1>1, <1>5 DEF N

LEMMA RangeOfContents ==
  ASSUME NEW s \in ScanStates, NEW t \in ScanStates, NEW l \in Lines, Contents(t) = Append(Contents(s), Place(l))
  PROVE  Range(Contents(t)) = Range(Contents(s)) \cup {Place(l)}
<1>1. Contents(s) \in Seq(Spots) /\ Place(l) \in Spots
  BY CoreIs, PlaceIsSpot DEF Located
<1>2. QED
  BY <1>1, RangeAppended

\* What n lines have made of the session of f.  A whole line leaves, or waits, unless the
\* client had quit; what leaves without the account is before the authentication line.
Authenticates(l) == l.whole /\ l.text.kind = "auth"
QuitBefore(n) == \E j \in 1 .. n - 1 : hand.lines[j].text.kind = "quit"
Unattributed(x, f, n) ==
  /\ ~f.tracker.authenticated
  /\ \/ Place(x) \in Range(Content(f))
     \/ \E m \in 1 .. n : /\ Place(x) = Place(hand.lines[m]) /\ hand.lines[m].whole
                          /\ \A j \in 1 .. m : ~Authenticates(hand.lines[j])

Ingested(f, n, s) ==
  /\ s \in ScanStates /\ s.tracker.row = f.tracker.row
  /\ Working(s.tracker) \/ (Over(s.tracker) /\ s.tracker.exit = "clean" /\ s.block = NoLine)
  /\ \A a \in Range(Contents(s)) :
       a \in Range(Content(f)) \/ \E m \in 1 .. n : hand.lines[m].whole /\ a = Place(hand.lines[m])
  /\ Range(Content(f)) \subseteq Range(Contents(s))
  /\ \A m \in 1 .. n : hand.lines[m].whole => Place(hand.lines[m]) \in Range(Contents(s)) \/ QuitBefore(m)
  /\ Over(s.tracker) => QuitBefore(n + 1)
  /\ \A x \in Range(s.out) : x.account \/ Unattributed(x, f, n)
  /\ Working(s.tracker) /\ ~s.tracker.authenticated =>
       ~f.tracker.authenticated /\ \A j \in 1 .. n : ~Authenticates(hand.lines[j])

LEMMA NothingIngested ==
  ASSUME NEW f, f.tracker \in Trackers, f.block \in Blocks, Working(f.tracker)
  PROVE  Ingested(f, 0, ScanState(f))
<1> DEFINE s == ScanState(f)
<1>1. /\ s \in ScanStates /\ s.tracker = f.tracker /\ s.block = f.block /\ s.out = <<>>
      /\ Range(s.out) = {}
  BY EmptySeq DEF ScanState, ScanStates, Range
<1>2. Content(f) = Contents(s)
  BY DEF Content
<1>3. ~Over(s.tracker)
  BY <1>1 DEF Over, Working
<1> HIDE DEF s
<1>4. Ingested(f, 0, s)
  BY <1>1, <1>2, <1>3 DEF Ingested
<1>5. QED
  BY <1>4 DEF s

LEMMA LineIngested ==
  ASSUME NEW f, hand.lines \in Seq(Lines), NEW n \in 1 .. Len(hand.lines), NEW s,
         Ingested(f, n - 1, s)
  PROVE  Ingested(f, n, PushLine(s, hand.lines[n]))
<1> DEFINE l == hand.lines[n]
           t == PushLine(s, l)
<1>1. l \in Lines /\ s \in ScanStates /\ n \in Nat /\ n - 1 \in Nat /\ (n - 1) + 1 = n
  BY DEF Ingested
<1>2. /\ \A m \in 1 .. n : m = n \/ m \in 1 .. n - 1
      /\ \A m \in 1 .. n - 1 : m \in 1 .. n
      /\ n \in 1 .. n
      /\ QuitBefore(n) => QuitBefore(n + 1)
      /\ l.text.kind = "quit" => QuitBefore(n + 1)
  BY <1>1 DEF QuitBefore
<1>3. \A x : Unattributed(x, f, n - 1) => Unattributed(x, f, n)
  BY <1>2 DEF Unattributed
<1>4. Working(s.tracker) => Live(s.tracker)
  BY DEF Working, Live
<1>5. Over(s.tracker) => ~Live(s.tracker) /\ QuitBefore(n)
  BY <1>1 DEF Over, Live, Ingested
<1>6. Working(s.tracker) \/ Over(s.tracker)
  BY DEF Ingested
<1>7. CASE Over(s.tracker)
  <2>1. t = s /\ QuitBefore(n) /\ ~Working(s.tracker)
    BY <1>1, <1>5, <1>7, PushLineIs DEF Live, Working
  <2> HIDE DEF t
  <2>2. \A m \in 1 .. n : hand.lines[m].whole => Place(hand.lines[m]) \in Range(Contents(s)) \/ QuitBefore(m)
    BY <1>2, <2>1 DEF Ingested
  <2>3. \A a \in Range(Contents(s)) :
       a \in Range(Content(f)) \/ \E m \in 1 .. n : hand.lines[m].whole /\ a = Place(hand.lines[m])
    BY <1>2 DEF Ingested
  <2>4. \A x \in Range(s.out) : x.account \/ Unattributed(x, f, n)
    BY <1>3 DEF Ingested
  <2>5. Ingested(f, n, s)
    BY <1>2, <2>1, <2>2, <2>3, <2>4 DEF Ingested
  <2>6. QED
    BY <2>1, <2>5 DEF t
<1>8. CASE Working(s.tracker) /\ ~l.whole
  <2>1. t = s /\ ~Authenticates(l) /\ ~Over(s.tracker)
    BY <1>1, <1>8, PushLineIs DEF Authenticates, Over, Working
  <2> HIDE DEF t
  <2>2. \A m \in 1 .. n : hand.lines[m].whole => Place(hand.lines[m]) \in Range(Contents(s)) \/ QuitBefore(m)
    BY <1>2, <1>8 DEF Ingested
  <2>3. \A a \in Range(Contents(s)) :
       a \in Range(Content(f)) \/ \E m \in 1 .. n : hand.lines[m].whole /\ a = Place(hand.lines[m])
    BY <1>2 DEF Ingested
  <2>4. \A x \in Range(s.out) : x.account \/ Unattributed(x, f, n)
    BY <1>3 DEF Ingested
  <2>5. ~s.tracker.authenticated => ~f.tracker.authenticated /\ \A j \in 1 .. n : ~Authenticates(hand.lines[j])
    BY <1>2, <1>8, <2>1 DEF Ingested
  <2>6. Ingested(f, n, s)
    BY <1>8, <2>1, <2>2, <2>3, <2>4, <2>5 DEF Ingested
  <2>7. QED
    BY <2>1, <2>6 DEF t
<1>9. CASE Working(s.tracker) /\ l.whole
  <2>1. Pushed(s, l, t)
    BY <1>1, <1>9, PushLineIs
  <2> HIDE DEF t
  <2>2. /\ t \in ScanStates /\ t.tracker.row = s.tracker.row
        /\ Contents(t) = Append(Contents(s), Place(l))
        /\ t.tracker.authenticated = (s.tracker.authenticated \/ l.text.kind = "auth")
    BY <2>1 DEF Pushed
  <2>3. IF l.text.kind = "quit" THEN Over(t.tracker) /\ t.tracker.exit = "clean" /\ t.block = NoLine
        ELSE Working(t.tracker)
    BY <2>1 DEF Pushed
  <2>4. Range(Contents(t)) = Range(Contents(s)) \cup {Place(l)}
    <3> HIDE DEF l
    <3>1. s \in ScanStates /\ t \in ScanStates /\ l \in Lines /\ Contents(t) = Append(Contents(s), Place(l))
      BY <1>1, <2>2
    <3>2. QED
      BY <3>1, RangeOfContents
  <2>5. ASSUME NEW x \in Range(t.out)
        PROVE  x.account \/ Unattributed(x, f, n)
    <3>1. \/ x \in Range(s.out) \/ x.account
          \/ ~s.tracker.authenticated /\ (l.text.kind = "auth" => Place(x) \in Range(Contents(s)))
      BY <2>1 DEF Pushed
    <3>2. CASE x \in Range(s.out)
      BY <1>3, <3>2 DEF Ingested
    <3>3. CASE ~s.tracker.authenticated /\ (l.text.kind = "auth" => Place(x) \in Range(Contents(s)))
      <4>1. ~f.tracker.authenticated /\ \A j \in 1 .. n - 1 : ~Authenticates(hand.lines[j])
        BY <1>9, <3>3 DEF Ingested
      <4>2. Place(x) \in Range(Contents(s)) \cup {Place(l)}
        BY <2>2, <2>4, StampsArePlaced
      <4>3. CASE Place(x) \in Range(Contents(s))
        <5>1. CASE Place(x) \in Range(Content(f))
          BY <4>1, <5>1 DEF Unattributed
        <5>2. CASE \E m \in 1 .. n - 1 : hand.lines[m].whole /\ Place(x) = Place(hand.lines[m])
          <6>1. PICK m \in 1 .. n - 1 : hand.lines[m].whole /\ Place(x) = Place(hand.lines[m])
            BY <5>2
          <6>2. m \in 1 .. n /\ \A j \in 1 .. m : j \in 1 .. n - 1
            BY <1>1
          <6>3. QED
            BY <4>1, <6>1, <6>2 DEF Unattributed
        <5>3. QED
          BY <4>3, <5>1, <5>2 DEF Ingested
      <4>4. CASE Place(x) = Place(l) /\ Place(x) \notin Range(Contents(s))
        <5>1. ~Authenticates(l)
          BY <3>3, <4>4 DEF Authenticates
        <5>2. \A j \in 1 .. n : ~Authenticates(hand.lines[j])
          BY <1>2, <4>1, <5>1
        <5>3. QED
          BY <1>2, <1>9, <4>1, <4>4, <5>2 DEF Unattributed
      <4>5. QED
        BY <4>2, <4>3, <4>4
    <3>4. QED
      BY <3>1, <3>2, <3>3
  <2>6. \A m \in 1 .. n : hand.lines[m].whole => Place(hand.lines[m]) \in Range(Contents(t)) \/ QuitBefore(m)
    BY <1>2, <2>4 DEF Ingested
  <2>7. \A a \in Range(Contents(t)) :
       a \in Range(Content(f)) \/ \E m \in 1 .. n : hand.lines[m].whole /\ a = Place(hand.lines[m])
    BY <1>2, <1>9, <2>4 DEF Ingested
  <2>8. Over(t.tracker) => QuitBefore(n + 1)
    <3>1. Working(t.tracker) => ~Over(t.tracker)
      BY DEF Working, Over
    <3>2. QED
      BY <1>2, <2>3, <3>1
  <2>9. Working(t.tracker) /\ ~t.tracker.authenticated =>
          ~f.tracker.authenticated /\ \A j \in 1 .. n : ~Authenticates(hand.lines[j])
    <3> SUFFICES ASSUME ~t.tracker.authenticated
                 PROVE  ~f.tracker.authenticated /\ \A j \in 1 .. n : ~Authenticates(hand.lines[j])
      OBVIOUS
    <3>1. ~s.tracker.authenticated /\ l.text.kind # "auth"
      <4>1. s.tracker.authenticated \in BOOLEAN
        BY <1>1, ScanFields
      <4>2. QED
        BY <2>2, <4>1
    <3>2. QED
      BY <1>2, <1>9, <3>1 DEF Ingested, Authenticates
  <2>10. /\ t.tracker.row = f.tracker.row /\ Range(Content(f)) \subseteq Range(Contents(t))
         /\ Working(t.tracker) \/ (Over(t.tracker) /\ t.tracker.exit = "clean" /\ t.block = NoLine)
    BY <2>2, <2>3, <2>4 DEF Ingested
  <2>11. Ingested(f, n, t)
    BY <2>2, <2>5, <2>6, <2>7, <2>8, <2>9, <2>10 DEF Ingested
  <2>12. QED
    BY <2>11 DEF t
<1>10. QED
  BY <1>6, <1>7, <1>8, <1>9

LEMMA LinesIngested ==
  ASSUME NEW f, f.tracker \in Trackers, f.tracker # NoTracker, f.block \in Blocks, Working(f.tracker),
         hand.lines \in Seq(Lines)
  PROVE  Ingested(f, Len(hand.lines), IngestLines(f))
<1> DEFINE N == Len(hand.lines)
<1>1. N \in Nat
  BY LenProperties
<1>2. PICK a : Chain(a, f, N) /\ IngestLines(f) = a[N]
  BY IngestIsChain
<1> HIDE DEF N
<1> DEFINE S == {n \in 0 .. N : Ingested(f, n, a[n])}
<1>3. 0 \in S
  <2>1. a[0] = ScanState(f) /\ 0 \in 0 .. N
    BY <1>1, <1>2 DEF Chain
  <2>2. QED
    BY <2>1, NothingIngested
<1>4. ASSUME NEW n \in 1 .. N, n - 1 \in S
      PROVE  n \in S
  <2>1. a[n] = PushLine(a[n - 1], hand.lines[n]) /\ n \in 0 .. N
    <3>1. \A i \in 1 .. N : a[i] = PushLine(a[i - 1], hand.lines[i])
      BY <1>2 DEF Chain
    <3>2. n \in 0 .. N
      BY <1>1
    <3>3. QED
      BY <3>1, <3>2
  <2>2. Ingested(f, n - 1, a[n - 1]) /\ n \in 1 .. Len(hand.lines)
    BY <1>4 DEF N
  <2>3. Ingested(f, n, a[n])
    BY <2>1, <2>2, LineIngested
  <2>4. QED
    BY <2>1, <2>3
<1> HIDE DEF S
<1>5. 0 .. N \subseteq S
  BY <1>1, <1>3, <1>4, Counting
<1>6. N \in 0 .. N
  BY <1>1
<1>7. Ingested(f, N, a[N])
  BY <1>5, <1>6 DEF S
<1>8. QED
  BY <1>2, <1>7 DEF N
-----------------------------------------------------------------------------
(* The files the watcher may come to have.                                 *)

LEMMA NoFileIs ==
  /\ NoFile \notin Files /\ NoFile.key = 0 /\ NoFile.run = 0 /\ NoFile.offset = 0 /\ NoFile.carry = NoLine
  /\ NoFile.block = NoLine /\ NoFile.tracker = NoTracker /\ NoFile.row = <<0, 0>>
  /\ NoFile.stale = FALSE /\ NoFile.primed = FALSE /\ NoFile.finished = FALSE
BY DEF NoFile, Files, Keys

LEMMA NoTrackerIs ==
  /\ NoTracker \notin Trackers /\ NoTracker.buffered = <<>> /\ NoTracker.exit = "none"
  /\ ~NoTracker.authenticated /\ ~Live(NoTracker)
BY DEF NoTracker, Trackers, Live

LEMMA FileFields ==
  ASSUME NEW f, Sound(f)
  PROVE  /\ f \in Files /\ f # NoFile
         /\ f.key \in Keys /\ f.run \in Keys /\ f.offset \in Nat /\ f.carry \in Halves /\ f.block \in Blocks
         /\ f.row \in Rows /\ f.stale \in BOOLEAN /\ f.primed \in BOOLEAN /\ f.finished \in BOOLEAN
         /\ f.tracker # NoTracker => f.tracker \in Trackers /\ f.tracker.row = f.row
         /\ f.tracker # NoTracker /\ ~f.finished => Working(f.tracker)
         /\ f.finished => f.tracker # NoTracker /\ Over(f.tracker)
         /\ f = [key |-> f.key, run |-> f.run, offset |-> f.offset, carry |-> f.carry, block |-> f.block,
                 tracker |-> f.tracker, row |-> f.row, stale |-> f.stale,
                 primed |-> f.primed, finished |-> f.finished]
<1>1. f \in Files /\ f # NoFile
  BY NoFileIs DEF Sound
<1>2. /\ f.key \in Keys /\ f.run \in Keys /\ f.offset \in Nat /\ f.carry \in Halves /\ f.block \in Blocks
      /\ f.row \in Rows /\ f.stale \in BOOLEAN /\ f.primed \in BOOLEAN /\ f.finished \in BOOLEAN
      /\ f.tracker \in Trackers \cup {NoTracker}
  BY <1>1 DEF Files
<1>3. f = [key |-> f.key, run |-> f.run, offset |-> f.offset, carry |-> f.carry, block |-> f.block,
           tracker |-> f.tracker, row |-> f.row, stale |-> f.stale,
           primed |-> f.primed, finished |-> f.finished]
  BY <1>1 DEF Files
<1>4. /\ f.tracker # NoTracker => f.tracker.row = f.row
      /\ f.tracker # NoTracker /\ ~f.finished => Working(f.tracker)
      /\ f.finished => f.tracker # NoTracker /\ Over(f.tracker)
  BY DEF Sound
<1>5. QED
  BY <1>1, <1>2, <1>3, <1>4

LEMMA LiveIsWatched ==
  ASSUME NEW f, Sound(f)
  PROVE  Live(f.tracker) <=> ~f.finished /\ f.tracker # NoTracker
BY FileFields, NoTrackerIs DEF Live, Working, Over

LEMMA DiskSize ==
  ASSUME DiskFits
  PROVE  /\ Size \in Nat /\ Len(disk.lines) \in Nat /\ disk.half \in BOOLEAN
         /\ Size = IF disk.half THEN 2 * Len(disk.lines) - 1 ELSE 2 * Len(disk.lines)
         /\ disk.half => Len(disk.lines) > 0
         /\ disk.run \in 0 .. MaxRuns /\ disk.key \in 0 .. MaxRuns
         /\ disk.run > 0 => disk.run \in Keys /\ disk.key \in Keys
<1>1. Len(disk.lines) \in Nat /\ disk.half \in BOOLEAN /\ disk.lines \in Seq(Texts)
      /\ disk.run \in 0 .. MaxRuns /\ disk.key \in 0 .. MaxRuns
  BY LenProperties DEF DiskFits
<1>2. disk.half => Len(disk.lines) > 0
  <2>1. disk.lines # <<>> => Len(disk.lines) # 0
    BY <1>1, EmptySeq
  <2>2. QED
    BY <1>1, <2>1 DEF DiskFits
<1>3. disk.run > 0 => disk.run \in Keys /\ disk.key \in Keys
  BY <1>1, Bounds DEF DiskFits, Keys
<1>4. QED
  BY <1>1, <1>2, <1>3 DEF Size

\* Everything of a file but its tracker.
SameFile(f, g) ==
  /\ g.key = f.key /\ g.run = f.run /\ g.offset = f.offset /\ g.carry = f.carry /\ g.block = f.block
  /\ g.row = f.row /\ g.stale = f.stale /\ g.primed = f.primed /\ g.finished = f.finished

\* A session that has just begun: in the middle of the file, with the head read, or not.
Begun(f, headRead) ==
  /\ f.tracker \in Trackers /\ f.tracker.row = f.row /\ f.tracker.buffered = <<>> /\ f.tracker.exit = "live"
  /\ f.tracker.authenticated <=> headRead /\ AuthInHead

LEMMA BegunWorks ==
  ASSUME NEW f, NEW h, Begun(f, h)
  PROVE  Working(f.tracker) /\ f.tracker # NoTracker
<1>1. Len(<<>>) = 0 /\ MaxBuffered > 0
  BY Bounds
<1>2. QED
  BY <1>1, NoTrackerIs DEF Begun, Working

LEMMA WakeIs ==
  ASSUME NEW f \in Files, NEW readable \in BOOLEAN
  PROVE  /\ Wake(f) \in Files /\ SameFile(f, Wake(f)) /\ Begun(Wake(f), FALSE)
         /\ AttributeFromHead(Wake(f), readable) \in Files /\ SameFile(f, AttributeFromHead(Wake(f), readable))
         /\ Begun(AttributeFromHead(Wake(f), readable), readable)
<1> DEFINE k == [row |-> f.row, authenticated |-> FALSE, buffered |-> <<>>, exit |-> "live"]
           w == [f EXCEPT !.tracker = k]
           g == [w EXCEPT !.tracker = [k EXCEPT !.authenticated = TRUE]]
<1>1. k \in Trackers /\ k.row = f.row /\ k.buffered = <<>> /\ k.exit = "live" /\ k.authenticated = FALSE
  <2>1. f.row \in Rows /\ <<>> \in Seq(Lines)
    BY DEF Files
  <2>2. QED
    BY <2>1 DEF Trackers
<1>2. LET m == [k EXCEPT !.authenticated = TRUE]
      IN m \in Trackers /\ m.row = f.row /\ m.buffered = <<>> /\ m.exit = "live" /\ m.authenticated = TRUE
  <2>1. f.row \in Rows /\ <<>> \in Seq(Lines)
    BY DEF Files
  <2>2. QED
    BY <2>1 DEF Trackers
<1> DEFINE m == [k EXCEPT !.authenticated = TRUE]
<1> HIDE DEF k, m
<1>3. w \in Files /\ SameFile(f, w) /\ w.tracker = k
  BY <1>1 DEF Files, SameFile
<1>4. g \in Files /\ SameFile(f, g) /\ g.tracker = m
  BY <1>1, <1>2 DEF Files, SameFile, m
<1>5. Wake(f) = w
  BY DEF Wake, k
<1>6. AttributeFromHead(Wake(f), readable) = IF readable /\ AuthInHead THEN g ELSE w
  <2>1. [w EXCEPT !.tracker.authenticated = TRUE] = g
    BY <1>3 DEF m
  <2> HIDE DEF g
  <2>2. QED
    BY <1>5, <2>1 DEF AttributeFromHead
<1> HIDE DEF w, g
<1>7. w.row = f.row /\ g.row = f.row
  BY <1>3, <1>4 DEF SameFile
<1>8. /\ Begun(w, FALSE)
      /\ readable /\ AuthInHead => Begun(g, readable)
      /\ ~(readable /\ AuthInHead) => Begun(w, readable)
  BY <1>1, <1>2, <1>3, <1>4, <1>7 DEF Begun, m
<1>9. QED
  BY <1>3, <1>4, <1>5, <1>6, <1>8

LEMMA AdoptedIs ==
  ASSUME DiskFits, StoreFits, old \in BOOLEAN, disk.run > 0, NEW readable \in BOOLEAN
  PROVE  /\ Sound(Adopted(readable)) /\ Adopted(readable).key = disk.key /\ Adopted(readable).run = disk.run /\ Adopted(readable).row = <<disk.key, 0>>
         /\ Adopted(readable).carry = NoLine /\ Adopted(readable).block = NoLine /\ ~Adopted(readable).finished
         /\ Adopted(readable).offset = IF stored[disk.key].run > 0 /\ stored[disk.key].pos <= Size THEN stored[disk.key].pos ELSE 0
         /\ Adopted(readable).offset <= Size
         /\ IF Adopted(readable).tracker = NoTracker THEN Adopted(readable).offset = Size
            ELSE Begun(Adopted(readable), Adopted(readable).offset > 0 /\ readable)
<1> DEFINE pos == stored[disk.key].pos
           resumable == stored[disk.key].run > 0 /\ pos <= Size
           start == IF resumable THEN pos ELSE 0
           fresh == [NoFile EXCEPT !.key = disk.key, !.run = disk.run, !.offset = start,
                                   !.row = <<disk.key, 0>>, !.stale = old]
           f == Adopted(readable)
<1>1. f = IF resumable /\ start >= Size THEN fresh
          ELSE IF start > 0 THEN AttributeFromHead(Wake(fresh), readable) ELSE Wake(fresh)
  BY DEF Adopted
<1>2. /\ disk.run \in Keys /\ disk.key \in Keys /\ Size \in Nat /\ pos \in Nat
      /\ MaxRuns \in Nat
  BY DiskSize, Bounds DEF StoreFits
<1>3. start \in Nat /\ start <= Size /\ start = (IF stored[disk.key].run > 0 /\ pos <= Size THEN pos ELSE 0)
      /\ (resumable /\ start >= Size => start = Size)
  BY <1>2
<1> HIDE DEF f, start
<1>4. /\ fresh \in Files /\ fresh.key = disk.key /\ fresh.run = disk.run /\ fresh.offset = start
      /\ fresh.row = <<disk.key, 0>> /\ fresh.carry = NoLine /\ fresh.block = NoLine /\ fresh.finished = FALSE
      /\ fresh.tracker = NoTracker
  <2>1. <<disk.key, 0>> \in Rows /\ NoLine \in Blocks /\ NoLine \in Halves
    BY <1>2 DEF Rows, Blocks, Halves
  <2>2. /\ fresh.key = disk.key /\ fresh.run = disk.run /\ fresh.offset = start
        /\ fresh.row = <<disk.key, 0>> /\ fresh.stale = old
        /\ fresh.carry = NoLine /\ fresh.block = NoLine /\ fresh.tracker = NoTracker
        /\ fresh.primed = FALSE /\ fresh.finished = FALSE
    BY DEF NoFile
  <2> DEFINE AnyFiles == [key : Nat, run : Nat, offset : Nat, carry : Halves, block : Blocks,
                          tracker : Trackers \cup {NoTracker}, row : Nat \X Nat, stale : BOOLEAN,
                          primed : BOOLEAN, finished : BOOLEAN]
  <2>3. NoFile \in AnyFiles
    BY <2>1 DEF NoFile
  <2>4. fresh \in AnyFiles
    <3> DEFINE a == [NoFile EXCEPT !.key = disk.key]
               b == [a EXCEPT !.run = disk.run]
               c == [b EXCEPT !.offset = start]
               d == [c EXCEPT !.row = <<disk.key, 0>>]
    <3>1. disk.key \in Nat /\ disk.run \in Nat /\ start \in Nat /\ <<disk.key, 0>> \in Nat \X Nat
      BY <1>2, <1>3 DEF Keys
    <3>2. fresh = [d EXCEPT !.stale = old]
      OBVIOUS
    <3>3. a \in AnyFiles
      BY <2>3, <3>1
    <3> HIDE DEF a
    <3>4. b \in AnyFiles
      BY <3>1, <3>3
    <3> HIDE DEF b
    <3>5. c \in AnyFiles
      BY <3>1, <3>4
    <3> HIDE DEF c
    <3>6. d \in AnyFiles
      BY <3>1, <3>5
    <3> HIDE DEF d
    <3>7. QED
      BY <3>2, <3>6
  <2> HIDE DEF fresh
  <2>5. QED
    BY <1>2, <1>3, <2>1, <2>2, <2>4 DEF Files
<1> HIDE DEF fresh
<1>5. /\ f \in Files /\ SameFile(fresh, f)
      /\ IF f.tracker = NoTracker THEN resumable /\ start >= Size ELSE Begun(f, start > 0 /\ readable)
  <2>1. CASE resumable /\ start >= Size
    BY <1>1, <1>4, <2>1 DEF SameFile
  <2>2. CASE ~(resumable /\ start >= Size) /\ start > 0
    <3>1. f = AttributeFromHead(Wake(fresh), readable)
      BY <1>1, <2>2
    <3>2. f \in Files /\ SameFile(fresh, f) /\ Begun(f, readable)
      BY <1>4, <3>1, WakeIs
    <3>3. QED
      BY <2>2, <3>2, BegunWorks DEF Begun
  <2>3. CASE ~(resumable /\ start >= Size) /\ ~(start > 0)
    <3>1. f = Wake(fresh)
      BY <1>1, <2>3
    <3>2. f \in Files /\ SameFile(fresh, f) /\ Begun(f, FALSE)
      BY <1>4, <3>1, WakeIs
    <3>3. QED
      BY <2>3, <3>2, BegunWorks DEF Begun
  <2>4. QED
    BY <2>1, <2>2, <2>3
<1>6. /\ f.key = disk.key /\ f.run = disk.run /\ f.row = <<disk.key, 0>> /\ f.offset = start
      /\ f.carry = NoLine /\ f.block = NoLine /\ f.finished = FALSE
  BY <1>4, <1>5 DEF SameFile
<1>7. /\ f.tracker # NoTracker => Working(f.tracker) /\ f.tracker.row = f.row
  BY <1>5, BegunWorks DEF Begun
<1>8. f.row[1] = f.key /\ f.row[2] <= f.run
  BY <1>2, <1>6 DEF Keys
<1>9. Sound(f)
  BY <1>5, <1>6, <1>7, <1>8 DEF Sound
<1>10. QED
  BY <1>3, <1>5, <1>6, <1>9 DEF f

\* What a scan does when the head of the file can be read, or cannot.
Replaced == file # NoFile /\ ~file.finished /\ file.tracker # NoTracker
AdoptedWith(readable) ==
  /\ bus' = IF Replaced THEN bus \o Finish(file, "crash").out ELSE bus
  /\ exits' = IF Replaced
              THEN [ExitsWith(Adopted(readable)) EXCEPT ![file.tracker.row] = Finish(file, "crash").tracker.exit]
              ELSE ExitsWith(Adopted(readable))
  /\ file' = Adopted(readable)
  /\ excuse' = excuse
       \cup (IF Overgrown(stored[disk.key].run, stored[disk.key].pos) THEN {"overgrown"} ELSE {})
       \cup (IF Adopted(readable).tracker # NoTracker /\ Headless((Adopted(readable).offset + 1) \div 2, readable)
             THEN {"headless"} ELSE {})

\* Whether this scan could read it, and the file it has then.
HeadSeen == AdoptedWith(TRUE)
Taken == Adopted(HeadSeen)

LEMMA HeadSeenIs == HeadSeen \in BOOLEAN
BY DEF HeadSeen, AdoptedWith

LEMMA ScanSteps ==
  ASSUME Scan
  PROVE  /\ AdoptedWith(HeadSeen) /\ HeadSeen \in BOOLEAN
         /\ status = "up" /\ hand = NoHand /\ disk.run > 0
         /\ file = NoFile \/ file.key # disk.key
         /\ UNCHANGED <<disk, old, stored, db, status, starts, hand, flushed>>
<1>1. \E readable \in BOOLEAN : AdoptedWith(readable)
  BY DEF Scan, AdoptedWith, Replaced
<1>2. CASE AdoptedWith(TRUE)
  <2>1. HeadSeen = TRUE
    BY <1>2 DEF HeadSeen
  <2>2. QED
    BY <1>2, <2>1 DEF Scan
<1>3. CASE ~AdoptedWith(TRUE)
  <2>1. HeadSeen = FALSE
    BY <1>3, HeadSeenIs DEF HeadSeen
  <2>2. AdoptedWith(FALSE)
    BY <1>1, <1>3
  <2>3. QED
    BY <2>1, <2>2 DEF Scan
<1>4. QED
  BY <1>2, <1>3

LEMMA TakenIs ==
  ASSUME DiskFits, StoreFits, old \in BOOLEAN, disk.run > 0
  PROVE  /\ Sound(Taken) /\ Taken.key = disk.key /\ Taken.run = disk.run /\ Taken.row = <<disk.key, 0>>
         /\ Taken.carry = NoLine /\ Taken.block = NoLine /\ ~Taken.finished
         /\ Taken.offset = IF stored[disk.key].run > 0 /\ stored[disk.key].pos <= Size THEN stored[disk.key].pos ELSE 0
         /\ Taken.offset <= Size
         /\ IF Taken.tracker = NoTracker THEN Taken.offset = Size
            ELSE Begun(Taken, Taken.offset > 0 /\ HeadSeen)
BY AdoptedIs, HeadSeenIs DEF Taken

LEMMA NoContent ==
  ASSUME NEW f, f.tracker.buffered = <<>>, f.block = NoLine
  PROVE  Content(f) = <<>>
<1>1. Content(f) = Places(<<>>) \o Places(<<>>)
  BY DEF Content, Contents, Core, ScanState
<1>2. <<>> \o <<>> = <<>>
  BY ConcatEmptySeq
<1>3. QED
  BY <1>1, <1>2, PlacesOfNone

\* A session at work is one the scanner goes on with.
LEMMA ScanStateIs ==
  ASSUME NEW f, Sound(f), f.tracker # NoTracker
  PROVE  /\ ScanState(f) \in ScanStates /\ ScanState(f).tracker = f.tracker
         /\ ScanState(f).block = f.block /\ ScanState(f).out = <<>>
         /\ Content(f) \in Seq(Spots)
<1>1. f.tracker \in Trackers /\ f.block \in Blocks /\ <<>> \in Seq(Stamps)
  BY FileFields
<1>2. ScanState(f) \in ScanStates
  BY <1>1 DEF ScanState, ScanStates
<1>3. QED
  BY <1>2, CoreIs DEF ScanState, Content

LEMMA ContentTyped ==
  ASSUME NEW f, Sound(f) \/ f = NoFile
  PROVE  Content(f) \in Seq(Spots) /\ (f = NoFile => Content(f) = <<>>)
<1>1. CASE Sound(f) /\ f.tracker # NoTracker
  BY <1>1, ScanStateIs, FileFields
<1>2. CASE Sound(f) /\ f.tracker = NoTracker
  <2>1. f.tracker.buffered = <<>> /\ f.block = NoLine
    BY <1>2, NoTrackerIs DEF Sound
  <2>2. Content(f) = <<>>
    BY <2>1, NoContent
  <2>3. QED
    BY <2>2
<1>3. CASE f = NoFile
  <2>1. f.tracker.buffered = <<>> /\ f.block = NoLine
    BY <1>3, NoTrackerIs, NoFileIs
  <2>2. Content(f) = <<>>
    BY <2>1, NoContent
  <2>3. QED
    BY <2>2
<1>4. QED
  BY <1>1, <1>2, <1>3

LEMMA TruncatedIs ==
  ASSUME NEW f, Sound(f)
  PROVE  LET t == Truncated(f)
         IN /\ Sound(t) /\ t.key = f.key /\ t.run = f.run /\ t.offset = f.offset /\ t.stale = f.stale
            /\ t.row = <<f.key, f.run>> /\ t.tracker = NoTracker /\ t.block = NoLine
            /\ ~t.finished /\ ~t.primed
            /\ t.carry = IF f.tracker = NoTracker THEN f.carry ELSE NoLine
<1> DEFINE c == IF f.tracker = NoTracker THEN f.carry ELSE NoLine
           t == Truncated(f)
<1>1. /\ f \in Files /\ f.key \in Keys /\ f.run \in Keys /\ c \in Halves /\ <<f.key, f.run>> \in Rows
      /\ NoLine \in Blocks
  <2>1. f.run \in 0 .. MaxRuns
    BY FileFields, Bounds DEF Keys
  <2>2. QED
    BY <2>1, FileFields DEF Halves, Rows, Blocks
<1>2. t = [f EXCEPT !.tracker = NoTracker, !.block = NoLine, !.row = <<f.key, f.run>>, !.carry = c,
                    !.finished = FALSE, !.primed = FALSE]
  BY DEF Truncated
<1> HIDE DEF t, c
<1>3. t \in Files
  BY <1>1, <1>2 DEF Files
<1>4. /\ t.key = f.key /\ t.run = f.run /\ t.offset = f.offset /\ t.stale = f.stale
      /\ t.row = <<f.key, f.run>> /\ t.tracker = NoTracker /\ t.block = NoLine
      /\ t.finished = FALSE /\ t.primed = FALSE /\ t.carry = c
  BY <1>1, <1>2 DEF Files
<1>5. t.row[1] = t.key /\ t.row[2] <= t.run
  BY <1>1, <1>4 DEF Keys
<1>6. Sound(t)
  BY <1>3, <1>4, <1>5 DEF Sound
<1>7. QED
  BY <1>4, <1>6 DEF t, c

LEMMA WokenIs ==
  ASSUME NEW f, Sound(f), ~f.finished, NEW readable \in BOOLEAN
  PROVE  /\ Sound(Woken(f, readable)) /\ SameFile(f, Woken(f, readable))
         /\ hand.lines = <<>> \/ f.tracker # NoTracker => Woken(f, readable) = f
         /\ hand.lines # <<>> /\ f.tracker = NoTracker =>
              Begun(Woken(f, readable), hand.resumed /\ ~hand.truncated /\ readable) /\ Content(Woken(f, readable)) = <<>>
<1>1. CASE hand.lines = <<>> \/ f.tracker # NoTracker
  BY <1>1 DEF Woken, SameFile
<1>2. CASE hand.lines # <<>> /\ f.tracker = NoTracker
  <2> DEFINE w == Woken(f, readable)
  <2>1. w = IF hand.resumed /\ ~hand.truncated THEN AttributeFromHead(Wake(f), readable) ELSE Wake(f)
    BY <1>2 DEF Woken
  <2>2. f \in Files
    BY FileFields
  <2> HIDE DEF w
  <2>3. w \in Files /\ SameFile(f, w) /\ Begun(w, hand.resumed /\ ~hand.truncated /\ readable)
    <3>1. CASE hand.resumed /\ ~hand.truncated
      <4>1. w = AttributeFromHead(Wake(f), readable)
        BY <2>1, <3>1
      <4>2. w \in Files /\ SameFile(f, w) /\ Begun(w, readable)
        BY <2>2, <4>1, WakeIs
      <4>3. QED
        BY <3>1, <4>2 DEF Begun
    <3>2. CASE ~(hand.resumed /\ ~hand.truncated)
      <4>1. w = Wake(f)
        BY <2>1, <3>2
      <4>2. w \in Files /\ SameFile(f, w) /\ Begun(w, FALSE)
        BY <2>2, <4>1, WakeIs
      <4>3. QED
        BY <3>2, <4>2 DEF Begun
    <3>3. QED
      BY <3>1, <3>2
  <2>4. Working(w.tracker) /\ w.tracker # NoTracker
    BY <2>3, BegunWorks
  <2>5. w.tracker.row = w.row /\ w.tracker.buffered = <<>>
    BY <2>3 DEF Begun
  <2>6. w.block = NoLine
    BY <1>2, <2>3 DEF Sound, SameFile
  <2>7. Sound(w)
    BY <2>3, <2>4, <2>5 DEF Sound, SameFile
  <2>8. Content(w) = <<>>
    BY <2>5, <2>6, NoContent
  <2>9. QED
    BY <1>2, <2>3, <2>7, <2>8 DEF w
<1>3. QED
  BY <1>1, <1>2

\* Why an event of a session that ends is not attributed.
Late(f, x) ==
  /\ ~f.tracker.authenticated
  /\ f.carry = NoLine \/ f.carry.text.kind = "auth" => Place(x) \in Range(Content(f))

LEMMA SessionEnds ==
  ASSUME NEW f, Sound(f), ~f.finished, f.tracker # NoTracker
  PROVE  LET s == Finish(f, "crash")
         IN /\ s.out \in Seq(Stamps) /\ s.tracker.exit \in {"clean", "crash"}
            /\ Places(s.out) = Ending(f)
            /\ \A x \in Range(s.out) : x.account \/ Late(f, x)
            /\ Sound(Finished(f, s)) /\ Finished(f, s).key = f.key /\ Finished(f, s).run = f.run
            /\ Finished(f, s).offset = f.offset /\ Finished(f, s).row = f.row
            /\ Finished(f, s).carry = NoLine /\ Finished(f, s).finished
            /\ Finished(f, s).tracker.row = f.row /\ Content(Finished(f, s)) = <<>>
<1> DEFINE s == Finish(f, "crash")
           g == Finished(f, s)
<1>1. /\ f \in Files /\ f.tracker \in Trackers /\ f.block \in Blocks /\ f.carry \in Halves /\ Working(f.tracker)
      /\ f.tracker.row = f.row
  BY FileFields
<1>2. /\ s \in ScanStates /\ s.block = NoLine /\ s.tracker.row = f.row /\ Over(s.tracker)
      /\ Places(s.out) = Ending(f)
      /\ \A x \in Range(s.out) : x.account \/ Late(f, x)
  BY <1>1, FinishIs DEF Late, Content
<1> HIDE DEF s
<1>3. s.out \in Seq(Stamps) /\ s.tracker \in Trackers /\ s.tracker # NoTracker
  BY <1>2, ScanFields, NoTrackerIs
<1>4. /\ g \in Files /\ g.key = f.key /\ g.run = f.run /\ g.offset = f.offset /\ g.row = f.row
      /\ g.carry = NoLine /\ g.finished /\ g.tracker = s.tracker /\ g.block = NoLine
  BY <1>1, <1>2, <1>3, NoLineIs DEF Files, Finished, Halves
<1> HIDE DEF g
<1>5. Sound(g)
  BY <1>2, <1>3, <1>4 DEF Sound
<1>6. Content(g) = <<>>
  <2>1. g.tracker.buffered = <<>>
    BY <1>2, <1>4 DEF Over
  <2>2. QED
    BY <1>4, <2>1, NoContent
<1>7. QED
  BY <1>2, <1>3, <1>4, <1>5, <1>6 DEF s, g, Over

LEMMA ReapedIs ==
  ASSUME NEW f, Sound(f)
  PROVE  LET r == Reaped(f)
         IN /\ Sound(r.file) /\ r.out \in Seq(Stamps)
            /\ r.file.key = f.key /\ r.file.run = f.run /\ r.file.offset = f.offset /\ r.file.row = f.row
            /\ f.tracker # NoTracker => r.file.tracker # NoTracker
            /\ \/ r.file = f /\ r.out = <<>>
               \/ /\ Live(f.tracker) /\ ~f.finished /\ f.tracker # NoTracker
                  /\ r.file.finished /\ r.file.carry = NoLine /\ Content(r.file) = <<>>
                  /\ Places(r.out) = Ending(f)
                  /\ \A x \in Range(r.out) : x.account \/ Late(f, x)
<1> DEFINE s == Finish(f, "crash")
           r == Reaped(f)
<1>1. CASE f.stale /\ Live(f.tracker) /\ ~f.finished
  <2>1. r = [file |-> Finished(f, s), out |-> s.out]
    BY <1>1 DEF Reaped
  <2>2. f.tracker # NoTracker
    BY <1>1, NoTrackerIs
  <2>3. r.file = Finished(f, s) /\ r.out = s.out
    BY <2>1
  <2>4. /\ s.out \in Seq(Stamps) /\ Places(s.out) = Ending(f)
        /\ \A x \in Range(s.out) : x.account \/ Late(f, x)
        /\ Sound(Finished(f, s)) /\ Finished(f, s).key = f.key /\ Finished(f, s).run = f.run
        /\ Finished(f, s).offset = f.offset /\ Finished(f, s).row = f.row
        /\ Finished(f, s).carry = NoLine /\ Finished(f, s).finished
        /\ Content(Finished(f, s)) = <<>>
    BY <1>1, <2>2, SessionEnds
  <2> HIDE DEF r, s
  <2>5. r.file.tracker # NoTracker
    BY <2>3, <2>4, FileFields
  <2>6. QED
    BY <1>1, <2>2, <2>3, <2>4, <2>5 DEF r
<1>2. CASE ~(f.stale /\ Live(f.tracker) /\ ~f.finished)
  <2>1. r = [file |-> f, out |-> <<>>]
    BY <1>2 DEF Reaped
  <2>2. r.file = f /\ r.out = <<>> /\ <<>> \in Seq(Stamps)
    BY <2>1
  <2>3. QED
    BY <2>2
<1>3. QED
  BY <1>1, <1>2
-----------------------------------------------------------------------------
(* What is left of a read, step by step.                                   *)

Source == IF hand.truncated THEN Truncated(file) ELSE file
Ends == hand.truncated /\ file.tracker # NoTracker
Last == Finish(file, "crash")
WhenSettled(woken, s) ==
  [woken EXCEPT !.tracker = s.tracker, !.block = s.block,
                !.finished = (s.tracker.exit = "clean"),
                !.stale = (@ /\ ~(hand.grew /\ woken.primed)), !.primed = TRUE]
AllSent(s, reaped) == (IF Ends THEN Last.out ELSE <<>>) \o s.out \o reaped.out
FirstPast == hand.lines[1].line - (IF hand.lines[1].whole THEN 1 ELSE 0)

\* What poll() writes once the file and the events it makes of the read are known.
Written(readable, reaped, out) ==
  /\ file' = reaped.file
  /\ bus' = bus \o out
  /\ exits' = IF Ends THEN [ExitsWith(reaped.file) EXCEPT ![file.tracker.row] = Last.tracker.exit]
              ELSE ExitsWith(reaped.file)
  /\ stored' = [stored EXCEPT ![file.key] =
       [run |-> file.run,
        pos |-> IF hand.truncated THEN file.offset ELSE Most(@.pos, file.offset)]]
  /\ excuse' = excuse \cup (IF Ends /\ file.carry # NoLine THEN {"cut"} ELSE {})
       \cup (IF ~hand.truncated /\ stored[file.key].pos > file.offset THEN {"pinned"} ELSE {})
       \cup (IF status = "stopping" /\ out # <<>> THEN {"held"} ELSE {})
       \cup (IF hand.lines # <<>> /\ file.tracker = NoTracker /\ Headless(FirstPast, readable)
             THEN {"headless"} ELSE {})

WorkedOff(readable) ==
  \E woken \in {Woken(Source, readable)} : \E s \in {IngestLines(woken)} :
  \E reaped \in {Reaped(WhenSettled(woken, s))} : \E out \in {AllSent(s, reaped)} :
    Written(readable, reaped, out)

\* Whether poll() could read the head of the file, in the step that works off its read.
HeadRead == WorkedOff(TRUE)
Roused == Woken(Source, HeadRead)
Scanned == IngestLines(Roused)
Settled == WhenSettled(Roused, Scanned)
Result == Reaped(Settled)
Sent == AllSent(Scanned, Result)

LEMMA HeadReadIs == HeadRead \in BOOLEAN
BY DEF HeadRead, WorkedOff

LEMMA IngestSteps ==
  ASSUME IngestRead
  PROVE  /\ hand.read /\ hand' = NoHand /\ Written(HeadRead, Result, Sent)
         /\ UNCHANGED <<disk, old, db, status, starts, flushed>>
<1>1. WorkedOff(HeadRead)
  <2>1. \E readable \in BOOLEAN : WorkedOff(readable)
    BY DEF IngestRead, WorkedOff, Written, WhenSettled, AllSent, Source, Ends, Last, FirstPast
  <2>2. CASE WorkedOff(TRUE)
    <3>1. HeadRead = TRUE
      BY <2>2 DEF HeadRead
    <3>2. QED
      BY <2>2, <3>1
  <2>3. CASE ~WorkedOff(TRUE)
    <3>1. HeadRead = FALSE
      BY <2>3, HeadReadIs DEF HeadRead
    <3>2. WorkedOff(FALSE)
      BY <2>1, <2>3
    <3>3. QED
      BY <3>1, <3>2
  <2>4. QED
    BY <2>2, <2>3
<1>2. Written(HeadRead, Result, Sent)
  BY <1>1, Zenon DEF WorkedOff, Roused, Scanned, Settled, Result, Sent
<1>3. /\ hand.read /\ hand' = NoHand
      /\ UNCHANGED <<disk, old, db, status, starts, flushed>>
  BY DEF IngestRead
<1>4. QED
  BY <1>2, <1>3

LEMMA ContentSplits ==
  ASSUME NEW s \in ScanStates, NEW g, g.tracker = s.tracker, g.block = s.block
  PROVE  Contents(s) = Places(s.out) \o Content(g)
<1> DEFINE p == Places(s.out)
           b == Places(s.tracker.buffered)
<1>1. p \in Seq(Spots) /\ b \in Seq(Spots)
  BY ScanFields, PlacesOf
<1>2. Places(<<>>) \o b = b
  BY <1>1, PlacesOfNone, ConcatEmptySeq
<1>3. Content(g) = IF s.block = NoLine THEN b ELSE Append(b, Place(s.block))
  BY <1>2 DEF Content, Contents, Core, ScanState
<1>4. Contents(s) = IF s.block = NoLine THEN p \o b ELSE Append(p \o b, Place(s.block))
  BY DEF Contents, Core
<1>5. s.block # NoLine => Place(s.block) \in Spots
  BY ScanFields, NoLineIs, PlaceIsSpot DEF Located
<1> HIDE DEF p, b
<1>6. s.block # NoLine => p \o Append(b, Place(s.block)) = Append(p \o b, Place(s.block))
  BY <1>1, <1>5, AppendedLater
<1>7. QED
  BY <1>3, <1>4, <1>6 DEF p

LEMMA SourceIs ==
  ASSUME LogTyped, hand.read
  PROVE  /\ Sound(file) /\ ~file.finished /\ file # NoFile
         /\ Sound(Source) /\ Source.key = file.key /\ Source.run = file.run /\ Source.offset = file.offset
         /\ ~Source.finished
         /\ ~hand.truncated => Source = file
         /\ hand.truncated => /\ Source.tracker = NoTracker /\ Source.row = <<file.key, file.run>>
                              /\ Source.row # file.row /\ Content(Source) = <<>>
                              /\ Source.carry = IF Ends THEN NoLine ELSE file.carry
<1>1. /\ Sound(file) /\ ~file.finished /\ file # NoFile
      /\ hand.truncated => file.row[2] < file.run
  BY DEF LogTyped, DaemonFits, Watching
<1>2. hand.truncated \in BOOLEAN
  BY DEF LogTyped, DaemonFits, Hands
<1>3. CASE hand.truncated
  <2> DEFINE t == Truncated(file)
  <2>1. /\ Sound(t) /\ t.key = file.key /\ t.run = file.run /\ t.offset = file.offset
        /\ t.row = <<file.key, file.run>> /\ t.tracker = NoTracker /\ t.block = NoLine
        /\ ~t.finished
        /\ t.carry = IF file.tracker = NoTracker THEN file.carry ELSE NoLine
    BY <1>1, TruncatedIs
  <2>2. Source = t
    BY <1>3 DEF Source
  <2> HIDE DEF t
  <2>3. t.tracker.buffered = <<>>
    BY <2>1, NoTrackerIs
  <2>4. Content(t) = <<>>
    BY <2>1, <2>3, NoContent
  <2>5. t.row # file.row
    <3>1. t.row[2] = file.run /\ file.run \in Keys
      BY <1>1, <2>1, FileFields
    <3>2. file.row[2] < file.run
      BY <1>1, <1>3
    <3>3. file.row \in Rows
      BY <1>1, FileFields
    <3>4. file.row[2] # file.run
      BY <3>1, <3>2, <3>3 DEF Keys, Rows
    <3>5. QED
      BY <3>1, <3>4
  <2>6. QED
    BY <1>1, <1>3, <2>1, <2>2, <2>4, <2>5 DEF Ends
<1>4. CASE ~hand.truncated
  <2>1. Source = file
    BY <1>4 DEF Source
  <2>2. QED
    BY <1>1, <1>4, <2>1
<1>5. QED
  BY <1>3, <1>4

LEMMA SettledIs ==
  ASSUME LogTyped, hand.read
  PROVE  /\ Sound(Roused) /\ ~Roused.finished /\ SameFile(Source, Roused)
         /\ Roused.tracker = NoTracker => hand.lines = <<>> /\ Scanned = ScanState(Roused)
         /\ Roused.tracker # NoTracker => Ingested(Roused, Len(hand.lines), Scanned)
         /\ Sound(Settled) /\ Settled.key = file.key /\ Settled.run = file.run /\ Settled.offset = file.offset
         /\ Settled.carry = Source.carry /\ Settled.row = Source.row
         /\ Settled.tracker = Scanned.tracker /\ Settled.block = Scanned.block
         /\ Settled.finished <=> Over(Scanned.tracker)
         /\ Scanned.out \in Seq(Stamps) /\ Contents(Scanned) = Places(Scanned.out) \o Content(Settled)
<1>1. Sound(Source) /\ ~Source.finished /\ hand.lines \in Seq(Lines)
  BY SourceIs DEF LogTyped, DaemonFits, Hands
<1>2. /\ Sound(Roused) /\ SameFile(Source, Roused)
      /\ hand.lines = <<>> \/ Source.tracker # NoTracker => Roused = Source
      /\ hand.lines # <<>> /\ Source.tracker = NoTracker => Begun(Roused, hand.resumed /\ ~hand.truncated /\ HeadRead)
  BY <1>1, WokenIs, HeadReadIs DEF Roused
<1>3. Roused.tracker = NoTracker => hand.lines = <<>>
  <2> SUFFICES ASSUME Roused.tracker = NoTracker, hand.lines # <<>>
               PROVE  FALSE
    OBVIOUS
  <2>1. CASE Source.tracker # NoTracker
    BY <1>2, <2>1
  <2>2. CASE Source.tracker = NoTracker
    BY <1>2, <2>2, BegunWorks
  <2>3. QED
    BY <2>1, <2>2
<1>4. ~Roused.finished
  BY <1>1, <1>2 DEF SameFile
<1>5. Roused.tracker = NoTracker => Scanned = ScanState(Roused)
  BY DEF Scanned, IngestLines
<1>6. Roused.tracker # NoTracker => Ingested(Roused, Len(hand.lines), Scanned)
  <2> SUFFICES ASSUME Roused.tracker # NoTracker
               PROVE  Ingested(Roused, Len(hand.lines), Scanned)
    OBVIOUS
  <2>1. Roused.tracker \in Trackers /\ Roused.block \in Blocks /\ Working(Roused.tracker)
    BY <1>2, <1>4, FileFields
  <2>2. QED
    BY <1>1, <2>1, LinesIngested DEF Scanned
<1>7. /\ Scanned.tracker \in Trackers \cup {NoTracker} /\ Scanned.block \in Blocks /\ Scanned.out \in Seq(Stamps)
      /\ Scanned.tracker # NoTracker => /\ Scanned \in ScanStates /\ Scanned.tracker.row = Roused.row
                                        /\ \/ Working(Scanned.tracker)
                                           \/ Over(Scanned.tracker) /\ Scanned.tracker.exit = "clean" /\ Scanned.block = NoLine
      /\ Scanned.tracker = NoTracker => Scanned.block = NoLine /\ Scanned.out = <<>>
  <2>1. CASE Roused.tracker = NoTracker
    <3>1. Scanned.tracker = NoTracker /\ Scanned.block = NoLine /\ Scanned.out = <<>>
      BY <1>2, <1>5, <2>1 DEF ScanState, Sound
    <3>2. QED
      BY <3>1, NoLineIs
  <2>2. CASE Roused.tracker # NoTracker
    <3>1. /\ Scanned \in ScanStates /\ Scanned.tracker.row = Roused.row
          /\ \/ Working(Scanned.tracker)
             \/ Over(Scanned.tracker) /\ Scanned.tracker.exit = "clean" /\ Scanned.block = NoLine
      BY <1>2, <1>6, <2>2, FileFields DEF Ingested
    <3>2. Scanned.tracker # NoTracker
      BY <3>1, ScanFields, NoTrackerIs
    <3>3. QED
      BY <3>1, <3>2, ScanFields
  <2>3. QED
    BY <2>1, <2>2
<1> DEFINE fin == Scanned.tracker.exit = "clean"
           st == Roused.stale /\ ~(hand.grew /\ Roused.primed)
<1>8. Settled = [Roused EXCEPT !.tracker = Scanned.tracker, !.block = Scanned.block, !.finished = fin,
                               !.stale = st, !.primed = TRUE]
  BY DEF Settled, WhenSettled
<1>9. fin \in BOOLEAN /\ st \in BOOLEAN /\ Roused \in Files
  BY <1>2, FileFields
<1>10. fin <=> Over(Scanned.tracker)
  <2>1. CASE Scanned.tracker = NoTracker
    BY <2>1, NoTrackerIs DEF Over
  <2>2. CASE Scanned.tracker # NoTracker
    BY <1>7, <2>2 DEF Over, Working
  <2>3. QED
    BY <2>1, <2>2
<1> HIDE DEF fin, st
<1>11. /\ Settled \in Files /\ Settled.key = Roused.key /\ Settled.run = Roused.run
       /\ Settled.offset = Roused.offset /\ Settled.carry = Roused.carry /\ Settled.row = Roused.row
       /\ Settled.tracker = Scanned.tracker /\ Settled.block = Scanned.block /\ Settled.finished = fin
  BY <1>7, <1>8, <1>9 DEF Files
<1>12. Roused.row[1] = Roused.key /\ Roused.row[2] <= Roused.run
  BY <1>2 DEF Sound
<1>13. Sound(Settled)
  <2>1. Settled.tracker # NoTracker => Settled.tracker.row = Settled.row
    BY <1>7, <1>11
  <2>2. CASE fin
    <3>1. Settled.tracker # NoTracker /\ Over(Settled.tracker) /\ Settled.block = NoLine
      BY <1>7, <1>10, <1>11, <2>2, NoTrackerIs DEF Over, Working
    <3>2. QED
      BY <1>11, <1>12, <2>1, <2>2, <3>1 DEF Sound
  <2>3. CASE ~fin
    <3>1. Settled.tracker # NoTracker => Working(Settled.tracker)
      BY <1>7, <1>10, <1>11, <2>3
    <3>2. Settled.tracker = NoTracker => Settled.block = NoLine
      BY <1>7, <1>11
    <3>3. QED
      BY <1>11, <1>12, <2>1, <2>3, <3>1, <3>2 DEF Sound
  <2>4. QED
    BY <2>2, <2>3
<1>14. Contents(Scanned) = Places(Scanned.out) \o Content(Settled)
  <2>1. CASE Scanned.tracker # NoTracker
    BY <1>7, <1>11, <2>1, ContentSplits
  <2>2. CASE Scanned.tracker = NoTracker
    <3>1. Contents(Scanned) = Places(<<>>) \o Places(<<>>)
      BY <1>7, <2>2, NoTrackerIs DEF Contents, Core
    <3>2. Content(Settled) = <<>>
      BY <1>7, <1>11, <2>2, NoTrackerIs, NoContent
    <3>3. QED
      BY <1>7, <2>2, <3>1, <3>2, PlacesOfNone
  <2>3. QED
    BY <2>1, <2>2
<1>15. QED
  BY <1>2, <1>3, <1>4, <1>5, <1>6, <1>7, <1>10, <1>11, <1>13, <1>14, SourceIs DEF SameFile

LEMMA SentIs ==
  ASSUME LogTyped, hand.read
  PROVE  /\ Sent \in Seq(Stamps) /\ Result.out \in Seq(Stamps)
         /\ Ends => /\ Last.out \in Seq(Stamps) /\ Last.tracker.exit \in {"clean", "crash"}
                    /\ Places(Last.out) = Ending(file) /\ \A x \in Range(Last.out) : x.account \/ Late(file, x)
         /\ Sound(Result.file) /\ Result.file.key = file.key /\ Result.file.run = file.run
         /\ Result.file.offset = file.offset /\ Result.file.row = Source.row
         /\ Source.tracker # NoTracker => Result.file.tracker # NoTracker
<1>1. /\ Sound(file) /\ ~file.finished
  BY SourceIs
<1>2. Sound(Settled) /\ Scanned.out \in Seq(Stamps) /\ Settled.key = file.key /\ Settled.run = file.run
      /\ Settled.offset = file.offset /\ Settled.row = Source.row
  BY SettledIs
<1>3. /\ Sound(Result.file) /\ Result.out \in Seq(Stamps)
      /\ Result.file.key = Settled.key /\ Result.file.run = Settled.run /\ Result.file.offset = Settled.offset
      /\ Result.file.row = Settled.row
      /\ Settled.tracker # NoTracker => Result.file.tracker # NoTracker
  BY <1>2, ReapedIs DEF Result
<1>4. Ends => /\ Last.out \in Seq(Stamps) /\ Last.tracker.exit \in {"clean", "crash"}
              /\ Places(Last.out) = Ending(file) /\ \A x \in Range(Last.out) : x.account \/ Late(file, x)
  BY <1>1, SessionEnds DEF Ends, Last
<1>5. Sent \in Seq(Stamps)
  <2> DEFINE l == IF Ends THEN Last.out ELSE <<>>
             o == Scanned.out
             r == Result.out
  <2>1. l \in Seq(Stamps) /\ o \in Seq(Stamps) /\ r \in Seq(Stamps)
    BY <1>2, <1>3, <1>4
  <2>2. Sent = l \o o \o r
    BY DEF Sent, AllSent
  <2> HIDE DEF l, o, r
  <2>3. l \o o \in Seq(Stamps)
    BY <2>1, ConcatProperties
  <2>4. (l \o o) \o r \in Seq(Stamps)
    BY <2>1, <2>3, ConcatProperties
  <2>5. QED
    BY <2>2, <2>4
<1>6. Source.tracker # NoTracker => Settled.tracker # NoTracker
  <2> SUFFICES ASSUME Source.tracker # NoTracker
               PROVE  Settled.tracker # NoTracker
    OBVIOUS
  <2>1. Sound(Source) /\ ~Source.finished
    BY SourceIs
  <2>2. Roused = Source
    BY <2>1, WokenIs, HeadReadIs DEF Roused
  <2>3. Ingested(Roused, Len(hand.lines), Scanned) /\ Settled.tracker = Scanned.tracker
    BY <2>2, SettledIs
  <2>4. Scanned \in ScanStates
    BY <2>3 DEF Ingested
  <2>5. QED
    BY <2>3, <2>4, ScanFields, NoTrackerIs
<1>7. QED
  BY <1>2, <1>3, <1>4, <1>5, <1>6
-----------------------------------------------------------------------------
(* The types, and the rows that are open.                                  *)

LEMMA LogTypedInit == Init => LogTyped /\ OpenIsFollowed
<1> SUFFICES ASSUME Init
             PROVE  LogTyped /\ OpenIsFollowed
  OBVIOUS
<1>1. MaxRuns \in Nat
  BY Bounds
<1>2. DiskFits
  BY <1>1 DEF Init, DiskFits
<1>3. StoreFits
  BY <1>1 DEF Init, StoreFits
<1>4. DaemonFits
  <2>1. NoHand \in Hands /\ ~NoHand.read /\ ~NoHand.truncated
    BY DEF NoHand, Hands
  <2>2. MaxStarts \in Nat
    BY Bounds
  <2>3. Len(<<>>) = 0
    OBVIOUS
  <2>4. /\ bus = <<>> /\ flushed = 0 /\ excuse = {} /\ old = FALSE /\ status = "down" /\ starts = 0
        /\ file = NoFile /\ hand = NoHand
    BY DEF Init
  <2>5. bus \in Seq(Stamps) /\ flushed \in 0 .. Len(bus) /\ starts \in 0 .. MaxStarts
    BY <2>2, <2>3, <2>4
  <2>6. QED
    BY <2>1, <2>4, <2>5 DEF DaemonFits
<1>5. OpenIsFollowed
  BY DEF Init, OpenIsFollowed
<1>6. QED
  BY <1>2, <1>3, <1>4, <1>5 DEF LogTyped

LEMMA NoHandIs == /\ NoHand \in Hands /\ ~NoHand.read /\ ~NoHand.truncated /\ ~NoHand.resumed /\ ~NoHand.grew
                  /\ NoHand.lines = <<>> /\ Len(NoHand.lines) = 0
BY DEF NoHand, Hands

LEMMA ClientStartsTyped ==
  ASSUME LogTyped, OpenIsFollowed, NEW rewrite \in BOOLEAN, ClientStarts(rewrite)
  PROVE  (LogTyped /\ OpenIsFollowed)'
<1>1. /\ disk.run \in Nat /\ disk.run < MaxRuns /\ disk.run + 1 \in 1 .. MaxRuns /\ MaxRuns \in Nat
      /\ disk.key \in 0 .. MaxRuns /\ disk.key <= disk.run /\ disk.run + 1 \in 1 .. Len(Scripts)
      /\ disk.run > 0 => disk.key > 0
  BY Bounds, DiskSize DEF LogTyped, DiskFits, ClientStarts, MaxRuns
<1>2. PICK script \in Scripts[disk.run + 1] :
        disk' = [run |-> disk.run + 1, key |-> IF rewrite THEN disk.key ELSE disk.run + 1,
                 lines |-> <<>>, half |-> FALSE, script |-> script]
  BY DEF ClientStarts
<1>3. script \in Seq(Texts)
  <2>1. Scripts[disk.run + 1] \in SUBSET Seq(Texts)
    BY <1>1, Bounds
  <2>2. QED
    BY <2>1
<1>4. <<>> \o script \in Scripts[disk.run + 1]
  BY <1>3, ConcatEmptySeq
<1>5. /\ disk'.run = disk.run + 1 /\ disk'.lines = <<>> /\ disk'.half = FALSE /\ disk'.script = script
      /\ disk'.key = IF rewrite THEN disk.key ELSE disk.run + 1
  BY <1>2
<1>6. disk'.key \in 0 .. MaxRuns /\ disk'.key <= disk'.run /\ disk'.key > 0 /\ disk'.key >= disk.key
  BY <1>1, <1>5 DEF ClientStarts
<1>7. DiskFits'
  <2>1. disk' \in [run : 0 .. MaxRuns, key : 0 .. MaxRuns, lines : Seq(Texts), half : BOOLEAN, script : Seq(Texts)]
    BY <1>1, <1>2, <1>3, <1>5, <1>6
  <2>2. QED
    BY <1>1, <1>4, <1>5, <1>6, <2>1 DEF DiskFits
<1>8. /\ UNCHANGED <<stored, exits, db, status, starts, file, hand, bus, flushed, excuse>>
      /\ old' = FALSE
  BY DEF ClientStarts, storeVars, daemonVars
<1>9. StoreFits'
  BY <1>1, <1>5, <1>8 DEF LogTyped, StoreFits
<1>10. DaemonFits'
  <2>1. file # NoFile => /\ Sound(file) /\ file.run <= disk.run /\ file.key <= disk.key
                         /\ file.run \in Nat /\ file.key \in Nat
    BY FileFields DEF LogTyped, DaemonFits, Keys
  <2>2. file # NoFile => file.run <= disk'.run /\ file.key <= disk'.key /\ file.run # disk'.run
    BY <1>1, <1>5, <1>6, <2>1
  <2>3. QED
    BY <1>8, <2>2 DEF LogTyped, DaemonFits, Watching
<1>11. OpenIsFollowed'
  BY <1>8 DEF OpenIsFollowed
<1>12. QED
  BY <1>7, <1>9, <1>10, <1>11 DEF LogTyped

LEMMA ClientWritesTyped ==
  ASSUME LogTyped, OpenIsFollowed, ClientWritesHalf \/ ClientEndsLine
  PROVE  (LogTyped /\ OpenIsFollowed)' /\ Size' >= Size
<1>1. /\ disk \in [run : 0 .. MaxRuns, key : 0 .. MaxRuns, lines : Seq(Texts), half : BOOLEAN, script : Seq(Texts)]
      /\ Len(disk.lines) \in Nat /\ disk.run \in Nat
  BY DiskSize, Bounds DEF LogTyped, DiskFits
<1>2. /\ DiskFits' /\ disk'.run = disk.run /\ disk'.key = disk.key /\ Size' >= Size
  <2>1. CASE ClientWritesHalf
    <3> DEFINE c == disk.script
               more == Append(disk.lines, Head(c))
               rest == Tail(c)
    <3>1. c \in Seq(Texts) /\ c # <<>> /\ Head(c) \in Texts /\ disk.run > 0
      BY <1>1, <2>1 DEF ClientWritesHalf, LogTyped, DiskFits
    <3>2. disk' = [disk EXCEPT !.lines = more, !.half = TRUE, !.script = rest]
      BY <2>1 DEF ClientWritesHalf
    <3>3. /\ more \in Seq(Texts) /\ rest \in Seq(Texts) /\ Len(more) = Len(disk.lines) + 1 /\ more # <<>>
      BY <1>1, <3>1, AppendProperties, HeadTailProperties
    <3>4. more \o rest = disk.lines \o c
      <4>1. more = disk.lines \o <<Head(c)>> /\ <<Head(c)>> \in Seq(Texts)
        BY <1>1, <3>1, AppendIsConcat
      <4>2. (disk.lines \o <<Head(c)>>) \o rest = disk.lines \o (<<Head(c)>> \o rest)
        <5> DEFINE h == <<Head(c)>>
        <5>1. h \in Seq(Texts)
          BY <4>1
        <5> HIDE DEF h, rest
        <5>2. QED
          BY <1>1, <3>3, <5>1, ConcatAssociative, SMTT(60) DEF h
      <4>3. <<Head(c)>> \o rest = c
        BY <3>1
      <4>4. QED
        BY <4>1, <4>2, <4>3
    <3> HIDE DEF c, more, rest
    <3>5. /\ disk'.run = disk.run /\ disk'.key = disk.key /\ disk'.lines = more /\ disk'.half = TRUE
          /\ disk'.script = rest
      BY <1>1, <3>2
    <3>6. disk' \in [run : 0 .. MaxRuns, key : 0 .. MaxRuns, lines : Seq(Texts), half : BOOLEAN, script : Seq(Texts)]
      BY <1>1, <3>2, <3>3
    <3>7. DiskFits'
      <4>1. more \o rest \in Scripts[disk.run] /\ disk.key > 0 /\ disk.key <= disk.run
        BY <3>1, <3>4 DEF LogTyped, DiskFits, c
      <4>2. QED
        BY <3>1, <3>3, <3>5, <3>6, <4>1 DEF DiskFits
    <3>8. Size' >= Size
      <4>1. ~disk.half
        BY <2>1 DEF ClientWritesHalf
      <4>2. Size = 2 * Len(disk.lines) /\ Size' = 2 * Len(more) - 1
        BY <3>5, <4>1 DEF Size
      <4>3. QED
        BY <1>1, <3>3, <4>2
    <3>9. QED
      BY <3>5, <3>7, <3>8
  <2>2. CASE ClientEndsLine
    <3>1. disk' = [disk EXCEPT !.half = FALSE] /\ disk.half
      BY <2>2 DEF ClientEndsLine
    <3>2. /\ disk'.run = disk.run /\ disk'.key = disk.key /\ disk'.lines = disk.lines /\ disk'.half = FALSE
          /\ disk'.script = disk.script
      BY <1>1, <3>1
    <3>3. disk' \in [run : 0 .. MaxRuns, key : 0 .. MaxRuns, lines : Seq(Texts), half : BOOLEAN, script : Seq(Texts)]
      BY <1>1, <3>1
    <3>4. DiskFits'
      BY <3>2, <3>3 DEF LogTyped, DiskFits
    <3>5. Size' >= Size
      BY <1>1, <3>1, <3>2 DEF Size
    <3>6. QED
      BY <3>2, <3>4, <3>5
  <2>3. QED
    BY <2>1, <2>2
<1>3. /\ UNCHANGED <<stored, exits, db, status, starts, file, hand, bus, flushed, excuse>>
      /\ old' = FALSE
  BY DEF ClientWritesHalf, ClientEndsLine, storeVars, daemonVars
<1>4. StoreFits'
  BY <1>2, <1>3 DEF LogTyped, StoreFits
<1>5. DaemonFits'
  <2>1. Size \in Nat /\ Size' \in Nat
    BY <1>2, DiskSize DEF LogTyped, Size, DiskFits
  <2>2. file # NoFile => Sound(file) /\ file.offset \in Nat /\ (file.run = disk.run => file.offset <= Size)
    BY FileFields DEF LogTyped, DaemonFits
  <2>3. file # NoFile => (file.run = disk.run => file.offset <= Size')
    BY <1>2, <2>1, <2>2
  <2>4. QED
    BY <1>2, <1>3, <2>3 DEF LogTyped, DaemonFits, Watching
<1>6. OpenIsFollowed'
  BY <1>3 DEF OpenIsFollowed
<1>7. QED
  BY <1>2, <1>4, <1>5, <1>6 DEF LogTyped

\* The rows of the store once the watcher has the file f in place of the old one.
LEMMA RowsFollow ==
  ASSUME LogTyped, NEW f, Sound(f)
  PROVE  /\ ExitsWith(f) \in [Rows -> {"none", "open", "clean", "crash", "unknown"}]
         /\ \A r \in Rows : ExitsWith(f)[r] = "open" <=>
              IF f.tracker # NoTracker /\ r = f.row THEN Live(f.tracker) ELSE exits[r] = "open"
<1>1. f.tracker # NoTracker => f.tracker.row = f.row /\ (Live(f.tracker) \/ f.tracker.exit \in {"clean", "crash"})
  <2>1. f.tracker # NoTracker => f.tracker \in Trackers /\ f.tracker.row = f.row
    BY FileFields
  <2>2. QED
    BY <2>1 DEF Live, Trackers
<1>2. exits \in [Rows -> {"none", "open", "clean", "crash", "unknown"}]
  BY DEF LogTyped, StoreFits
<1>3. \A r \in Rows : ExitsWith(f)[r] =
        IF f.tracker # NoTracker /\ r = f.row THEN (IF Live(f.tracker) THEN "open" ELSE f.tracker.exit) ELSE exits[r]
  BY <1>1 DEF ExitsWith, Opened
<1>4. ExitsWith(f) = [r \in Rows |-> ExitsWith(f)[r]]
  BY DEF ExitsWith
<1>5. \A r \in Rows : ExitsWith(f)[r] \in {"none", "open", "clean", "crash", "unknown"}
  BY <1>1, <1>2, <1>3
<1>6. \A r \in Rows : ExitsWith(f)[r] = "open" <=>
              IF f.tracker # NoTracker /\ r = f.row THEN Live(f.tracker) ELSE exits[r] = "open"
  BY <1>1, <1>3
<1>7. QED
  BY <1>4, <1>5, <1>6

LEMMA TimePassesTyped ==
  ASSUME LogTyped, OpenIsFollowed, TimePasses
  PROVE  (LogTyped /\ OpenIsFollowed)'
<1>1. /\ UNCHANGED <<disk, stored, exits, db, status, starts, hand, bus, flushed, excuse>>
      /\ old' = TRUE
  BY DEF TimePasses, storeVars
<1>2. file' = IF file = NoFile THEN file ELSE [file EXCEPT !.stale = TRUE]
  BY DEF TimePasses
<1>3. CASE file = NoFile
  <2>1. file' = file
    BY <1>2, <1>3
  <2>2. QED
    BY <1>1, <2>1 DEF LogTyped, OpenIsFollowed, DiskFits, StoreFits, DaemonFits, Watching, Size
<1>4. CASE file # NoFile
  <2>1. Sound(file) /\ file \in Files
    BY <1>4, FileFields DEF LogTyped, DaemonFits
  <2>2. /\ file' \in Files /\ file'.key = file.key /\ file'.run = file.run /\ file'.offset = file.offset
        /\ file'.carry = file.carry /\ file'.block = file.block /\ file'.tracker = file.tracker
        /\ file'.row = file.row /\ file'.finished = file.finished
    BY <1>2, <1>4, <2>1 DEF Files
  <2>3. Sound(file')
    BY <2>1, <2>2 DEF Sound
  <2>4. file' # NoFile
    BY <2>2, NoFileIs
  <2>5. DaemonFits'
    <3>1. hand.read => Watching'
      BY <2>2, <2>4 DEF LogTyped, DaemonFits, Watching
    <3>2. /\ file'.run <= disk.run /\ file'.key <= disk.key
          /\ hand.truncated => file'.row[2] < file'.run
          /\ file'.run = disk.run => file'.offset <= Size
      BY <1>4, <2>2 DEF LogTyped, DaemonFits
    <3>3. Size' = Size
      BY <1>1 DEF Size
    <3>4. status # "down"
      BY <1>4 DEF LogTyped, DaemonFits
    <3>5. QED
      BY <1>1, <2>3, <2>4, <3>1, <3>2, <3>3, <3>4 DEF LogTyped, DaemonFits
  <2>6. OpenIsFollowed'
    BY <1>1, <2>2 DEF OpenIsFollowed
  <2>7. QED
    BY <1>1, <2>5, <2>6 DEF LogTyped, DiskFits, StoreFits
<1>5. QED
  BY <1>3, <1>4

LEMMA StartsTyped ==
  ASSUME LogTyped, OpenIsFollowed, DaemonStarts
  PROVE  (LogTyped /\ OpenIsFollowed)'
<1>1. /\ UNCHANGED <<disk, old, stored, db, file, hand, bus, flushed, excuse>>
      /\ status = "down" /\ status' = "up" /\ starts' = starts + 1 /\ starts < MaxStarts
      /\ exits' = [r \in Rows |-> IF exits[r] = "open" THEN "unknown" ELSE exits[r]]
  BY DEF DaemonStarts, daemonVars
<1>2. exits' \in [Rows -> {"none", "open", "clean", "crash", "unknown"}] /\ \A r \in Rows : exits'[r] # "open"
  BY <1>1 DEF LogTyped, StoreFits
<1>3. file = NoFile /\ ~Live(file.tracker)
  BY <1>1, NoFileIs, NoTrackerIs DEF LogTyped, DaemonFits
<1>4. starts' \in 0 .. MaxStarts
  BY <1>1, Bounds DEF LogTyped, DaemonFits
<1>5. DaemonFits'
  BY <1>1, <1>3, <1>4 DEF LogTyped, DaemonFits, Watching
<1>6. OpenIsFollowed'
  BY <1>1, <1>2, <1>3 DEF OpenIsFollowed, Live
<1>7. QED
  BY <1>1, <1>2, <1>5, <1>6 DEF LogTyped, DiskFits, StoreFits

LEMMA ScanTyped ==
  ASSUME LogTyped, OpenIsFollowed, Scan
  PROVE  (LogTyped /\ OpenIsFollowed)'
<1> DEFINE ends == file # NoFile /\ ~file.finished /\ file.tracker # NoTracker
           s == Finish(file, "crash")
<1>1. /\ bus' = IF ends THEN bus \o s.out ELSE bus
      /\ exits' = IF ends THEN [ExitsWith(Taken) EXCEPT ![file.tracker.row] = s.tracker.exit]
                  ELSE ExitsWith(Taken)
      /\ file' = Taken
      /\ excuse \subseteq excuse' /\ excuse' \subseteq excuse \cup {"overgrown", "headless"}
      /\ Overgrown(stored[disk.key].run, stored[disk.key].pos) => "overgrown" \in excuse'
      /\ UNCHANGED <<disk, old, stored, db, status, starts, hand, flushed>>
      /\ status = "up" /\ hand = NoHand /\ disk.run > 0
      /\ file = NoFile \/ file.key # disk.key
  BY ScanSteps DEF AdoptedWith, Taken, Replaced
<1>2. /\ Sound(Taken) /\ Taken.key = disk.key /\ Taken.run = disk.run /\ Taken.row = <<disk.key, 0>>
      /\ Taken.offset <= Size
  BY <1>1, TakenIs DEF LogTyped, DaemonFits
<1>3. ends => s.out \in Seq(Stamps) /\ s.tracker.exit \in {"clean", "crash"} /\ Live(file.tracker)
              /\ file.tracker.row = file.row /\ file.row \in Rows /\ file.row[1] = file.key /\ file.row # Taken.row
  <2> SUFFICES ASSUME ends
               PROVE  s.out \in Seq(Stamps) /\ s.tracker.exit \in {"clean", "crash"} /\ Live(file.tracker)
              /\ file.tracker.row = file.row /\ file.row \in Rows /\ file.row[1] = file.key /\ file.row # Taken.row
    OBVIOUS
  <2>1. Sound(file)
    BY DEF LogTyped, DaemonFits
  <2>2. s.out \in Seq(Stamps) /\ s.tracker.exit \in {"clean", "crash"}
    BY <2>1, SessionEnds
  <2> HIDE DEF s
  <2>3. Live(file.tracker) /\ file.tracker.row = file.row /\ file.row \in Rows /\ file.row[1] = file.key
    BY <2>1, LiveIsWatched, FileFields DEF Sound
  <2>4. file.row # Taken.row
    <3>1. <<disk.key, 0>>[1] = disk.key
      OBVIOUS
    <3>2. QED
      BY <1>1, <1>2, <2>3, <3>1
  <2>5. QED
    BY <2>2, <2>3, <2>4
<1>4. /\ ExitsWith(Taken) \in [Rows -> {"none", "open", "clean", "crash", "unknown"}]
      /\ \A r \in Rows : ExitsWith(Taken)[r] = "open" <=>
           IF Taken.tracker # NoTracker /\ r = Taken.row THEN Live(Taken.tracker) ELSE exits[r] = "open"
  BY <1>2, RowsFollow
<1> HIDE DEF s
<1>5. exits' \in [Rows -> {"none", "open", "clean", "crash", "unknown"}]
  BY <1>1, <1>3, <1>4
<1>6. bus' \in Seq(Stamps) /\ Len(bus) \in Nat /\ Len(bus') \in Nat /\ Len(bus) <= Len(bus')
  <2>1. bus \in Seq(Stamps)
    BY DEF LogTyped, DaemonFits
  <2>2. CASE ends
    <3> DEFINE o == s.out
    <3>1. o \in Seq(Stamps) /\ bus' = bus \o o
      BY <1>1, <1>3, <2>2
    <3> HIDE DEF o
    <3>2. bus \o o \in Seq(Stamps) /\ Len(bus \o o) = Len(bus) + Len(o) /\ Len(bus) \in Nat /\ Len(o) \in Nat
      BY <2>1, <3>1, ConcatProperties, LenProperties
    <3>3. QED
      BY <3>1, <3>2
  <2>3. CASE ~ends
    BY <1>1, <2>1, <2>3, LenProperties
  <2>4. QED
    BY <2>2, <2>3
<1>7. OpenIsFollowed'
  <2>1. status # "down" /\ Taken.tracker.row = IF Taken.tracker # NoTracker THEN Taken.row ELSE NoTracker.row
    BY <1>1, <1>2, FileFields
  <2>2. \A r \in Rows : exits[r] = "open" <=> Live(file.tracker) /\ r = file.tracker.row
    BY <1>1 DEF OpenIsFollowed
  <2>3. Live(file.tracker) => ends
    <3>1. file # NoFile => Sound(file)
      BY DEF LogTyped, DaemonFits
    <3>2. QED
      BY <3>1, LiveIsWatched, NoFileIs, NoTrackerIs
  <2>4. Live(Taken.tracker) => Taken.tracker # NoTracker
    BY NoTrackerIs
  <2>5. \A r \in Rows : exits'[r] = "open" <=> Live(Taken.tracker) /\ r = Taken.tracker.row
    <3> TAKE r \in Rows
    <3>1. CASE ends /\ r = file.tracker.row
      <4>1. exits'[r] = s.tracker.exit /\ exits'[r] # "open"
        BY <1>1, <1>3, <1>4, <3>1
      <4>2. QED
        BY <1>3, <2>1, <2>4, <3>1, <4>1
    <3>2. CASE ~(ends /\ r = file.tracker.row)
      <4>1. exits'[r] = ExitsWith(Taken)[r]
        BY <1>1, <1>4, <3>2
      <4>2. exits[r] # "open"
        BY <2>2, <2>3, <3>2
      <4>3. QED
        BY <1>4, <2>1, <2>4, <4>1, <4>2
    <3>3. QED
      BY <3>1, <3>2
  <2>6. QED
    BY <1>1, <2>5 DEF OpenIsFollowed, Live
<1>8. DaemonFits'
  <2>1. /\ file' # NoFile /\ Sound(file') /\ file'.run <= disk.run /\ file'.key <= disk.key
        /\ (file'.run = disk.run => file'.offset <= Size) /\ Size' = Size
    <3>1. disk.run \in Nat /\ disk.key \in Nat
      BY Bounds DEF LogTyped, DiskFits
    <3>2. QED
      BY <1>1, <1>2, <3>1, FileFields DEF Size
  <2>2. excuse' \subseteq Excuses
    BY <1>1 DEF LogTyped, DaemonFits, Excuses
  <2>3. flushed \in 0 .. Len(bus')
    BY <1>6 DEF LogTyped, DaemonFits
  <2>4. QED
    BY <1>1, <1>6, <2>1, <2>2, <2>3, NoHandIs DEF LogTyped, DaemonFits
<1>9. QED
  BY <1>1, <1>5, <1>7, <1>8 DEF LogTyped, DiskFits, StoreFits

\* FileTail.read(), with its local names.
Cut == Size < file.offset
From == IF Cut THEN 0 ELSE file.offset
To == From + Least(Size - From, Chunk)
Carried == IF Cut THEN NoLine ELSE file.carry
Whole(i) == 2 * i - 1 > From \/ (Carried # NoLine /\ Carried.run = disk.run)

LEMMA ReadTailIs ==
  ASSUME LogTyped, ReadTail
  PROVE  /\ file # NoFile /\ ~file.finished /\ Sound(file) /\ hand = NoHand /\ status = "up"
         /\ disk.run \in Keys /\ Len(disk.lines) \in Nat /\ Size \in Nat
         /\ From \in Nat /\ To \in Nat /\ From <= To /\ To <= Size
         /\ From \div 2 \in Nat /\ To \div 2 \in Nat /\ From \div 2 <= To \div 2 /\ To \div 2 <= Len(disk.lines)
         /\ (To % 2 = 1 => (To + 1) \div 2 = To \div 2 + 1 /\ To \div 2 + 1 <= Len(disk.lines))
         /\ file' = [file EXCEPT !.offset = To,
              !.carry = IF To = From THEN Carried
                        ELSE IF To % 2 = 1 THEN LineOnDisk(To \div 2 + 1) ELSE NoLine,
              !.run = disk.run]
         /\ hand' = [lines |-> [n \in 1 .. (To \div 2) - (From \div 2) |->
                         [LineOnDisk((From \div 2) + n) EXCEPT !.whole = Whole((From \div 2) + n)]],
                     read |-> TRUE, truncated |-> Cut, resumed |-> file.offset > 0, grew |-> To > From]
         /\ excuse' = excuse \cup (IF file.key # disk.key THEN {"swapped"} ELSE {})
              \cup (IF ~Cut /\ Overgrown(file.run, file.offset) THEN {"overgrown"} ELSE {})
         /\ UNCHANGED <<disk, old, stored, exits, db, status, starts, bus, flushed>>
<1>1. /\ file # NoFile /\ ~file.finished /\ hand = NoHand /\ status = "up"
      /\ UNCHANGED <<disk, old, stored, exits, db, status, starts, bus, flushed>>
  BY DEF ReadTail, Watching, storeVars
<1>2. Sound(file) /\ file.run <= disk.run /\ file.offset \in Nat /\ file.run \in Keys
  BY <1>1, FileFields DEF LogTyped, DaemonFits
<1>3. /\ disk.run \in Keys /\ Len(disk.lines) \in Nat /\ Size \in Nat /\ Chunk \in Nat \ {0}
      /\ Size <= 2 * Len(disk.lines)
      /\ Size % 2 = 1 => Size = 2 * Len(disk.lines) - 1
  <2>1. disk.run > 0
    BY <1>2, Bounds DEF Keys, LogTyped, DiskFits
  <2>2. QED
    BY <2>1, DiskSize, Bounds DEF LogTyped
<1>4. From \in Nat /\ From <= Size
  BY <1>2, <1>3 DEF From, Cut
<1>5. To \in Nat /\ From <= To /\ To <= Size
  BY <1>3, <1>4 DEF To, Least
<1> DEFINE m == From \div 2
           k == To \div 2
<1>6. /\ m \in Nat /\ k \in Nat /\ m <= k /\ k <= Len(disk.lines)
      /\ (To % 2 = 1 => (To + 1) \div 2 = k + 1 /\ k + 1 <= Len(disk.lines))
      /\ \A i \in Nat : From < 2 * i <=> m < i
      /\ \A i \in Nat : 2 * i <= To <=> i <= k
  BY <1>3, <1>4, <1>5
<1> DEFINE split == {i \in DOMAIN disk.lines : From < 2 * i /\ 2 * i <= To}
<1>7. Cardinality(split) = k - m
  <2>1. DOMAIN disk.lines = 1 .. Len(disk.lines)
    BY LenProperties DEF LogTyped, DiskFits
  <2> HIDE DEF m, k
  <2>2. split = m + 1 .. k
    <3>1. \A i : i \in split <=> i \in m + 1 .. k
      <4> TAKE i
      <4>1. CASE i \in Nat
        <5>1. i \in split <=> i \in 1 .. Len(disk.lines) /\ From < 2 * i /\ 2 * i <= To
          BY <2>1
        <5>2. i \in split <=> i \in 1 .. Len(disk.lines) /\ m < i /\ i <= k
          BY <1>6, <4>1, <5>1
        <5>3. QED
          BY <1>3, <1>6, <4>1, <5>2
      <4>2. CASE i \notin Nat
        BY <1>3, <1>6, <2>1, <4>2
      <4>3. QED
        BY <4>1, <4>2
    <3>2. QED
      BY <3>1
  <2> HIDE DEF split
  <2>3. Cardinality(m + 1 .. k) = IF m + 1 > k THEN 0 ELSE k - (m + 1) + 1
    BY <1>6, FS_Interval
  <2>4. QED
    BY <1>6, <2>2, <2>3
<1>8. /\ hand' = [lines |-> [n \in 1 .. Cardinality(split) |->
                       [LineOnDisk((From \div 2) + n) EXCEPT !.whole = Whole((From \div 2) + n)]],
                  read |-> TRUE, truncated |-> Cut, resumed |-> file.offset > 0, grew |-> To > From]
      /\ file' = [file EXCEPT !.offset = To,
           !.carry = IF To = From THEN Carried
                     ELSE IF To % 2 = 1 THEN LineOnDisk((To + 1) \div 2) ELSE NoLine,
           !.run = disk.run]
      /\ excuse' = excuse \cup (IF file.key # disk.key THEN {"swapped"} ELSE {})
           \cup (IF ~Cut /\ Overgrown(file.run, file.offset) THEN {"overgrown"} ELSE {})
  BY DEF ReadTail, From, To, Cut, Carried, Whole
<1>9. (IF To = From THEN Carried ELSE IF To % 2 = 1 THEN LineOnDisk((To + 1) \div 2) ELSE NoLine)
       = (IF To = From THEN Carried ELSE IF To % 2 = 1 THEN LineOnDisk(To \div 2 + 1) ELSE NoLine)
  BY <1>6
<1> HIDE DEF split
<1>10. /\ file' = [file EXCEPT !.offset = To,
              !.carry = IF To = From THEN Carried
                        ELSE IF To % 2 = 1 THEN LineOnDisk(To \div 2 + 1) ELSE NoLine,
              !.run = disk.run]
  BY <1>8, <1>9
<1>11. hand' = [lines |-> [n \in 1 .. (To \div 2) - (From \div 2) |->
                         [LineOnDisk((From \div 2) + n) EXCEPT !.whole = Whole((From \div 2) + n)]],
                     read |-> TRUE, truncated |-> Cut, resumed |-> file.offset > 0, grew |-> To > From]
  BY <1>7, <1>8
<1>12. QED
  BY <1>1, <1>2, <1>3, <1>4, <1>5, <1>6, <1>8, <1>10, <1>11

\* A line of the file, and what a read makes of it.
Spilled(i) == [LineOnDisk(i) EXCEPT !.whole = Whole(i)]

LEMMA LineOnDiskIs ==
  ASSUME DiskFits, disk.run \in Keys, NEW i \in 1 .. Len(disk.lines)
  PROVE  /\ LineOnDisk(i) \in Halves /\ LineOnDisk(i) # NoLine
         /\ LineOnDisk(i).run = disk.run /\ LineOnDisk(i).line = i /\ LineOnDisk(i).text = disk.lines[i]
         /\ Spilled(i) \in Lines /\ Spilled(i).run = disk.run /\ Spilled(i).line = i
         /\ Spilled(i).text = disk.lines[i] /\ Spilled(i).whole = Whole(i)
<1>1. i \in Nat \ {0} /\ disk.lines[i] \in Texts
  <2>1. Len(disk.lines) \in Nat /\ disk.lines \in Seq(Texts)
    BY DiskSize DEF DiskFits
  <2>2. QED
    BY <2>1
<1> DEFINE l == LineOnDisk(i)
<1>2. l = [run |-> disk.run, line |-> i, text |-> disk.lines[i], whole |-> TRUE]
  BY DEF LineOnDisk
<1>3. l \in Lines /\ l.whole /\ l.run = disk.run /\ l.line = i /\ l.text = disk.lines[i]
  BY <1>1, <1>2 DEF Lines
<1>4. Whole(i) \in BOOLEAN
  BY DEF Whole
<1> DEFINE w == Whole(i)
<1> HIDE DEF l, w
<1>5. LET g == [l EXCEPT !.whole = w]
      IN g \in Lines /\ g.run = disk.run /\ g.line = i /\ g.text = disk.lines[i] /\ g.whole = w
  BY <1>3, <1>4 DEF Lines, w
<1>6. Spilled(i) = [l EXCEPT !.whole = w]
  BY DEF Spilled, l, w
<1>7. QED
  BY <1>3, <1>5, <1>6, NoLineIs DEF Halves, l, w

LEMMA ReadResult ==
  ASSUME LogTyped, ReadTail
  PROVE  /\ file' \in Files /\ file' # NoFile
         /\ file'.key = file.key /\ file'.run = disk.run /\ file'.offset = To
         /\ file'.carry = IF To = From THEN Carried ELSE IF To % 2 = 1 THEN LineOnDisk(To \div 2 + 1) ELSE NoLine
         /\ file'.block = file.block /\ file'.tracker = file.tracker /\ file'.row = file.row
         /\ file'.finished = FALSE
         /\ hand' \in Hands /\ hand'.read /\ hand'.truncated = Cut /\ hand'.resumed = (file.offset > 0)
         /\ Len(hand'.lines) = (To \div 2) - (From \div 2)
         /\ \A n \in 1 .. (To \div 2) - (From \div 2) :
              /\ (From \div 2) + n \in 1 .. Len(disk.lines)
              /\ hand'.lines[n] = Spilled((From \div 2) + n)
<1>1. /\ file # NoFile /\ ~file.finished /\ Sound(file) /\ hand = NoHand /\ status = "up"
      /\ disk.run \in Keys /\ Len(disk.lines) \in Nat /\ Size \in Nat
      /\ From \in Nat /\ To \in Nat /\ From <= To /\ To <= Size
      /\ From \div 2 \in Nat /\ To \div 2 \in Nat /\ From \div 2 <= To \div 2 /\ To \div 2 <= Len(disk.lines)
      /\ (To % 2 = 1 => (To + 1) \div 2 = To \div 2 + 1 /\ To \div 2 + 1 <= Len(disk.lines))
  BY ReadTailIs
<1> DEFINE c == IF To = From THEN Carried ELSE IF To % 2 = 1 THEN LineOnDisk(To \div 2 + 1) ELSE NoLine
           m == From \div 2
           k == To \div 2
           q == [n \in 1 .. k - m |-> Spilled(m + n)]
<1>2. file' = [file EXCEPT !.offset = To, !.carry = c, !.run = disk.run]
  BY ReadTailIs
<1>3. hand' = [lines |-> q, read |-> TRUE, truncated |-> Cut, resumed |-> file.offset > 0, grew |-> To > From]
  BY ReadTailIs DEF Spilled
<1>4. file \in Files /\ file.carry \in Halves /\ file.offset \in Nat /\ file.finished = FALSE
  BY <1>1, FileFields
<1>5. c \in Halves
  <2>1. To % 2 = 1 => To \div 2 + 1 \in 1 .. Len(disk.lines)
    BY <1>1
  <2>2. To % 2 = 1 => LineOnDisk(To \div 2 + 1) \in Halves
    BY <1>1, <2>1, LineOnDiskIs DEF LogTyped
  <2>3. NoLine \in Halves /\ Carried \in Halves
    BY <1>4 DEF Halves, Carried
  <2>4. QED
    BY <2>2, <2>3
<1> HIDE DEF c
<1>6. /\ file' \in Files /\ file'.key = file.key /\ file'.run = disk.run /\ file'.offset = To /\ file'.carry = c
      /\ file'.block = file.block /\ file'.tracker = file.tracker /\ file'.row = file.row
      /\ file'.finished = FALSE
  BY <1>1, <1>2, <1>4, <1>5 DEF Files
<1> HIDE DEF m, k
<1>7. \A n \in 1 .. k - m : m + n \in 1 .. Len(disk.lines) /\ Spilled(m + n) \in Lines
  <2> TAKE n \in 1 .. k - m
  <2>1. m + n \in 1 .. Len(disk.lines)
    BY <1>1 DEF m, k
  <2> DEFINE i == m + n
  <2> HIDE DEF i
  <2>2. i \in 1 .. Len(disk.lines)
    BY <2>1 DEF i
  <2>3. Spilled(i) \in Lines
    BY <1>1, <2>2, LineOnDiskIs DEF LogTyped
  <2>4. QED
    BY <2>1, <2>3 DEF i
<1>8. k - m \in Nat
  BY <1>1 DEF k, m
<1>9. q \in Seq(Lines) /\ Len(q) = k - m /\ \A n \in 1 .. k - m : q[n] = Spilled(m + n)
  BY <1>7, <1>8
<1> HIDE DEF q
<1>10. Cut \in BOOLEAN
  BY DEF Cut
<1>11. /\ hand' \in Hands /\ hand'.read /\ hand'.truncated = Cut /\ hand'.resumed = (file.offset > 0)
       /\ hand'.lines = q
  <2>1. (file.offset > 0) \in BOOLEAN /\ (To > From) \in BOOLEAN
    BY <1>1, <1>4
  <2>2. QED
    BY <1>3, <1>9, <1>10, <2>1 DEF Hands
<1>12. QED
  BY <1>6, <1>7, <1>9, <1>11, NoFileIs DEF c, m, k

LEMMA ReadTailTyped ==
  ASSUME LogTyped, OpenIsFollowed, ReadTail
  PROVE  (LogTyped /\ OpenIsFollowed)'
<1>1. /\ file # NoFile /\ ~file.finished /\ Sound(file) /\ hand = NoHand /\ status = "up"
      /\ disk.run \in Keys /\ Size \in Nat /\ To \in Nat /\ To <= Size
      /\ UNCHANGED <<disk, old, stored, exits, db, status, starts, bus, flushed>>
      /\ excuse' = excuse \cup (IF file.key # disk.key THEN {"swapped"} ELSE {})
              \cup (IF ~Cut /\ Overgrown(file.run, file.offset) THEN {"overgrown"} ELSE {})
  BY ReadTailIs
<1>2. /\ file' \in Files /\ file' # NoFile
      /\ file'.key = file.key /\ file'.run = disk.run /\ file'.offset = To
      /\ file'.block = file.block /\ file'.tracker = file.tracker /\ file'.row = file.row
      /\ file'.finished = FALSE
      /\ hand' \in Hands /\ hand'.read /\ hand'.truncated = Cut
  BY ReadResult
<1>3. /\ file.run \in Nat /\ disk.run \in Nat /\ file.offset \in Nat /\ file.row \in Rows /\ file.row[2] \in Nat
      /\ file.row[2] <= file.run /\ file.run <= disk.run /\ file.key <= disk.key
      /\ (file.run = disk.run => file.offset <= Size)
  <2>1. file.run \in Keys /\ file.offset \in Nat /\ file.row \in Rows
    BY <1>1, FileFields
  <2>2. file.row[2] \in Nat
    BY <2>1 DEF Rows
  <2>3. QED
    BY <1>1, <2>1, <2>2 DEF Keys, LogTyped, DaemonFits, Sound
<1>4. Sound(file')
  <2>1. file'.row[1] = file'.key /\ file'.row[2] <= file'.run
    BY <1>1, <1>2, <1>3 DEF Sound
  <2>2. QED
    BY <1>1, <1>2, <2>1 DEF Sound
<1>5. Cut => file'.row[2] < file'.run
  BY <1>1, <1>2, <1>3 DEF Cut
<1>6. DaemonFits'
  <2>1. excuse' \subseteq Excuses
    BY <1>1 DEF LogTyped, DaemonFits, Excuses
  <2>2. Size' = Size /\ Watching'
    BY <1>1, <1>2 DEF Size, Watching
  <2>3. QED
    BY <1>1, <1>2, <1>3, <1>4, <1>5, <2>1, <2>2 DEF LogTyped, DaemonFits
<1>7. OpenIsFollowed'
  BY <1>1, <1>2 DEF OpenIsFollowed
<1>8. QED
  BY <1>1, <1>6, <1>7 DEF LogTyped, DiskFits, StoreFits

LEMMA IngestTyped ==
  ASSUME LogTyped, OpenIsFollowed, IngestRead
  PROVE  (LogTyped /\ OpenIsFollowed)'
<1>1. /\ hand.read /\ hand' = NoHand
      /\ UNCHANGED <<disk, old, db, status, starts, flushed>>
      /\ file' = Result.file /\ bus' = bus \o Sent
      /\ exits' = IF Ends THEN [ExitsWith(Result.file) EXCEPT ![file.tracker.row] = Last.tracker.exit]
                  ELSE ExitsWith(Result.file)
      /\ stored' = [stored EXCEPT ![file.key] =
           [run |-> file.run,
            pos |-> IF hand.truncated THEN file.offset ELSE Most(@.pos, file.offset)]]
      /\ excuse' = excuse \cup (IF Ends /\ file.carry # NoLine THEN {"cut"} ELSE {})
           \cup (IF ~hand.truncated /\ stored[file.key].pos > file.offset THEN {"pinned"} ELSE {})
           \cup (IF status = "stopping" /\ Sent # <<>> THEN {"held"} ELSE {})
           \cup (IF hand.lines # <<>> /\ file.tracker = NoTracker /\ Headless(FirstPast, HeadRead)
                 THEN {"headless"} ELSE {})
  BY IngestSteps DEF Written
<1>2. Sound(file) /\ ~file.finished /\ file # NoFile /\ (~hand.truncated => Source = file)
      /\ (hand.truncated => Source.row # file.row)
  BY <1>1, SourceIs
<1>3. /\ file.key \in Keys /\ file.run \in Keys /\ file.offset \in Nat /\ file.run <= disk.run /\ file.key <= disk.key
      /\ (file.tracker # NoTracker => file.tracker.row = file.row /\ Live(file.tracker)) /\ file.row \in Rows
      /\ (file.run = disk.run => file.offset <= Size) /\ disk.run \in 0 .. MaxRuns
  BY <1>2, FileFields, LiveIsWatched DEF LogTyped, DaemonFits, DiskFits
<1>4. /\ Sound(Result.file) /\ Result.file.key = file.key /\ Result.file.run = file.run
      /\ Result.file.offset = file.offset /\ Result.file.row = Source.row /\ Sent \in Seq(Stamps)
      /\ (Ends => Last.tracker.exit \in {"clean", "crash"})
      /\ (Source.tracker # NoTracker => Result.file.tracker # NoTracker)
  BY <1>1, SentIs
<1>5. /\ ExitsWith(Result.file) \in [Rows -> {"none", "open", "clean", "crash", "unknown"}]
      /\ \A r \in Rows : ExitsWith(Result.file)[r] = "open" <=>
           IF Result.file.tracker # NoTracker /\ r = Result.file.row THEN Live(Result.file.tracker) ELSE exits[r] = "open"
  BY <1>4, RowsFollow
<1>6. StoreFits'
  <2>1. exits' \in [Rows -> {"none", "open", "clean", "crash", "unknown"}]
    BY <1>1, <1>4, <1>5
  <2> DEFINE e == [run |-> file.run,
                   pos |-> IF hand.truncated THEN file.offset ELSE Most(stored[file.key].pos, file.offset)]
  <2>2. stored \in [Keys -> [run : 0 .. MaxRuns, pos : Nat]] /\ \A k \in Keys : stored[k].run <= disk.run
    BY DEF LogTyped, StoreFits
  <2>3. e \in [run : 0 .. MaxRuns, pos : Nat] /\ e.run <= disk.run
    <3>1. stored[file.key].pos \in Nat
      BY <1>3, <2>2
    <3>2. file.run \in 0 .. MaxRuns
      BY <1>3, Bounds DEF Keys
    <3>3. QED
      BY <1>3, <3>1, <3>2 DEF Most
  <2>4. stored' = [stored EXCEPT ![file.key] = e]
    BY <1>1
  <2> HIDE DEF e
  <2>5. stored' \in [Keys -> [run : 0 .. MaxRuns, pos : Nat]] /\ \A k \in Keys : stored'[k].run <= disk.run
    BY <1>3, <2>2, <2>3, <2>4
  <2>6. QED
    BY <1>1, <2>1, <2>5 DEF LogTyped, StoreFits
<1>7. OpenIsFollowed'
  <2>1. status # "down"
    BY <1>2 DEF LogTyped, DaemonFits
  <2>2. \A r \in Rows : exits[r] = "open" <=> Live(file.tracker) /\ r = file.tracker.row
    BY <2>1 DEF OpenIsFollowed
  <2> DEFINE t == Result.file.tracker
  <2>3. /\ (t # NoTracker => t.row = Source.row) /\ (Live(t) => t # NoTracker) /\ (Live(file.tracker) => file.tracker # NoTracker)
    BY <1>4, FileFields, NoTrackerIs
  <2>4. \A r \in Rows : exits'[r] = "open" <=> Live(t) /\ r = t.row
    <3> TAKE r \in Rows
    <3>1. CASE Ends /\ r = file.row
      <4>1. exits'[r] # "open"
        BY <1>1, <1>3, <1>4, <1>5, <3>1 DEF Ends
      <4>2. t # NoTracker => t.row # r
        BY <1>2, <2>3, <3>1 DEF Ends
      <4>3. QED
        BY <2>3, <4>1, <4>2
    <3>2. CASE ~(Ends /\ r = file.row)
      <4>1. exits'[r] = ExitsWith(Result.file)[r]
        BY <1>1, <1>3, <1>5, <3>2 DEF Ends
      <4>2. CASE t # NoTracker /\ r = Source.row
        BY <1>4, <1>5, <2>3, <4>1, <4>2
      <4>3. CASE ~(t # NoTracker /\ r = Source.row)
        <5>1. exits[r] # "open"
          <6>1. CASE hand.truncated
            BY <1>3, <2>2, <2>3, <3>2, <6>1 DEF Ends
          <6>2. CASE ~hand.truncated
            BY <1>2, <1>3, <1>4, <2>2, <2>3, <4>3, <6>2
          <6>3. QED
            BY <6>1, <6>2
        <5>2. ~(Live(t) /\ r = t.row)
          BY <2>3, <4>3
        <5>3. QED
          BY <1>4, <1>5, <4>1, <4>3, <5>1, <5>2
      <4>4. QED
        BY <4>2, <4>3
    <3>3. QED
      BY <3>1, <3>2
  <2>5. QED
    BY <1>1, <2>4 DEF OpenIsFollowed, Live
<1>8. DaemonFits'
  <2>1. /\ file' # NoFile /\ Sound(file') /\ file'.run <= disk.run /\ file'.key <= disk.key
        /\ (file'.run = disk.run => file'.offset <= Size) /\ Size' = Size
    BY <1>1, <1>3, <1>4, FileFields DEF Size
  <2>2. excuse' \subseteq Excuses
    BY <1>1 DEF LogTyped, DaemonFits, Excuses
  <2>3. bus' \in Seq(Stamps) /\ flushed \in 0 .. Len(bus')
    <3> DEFINE o == Sent
    <3> HIDE DEF o
    <3>1. bus \in Seq(Stamps) /\ o \in Seq(Stamps) /\ flushed \in 0 .. Len(bus) /\ bus' = bus \o o
      BY <1>1, <1>4 DEF LogTyped, DaemonFits, o
    <3>2. bus \o o \in Seq(Stamps) /\ Len(bus \o o) = Len(bus) + Len(o) /\ Len(bus) \in Nat /\ Len(o) \in Nat
      BY <3>1, ConcatProperties, LenProperties
    <3>3. QED
      BY <3>1, <3>2
  <2>4. status # "down"
    BY <1>2 DEF LogTyped, DaemonFits
  <2>5. QED
    BY <1>1, <2>1, <2>2, <2>3, <2>4, NoHandIs DEF LogTyped, DaemonFits
<1>9. QED
  BY <1>1, <1>6, <1>7, <1>8 DEF LogTyped, DiskFits

\* The file as a tick without a read leaves it to the reaper.
Polled(missing) == [file EXCEPT !.primed = @ \/ missing]

LEMMA TickIs ==
  ASSUME LogTyped, TickWithoutRead
  PROVE  /\ status = "up" /\ hand = NoHand /\ file # NoFile /\ ~file.finished /\ Sound(file)
         /\ UNCHANGED <<disk, old, stored, db, status, starts, hand, flushed, excuse>>
         /\ \E missing \in BOOLEAN :
              LET g == Polled(missing)
                  r == Reaped(g)
              IN /\ file' = r.file /\ bus' = bus \o r.out /\ exits' = ExitsWith(r.file)
                 /\ Sound(g) /\ g.key = file.key /\ g.run = file.run /\ g.offset = file.offset /\ g.row = file.row
                 /\ g.carry = file.carry /\ g.block = file.block /\ g.tracker = file.tracker
                 /\ g.finished = file.finished
<1>1. /\ status = "up" /\ hand = NoHand /\ file # NoFile /\ ~file.finished /\ Sound(file)
      /\ UNCHANGED <<disk, old, stored, db, status, starts, hand, flushed, excuse>>
  BY DEF TickWithoutRead, Watching, LogTyped, DaemonFits
<1>2. PICK missing \in BOOLEAN :
        LET r == Reaped(Polled(missing))
        IN file' = r.file /\ bus' = bus \o r.out /\ exits' = ExitsWith(r.file)
  BY DEF TickWithoutRead, Polled
<1> DEFINE g == Polled(missing)
           p == file.primed \/ missing
<1>3. file \in Files /\ p \in BOOLEAN /\ g = [file EXCEPT !.primed = p]
  BY <1>1, FileFields DEF Polled
<1> HIDE DEF g, p
<1>4. /\ g \in Files /\ g.key = file.key /\ g.run = file.run /\ g.offset = file.offset /\ g.row = file.row
      /\ g.carry = file.carry /\ g.block = file.block /\ g.tracker = file.tracker
      /\ g.finished = file.finished
  BY <1>3 DEF Files
<1>5. Sound(g)
  BY <1>1, <1>4 DEF Sound
<1>6. QED
  BY <1>1, <1>2, <1>4, <1>5 DEF g

LEMMA TickTyped ==
  ASSUME LogTyped, OpenIsFollowed, TickWithoutRead
  PROVE  (LogTyped /\ OpenIsFollowed)'
<1>1. /\ status = "up" /\ hand = NoHand /\ file # NoFile /\ ~file.finished /\ Sound(file)
      /\ UNCHANGED <<disk, old, stored, db, status, starts, hand, flushed, excuse>>
  BY TickIs
<1>2. PICK missing \in BOOLEAN :
        LET g == Polled(missing)
            r == Reaped(g)
        IN /\ file' = r.file /\ bus' = bus \o r.out /\ exits' = ExitsWith(r.file)
           /\ Sound(g) /\ g.key = file.key /\ g.run = file.run /\ g.offset = file.offset /\ g.row = file.row
           /\ g.tracker = file.tracker
  BY TickIs
<1> DEFINE g == Polled(missing)
           r == Reaped(g)
           f == r.file
           o == r.out
<1> HIDE DEF g
<1>3. /\ Sound(f) /\ o \in Seq(Stamps)
      /\ f.key = g.key /\ f.run = g.run /\ f.offset = g.offset /\ f.row = g.row
      /\ g.tracker # NoTracker => f.tracker # NoTracker
  <2>1. Sound(g)
    BY <1>2 DEF g
  <2>2. QED
    BY <2>1, ReapedIs
<1>4. /\ file' = f /\ bus' = bus \o o /\ exits' = ExitsWith(f)
      /\ g.key = file.key /\ g.run = file.run /\ g.offset = file.offset /\ g.row = file.row
      /\ g.tracker = file.tracker
  BY <1>2 DEF g
<1> HIDE DEF r, f, o
<1>5. /\ ExitsWith(f) \in [Rows -> {"none", "open", "clean", "crash", "unknown"}]
      /\ \A x \in Rows : ExitsWith(f)[x] = "open" <=>
           IF f.tracker # NoTracker /\ x = f.row THEN Live(f.tracker) ELSE exits[x] = "open"
  BY <1>3, RowsFollow
<1>6. OpenIsFollowed'
  <2>1. \A x \in Rows : exits[x] = "open" <=> Live(file.tracker) /\ x = file.tracker.row
    BY <1>1 DEF OpenIsFollowed
  <2>2. /\ (f.tracker # NoTracker => f.tracker.row = f.row) /\ (Live(f.tracker) => f.tracker # NoTracker)
        /\ (Live(file.tracker) => file.tracker # NoTracker) /\ (file.tracker # NoTracker => file.tracker.row = file.row)
    BY <1>1, <1>3, FileFields, NoTrackerIs
  <2>3. \A x \in Rows : exits'[x] = "open" <=> Live(f.tracker) /\ x = f.tracker.row
    BY <1>3, <1>4, <1>5, <2>1, <2>2
  <2>4. QED
    BY <1>1, <1>4, <2>3 DEF OpenIsFollowed, Live
<1>7. DaemonFits'
  <2>1. /\ file.run <= disk.run /\ file.key <= disk.key /\ (file.run = disk.run => file.offset <= Size)
    BY <1>1 DEF LogTyped, DaemonFits
  <2>2. /\ file' # NoFile /\ Sound(file') /\ file'.run <= disk.run /\ file'.key <= disk.key
        /\ (file'.run = disk.run => file'.offset <= Size) /\ Size' = Size
    BY <1>1, <1>3, <1>4, <2>1, FileFields DEF Size
  <2>3. bus' \in Seq(Stamps) /\ flushed \in 0 .. Len(bus')
    <3>1. bus \in Seq(Stamps) /\ o \in Seq(Stamps) /\ flushed \in 0 .. Len(bus) /\ bus' = bus \o o
      BY <1>3, <1>4 DEF LogTyped, DaemonFits
    <3>2. bus \o o \in Seq(Stamps) /\ Len(bus \o o) = Len(bus) + Len(o) /\ Len(bus) \in Nat /\ Len(o) \in Nat
      BY <3>1, ConcatProperties, LenProperties
    <3>3. QED
      BY <3>1, <3>2
  <2>4. QED
    BY <1>1, <2>2, <2>3, NoHandIs DEF LogTyped, DaemonFits
<1>8. QED
  BY <1>1, <1>4, <1>5, <1>6, <1>7 DEF LogTyped, DiskFits, StoreFits

LEMMA QueueIs ==
  ASSUME bus \in Seq(Stamps), flushed \in 0 .. Len(bus)
  PROVE  /\ Queue \in Seq(Stamps) /\ Len(Queue) = Len(bus) - flushed
         /\ \A n \in 1 .. Len(bus) - flushed : Queue[n] = bus[flushed + n]
         /\ Range(Queue) \subseteq Range(bus) /\ Recorded(Queue) \subseteq db \cup Range(bus)
         /\ Range(bus) \subseteq Stamps
<1>1. Len(bus) \in Nat /\ flushed \in Nat /\ flushed <= Len(bus)
  BY LenProperties
<1>2. /\ Queue \in Seq(Stamps) /\ Len(Queue) = Len(bus) - flushed
      /\ \A n \in 1 .. Len(bus) - flushed : Queue[n] = bus[flushed + n]
  <2>1. \A n \in 1 .. Len(bus) - flushed : flushed + 1 + n - 1 = flushed + n /\ flushed + n \in 1 .. Len(bus)
    BY <1>1
  <2>2. Queue = [n \in 1 .. Len(bus) - flushed |-> bus[flushed + n]]
    BY <1>1, <2>1 DEF Queue
  <2>3. QED
    BY <1>1, <2>1, <2>2
<1>3. Range(Queue) \subseteq Range(bus)
  <2> SUFFICES ASSUME NEW x \in Range(Queue)
               PROVE  x \in Range(bus)
    OBVIOUS
  <2>1. PICK n \in 1 .. Len(bus) - flushed : x = bus[flushed + n]
    BY <1>2, RangeEquality
  <2>2. flushed + n \in 1 .. Len(bus)
    BY <1>1
  <2>3. QED
    BY <2>1, <2>2, RangeEquality
<1>4. Range(bus) \subseteq Stamps
  BY RangeEquality
<1>5. Recorded(Queue) \subseteq db \cup Range(bus)
  <2> DEFINE q == Queue
  <2>1. \A n \in DOMAIN q : q[n] \in Range(q)
    BY <1>2, RangeEquality, LenProperties
  <2>2. Range(q) \subseteq Range(bus)
    BY <1>3
  <2> HIDE DEF q
  <2>3. Recorded(q) \subseteq db \cup Range(q)
    BY <2>1 DEF Recorded
  <2>4. QED
    BY <2>2, <2>3 DEF q
<1>6. QED
  BY <1>2, <1>3, <1>4, <1>5

LEMMA FlushTyped ==
  ASSUME LogTyped, OpenIsFollowed, Flush \/ FlushFails
  PROVE  (LogTyped /\ OpenIsFollowed)'
<1>1. /\ UNCHANGED <<disk, old, stored, exits, status, starts, file, hand, bus>>
      /\ flushed' = Len(bus)
      /\ db' = db \/ db' = Recorded(Queue)
      /\ excuse' = excuse \/ excuse' = excuse \cup {"failed"}
  BY DEF Flush, FlushFails, storeVars
<1>2. bus \in Seq(Stamps) /\ flushed \in 0 .. Len(bus) /\ Len(bus) \in Nat /\ db \subseteq Stamps
      /\ excuse \subseteq Excuses
  BY LenProperties DEF LogTyped, DaemonFits, StoreFits
<1>3. db' \subseteq Stamps /\ excuse' \subseteq Excuses /\ flushed' \in 0 .. Len(bus)
  <2>1. Recorded(Queue) \subseteq Stamps
    BY <1>2, QueueIs
  <2>2. db' \subseteq Stamps /\ flushed' \in 0 .. Len(bus)
    BY <1>1, <1>2, <2>1
  <2>3. "failed" \in Excuses
    BY DEF Excuses
  <2>4. excuse' \subseteq Excuses
    BY <1>1, <1>2, <2>3
  <2>5. QED
    BY <2>2, <2>4
<1>4. DaemonFits'
  BY <1>1, <1>3 DEF LogTyped, DaemonFits, Watching, Size
<1>5. QED
  BY <1>1, <1>3, <1>4 DEF LogTyped, DiskFits, StoreFits, OpenIsFollowed

LEMMA GoneTyped ==
  ASSUME LogTyped, OpenIsFollowed, DaemonStops \/ DaemonExits \/ DaemonKilled
  PROVE  /\ (LogTyped /\ OpenIsFollowed)'
         /\ UNCHANGED <<disk, old, stored, exits, starts>>
         /\ db' = db \/ db' = Recorded(Queue)
         /\ excuse' = excuse \/ excuse' = excuse \cup {"held"}
         /\ \/ status' = "down" /\ file' = NoFile /\ hand' = NoHand /\ bus' = <<>> /\ flushed' = 0
            \/ /\ status = "up" /\ status' = "stopping" /\ flushed' = Len(bus) /\ UNCHANGED <<file, hand, bus, excuse>>
               /\ db' = Recorded(Queue)
<1>1. /\ UNCHANGED <<disk, old, stored, exits, starts>>
      /\ db' = db \/ db' = Recorded(Queue)
      /\ excuse' = excuse \/ excuse' = excuse \cup {"held"}
      /\ \/ status' = "down" /\ file' = NoFile /\ hand' = NoHand /\ bus' = <<>> /\ flushed' = 0
         \/ /\ status = "up" /\ status' = "stopping" /\ flushed' = Len(bus) /\ UNCHANGED <<file, hand, bus, excuse>>
            /\ db' = Recorded(Queue)
  BY DEF DaemonStops, DaemonExits, DaemonKilled, Gone
<1>2. bus \in Seq(Stamps) /\ flushed \in 0 .. Len(bus) /\ Len(bus) \in Nat /\ db \subseteq Stamps
      /\ excuse \subseteq Excuses
  BY LenProperties DEF LogTyped, DaemonFits, StoreFits
<1>3. db' \subseteq Stamps /\ excuse' \subseteq Excuses
  BY <1>1, <1>2, QueueIs DEF Excuses
<1>4. DiskFits' /\ StoreFits' /\ Size' = Size
  BY <1>1, <1>3 DEF LogTyped, DiskFits, StoreFits, Size
<1>5. CASE status' = "down" /\ file' = NoFile /\ hand' = NoHand /\ bus' = <<>> /\ flushed' = 0
  <2>1. flushed' \in 0 .. Len(bus') /\ bus' \in Seq(Stamps)
    BY <1>5
  <2>2. DaemonFits'
    BY <1>1, <1>3, <1>5, <2>1, NoHandIs DEF LogTyped, DaemonFits
  <2>3. OpenIsFollowed'
    BY <1>5 DEF OpenIsFollowed
  <2>4. QED
    BY <1>1, <1>4, <2>2, <2>3 DEF LogTyped
<1>6. CASE /\ status = "up" /\ status' = "stopping" /\ flushed' = Len(bus) /\ UNCHANGED <<file, hand, bus, excuse>>
           /\ db' = Recorded(Queue)
  <2>1. flushed' \in 0 .. Len(bus')
    BY <1>2, <1>6
  <2>2. DaemonFits'
    BY <1>1, <1>3, <1>4, <1>6, <2>1 DEF LogTyped, DaemonFits, Watching
  <2>3. OpenIsFollowed'
    BY <1>1, <1>6 DEF OpenIsFollowed
  <2>4. QED
    BY <1>1, <1>4, <2>2, <2>3 DEF LogTyped
<1>7. QED
  BY <1>1, <1>5, <1>6

LEMMA LogTypedStep ==
  ASSUME LogTyped, OpenIsFollowed, [Next]_vars
  PROVE  (LogTyped /\ OpenIsFollowed)'
<1>1. CASE \E rewrite \in BOOLEAN : ClientStarts(rewrite)
  BY <1>1, ClientStartsTyped
<1>2. CASE ClientWritesHalf \/ ClientEndsLine
  BY <1>2, ClientWritesTyped
<1>3. CASE TimePasses
  BY <1>3, TimePassesTyped
<1>4. CASE DaemonStarts
  BY <1>4, StartsTyped
<1>5. CASE Scan
  BY <1>5, ScanTyped
<1>6. CASE ReadTail
  BY <1>6, ReadTailTyped
<1>7. CASE IngestRead
  BY <1>7, IngestTyped
<1>8. CASE TickWithoutRead
  BY <1>8, TickTyped
<1>9. CASE Flush \/ FlushFails
  BY <1>9, FlushTyped
<1>10. CASE DaemonStops \/ DaemonExits \/ DaemonKilled
  BY <1>10, GoneTyped
<1>11. CASE UNCHANGED vars
  BY <1>11 DEF vars, LogTyped, OpenIsFollowed, DiskFits, StoreFits, DaemonFits, Watching, Size
<1>12. QED
  BY <1>1, <1>2, <1>3, <1>4, <1>5, <1>6, <1>7, <1>8, <1>9, <1>10, <1>11 DEF Next

LEMMA OpenRowsHold == LogTyped /\ OpenIsFollowed => OpenRowsAreFollowed
<1> SUFFICES ASSUME LogTyped, OpenIsFollowed
             PROVE  OpenRowsAreFollowed
  OBVIOUS
<1>1. TypeOK
  <2>1. /\ disk.run \in 0 .. MaxRuns /\ disk.key \in 0 .. MaxRuns
        /\ disk.lines # <<>> => disk.lines \o disk.script \in Scripts[disk.run]
    BY Bounds DEF LogTyped, DiskFits
  <2>2. /\ file.stale \in BOOLEAN /\ file.primed \in BOOLEAN /\ file.finished \in BOOLEAN
        /\ file.offset \in Nat /\ file.run \in 0 .. disk.run
    <3>1. disk.run \in Nat
      BY Bounds DEF LogTyped, DiskFits
    <3>2. file # NoFile => Sound(file) /\ file.run <= disk.run
      BY DEF LogTyped, DaemonFits
    <3>3. CASE file = NoFile
      <4>1. /\ file.stale = FALSE /\ file.primed = FALSE /\ file.finished = FALSE
            /\ file.offset = 0 /\ file.run = 0
        BY <3>3, NoFileIs
      <4>2. file.stale \in BOOLEAN /\ file.primed \in BOOLEAN /\ file.finished \in BOOLEAN
        BY <4>1, Zenon
      <4>3. file.offset \in Nat /\ file.run \in 0 .. disk.run
        BY <3>1, <4>1
      <4>4. QED
        BY <4>2, <4>3
    <3>4. CASE file # NoFile
      <4>1. /\ file.stale \in BOOLEAN /\ file.primed \in BOOLEAN /\ file.finished \in BOOLEAN
            /\ file.offset \in Nat /\ file.run \in Keys
        BY <3>2, <3>4, FileFields
      <4>2. QED
        BY <3>1, <3>2, <3>4, <4>1 DEF Keys
    <3>5. QED
      BY <3>3, <3>4
  <2>3. Len(file.tracker.buffered) < MaxBuffered
    <3>1. CASE file.tracker = NoTracker
      BY <3>1, NoTrackerIs, Bounds
    <3>2. CASE file.tracker # NoTracker
      <4>1. Sound(file)
        BY <3>2, NoFileIs DEF LogTyped, DaemonFits
      <4>2. Working(file.tracker) \/ Over(file.tracker)
        BY <3>2, <4>1, FileFields
      <4>3. QED
        BY <4>2, Bounds DEF Working, Over
    <3>3. QED
      BY <3>1, <3>2
  <2>4. /\ old \in BOOLEAN /\ hand.read \in BOOLEAN /\ status \in {"down", "up", "stopping"}
        /\ starts \in 0 .. MaxStarts /\ flushed \in 0 .. Len(bus) /\ excuse \subseteq Excuses
    BY DEF LogTyped, DaemonFits, Hands
  <2>5. /\ exits \in [Rows -> {"none", "open", "clean", "crash", "unknown"}]
        /\ \A k \in Keys : stored[k].pos \in Nat /\ stored[k].run \in 0 .. disk.run
    <3>1. disk.run \in Nat
      BY Bounds DEF LogTyped, DiskFits
    <3>2. QED
      BY <3>1 DEF LogTyped, StoreFits
  <2>6. QED
    BY <2>1, <2>2, <2>3, <2>4, <2>5 DEF TypeOK
<1>2. status = "up" =>
        {r \in Rows : exits[r] = "open"} = IF Live(file.tracker) THEN {file.tracker.row} ELSE {}
  <2> SUFFICES ASSUME status = "up"
               PROVE  {r \in Rows : exits[r] = "open"} = IF Live(file.tracker) THEN {file.tracker.row} ELSE {}
    OBVIOUS
  <2>1. \A r \in Rows : exits[r] = "open" <=> Live(file.tracker) /\ r = file.tracker.row
    BY DEF OpenIsFollowed
  <2>2. Live(file.tracker) => file.tracker.row \in Rows
    <3>1. Live(file.tracker) => file # NoFile /\ file.tracker # NoTracker
      BY NoFileIs, NoTrackerIs
    <3>2. file # NoFile => Sound(file)
      BY DEF LogTyped, DaemonFits
    <3>3. QED
      BY <3>1, <3>2, FileFields
  <2>3. QED
    BY <2>1, <2>2
<1>3. QED
  BY <1>1, <1>2 DEF OpenRowsAreFollowed

\* The rows that are open in the store are the session the watcher follows, whatever way
\* starts, reads, rotations, truncations, quits and the reaper interleave.
THEOREM OpenRowsFollowed == Spec => []OpenRowsAreFollowed
<1>1. LogTyped /\ OpenIsFollowed /\ [Next]_vars => (LogTyped /\ OpenIsFollowed)'
  BY LogTypedStep
<1>2. QED
  BY LogTypedInit, <1>1, OpenRowsHold, PTL DEF Spec
-----------------------------------------------------------------------------
(* What has been read and what has left, in the order of the file.         *)

LEMMA PrecedesTransitive ==
  \A a, b, c \in Spots : Precedes(a, b) /\ Precedes(b, c) => Precedes(a, c)
BY Bounds DEF Precedes, Spots, Keys

LEMMA AscendingAppend ==
  ASSUME NEW p \in Seq(Spots), NEW x \in Spots, Ascending(p), \A a \in Range(p) : Precedes(a, x)
  PROVE  Ascending(Append(p, x))
<1> DEFINE q == Append(p, x)
<1>1. Len(p) \in Nat /\ Len(q) = Len(p) + 1 /\ q[Len(p) + 1] = x /\ \A n \in 1 .. Len(p) : q[n] = p[n]
  BY LenProperties, AppendProperties
<1> HIDE DEF q
<1>2. ASSUME NEW m \in 1 .. Len(q), NEW n \in 1 .. Len(q), m < n
      PROVE  Precedes(q[m], q[n])
  <2>1. m \in 1 .. Len(p) /\ q[m] = p[m]
    BY <1>1, <1>2
  <2>2. CASE n = Len(p) + 1
    <3>1. p[m] \in Range(p)
      BY <2>1, RangeEquality
    <3>2. QED
      BY <1>1, <2>1, <2>2, <3>1
  <2>3. CASE n # Len(p) + 1
    <3>1. n \in 1 .. Len(p) /\ q[n] = p[n]
      BY <1>1, <2>3
    <3>2. QED
      BY <1>2, <2>1, <3>1 DEF Ascending
  <2>4. QED
    BY <2>2, <2>3
<1>3. QED
  BY <1>2 DEF Ascending, q

LEMMA AscendingPrefix ==
  ASSUME NEW p \in Seq(Spots), NEW q \in Seq(Spots), Ascending(p \o q)
  PROVE  Ascending(p) /\ Range(p) \subseteq Range(p \o q)
<1> DEFINE r == p \o q
<1>1. /\ Len(p) \in Nat /\ Len(q) \in Nat /\ Len(r) = Len(p) + Len(q)
      /\ \A n \in 1 .. Len(p) : n \in 1 .. Len(r) /\ r[n] = p[n]
  BY LenProperties, ConcatProperties
<1>2. Range(r) = Range(p) \cup Range(q)
  BY RangeConcatenation
<1>3. Ascending(r)
  OBVIOUS
<1> HIDE DEF r
<1>4. Ascending(p)
  BY <1>1, <1>3 DEF Ascending
<1>5. QED
  BY <1>2, <1>4 DEF r

LEMMA LineFollows ==
  ASSUME NEW f, hand.lines \in Seq(Lines), NEW n \in 1 .. Len(hand.lines), NEW s,
         Ingested(f, n - 1, s), NEW p \in Seq(Spots), Ascending(p \o Contents(s)),
         \A a \in Range(p \o Contents(s)) : Precedes(a, Place(hand.lines[n]))
  PROVE  Ascending(p \o Contents(PushLine(s, hand.lines[n])))
<1> DEFINE l == hand.lines[n]
           t == PushLine(s, l)
           c == Contents(s)
<1>1. l \in Lines /\ s \in ScanStates /\ c \in Seq(Spots) /\ Place(l) \in Spots
  BY CoreIs, PlaceIsSpot DEF Ingested, Located
<1>2. Contents(t) = c \/ Contents(t) = Append(c, Place(l))
  <2>1. Working(s.tracker) \/ Over(s.tracker)
    BY DEF Ingested
  <2>2. CASE l.whole /\ Working(s.tracker)
    BY <1>1, <2>2, PushLineIs DEF Pushed
  <2>3. CASE ~l.whole \/ ~Working(s.tracker)
    <3>1. ~l.whole \/ ~Live(s.tracker)
      BY <2>1, <2>3 DEF Live, Over
    <3>2. t = s
      BY <1>1, <3>1, PushLineIs
    <3> HIDE DEF t
    <3>3. QED
      BY <3>2
  <2>4. QED
    BY <2>2, <2>3
<1> HIDE DEF t
<1>3. CASE Contents(t) = c
  BY <1>3 DEF t
<1>4. CASE Contents(t) = Append(c, Place(l))
  <2> DEFINE x == Place(l)
             r == p \o c
  <2>1. r \in Seq(Spots) /\ x \in Spots /\ Ascending(r) /\ \A a \in Range(r) : Precedes(a, x)
    BY <1>1, ConcatProperties
  <2> HIDE DEF c, x, r
  <2>2. Ascending(Append(r, x))
    BY <2>1, AscendingAppend
  <2>3. p \o Append(c, x) = Append(r, x)
    BY <1>1, <2>1, AppendedLater DEF r
  <2>4. QED
    BY <1>4, <2>2, <2>3 DEF t, x
<1>5. QED
  BY <1>2, <1>3, <1>4

LEMMA LinesFollow ==
  ASSUME NEW f, f.tracker \in Trackers, f.tracker # NoTracker, f.block \in Blocks, Working(f.tracker),
         hand.lines \in Seq(Lines), NEW p \in Seq(Spots), Content(f) \in Seq(Spots),
         Ascending(p \o Content(f)),
         \A a \in Range(p \o Content(f)) : \A m \in 1 .. Len(hand.lines) : Precedes(a, Place(hand.lines[m])),
         \A m, n \in 1 .. Len(hand.lines) : m < n => Precedes(Place(hand.lines[m]), Place(hand.lines[n]))
  PROVE  Ascending(p \o Contents(IngestLines(f)))
<1> DEFINE N == Len(hand.lines)
<1>1. N \in Nat
  BY LenProperties
<1>2. PICK a : Chain(a, f, N) /\ IngestLines(f) = a[N]
  BY IngestIsChain
<1> HIDE DEF N
<1> DEFINE S == {n \in 0 .. N : Ingested(f, n, a[n]) /\ Ascending(p \o Contents(a[n]))}
<1>3. 0 \in S
  <2>1. a[0] = ScanState(f) /\ 0 \in 0 .. N
    BY <1>1, <1>2 DEF Chain
  <2>2. Ascending(p \o Contents(a[0]))
    BY <2>1 DEF Content
  <2>3. QED
    BY <2>1, <2>2, NothingIngested
<1>4. ASSUME NEW n \in 1 .. N, n - 1 \in S
      PROVE  n \in S
  <2>1. a[n] = PushLine(a[n - 1], hand.lines[n]) /\ n \in 0 .. N
    <3>1. \A i \in 1 .. N : a[i] = PushLine(a[i - 1], hand.lines[i])
      BY <1>2 DEF Chain
    <3>2. n \in 0 .. N
      BY <1>1
    <3>3. QED
      BY <3>1, <3>2
  <2> DEFINE s == a[n - 1]
  <2>2. Ingested(f, n - 1, s) /\ n \in 1 .. Len(hand.lines) /\ Ascending(p \o Contents(s))
    BY <1>4 DEF N
  <2>3. a[n] = PushLine(s, hand.lines[n])
    BY <2>1
  <2> HIDE DEF s
  <2>4. Ingested(f, n, a[n])
    BY <2>2, <2>3, LineIngested
  <2>5. \A x \in Range(p \o Contents(s)) : Precedes(x, Place(hand.lines[n]))
    <3> SUFFICES ASSUME NEW x \in Range(p \o Contents(s))
                 PROVE  Precedes(x, Place(hand.lines[n]))
      OBVIOUS
    <3> DEFINE c == Contents(s)
               d == Content(f)
    <3>1. c \in Seq(Spots) /\ d \in Seq(Spots)
      BY <2>2, CoreIs DEF Ingested
    <3>2. \A y \in Range(c) : y \in Range(d) \/ \E m \in 1 .. n - 1 : y = Place(hand.lines[m])
      BY <2>2 DEF Ingested
    <3>3. \A y \in Range(p \o d) : Precedes(y, Place(hand.lines[n]))
      BY <2>2
    <3>4. x \in Range(p \o c)
      OBVIOUS
    <3> HIDE DEF c, d
    <3>5. Range(p \o c) = Range(p) \cup Range(c) /\ Range(p \o d) = Range(p) \cup Range(d)
      BY <3>1, RangeConcatenation
    <3>6. \A m \in 1 .. n - 1 : Precedes(Place(hand.lines[m]), Place(hand.lines[n]))
      <4>1. \A m \in 1 .. n - 1 : m \in 1 .. N /\ m < n
        BY <1>1
      <4>2. QED
        BY <4>1 DEF N
    <3>7. QED
      BY <3>2, <3>3, <3>4, <3>5, <3>6
  <2>6. Ascending(p \o Contents(a[n]))
    BY <2>2, <2>3, <2>5, LineFollows
  <2>7. QED
    BY <2>1, <2>4, <2>6
<1> HIDE DEF S
<1>5. 0 .. N \subseteq S
  BY <1>1, <1>3, <1>4, Counting
<1>6. N \in 0 .. N
  BY <1>1
<1>7. Ascending(p \o Contents(a[N]))
  BY <1>5, <1>6 DEF S
<1>8. QED
  BY <1>2, <1>7

LEMMA LinesStay ==
  ASSUME LogTyped, ClientWritesHalf \/ ClientEndsLine
  PROVE  \A i \in DOMAIN disk.lines : i \in DOMAIN disk'.lines /\ disk'.lines[i] = disk.lines[i]
<1>1. /\ disk.lines \in Seq(Texts)
      /\ disk \in [run : 0 .. MaxRuns, key : 0 .. MaxRuns, lines : Seq(Texts), half : BOOLEAN, script : Seq(Texts)]
  BY DEF LogTyped, DiskFits
<1>2. CASE ClientWritesHalf
  <2> DEFINE h == Head(disk.script)
             more == Append(disk.lines, h)
  <2>1. h \in Texts
    <3>1. disk.script \in Seq(Texts) /\ disk.script # <<>>
      BY <1>2 DEF LogTyped, DiskFits, ClientWritesHalf
    <3>2. QED
      BY <3>1
  <2>2. disk'.lines = more
    <3>1. disk' = [disk EXCEPT !.lines = more, !.half = TRUE, !.script = Tail(disk.script)]
      BY <1>2 DEF ClientWritesHalf
    <3> HIDE DEF more
    <3>2. QED
      BY <1>1, <3>1
  <2> HIDE DEF h
  <2>3. /\ DOMAIN disk.lines = 1 .. Len(disk.lines) /\ DOMAIN more = 1 .. Len(disk.lines) + 1
        /\ Len(disk.lines) \in Nat
        /\ \A i \in 1 .. Len(disk.lines) : more[i] = disk.lines[i]
    BY <1>1, <2>1, AppendProperties, LenProperties
  <2> HIDE DEF more
  <2>4. QED
    BY <2>2, <2>3
<1>3. CASE ClientEndsLine
  <2>1. disk'.lines = disk.lines
    BY <1>1, <1>3 DEF ClientEndsLine
  <2>2. QED
    BY <2>1
<1>4. QED
  BY <1>2, <1>3

\* A step after which nothing of a read is in hand, and the half line is gone or as it was.
LEMMA NothingInHand ==
  ASSUME LogTyped, ReadFits, KindsFit, UNCHANGED disk, hand' = NoHand, file' # NoFile => Sound(file'),
         file' # NoFile => \/ file'.carry = NoLine \/ file'.finished
                           \/ /\ file # NoFile /\ ~file.finished /\ file'.carry = file.carry
                              /\ file'.run = file.run /\ file'.offset = file.offset
  PROVE  (ReadFits /\ KindsFit)'
<1>1. /\ hand'.lines = <<>> /\ DOMAIN hand'.lines = {} /\ Len(hand'.lines) = 0 /\ ~hand'.truncated
  BY NoHandIs
<1>2. file' # NoFile => file'.offset \in Nat
  BY FileFields
<1>3. ReadFits'
  BY <1>1, <1>2 DEF ReadFits
<1>4. KindsFit'
  BY <1>1 DEF KindsFit, OfDisk
<1>5. QED
  BY <1>3, <1>4

LEMMA SameTail ==
  ASSUME LogTyped, ReadFits, KindsFit, UNCHANGED <<file, hand>>,
         \/ disk'.run = disk.run /\ \A i \in DOMAIN disk.lines : i \in DOMAIN disk'.lines /\ disk'.lines[i] = disk.lines[i]
         \/ file = NoFile \/ file.run # disk'.run
  PROVE  (ReadFits /\ KindsFit)'
<1>1. ReadFits'
  BY DEF ReadFits, Through
<1>2. KindsFit'
  <2>1. CASE file = NoFile \/ file.run # disk'.run
    BY <2>1 DEF KindsFit
  <2>2. CASE /\ disk'.run = disk.run /\ file # NoFile /\ file.run = disk.run
             /\ \A i \in DOMAIN disk.lines : i \in DOMAIN disk'.lines /\ disk'.lines[i] = disk.lines[i]
    <3>1. \A n \in DOMAIN hand.lines : hand.lines[n].run = file.run
      BY <2>2 DEF ReadFits
    <3>2. \A n \in DOMAIN hand.lines : /\ hand.lines[n].line \in DOMAIN disk.lines
                                      /\ hand.lines[n].text = disk.lines[hand.lines[n].line]
      BY <2>2, <3>1 DEF KindsFit, OfDisk
    <3>3. file.carry # NoLine /\ ~file.finished /\ file.carry.run = disk.run =>
            file.carry.line \in DOMAIN disk.lines /\ file.carry.text = disk.lines[file.carry.line]
      BY <2>2 DEF KindsFit, OfDisk
    <3>4. QED
      BY <2>2, <3>2, <3>3 DEF KindsFit, OfDisk
  <2>3. QED
    BY <2>1, <2>2
<1>3. QED
  BY <1>1, <1>2

LEMMA ReadTailFits ==
  ASSUME LogTyped, ReadFits, KindsFit, ReadTail
  PROVE  (ReadFits /\ KindsFit)' /\ Through' = From \div 2
<1> DEFINE m == From \div 2
           k == To \div 2
<1>1. /\ file # NoFile /\ ~file.finished /\ Sound(file) /\ hand = NoHand /\ status = "up"
      /\ disk.run \in Keys /\ Len(disk.lines) \in Nat /\ Size \in Nat
      /\ From \in Nat /\ To \in Nat /\ From <= To /\ To <= Size
      /\ m \in Nat /\ k \in Nat /\ m <= k /\ k <= Len(disk.lines)
      /\ (To % 2 = 1 => (To + 1) \div 2 = k + 1 /\ k + 1 <= Len(disk.lines))
      /\ UNCHANGED disk
  BY ReadTailIs
<1>2. /\ file' \in Files /\ file' # NoFile
      /\ file'.key = file.key /\ file'.run = disk.run /\ file'.offset = To
      /\ file'.carry = IF To = From THEN Carried ELSE IF To % 2 = 1 THEN LineOnDisk(k + 1) ELSE NoLine
      /\ hand'.truncated = Cut /\ Len(hand'.lines) = k - m
      /\ hand' \in Hands
      /\ \A n \in 1 .. k - m : m + n \in 1 .. Len(disk.lines) /\ hand'.lines[n] = Spilled(m + n)
  BY ReadResult
<1> HIDE DEF m, k
<1>3. Through' = m
  BY <1>1, <1>2 DEF Through, k
<1>4. DOMAIN hand'.lines = 1 .. k - m
  <2>1. hand'.lines \in Seq(Lines)
    BY <1>2 DEF Hands
  <2>2. QED
    BY <1>2, <2>1, LenProperties
<1>5. \A n \in 1 .. k - m : /\ hand'.lines[n].run = disk.run /\ hand'.lines[n].line = m + n
                            /\ hand'.lines[n].text = disk.lines[m + n]
  <2> TAKE n \in 1 .. k - m
  <2> DEFINE i == m + n
  <2>1. i \in 1 .. Len(disk.lines) /\ hand'.lines[n] = Spilled(i)
    BY <1>2
  <2> HIDE DEF i
  <2>2. Spilled(i).run = disk.run /\ Spilled(i).line = i /\ Spilled(i).text = disk.lines[i]
    BY <1>1, <2>1, LineOnDiskIs DEF LogTyped
  <2>3. QED
    BY <2>1, <2>2 DEF i
<1>6. file.run <= disk.run /\ file.run \in Keys /\ file.offset \in Nat /\ disk.run \in Nat
  BY <1>1, FileFields, Bounds DEF LogTyped, DaemonFits, DiskFits
<1>7. To % 2 = 1 => k + 1 \in 1 .. Len(disk.lines)
  BY <1>1
<1>8. To % 2 = 1 => LineOnDisk(k + 1).run = disk.run /\ LineOnDisk(k + 1).line = k + 1
                    /\ LineOnDisk(k + 1).text = disk.lines[k + 1]
  BY <1>1, <1>7, LineOnDiskIs DEF LogTyped
<1>9. ASSUME file'.carry # NoLine
      PROVE  /\ To % 2 = 1
             /\ \/ file'.carry.run < disk.run /\ hand'.lines = <<>>
                \/ file'.carry.run = disk.run /\ file'.carry.line = k + 1
             /\ file'.carry.run = disk.run =>
                  file'.carry.line \in DOMAIN disk.lines /\ file'.carry.text = disk.lines[file'.carry.line]
  <2>1. CASE To = From
    <3>1. file'.carry = file.carry /\ ~Cut /\ file.carry # NoLine /\ To = file.offset
      BY <1>2, <1>9, <2>1 DEF Carried, From
    <3>2. /\ file.offset % 2 = 1
          /\ \/ file.carry.run < file.run
             \/ file.carry.run = file.run /\ file.carry.line = file.offset \div 2 + 1
      BY <1>1, <3>1 DEF ReadFits
    <3>3. hand'.lines = <<>>
      <4>1. k - m = 0
        BY <1>1, <2>1 DEF k, m
      <4>2. hand'.lines \in Seq(Lines) /\ Len(hand'.lines) = 0
        BY <1>2, <4>1 DEF Hands
      <4>3. QED
        BY <4>2, EmptySeq
    <3>4. file.carry \in Lines /\ file.carry.run \in Nat
      BY <1>1, <3>1, FileFields DEF Halves, Lines, Keys
    <3>5. /\ file.run = disk.run /\ file.carry.run = disk.run =>
             file.carry.line \in DOMAIN disk.lines /\ file.carry.text = disk.lines[file.carry.line]
      BY <1>1, <3>1 DEF KindsFit, OfDisk
    <3>6. file.carry.run < disk.run \/ (file.run = disk.run /\ file.carry.run = disk.run /\ file.carry.line = k + 1)
      <4>1. file.run \in Nat
        BY <1>6 DEF Keys
      <4>2. QED
        BY <1>6, <3>1, <3>2, <3>4, <4>1 DEF k
    <3>7. file.carry.run = disk.run => file.run = disk.run
      BY <1>6, <3>4, <3>6
    <3>8. QED
      BY <3>1, <3>2, <3>3, <3>5, <3>6, <3>7
  <2>2. CASE To # From
    <3>1. To % 2 = 1 /\ file'.carry = LineOnDisk(k + 1)
      BY <1>2, <1>9, <2>2
    <3>2. DOMAIN disk.lines = 1 .. Len(disk.lines)
      BY LenProperties DEF LogTyped, DiskFits
    <3>3. QED
      BY <1>7, <1>8, <3>1, <3>2
  <2>3. QED
    BY <2>1, <2>2
<1>10. ReadFits'
  <2>1. Cut => m = 0
    BY DEF m, From
  <2>2. \A n \in 1 .. k - m : hand'.lines[n].run = file'.run /\ hand'.lines[n].line = Through' + n
    BY <1>2, <1>3, <1>5
  <2>3. Len(hand'.lines) <= file'.offset \div 2
    BY <1>1, <1>2 DEF k
  <2>4. file'.offset \div 2 = k
    BY <1>2 DEF k
  <2>5. QED
    BY <1>2, <1>3, <1>4, <1>9, <2>1, <2>2, <2>3, <2>4 DEF ReadFits
<1>11. KindsFit'
  <2>1. DOMAIN disk.lines = 1 .. Len(disk.lines)
    BY LenProperties DEF LogTyped, DiskFits
  <2>2. \A n \in 1 .. k - m : hand'.lines[n].line \in DOMAIN disk.lines /\ hand'.lines[n].text = disk.lines[hand'.lines[n].line]
    BY <1>2, <1>5, <2>1
  <2>3. QED
    BY <1>1, <1>4, <1>9, <2>2 DEF KindsFit, OfDisk
<1>12. QED
  BY <1>3, <1>10, <1>11 DEF m

LEMMA ReadFitsStep ==
  ASSUME LogTyped, ReadFits, KindsFit, [Next]_vars
  PROVE  (ReadFits /\ KindsFit)'
<1>1. CASE \E rewrite \in BOOLEAN : ClientStarts(rewrite)
  <2>1. UNCHANGED <<file, hand>> /\ disk'.run = disk.run + 1
    BY <1>1 DEF ClientStarts, daemonVars
  <2>2. file # NoFile => file.run <= disk.run /\ file.run \in Nat /\ disk.run \in Nat
    BY FileFields, Bounds DEF LogTyped, DaemonFits, DiskFits, Keys
  <2>3. QED
    BY <2>1, <2>2, SameTail
<1>2. CASE ClientWritesHalf \/ ClientEndsLine
  <2>1. UNCHANGED <<file, hand>> /\ disk'.run = disk.run
    BY <1>2 DEF ClientWritesHalf, ClientEndsLine, daemonVars, LogTyped, DiskFits
  <2>2. QED
    BY <1>2, <2>1, LinesStay, SameTail
<1>3. CASE DaemonStarts \/ Flush \/ FlushFails \/ UNCHANGED vars
  <2>1. UNCHANGED <<disk, file, hand>>
    BY <1>3 DEF DaemonStarts, Flush, FlushFails, vars, daemonVars
  <2>2. QED
    BY <2>1, SameTail
<1>4. CASE TimePasses
  <2>1. UNCHANGED disk /\ hand = NoHand /\ hand' = NoHand
    BY <1>4 DEF TimePasses
  <2>2. file' = IF file = NoFile THEN file ELSE [file EXCEPT !.stale = TRUE]
    BY <1>4 DEF TimePasses
  <2>3. file # NoFile => /\ file \in Files /\ Sound(file) 
    BY FileFields DEF LogTyped, DaemonFits
  <2>4. file # NoFile => /\ file' \in Files /\ file'.carry = file.carry /\ file'.run = file.run /\ file'.offset = file.offset
                         /\ file'.finished = file.finished /\ file'.key = file.key /\ file'.row = file.row
                         /\ file'.tracker = file.tracker /\ file'.block = file.block
    BY <2>2, <2>3 DEF Files
  <2>5. file' # NoFile => Sound(file')
    BY <2>2, <2>3, <2>4 DEF Sound
  <2>6. QED
    BY <2>1, <2>2, <2>4, <2>5, NothingInHand
<1>5. CASE Scan
  <2>1. UNCHANGED disk /\ hand' = NoHand /\ file' = Taken /\ disk.run > 0
    BY <1>5, ScanSteps DEF AdoptedWith, Taken
  <2>2. Sound(Taken) /\ Taken.carry = NoLine
    BY <2>1, TakenIs DEF LogTyped, DaemonFits
  <2>3. QED
    BY <2>1, <2>2, NothingInHand
<1>6. CASE ReadTail
  BY <1>6, ReadTailFits
<1>7. CASE IngestRead
  <2>1. hand.read /\ hand' = NoHand /\ UNCHANGED disk /\ file' = Result.file
    BY <1>7, IngestSteps DEF Written
  <2>2. /\ Sound(Result.file) /\ Result.file.run = file.run /\ Result.file.offset = file.offset
    BY <2>1, SentIs
  <2>3. ~file.finished /\ file # NoFile /\ (Source.carry = NoLine \/ Source.carry = file.carry)
    BY <2>1, SourceIs
  <2>4. Sound(Settled) /\ Settled.carry = Source.carry
    BY <2>1, SettledIs
  <2>5. Result.file = Settled \/ Result.file.finished
    BY <2>4, ReapedIs DEF Result
  <2>6. QED
    BY <2>1, <2>2, <2>3, <2>4, <2>5, NothingInHand
<1>8. CASE TickWithoutRead
  <2>1. /\ hand = NoHand /\ file # NoFile /\ ~file.finished /\ UNCHANGED <<disk, hand>>
    BY <1>8, TickIs
  <2>2. PICK missing \in BOOLEAN :
          LET g == Polled(missing)
              r == Reaped(g)
          IN /\ file' = r.file 
             /\ Sound(g) /\ g.run = file.run /\ g.offset = file.offset
             /\ g.carry = file.carry
    BY <1>8, TickIs
  <2> DEFINE g == Polled(missing)
             f == Reaped(g).file
  <2>3. file' = f /\ Sound(g) /\ g.run = file.run /\ g.offset = file.offset /\ g.carry = file.carry
    BY <2>2
  <2> HIDE DEF g
  <2>4. Sound(f) /\ f.run = g.run /\ f.offset = g.offset /\ (f = g \/ f.finished)
    BY <2>3, ReapedIs
  <2> HIDE DEF f
  <2>5. QED
    BY <2>1, <2>3, <2>4, NothingInHand
<1>9. CASE DaemonStops \/ DaemonExits \/ DaemonKilled
  <2>1. /\ UNCHANGED disk
        /\ \/ file' = NoFile /\ hand' = NoHand
           \/ UNCHANGED <<file, hand>>
    BY <1>9 DEF DaemonStops, DaemonExits, DaemonKilled, Gone
  <2>2. CASE file' = NoFile /\ hand' = NoHand
    BY <2>1, <2>2, NothingInHand
  <2>3. CASE UNCHANGED <<file, hand>>
    BY <2>1, <2>3, SameTail
  <2>4. QED
    BY <2>1, <2>2, <2>3
<1>10. QED
  BY <1>1, <1>2, <1>3, <1>4, <1>5, <1>6, <1>7, <1>8, <1>9 DEF Next

LEMMA StoryIs ==
  ASSUME LogTyped
  PROVE  /\ Places(bus) \in Seq(Spots) /\ Content(file) \in Seq(Spots) /\ Story \in Seq(Spots)
         /\ Story = Places(bus) \o Content(file)
         /\ Range(Story) = Range(Places(bus)) \cup Range(Content(file))
         /\ file = NoFile => Story = <<>>
<1>1. bus \in Seq(Located)
  BY SeqMonotonic DEF LogTyped, DaemonFits, Located
<1>2. Places(bus) \in Seq(Spots)
  BY <1>1, PlacesOf
<1>3. file = NoFile \/ Sound(file)
  BY DEF LogTyped, DaemonFits
<1>4. Content(file) \in Seq(Spots) /\ (file = NoFile => Content(file) = <<>>)
  BY <1>3, ContentTyped
<1>5. file = NoFile => Places(bus) = <<>>
  BY PlacesOfNone DEF LogTyped, DaemonFits
<1> DEFINE p == Places(bus)
           c == Content(file)
<1>6. Story = p \o c
  BY DEF Story
<1> HIDE DEF p, c
<1>7. p \in Seq(Spots) /\ c \in Seq(Spots)
  BY <1>2, <1>4 DEF p, c
<1>8. p \o c \in Seq(Spots) /\ Range(p \o c) = Range(p) \cup Range(c)
  BY <1>7, ConcatProperties, RangeConcatenation
<1>9. file = NoFile => p \o c = <<>>
  <2>1. <<>> \o <<>> = <<>>
    BY ConcatEmptySeq
  <2>2. QED
    BY <1>4, <1>5, <2>1 DEF p, c
<1>10. QED
  BY <1>6, <1>7, <1>8, <1>9 DEF p, c

LEMMA EndingIs ==
  ASSUME NEW f, Sound(f)
  PROVE  /\ f.carry = NoLine => Ending(f) = Content(f)
         /\ f.carry # NoLine => Ending(f) = Append(Content(f), Place(f.carry)) /\ Place(f.carry) \in Spots
<1>1. f.carry # NoLine => f.carry \in Lines
  BY FileFields DEF Halves
<1>2. f.carry # NoLine => Place(f.carry) \in Spots
  BY <1>1, PlaceIsSpot DEF Located
<1>3. QED
  BY <1>2 DEF Ending, Content

\* The events that have left before a step are still the first to have left.
Regrouped(a, l, o, r, c) == (a \o ((l \o o) \o r)) \o c = (a \o l) \o (o \o (r \o c))

LEMMA Regroup ==
  ASSUME NEW a \in Seq(Spots), NEW l \in Seq(Spots), NEW o \in Seq(Spots), NEW r \in Seq(Spots), NEW c \in Seq(Spots)
  PROVE  Regrouped(a, l, o, r, c)
<1> DEFINE lo == l \o o
           lor == lo \o r
           rc == r \o c
           orc == o \o rc
           al == a \o l
<1>1. lo \in Seq(Spots) /\ rc \in Seq(Spots) /\ al \in Seq(Spots)
  BY ConcatProperties
<1>2. lo \o rc = l \o orc
  <2> HIDE DEF rc
  <2>1. QED
    BY <1>1, ConcatAssociative, SMTT(60)
<1>3. (a \o l) \o orc = a \o (l \o orc)
  <2>1. orc \in Seq(Spots)
    <3> HIDE DEF rc
    <3>1. QED
      BY <1>1, ConcatProperties
  <2> HIDE DEF orc
  <2>2. QED
    BY <2>1, ConcatAssociative, SMTT(60)
<1>4. lor \o c = lo \o rc
  <2> HIDE DEF lo
  <2>1. QED
    BY <1>1, ConcatAssociative, SMTT(60)
<1>5. (a \o lor) \o c = a \o (lor \o c)
  <2>1. lor \in Seq(Spots)
    <3> HIDE DEF lo
    <3>1. QED
      BY <1>1, ConcatProperties
  <2> HIDE DEF lor
  <2>2. QED
    BY <2>1, ConcatAssociative, SMTT(60)
<1>6. QED
  BY <1>2, <1>3, <1>4, <1>5 DEF Regrouped

\* What was there before a read, its lines, and what the end of the session adds.
LEMMA StoryOfIngest ==
  ASSUME LogTyped, IngestRead, "cut" \notin excuse'
  PROVE  \E p \in Seq(Spots) :
           /\ p \o Content(Roused) = Story
           /\ \/ Story' = p \o Contents(Scanned)
              \/ /\ Result.file.finished /\ Source.carry # NoLine /\ Place(Source.carry) \in Spots
                 /\ Story' = Append(p \o Contents(Scanned), Place(Source.carry))
<1>1. /\ hand.read /\ file' = Result.file /\ bus' = bus \o Sent
      /\ "cut" \notin excuse' => ~(Ends /\ file.carry # NoLine)
  BY IngestSteps DEF Written
<1>2. /\ Sound(file) /\ Sound(Source) /\ ~Source.finished /\ (~hand.truncated => Source = file)
      /\ (hand.truncated => Source.tracker = NoTracker /\ Content(Source) = <<>>)
  BY <1>1, SourceIs
<1>3. /\ Sent \in Seq(Stamps) /\ Result.out \in Seq(Stamps)
      /\ (Ends => Last.out \in Seq(Stamps) /\ Places(Last.out) = Ending(file))
      /\ Sound(Result.file)
  BY <1>1, SentIs
<1>4. /\ Sound(Settled) /\ Settled.carry = Source.carry /\ Scanned.out \in Seq(Stamps)
      /\ Contents(Scanned) = Places(Scanned.out) \o Content(Settled) /\ Sound(Roused)
  BY <1>1, SettledIs
<1> DEFINE a == Places(bus)
           l == IF Ends THEN Content(file) ELSE <<>>
           o == Places(Scanned.out)
           r == Places(Result.out)
           c == Content(Result.file)
           d == Content(Settled)
           p == a \o l
<1>5. a \in Seq(Spots) /\ l \in Seq(Spots) /\ Story = a \o Content(file) /\ Content(file) \in Seq(Spots)
  BY StoryIs
<1>6. o \in Seq(Spots) /\ r \in Seq(Spots) /\ c \in Seq(Spots) /\ d \in Seq(Spots)
  <2>1. Scanned.out \in Seq(Located) /\ Result.out \in Seq(Located)
    BY <1>3, <1>4, SeqMonotonic DEF Located
  <2>2. o \in Seq(Spots) /\ r \in Seq(Spots)
    BY <2>1, PlacesOf
  <2>3. QED
    BY <1>3, <1>4, <2>2, ContentTyped
<1>7. Places(bus') = a \o ((l \o o) \o r)
  <2> DEFINE x == IF Ends THEN Last.out ELSE <<>>
             y == Scanned.out
             z == Result.out
             xy == x \o y
             xyz == xy \o z
  <2>1. x \in Seq(Located) /\ y \in Seq(Located) /\ z \in Seq(Located) /\ bus \in Seq(Located)
    BY <1>3, <1>4, SeqMonotonic DEF Located, LogTyped, DaemonFits
  <2>2. Places(x) = l
    BY <1>1, <1>2, <1>3, PlacesOfNone, EndingIs
  <2>3. bus' = bus \o xyz
    BY <1>1 DEF Sent, AllSent
  <2> HIDE DEF x, y, z
  <2>4. xy \in Seq(Located) /\ Places(xy) = Places(x) \o Places(y)
    BY <2>1, ConcatProperties, PlacesOfConcat
  <2> HIDE DEF xy
  <2>5. xyz \in Seq(Located) /\ Places(xyz) = Places(xy) \o Places(z)
    BY <2>1, <2>4, ConcatProperties, PlacesOfConcat
  <2> HIDE DEF xyz
  <2>6. Places(bus \o xyz) = Places(bus) \o Places(xyz)
    BY <2>1, <2>5, PlacesOfConcat
  <2>7. QED
    BY <2>2, <2>3, <2>4, <2>5, <2>6 DEF y, z
<1>8. Story' = (a \o ((l \o o) \o r)) \o c
  <2>1. Story' = Places(bus') \o Content(file')
    BY DEF Story
  <2>2. QED
    BY <1>1, <1>7, <2>1
<1>9. p \in Seq(Spots)
  BY <1>5, ConcatProperties
<1>10. p \o Content(Roused) = Story
  <2>1. /\ Ends => Content(Roused) = <<>> /\ p = Story
        /\ ~Ends => p = a /\ Content(Roused) = Content(file)
    <3>1. Content(Roused) = Content(Source)
      <4>1. CASE hand.lines = <<>> \/ Source.tracker # NoTracker
        BY <1>2, <4>1, WokenIs, HeadReadIs DEF Roused
      <4>2. CASE hand.lines # <<>> /\ Source.tracker = NoTracker
        <5>1. Content(Roused) = <<>>
          BY <1>2, <4>2, WokenIs, HeadReadIs DEF Roused
        <5>2. Source.block = NoLine
          BY <1>2, <4>2 DEF Sound
        <5>3. Content(Source) = <<>>
          BY <4>2, <5>2, NoTrackerIs, NoContent
        <5>4. QED
          BY <5>1, <5>3
      <4>3. QED
        BY <4>1, <4>2
    <3>2. CASE Ends
      BY <1>2, <1>5, <3>1, <3>2 DEF Ends
    <3>3. CASE ~Ends
      <4>1. p = a
        <5> HIDE DEF a
        <5>1. p = a \o <<>>
          BY <3>3
        <5>2. QED
          BY <1>5, <5>1, ConcatEmptySeq
      <4>2. CASE hand.truncated
        <5>1. file.tracker = NoTracker /\ file.block = NoLine
          BY <1>2, <3>3, <4>2 DEF Ends, Sound
        <5>2. Content(file) = <<>>
          BY <5>1, NoTrackerIs, NoContent
        <5>3. QED
          BY <1>2, <3>1, <3>3, <4>1, <4>2, <5>2
      <4>3. CASE ~hand.truncated
        BY <1>2, <3>1, <3>3, <4>1, <4>3
      <4>4. QED
        BY <4>2, <4>3
    <3>4. QED
      BY <3>2, <3>3
  <2> HIDE DEF p
  <2>2. p \o <<>> = p
    BY <1>9, ConcatEmptySeq
  <2>3. QED
    BY <1>5, <2>1, <2>2
<1>11. \/ Result.file = Settled /\ Result.out = <<>>
       \/ Result.file.finished /\ c = <<>> /\ r = Ending(Settled)
  BY <1>4, ReapedIs DEF Result
<1> DEFINE x == Place(Source.carry)
<1>12. /\ Settled.carry = NoLine => Ending(Settled) = d
       /\ Settled.carry # NoLine => Ending(Settled) = Append(d, x) /\ x \in Spots
  BY <1>4, EndingIs
<1>13. Contents(Scanned) = o \o d
  BY <1>4
<1>14. Result.out = <<>> => r = <<>>
  BY PlacesOfNone
<1>15. Result.file = Settled => c = d
  OBVIOUS
<1> HIDE DEF a, l, o, r, c, d, x
<1>16. Story' = (a \o l) \o (o \o (r \o c))
  <2>1. a \in Seq(Spots) /\ l \in Seq(Spots) /\ o \in Seq(Spots) /\ r \in Seq(Spots) /\ c \in Seq(Spots)
    BY <1>5, <1>6
  <2>2. Regrouped(a, l, o, r, c)
    BY <2>1, Regroup
  <2>3. QED
    BY <1>8, <2>2 DEF Regrouped
<1>17. <<>> \o c = c /\ r \o <<>> = r
  BY <1>6, ConcatEmptySeq
<1>18. CASE Result.file = Settled /\ Result.out = <<>>
  <2>1. Story' = p \o Contents(Scanned)
    BY <1>13, <1>14, <1>15, <1>16, <1>17, <1>18
  <2>2. QED
    BY <1>9, <1>10, <2>1
<1>19. CASE Result.file.finished /\ c = <<>> /\ r = Ending(Settled)
  <2>1. Story' = p \o (o \o r)
    BY <1>16, <1>17, <1>19
  <2>2. CASE Settled.carry = NoLine
    <3>1. Story' = p \o Contents(Scanned)
      BY <1>12, <1>13, <1>19, <2>1, <2>2
    <3>2. QED
      BY <1>9, <1>10, <3>1
  <2>3. CASE Settled.carry # NoLine
    <3>1. r = Append(d, x) /\ x \in Spots
      BY <1>12, <1>19, <2>3
    <3>2. o \o Append(d, x) = Append(o \o d, x)
      BY <1>6, <3>1, AppendedLater
    <3> DEFINE e == o \o d
    <3>3. e \in Seq(Spots)
      BY <1>6, ConcatProperties
    <3> HIDE DEF e, p
    <3>4. p \o Append(e, x) = Append(p \o e, x)
      BY <1>9, <3>1, <3>3, AppendedLater
    <3>5. Story' = Append(p \o Contents(Scanned), x)
      BY <1>13, <2>1, <3>1, <3>2, <3>4 DEF e
    <3>6. QED
      BY <1>4, <1>9, <1>10, <1>19, <2>3, <3>1, <3>5 DEF x
  <2>4. QED
    BY <2>2, <2>3
<1>20. QED
  BY <1>11, <1>18, <1>19
-----------------------------------------------------------------------------
(* The order of the events, step by step.                                  *)

\* A step that leaves the tail, the session and what has left alone.
LEMMA SameStory ==
  ASSUME LogTyped, Ordered, excuse \subseteq excuse', UNCHANGED <<bus, hand>>,
         file' = NoFile <=> file = NoFile,
         file'.carry = file.carry, file'.run = file.run, file'.key = file.key, file'.offset = file.offset,
         file'.finished = file.finished, file'.tracker = file.tracker, file'.block = file.block,
         file # NoFile /\ file.run = disk'.run => disk'.run = disk.run /\ disk'.key = disk.key
  PROVE  Ordered'
<1>1. Clean' => Clean
  BY DEF Clean
<1>2. Story' = Story
  BY DEF Story, Content, ScanState
<1>3. Through' = Through
  BY DEF Through
<1>4. ASSUME Clean'
      PROVE  Ascending(Story') /\ (file' # NoFile => Following')
  <2>1. Ascending(Story) /\ (file # NoFile => Following)
    BY <1>1, <1>4 DEF Ordered
  <2>2. file # NoFile /\ Following => Following'
    BY <1>2, <1>3 DEF Following, Passed
  <2>3. QED
    BY <1>2, <2>1, <2>2
<1>5. QED
  BY <1>4 DEF Ordered

\* The session ends: with what the tail held, all that has left is still in order.
LEMMA EndedStory ==
  ASSUME LogTyped, ReadFits, Ordered, Clean, file # NoFile, ~file.finished
  PROVE  LET p == Places(bus) \o Ending(file)
         IN Ascending(p) /\ \A a \in Range(p) : a[1] <= file.run
<1> DEFINE b == Places(bus)
           c == Content(file)
           x == Place(file.carry)
           e == Ending(file)
<1>1. b \in Seq(Spots) /\ c \in Seq(Spots) /\ Story \in Seq(Spots) /\ Story = b \o c
  BY StoryIs
<1>2. Ascending(Story) /\ Following /\ Sound(file)
  BY DEF Ordered, LogTyped, DaemonFits
<1>3. \A a \in Range(Story) : a[1] <= file.run
  BY <1>2 DEF Following
<1>4. CASE file.carry = NoLine
  <2>1. e = c
    BY <1>2, <1>4, EndingIs
  <2>2. QED
    BY <1>1, <1>2, <1>3, <2>1
<1>5. CASE file.carry # NoLine
  <2>1. e = Append(c, x) /\ x \in Spots
    BY <1>2, <1>5, EndingIs
  <2>2. \A a \in Range(Story) : Precedes(a, x)
    BY <1>2, <1>5 DEF Following
  <2>3. x[1] <= file.run
    <3>1. file.carry.run < file.run \/ file.carry.run = file.run
      BY <1>5 DEF ReadFits
    <3>2. file.run \in Nat /\ x[1] = file.carry.run /\ x[1] \in Nat
      BY <1>2, <2>1, FileFields DEF Place, Spots, Keys
    <3>3. QED
      BY <3>1, <3>2
  <2> HIDE DEF b, c, x, e
  <2>4. b \o Append(c, x) = Append(Story, x)
    BY <1>1, <2>1, AppendedLater
  <2>5. Ascending(Append(Story, x))
    BY <1>1, <1>2, <2>1, <2>2, AscendingAppend
  <2>6. Range(Append(Story, x)) = Range(Story) \cup {x}
    <3> DEFINE q == Story
    <3>1. q \in Seq(Spots)
      BY <1>1
    <3> HIDE DEF q
    <3>2. Range(Append(q, x)) = Range(q) \cup {x}
      BY <2>1, <3>1, RangeAppended
    <3>3. QED
      BY <3>2 DEF q
  <2>7. QED
    BY <1>3, <2>1, <2>3, <2>4, <2>5, <2>6 DEF b, e
<1>6. QED
  BY <1>4, <1>5

\* What has left is in order without what is held.
LEMMA LeftStory ==
  ASSUME LogTyped, Ordered, Clean
  PROVE  Ascending(Places(bus)) /\ Range(Places(bus)) \subseteq Range(Story)
<1> DEFINE b == Places(bus)
           c == Content(file)
<1>1. b \in Seq(Spots) /\ c \in Seq(Spots) /\ Story = b \o c
  BY StoryIs
<1>2. Ascending(b \o c)
  BY <1>1 DEF Ordered
<1> HIDE DEF b, c
<1>3. Ascending(b) /\ Range(b) \subseteq Range(b \o c)
  BY <1>1, <1>2, AscendingPrefix
<1>4. QED
  BY <1>1, <1>3 DEF b

LEMMA ScanOrdered ==
  ASSUME LogTyped, ReadFits, Ordered, Scan
  PROVE  Ordered'
<1> DEFINE ends == file # NoFile /\ ~file.finished /\ file.tracker # NoTracker
           s == Finish(file, "crash")
<1>1. /\ bus' = IF ends THEN bus \o s.out ELSE bus
      /\ file' = Taken /\ excuse \subseteq excuse' /\ UNCHANGED disk
      /\ disk.run > 0 /\ (file = NoFile \/ file.key # disk.key)
  BY ScanSteps DEF AdoptedWith, Taken, Replaced
<1>2. /\ Sound(Taken) /\ Taken.key = disk.key /\ Taken.run = disk.run /\ Taken.carry = NoLine
      /\ Taken.block = NoLine /\ ~Taken.finished
      /\ Taken.tracker # NoTracker => Begun(Taken, Taken.offset > 0 /\ HeadSeen)
  BY <1>1, TakenIs DEF LogTyped, DaemonFits
<1>3. Content(Taken) = <<>>
  BY <1>2, NoTrackerIs, NoContent DEF Begun
<1> SUFFICES ASSUME Clean'
             PROVE  Ascending(Story') /\ (file' # NoFile => Following')
  BY DEF Ordered
<1>4. Clean
  BY <1>1 DEF Clean
<1>5. Story' = Places(bus') /\ \A a \in Range(Story') : a \in Spots
  <2>1. Story' = Places(bus') \o Content(file')
    BY DEF Story
  <2>2. Places(bus') \in Seq(Spots)
    <3>1. bus' \in Seq(Located)
      <4>1. bus \in Seq(Stamps) /\ (file # NoFile => Sound(file))
        BY DEF LogTyped, DaemonFits
      <4>2. ends => s.out \in Seq(Stamps)
        BY <4>1, SessionEnds
      <4>3. bus' \in Seq(Stamps)
        <5> HIDE DEF s
        <5>1. ends => bus \o s.out \in Seq(Stamps)
          BY <4>1, <4>2, ConcatProperties
        <5>2. QED
          BY <1>1, <4>1, <5>1
      <4>4. QED
        BY <4>3, SeqMonotonic DEF Located
    <3>2. QED
      BY <3>1, PlacesOf
  <2>3. Places(bus') \o <<>> = Places(bus')
    BY <2>2, ConcatEmptySeq
  <2>4. \A a \in Range(Places(bus')) : a \in Spots
    BY <2>2 DEF Range
  <2>5. QED
    BY <1>1, <1>3, <2>1, <2>3, <2>4
<1>6. Ascending(Story') /\ \A a \in Range(Story') : a \in Spots /\ a[1] < disk.run
  <2>1. CASE file = NoFile
    <3>1. Story' = <<>>
      BY <1>1, <1>5, <2>1, PlacesOfNone DEF LogTyped, DaemonFits
    <3>2. QED
      BY <3>1 DEF Ascending, Range
  <2>2. CASE file # NoFile
    <3>1. file.run < disk.run /\ disk.run \in Nat /\ Sound(file) /\ file.run \in Nat
      <4>1. file.run <= disk.run /\ Sound(file) /\ disk.run \in Nat
        BY <2>2, Bounds DEF LogTyped, DaemonFits, DiskFits
      <4>2. file.run \in Nat
        BY <4>1, FileFields DEF Keys
      <4>3. file.run # disk.run
        BY <1>1, <1>4, <2>2 DEF Ordered, Following
      <4>4. QED
        BY <4>1, <4>2, <4>3
    <3>2. Ascending(Story') /\ \A a \in Range(Story') : a[1] <= file.run
      <4>1. CASE ends
        <5>1. Places(bus') = Places(bus) \o Ending(file)
          <6>1. s.out \in Seq(Stamps) /\ Places(s.out) = Ending(file)
            BY <3>1, <4>1, SessionEnds
          <6> HIDE DEF s
          <6>2. s.out \in Seq(Located) /\ bus \in Seq(Located)
            BY <6>1, SeqMonotonic DEF LogTyped, DaemonFits, Located
          <6>3. QED
            BY <1>1, <4>1, <6>1, <6>2, PlacesOfConcat
        <5>2. QED
          BY <1>4, <1>5, <4>1, <5>1, EndedStory
      <4>2. CASE ~ends
        <5>1. Places(bus') = Places(bus)
          BY <1>1, <4>2
        <5>2. QED
          BY <1>4, <1>5, <2>2, <5>1, LeftStory DEF Ordered, Following
      <4>3. QED
        BY <4>1, <4>2
    <3>3. \A a \in Range(Story') : a[1] \in Nat
      BY <1>5 DEF Spots, Keys
    <3>4. QED
      BY <1>5, <3>1, <3>2, <3>3
  <2>3. QED
    BY <2>1, <2>2
<1>7. Following'
  <2>1. file'.run = disk.run /\ file'.key = disk.key /\ file'.carry = NoLine
    BY <1>1, <1>2
  <2>2. disk.run \in Nat /\ \A a \in Range(Story') : a[1] \in Nat
    BY <1>6, Bounds DEF Spots, Keys, LogTyped, DiskFits
  <2>3. \A a \in Range(Story') : a[1] <= file'.run /\ a[1] < file'.run
    BY <1>6, <2>1, <2>2
  <2>4. QED
    BY <1>1, <2>1, <2>3 DEF Following, Passed
<1>8. QED
  BY <1>6, <1>7

LEMMA ReadTailOrdered ==
  ASSUME LogTyped, ReadFits, KindsFit, Ordered, ReadTail
  PROVE  Ordered'
<1> DEFINE m == From \div 2
           k == To \div 2
<1>1. /\ file # NoFile /\ ~file.finished /\ Sound(file) /\ hand = NoHand
      /\ disk.run \in Keys /\ m \in Nat /\ k \in Nat /\ m <= k
      /\ (To % 2 = 1 => k + 1 <= Len(disk.lines)) /\ Len(disk.lines) \in Nat
      /\ UNCHANGED <<disk, bus>>
      /\ excuse \subseteq excuse' /\ (file.key # disk.key => "swapped" \in excuse')
  BY ReadTailIs
<1>2. /\ file' # NoFile /\ file'.key = file.key /\ file'.run = disk.run /\ file'.offset = To
      /\ file'.carry = IF To = From THEN Carried ELSE IF To % 2 = 1 THEN LineOnDisk(k + 1) ELSE NoLine
      /\ file'.block = file.block /\ file'.tracker = file.tracker /\ file'.finished = FALSE
  BY ReadResult
<1>3. Through' = m /\ ReadFits'
  BY ReadTailFits
<1> SUFFICES ASSUME Clean'
             PROVE  Ascending(Story') /\ (file' # NoFile => Following')
  BY DEF Ordered
<1>4. Clean /\ file.key = disk.key
  BY <1>1 DEF Clean
<1>5. Story' = Story
  BY <1>1, <1>2 DEF Story, Content, ScanState
<1>6. Ascending(Story) /\ Following
  BY <1>1, <1>4 DEF Ordered
<1>7. Story \in Seq(Spots) /\ \A a \in Range(Story) : a[1] \in Nat /\ a[2] \in Nat
  <2>1. Story \in Seq(Spots)
    BY StoryIs
  <2>2. \A a \in Range(Story) : a \in Spots
    BY <2>1 DEF Range
  <2>3. QED
    BY <2>1, <2>2 DEF Spots, Keys
<1>8. file.run \in Nat /\ disk.run \in Nat /\ file.run <= disk.run /\ file.offset \in Nat
  BY <1>1, FileFields DEF Keys, LogTyped, DaemonFits
<1>9. file.run = disk.run => m = Through
  <2>1. file.run = disk.run => From = file.offset
    BY <1>1, <1>8, DiskSize DEF LogTyped, DaemonFits, From, Cut
  <2>2. Len(hand.lines) = 0
    BY <1>1, NoHandIs DEF NoHand
  <2>3. QED
    BY <1>8, <2>1, <2>2 DEF m, Through
<1>10. \A a \in Range(Story) : a[1] <= disk.run /\ (a[1] < disk.run \/ (a[1] = disk.run /\ a[2] <= m))
  <2> TAKE a \in Range(Story)
  <2>1. a[1] <= file.run /\ (a[1] < file.run \/ (a[1] = file.run /\ a[2] <= Through))
    BY <1>1, <1>6 DEF Following, Passed
  <2> HIDE DEF m
  <2>2. QED
    BY <1>7, <1>8, <1>9, <2>1
<1>11. file'.carry # NoLine => \A a \in Range(Story) : Precedes(a, Place(file'.carry))
  <2> SUFFICES ASSUME file'.carry # NoLine
               PROVE  \A a \in Range(Story) : Precedes(a, Place(file'.carry))
    OBVIOUS
  <2>1. CASE To = From
    <3>1. file'.carry = file.carry
      BY <1>2, <2>1 DEF Carried
    <3>2. QED
      BY <1>1, <1>6, <3>1 DEF Following
  <2>2. CASE To # From
    <3>1. To % 2 = 1 /\ file'.carry = LineOnDisk(k + 1)
      BY <1>2, <2>2
    <3>2. file'.carry.run = disk.run /\ file'.carry.line = k + 1
      <4> DEFINE i == k + 1
      <4>1. i \in 1 .. Len(disk.lines)
        BY <1>1, <3>1
      <4> HIDE DEF i, k
      <4>2. LineOnDisk(i).run = disk.run /\ LineOnDisk(i).line = i
        BY <1>1, <4>1, LineOnDiskIs DEF LogTyped
      <4>3. QED
        BY <3>1, <4>2 DEF i
    <3> HIDE DEF m, k
    <3>3. QED
      BY <1>1, <1>7, <1>8, <1>10, <3>2 DEF Precedes, Place
  <2>3. QED
    BY <2>1, <2>2
<1>12. Following'
  BY <1>1, <1>2, <1>3, <1>4, <1>5, <1>10, <1>11 DEF Following, Passed
<1>13. QED
  BY <1>5, <1>6, <1>12

LEMMA TickOrdered ==
  ASSUME LogTyped, ReadFits, Ordered, TickWithoutRead
  PROVE  Ordered'
<1>1. /\ hand = NoHand /\ file # NoFile /\ ~file.finished /\ Sound(file)
      /\ UNCHANGED <<disk, hand, excuse>>
  BY TickIs
<1>2. PICK missing \in BOOLEAN :
        LET g == Polled(missing)
            r == Reaped(g)
        IN /\ file' = r.file /\ bus' = bus \o r.out
           /\ Sound(g) /\ g.key = file.key /\ g.run = file.run /\ g.offset = file.offset
           /\ g.carry = file.carry /\ g.block = file.block /\ g.tracker = file.tracker
           /\ g.finished = file.finished
  BY TickIs
<1> DEFINE g == Polled(missing)
           f == Reaped(g).file
           o == Reaped(g).out
<1>3. /\ file' = f /\ bus' = bus \o o
      /\ Sound(g) /\ g.key = file.key /\ g.run = file.run /\ g.offset = file.offset
      /\ g.carry = file.carry /\ g.block = file.block /\ g.tracker = file.tracker
      /\ g.finished = file.finished
  BY <1>2
<1> HIDE DEF g
<1>4. /\ Sound(f) /\ o \in Seq(Stamps) /\ f.key = g.key /\ f.run = g.run
      /\ \/ f = g /\ o = <<>>
         \/ f.finished /\ Content(f) = <<>> /\ Places(o) = Ending(g)
  BY <1>3, ReapedIs
<1> HIDE DEF f, o
<1>5. bus \in Seq(Stamps) /\ f # NoFile
  BY <1>4, FileFields DEF LogTyped, DaemonFits
<1>6. CASE f = g /\ o = <<>>
  <2>1. bus' = bus
    BY <1>3, <1>5, <1>6, ConcatEmptySeq
  <2>2. QED
    BY <1>1, <1>3, <1>5, <1>6, <2>1, SameStory
<1>7. CASE f.finished /\ Content(f) = <<>> /\ Places(o) = Ending(g)
  <2>1. Ending(g) = Ending(file)
    BY <1>3 DEF Ending, ScanState
  <2> DEFINE p == Places(bus) \o Ending(file)
  <2>2. Places(bus') = p /\ p \in Seq(Spots)
    <3>1. o \in Seq(Located) /\ bus \in Seq(Located)
      BY <1>4, <1>5, SeqMonotonic DEF Located
    <3>2. Places(bus \o o) = Places(bus) \o Places(o)
      BY <3>1, PlacesOfConcat
    <3>3. Places(bus) \in Seq(Spots) /\ Places(o) \in Seq(Spots)
      BY <3>1, PlacesOf
    <3>4. Places(bus) \o Places(o) \in Seq(Spots)
      <4> DEFINE x == Places(bus)
                 y == Places(o)
      <4>1. x \in Seq(Spots) /\ y \in Seq(Spots)
        BY <3>3
      <4> HIDE DEF x, y
      <4>2. x \o y \in Seq(Spots)
        BY <4>1, ConcatProperties
      <4>3. QED
        BY <4>2 DEF x, y
    <3>5. QED
      BY <1>3, <1>7, <2>1, <3>2, <3>4
  <2>3. Story' = p
    <3>1. Story' = Places(bus') \o Content(file')
      BY DEF Story
    <3> HIDE DEF p
    <3>2. p \o <<>> = p
      BY <2>2, ConcatEmptySeq
    <3>3. QED
      BY <1>3, <1>7, <2>2, <3>1, <3>2
  <2> SUFFICES ASSUME Clean'
               PROVE  Ascending(Story') /\ (file' # NoFile => Following')
    BY DEF Ordered
  <2>4. Clean
    BY <1>1 DEF Clean
  <2>5. Ascending(p) /\ \A a \in Range(p) : a[1] <= file.run
    BY <1>1, <2>4, EndedStory
  <2>6. Following'
    <3>1. file.run = disk.run => file.key = disk.key
      BY <1>1, <2>4 DEF Ordered, Following
    <3> HIDE DEF p
    <3>2. QED
      BY <1>1, <1>3, <1>4, <1>7, <2>3, <2>5, <3>1 DEF Following
  <2>7. QED
    BY <2>3, <2>5, <2>6
<1>8. QED
  BY <1>4, <1>6, <1>7

\* The lines of a read come behind what has been taken before, in their order.
LEMMA ReadFollows ==
  ASSUME LogTyped, ReadFits, Ordered, Clean, hand.read, NEW p \in Seq(Spots), p \o Content(Roused) = Story
  PROVE  LET w == p \o Contents(Scanned)
         IN /\ w \in Seq(Spots) /\ Ascending(w)
            /\ \A a \in Range(w) : a \in Range(Story) \/ \E m \in 1 .. Len(hand.lines) : a = Place(hand.lines[m])
<1> DEFINE c == Content(Roused)
           d == Contents(Scanned)
           N == Len(hand.lines)
<1>1. /\ Sound(Roused) /\ ~Roused.finished
      /\ Roused.tracker = NoTracker => hand.lines = <<>> /\ Scanned = ScanState(Roused)
      /\ Roused.tracker # NoTracker => Ingested(Roused, N, Scanned)
  BY SettledIs
<1>2. /\ Sound(file) /\ ~file.finished /\ file # NoFile /\ Story \in Seq(Spots) /\ c \in Seq(Spots)
      /\ file.run \in Nat /\ file.offset \in Nat /\ N \in Nat
      /\ hand.lines \in Seq(Lines) /\ DOMAIN hand.lines = 1 .. N
  <2>1. Sound(file) /\ ~file.finished /\ file # NoFile
    BY SourceIs
  <2>2. file.run \in Nat /\ file.offset \in Nat
    BY <2>1, FileFields DEF Keys
  <2>3. hand.lines \in Seq(Lines)
    BY DEF LogTyped, DaemonFits, Hands
  <2>4. QED
    BY <1>1, <2>1, <2>2, <2>3, StoryIs, ContentTyped, LenProperties
<1>3. Ascending(p \o c) /\ Following
  BY <1>2 DEF Ordered
<1>4. CASE Roused.tracker = NoTracker
  <2>1. d = c
    BY <1>1, <1>4 DEF Content
  <2>2. QED
    BY <1>2, <1>3, <2>1
<1>5. CASE Roused.tracker # NoTracker
  <2>1. \A m \in 1 .. N : hand.lines[m].run = file.run /\ hand.lines[m].line = Through + m
    BY <1>2 DEF ReadFits
  <2>2. Through \in Int
    BY <1>2 DEF Through
  <2>3. \A m, n \in 1 .. N : m < n => Precedes(Place(hand.lines[m]), Place(hand.lines[n]))
    <3> HIDE DEF N
    <3>1. QED
      BY <1>2, <2>1, <2>2 DEF Precedes, Place
  <2>4. \A a \in Range(p \o c) : \A m \in 1 .. N : Precedes(a, Place(hand.lines[m]))
    <3>1. \A a \in Range(p \o c) : a \in Spots /\ Passed(a)
      BY <1>2, <1>3 DEF Following, Range
    <3>2. \A a \in Range(p \o c) : a[1] \in Nat /\ a[2] \in Nat /\ Passed(a)
      BY <3>1 DEF Spots, Keys
    <3>3. \A m \in 1 .. N : LET y == Place(hand.lines[m]) IN y[1] = file.run /\ y[2] = Through + m
      BY <2>1 DEF Place
    <3> HIDE DEF c, N
    <3>4. ASSUME NEW a \in Range(p \o c), NEW m \in 1 .. N
          PROVE  Precedes(a, Place(hand.lines[m]))
      <4> DEFINE y == Place(hand.lines[m])
      <4>1. y[1] = file.run /\ y[2] = Through + m
        BY <3>3
      <4>2. a[1] < file.run \/ (a[1] = file.run /\ a[2] <= Through)
        BY <3>2 DEF Passed
      <4>3. a[1] \in Nat /\ a[2] \in Nat /\ m > 0 /\ m \in Int
        BY <1>2, <3>2
      <4> HIDE DEF y
      <4>4. QED
        BY <1>2, <2>2, <4>1, <4>2, <4>3 DEF Precedes, y
    <3>5. QED
      BY <3>4
  <2>5. Roused.tracker \in Trackers /\ Roused.block \in Blocks /\ Working(Roused.tracker)
    BY <1>1, <1>5, FileFields
  <2>6. Ascending(p \o d)
    BY <1>2, <1>3, <1>5, <2>3, <2>4, <2>5, LinesFollow DEF Scanned
  <2>7. d \in Seq(Spots) /\ \A a \in Range(d) : a \in Range(c) \/ \E m \in 1 .. N : a = Place(hand.lines[m])
    <3>1. Ingested(Roused, N, Scanned)
      BY <1>1, <1>5
    <3>2. Scanned \in ScanStates
      BY <3>1 DEF Ingested
    <3>3. QED
      BY <3>1, <3>2, CoreIs DEF Ingested
  <2> HIDE DEF c, d
  <2>8. /\ p \o d \in Seq(Spots) /\ Range(p \o d) = Range(p) \cup Range(d)
        /\ Range(p \o c) = Range(p) \cup Range(c)
    BY <1>2, <2>7, ConcatProperties, RangeConcatenation
  <2>9. p \o c = Story
    BY DEF c
  <2> HIDE DEF N
  <2>10. \A a \in Range(p \o d) : a \in Range(Story) \/ \E m \in 1 .. N : a = Place(hand.lines[m])
    BY <2>7, <2>8, <2>9
  <2>11. QED
    BY <2>6, <2>8, <2>10 DEF d, N
<1>6. QED
  BY <1>4, <1>5

LEMMA ReadPasses ==
  ASSUME LogTyped, ReadFits, Ordered, Clean, hand.read, NEW p \in Seq(Spots), p \o Content(Roused) = Story
  PROVE  \A a \in Range(p \o Contents(Scanned)) :
           /\ a \in Spots /\ a[1] \in Nat /\ a[2] \in Nat /\ a[1] <= file.run
           /\ a[1] < file.run \/ (a[1] = file.run /\ a[2] <= file.offset \div 2)
<1> DEFINE w == p \o Contents(Scanned)
           N == Len(hand.lines)
<1>1. /\ Sound(file) /\ ~file.finished /\ file # NoFile
      /\ file.run \in Nat /\ file.offset \in Nat /\ N \in Nat /\ DOMAIN hand.lines = 1 .. N /\ file.offset \div 2 \in Nat
  <2>1. Sound(file) /\ ~file.finished /\ file # NoFile
    BY SourceIs
  <2>2. file.run \in Nat /\ file.offset \in Nat
    BY <2>1, FileFields DEF Keys
  <2>3. hand.lines \in Seq(Lines)
    BY DEF LogTyped, DaemonFits, Hands
  <2>4. QED
    BY <2>1, <2>2, <2>3, LenProperties
<1>2. Following
  BY <1>1 DEF Ordered
<1>3. /\ w \in Seq(Spots)
      /\ \A a \in Range(w) : a \in Range(Story) \/ \E m \in 1 .. N : a = Place(hand.lines[m])
  BY ReadFollows
<1>4. \A a \in Range(w) : a \in Spots /\ a[1] \in Nat /\ a[2] \in Nat
  <2> HIDE DEF w
  <2>1. \A a \in Range(w) : a \in Spots
    BY <1>3 DEF Range
  <2>2. QED
    BY <2>1 DEF Spots, Keys
<1> HIDE DEF w
<1>5. \A a \in Range(w) : a[1] <= file.run /\ (a[1] < file.run \/ (a[1] = file.run /\ a[2] <= file.offset \div 2))
  <2> TAKE a \in Range(w)
  <2>1. N <= file.offset \div 2 /\ Through = file.offset \div 2 - N
    BY <1>1 DEF ReadFits, Through
  <2>2. CASE a \in Range(Story)
    <3>1. a[1] < file.run \/ (a[1] = file.run /\ a[2] <= Through)
      BY <1>1, <1>2, <2>2 DEF Following, Passed
    <3> HIDE DEF N
    <3>2. QED
      BY <1>1, <1>4, <2>1, <3>1
  <2>3. ASSUME NEW m \in 1 .. N, a = Place(hand.lines[m])
        PROVE  a[1] = file.run /\ a[2] <= file.offset \div 2
    <3>1. hand.lines[m].run = file.run /\ hand.lines[m].line = Through + m
      BY <1>1, <2>3 DEF ReadFits
    <3>2. a[1] = file.run /\ a[2] = Through + m
      BY <2>3, <3>1 DEF Place
    <3> HIDE DEF N
    <3>3. QED
      BY <1>1, <2>1, <3>2
  <2>4. QED
    BY <1>1, <1>3, <2>2, <2>3
<1>6. QED
  BY <1>4, <1>5 DEF w

LEMMA IngestOrdered ==
  ASSUME LogTyped, ReadFits, Ordered, IngestRead
  PROVE  Ordered'
<1>1. /\ hand.read /\ file' = Result.file /\ hand' = NoHand /\ UNCHANGED disk
      /\ excuse \subseteq excuse' /\ (Ends /\ file.carry # NoLine => "cut" \in excuse')
  BY IngestSteps DEF Written
<1> SUFFICES ASSUME Clean'
             PROVE  Ascending(Story') /\ (file' # NoFile => Following')
  BY DEF Ordered
<1>2. Clean /\ "cut" \notin excuse' /\ ~(Ends /\ file.carry # NoLine)
  BY <1>1 DEF Clean
<1>3. PICK p \in Seq(Spots) :
        /\ p \o Content(Roused) = Story
        /\ \/ Story' = p \o Contents(Scanned)
           \/ /\ Result.file.finished /\ Source.carry # NoLine /\ Place(Source.carry) \in Spots
              /\ Story' = Append(p \o Contents(Scanned), Place(Source.carry))
  BY <1>2, StoryOfIngest
<1> DEFINE w == p \o Contents(Scanned)
           N == Len(hand.lines)
           x == Place(file.carry)
<1>4. /\ Sound(file) /\ ~file.finished /\ file # NoFile /\ (Source.carry = NoLine \/ Source.carry = file.carry)
      /\ file.run \in Nat /\ file.offset \in Nat /\ N \in Nat /\ DOMAIN hand.lines = 1 .. N /\ file.offset \div 2 \in Nat
  <2>1. Sound(file) /\ ~file.finished /\ file # NoFile /\ (Source.carry = NoLine \/ Source.carry = file.carry)
    BY <1>1, SourceIs
  <2>2. file.run \in Nat /\ file.offset \in Nat
    BY <2>1, FileFields DEF Keys
  <2>3. hand.lines \in Seq(Lines)
    BY DEF LogTyped, DaemonFits, Hands
  <2>4. QED
    BY <2>1, <2>2, <2>3, LenProperties
<1>5. /\ Result.file.run = file.run /\ Result.file.key = file.key /\ Result.file.offset = file.offset
      /\ (Result.file.finished \/ Result.file.carry = Source.carry)
  <2>1. Result.file.run = file.run /\ Result.file.key = file.key /\ Result.file.offset = file.offset
    BY <1>1, SentIs
  <2>2. Sound(Settled) /\ Settled.carry = Source.carry
    BY <1>1, SettledIs
  <2>3. Result.file = Settled \/ Result.file.finished
    BY <2>2, ReapedIs DEF Result
  <2>4. QED
    BY <2>1, <2>2, <2>3
<1>6. Following
  BY <1>2, <1>4 DEF Ordered
<1>7. /\ w \in Seq(Spots) /\ Ascending(w)
      /\ \A a \in Range(w) : a \in Range(Story) \/ \E m \in 1 .. N : a = Place(hand.lines[m])
  BY <1>1, <1>2, <1>3, ReadFollows
<1> HIDE DEF w
<1>8. \A a \in Range(w) : a \in Spots /\ a[1] \in Nat /\ a[2] \in Nat
  BY <1>1, <1>2, <1>3, ReadPasses DEF w
<1>9. \A a \in Range(w) : a[1] <= file.run /\ (a[1] < file.run \/ (a[1] = file.run /\ a[2] <= file.offset \div 2))
  BY <1>1, <1>2, <1>3, ReadPasses DEF w
<1>10. Source.carry # NoLine =>
         /\ Source.carry = file.carry /\ x \in Spots /\ x[1] <= file.run
         /\ \A a \in Range(w) : Precedes(a, x)
  <2> SUFFICES ASSUME Source.carry # NoLine
               PROVE  x \in Spots /\ x[1] <= file.run /\ \A a \in Range(w) : Precedes(a, x)
    BY <1>4
  <2>1. file.carry # NoLine /\ file.carry \in Lines
    BY <1>4, FileFields DEF Halves
  <2>2. x \in Spots /\ x[1] = file.carry.run /\ x[2] = file.carry.line /\ x[1] \in Nat /\ x[2] \in Nat
    BY <2>1, PlaceIsSpot DEF Located, Place, Lines, Keys
  <2> HIDE DEF x
  <2>3. CASE file.carry.run < file.run /\ hand.lines = <<>>
    <3>1. N = 0
      BY <2>3
    <3>2. \A a \in Range(w) : a \in Range(Story)
      <4> HIDE DEF N
      <4>1. QED
        BY <1>7, <3>1
    <3>3. \A a \in Range(Story) : Precedes(a, x)
      BY <1>4, <1>6, <2>1 DEF Following, x
    <3>4. QED
      BY <1>4, <2>2, <2>3, <3>2, <3>3
  <2>4. CASE file.carry.run = file.run /\ file.carry.line = file.offset \div 2 + 1
    <3>1. x[1] = file.run /\ x[2] = file.offset \div 2 + 1
      BY <2>2, <2>4
    <3>2. QED
      BY <1>4, <1>8, <1>9, <2>2, <3>1 DEF Precedes
  <2>5. QED
    BY <1>4, <2>1, <2>3, <2>4 DEF ReadFits
<1> HIDE DEF N, x
<1>11. Through' = file.offset \div 2
  <2>1. Len(hand'.lines) = 0
    BY <1>1 DEF NoHand
  <2>2. QED
    BY <1>1, <1>4, <1>5, <2>1 DEF Through
<1>12. file.run = disk.run => file.key = disk.key
  BY <1>6 DEF Following
<1>13. CASE Story' = w
  <2>1. file'.carry # NoLine /\ ~file'.finished => \A a \in Range(w) : Precedes(a, Place(file'.carry))
    BY <1>1, <1>5, <1>10 DEF x
  <2>2. Following'
    BY <1>1, <1>5, <1>9, <1>11, <1>12, <1>13, <2>1 DEF Following, Passed
  <2>3. QED
    BY <1>7, <1>13, <2>2 DEF w
<1>14. CASE Result.file.finished /\ Source.carry # NoLine /\ Story' = Append(w, x)
  <2>1. Ascending(Append(w, x)) /\ Range(Append(w, x)) = Range(w) \cup {x}
    <3>1. w \in Seq(Spots) /\ Ascending(w)
      BY <1>7 DEF w
    <3>2. QED
      BY <1>10, <1>14, <3>1, AscendingAppend, RangeAppended
  <2>2. \A a \in Range(Story') : a[1] <= file.run
    BY <1>9, <1>10, <1>14, <2>1
  <2>3. Following'
    BY <1>1, <1>5, <1>12, <1>14, <2>2 DEF Following
  <2>4. QED
    BY <1>14, <2>1, <2>3
<1>15. QED
  BY <1>3, <1>10, <1>13, <1>14 DEF w, x

LEMMA OrderedStep ==
  ASSUME LogTyped, ReadFits, KindsFit, Ordered, [Next]_vars
  PROVE  Ordered'
<1>1. CASE \E rewrite \in BOOLEAN : ClientStarts(rewrite)
  <2>1. UNCHANGED <<bus, file, hand, excuse>> /\ disk'.run = disk.run + 1
    BY <1>1 DEF ClientStarts, daemonVars
  <2>2. file # NoFile => file.run # disk'.run
    <3>1. file # NoFile => file.run <= disk.run /\ file.run \in Nat /\ disk.run \in Nat
      BY FileFields, Bounds, SMTT(30) DEF LogTyped, DaemonFits, DiskFits, Keys
    <3>2. QED
      BY <2>1, <3>1
  <2>3. QED
    BY <2>1, <2>2, SameStory
<1>2. CASE ClientWritesHalf \/ ClientEndsLine
  <2>1. UNCHANGED <<bus, file, hand, excuse>> /\ disk'.run = disk.run /\ disk'.key = disk.key
    BY <1>2 DEF ClientWritesHalf, ClientEndsLine, daemonVars, LogTyped, DiskFits
  <2>2. QED
    BY <2>1, SameStory
<1>3. CASE DaemonStarts \/ Flush \/ FlushFails \/ UNCHANGED vars
  <2>1. UNCHANGED <<disk, bus, file, hand>> /\ excuse \subseteq excuse'
    BY <1>3 DEF DaemonStarts, Flush, FlushFails, vars, daemonVars
  <2>2. QED
    BY <2>1, SameStory
<1>4. CASE TimePasses
  <2>1. UNCHANGED <<disk, bus, hand, excuse>> /\ file' = IF file = NoFile THEN file ELSE [file EXCEPT !.stale = TRUE]
    BY <1>4 DEF TimePasses
  <2>2. file # NoFile => file \in Files
    BY FileFields DEF LogTyped, DaemonFits
  <2>3. file # NoFile => /\ file' \in Files /\ file'.carry = file.carry /\ file'.run = file.run /\ file'.offset = file.offset
                         /\ file'.finished = file.finished /\ file'.key = file.key
                         /\ file'.tracker = file.tracker /\ file'.block = file.block
    BY <2>1, <2>2 DEF Files
  <2>4. file' = NoFile <=> file = NoFile
    BY <2>1, <2>3, NoFileIs
  <2>5. QED
    BY <2>1, <2>3, <2>4, SameStory
<1>5. CASE Scan
  BY <1>5, ScanOrdered
<1>6. CASE ReadTail
  BY <1>6, ReadTailOrdered
<1>7. CASE IngestRead
  BY <1>7, IngestOrdered
<1>8. CASE TickWithoutRead
  BY <1>8, TickOrdered
<1>9. CASE DaemonStops \/ DaemonExits \/ DaemonKilled
  <2>1. /\ UNCHANGED disk /\ excuse \subseteq excuse'
        /\ \/ file' = NoFile /\ bus' = <<>>
           \/ UNCHANGED <<file, hand, bus>>
    BY <1>9 DEF DaemonStops, DaemonExits, DaemonKilled, Gone
  <2>2. CASE file' = NoFile /\ bus' = <<>>
    <3>1. Story' = <<>>
      <4>1. Story' = Places(<<>>) \o Content(NoFile)
        BY <2>2 DEF Story
      <4>2. Content(NoFile) = <<>>
        BY ContentTyped
      <4>3. QED
        BY <4>1, <4>2, PlacesOfNone, ConcatEmptySeq
    <3>2. QED
      BY <2>2, <3>1 DEF Ordered, Ascending
  <2>3. CASE UNCHANGED <<file, hand, bus>>
    BY <2>1, <2>3, SameStory
  <2>4. QED
    BY <2>1, <2>2, <2>3
<1>10. QED
  BY <1>1, <1>2, <1>3, <1>4, <1>5, <1>6, <1>7, <1>8, <1>9 DEF Next

LEMMA OrderedHolds == LogTyped /\ Ordered => InOrderOnce
<1> SUFFICES ASSUME LogTyped, Clean, Ordered,
                    NEW m \in DOMAIN bus, NEW n \in DOMAIN bus, m < n
             PROVE  Before(bus[m], bus[n])
  BY DEF InOrderOnce, Clean
<1>1. bus \in Seq(Located) /\ DOMAIN bus = 1 .. Len(bus)
  BY SeqMonotonic, LenProperties DEF LogTyped, DaemonFits, Located
<1>2. Len(Places(bus)) = Len(bus) /\ Places(bus)[m] = Place(bus[m]) /\ Places(bus)[n] = Place(bus[n])
  BY <1>1, PlacesOf
<1>3. Ascending(Places(bus))
  BY LeftStory
<1>4. Precedes(Place(bus[m]), Place(bus[n]))
  <2> DEFINE q == Places(bus)
  <2>1. Ascending(q) /\ m \in 1 .. Len(q) /\ n \in 1 .. Len(q)
    BY <1>1, <1>2, <1>3
  <2> HIDE DEF q
  <2>2. Precedes(q[m], q[n])
    BY <2>1 DEF Ascending
  <2>3. QED
    BY <1>2, <2>2 DEF q
<1>5. QED
  BY <1>4 DEF Precedes, Place, Before

LEMMA OrderedInit == Init => ReadFits /\ KindsFit /\ Ordered
<1> SUFFICES ASSUME Init
             PROVE  ReadFits /\ KindsFit /\ Ordered
  OBVIOUS
<1>1. file = NoFile
  BY DEF Init
<1>2. LogTyped
  BY LogTypedInit
<1>3. Story = <<>>
  BY <1>1, <1>2, StoryIs
<1>4. QED
  BY <1>1, <1>3 DEF ReadFits, KindsFit, Ordered, Ascending

\* The events of one life of the daemon leave in the order of the file and none twice,
\* the buffer in front of the authentication line and the half line at the end included.
THEOREM EventsInOrderOnce == Spec => []InOrderOnce
<1>1. /\ LogTyped /\ OpenIsFollowed /\ ReadFits /\ KindsFit /\ Ordered /\ [Next]_vars
         => (LogTyped /\ OpenIsFollowed /\ ReadFits /\ KindsFit /\ Ordered)'
  BY LogTypedStep, ReadFitsStep, OrderedStep
<1>2. QED
  BY LogTypedInit, OrderedInit, <1>1, OrderedHolds, PTL DEF Spec
-----------------------------------------------------------------------------
(* The account of the session.                                             *)

LEMMA TopFitsStep ==
  ASSUME LogTyped, ReadFits, KindsFit, TopFits, [Next]_vars
  PROVE  TopFits'
<1>1. CASE ReadTail
  <2> DEFINE m == From \div 2
             k == To \div 2
  <2>1. /\ file # NoFile /\ Sound(file) /\ m \in Nat /\ k \in Nat /\ disk.run \in Keys
        /\ (To % 2 = 1 => k + 1 <= Len(disk.lines)) /\ Len(disk.lines) \in Nat
    BY <1>1, ReadTailIs
  <2>2. /\ hand' \in Hands /\ hand'.truncated = Cut /\ hand'.resumed = (file.offset > 0) /\ file'.offset = To
        /\ file'.carry = IF To = From THEN Carried ELSE IF To % 2 = 1 THEN LineOnDisk(k + 1) ELSE NoLine
        /\ Len(hand'.lines) = k - m
        /\ \A n \in 1 .. k - m : /\ m + n \in 1 .. Len(disk.lines)
                                 /\ hand'.lines[n] = Spilled(m + n)
    BY <1>1, ReadResult
  <2>3. Through' = m
    BY <1>1, ReadTailFits
  <2> HIDE DEF k
  <2>4. DOMAIN hand'.lines = 1 .. k - m /\ (hand'.lines # <<>> => k # m)
    <3>1. hand'.lines \in Seq(Lines)
      BY <2>2 DEF Hands
    <3>2. QED
      BY <2>1, <2>2, <3>1, LenProperties, EmptySeq
  <2>5. ASSUME Cut \/ ~(file.offset > 0)
        PROVE  m = 0 /\ \A n \in 1 .. k - m : hand'.lines[n].whole
    <3>1. From = 0 /\ m = 0
      BY <2>1, <2>5, FileFields DEF From
    <3>2. ASSUME NEW n \in 1 .. k - m
          PROVE  hand'.lines[n].whole
      <4>1. n \in 1 .. Len(disk.lines) /\ hand'.lines[n] = Spilled(n)
        BY <2>1, <2>2, <3>1
      <4>2. Spilled(n).whole = Whole(n)
        BY <2>1, <4>1, LineOnDiskIs DEF LogTyped
      <4>3. Whole(n)
        BY <3>1, <4>1 DEF Whole
      <4>4. QED
        BY <4>1, <4>2, <4>3
    <3>3. QED
      BY <3>1, <3>2
  <2>6. hand'.lines # <<>> /\ To % 2 = 1 => file'.carry # NoLine
    <3> SUFFICES ASSUME hand'.lines # <<>>, To % 2 = 1
                 PROVE  file'.carry # NoLine
      OBVIOUS
    <3>1. To # From
      BY <2>4 DEF k, m
    <3>2. k + 1 \in 1 .. Len(disk.lines)
      BY <2>1
    <3>3. LineOnDisk(k + 1) # NoLine
      BY <2>1, <3>2, LineOnDiskIs DEF LogTyped
    <3>4. QED
      BY <2>2, <3>1, <3>3
  <2>7. ASSUME NEW n \in 1 .. k - m, n > 1
        PROVE  hand'.lines[n].whole
    <3>1. m + n \in 1 .. Len(disk.lines) /\ hand'.lines[n] = Spilled(m + n)
      BY <2>2, <2>7
    <3>2. Spilled(m + n).whole = Whole(m + n)
      BY <2>1, <3>1, LineOnDiskIs DEF LogTyped
    <3>3. From \in Nat /\ 2 * (m + n) - 1 > From
      <4>1. From \in Nat
        BY <1>1, ReadTailIs
      <4>2. n \in Nat /\ n >= 2 /\ From <= 2 * m + 1
        BY <2>1, <2>7, <4>1
      <4> HIDE DEF m
      <4>3. QED
        BY <2>1, <4>1, <4>2
    <3>4. QED
      BY <3>1, <3>2, <3>3 DEF Whole
  <2>8. QED
    BY <2>2, <2>3, <2>4, <2>5, <2>6, <2>7 DEF TopFits
<1>2. CASE UNCHANGED <<file, hand>>
  BY <1>2 DEF TopFits, Through
<1>3. CASE hand' = NoHand
  BY <1>3, NoHandIs DEF TopFits, NoHand
<1>4. UNCHANGED <<file, hand>> \/ hand' = NoHand \/ ReadTail
  BY DEF Next, ClientStarts, ClientWritesHalf, ClientEndsLine, TimePasses, DaemonStarts, Scan, IngestRead,
         TickWithoutRead, Flush, FlushFails, DaemonStops, DaemonExits, DaemonKilled, Gone, daemonVars, vars
<1>5. QED
  BY <1>1, <1>2, <1>3, <1>4

\* Lines without the authentication line do not bring it.
LEMMA LinesAhead ==
  ASSUME LogTyped, ReadFits, KindsFit, file # NoFile, file.run = disk.run, ~AuthUpTo(Through),
         \A n \in DOMAIN hand.lines : ~hand.lines[n].whole => hand.lines[n].text.kind # "auth",
         NEW m \in 0 .. Len(hand.lines), \A j \in 1 .. m : ~Authenticates(hand.lines[j])
  PROVE  ~AuthUpTo(Through + m)
<1>1. /\ DOMAIN hand.lines = 1 .. Len(hand.lines) /\ Len(hand.lines) \in Nat
      /\ Through \in Int
  <2>1. hand.lines \in Seq(Lines) /\ Sound(file)
    BY DEF LogTyped, DaemonFits, Hands
  <2>2. file.offset \in Nat
    BY <2>1, FileFields
  <2>3. QED
    BY <2>1, <2>2, LenProperties DEF Through
<1>2. SUFFICES ASSUME NEW i \in 1 .. Through + m, i \in DOMAIN disk.lines, disk.lines[i].kind = "auth"
               PROVE  FALSE
  BY DEF AuthUpTo
<1>3. CASE i <= Through
  BY <1>1, <1>2, <1>3 DEF AuthUpTo
<1>4. CASE i > Through
  <2> DEFINE j == i - Through
  <2>1. j \in 1 .. m /\ j \in DOMAIN hand.lines /\ Through + j = i
    BY <1>1, <1>2, <1>4
  <2> HIDE DEF j
  <2>2. hand.lines[j].run = disk.run /\ hand.lines[j].line = i
    BY <2>1 DEF ReadFits
  <2>3. hand.lines[j].text.kind = "auth"
    BY <1>2, <2>1, <2>2 DEF KindsFit
  <2>4. QED
    BY <2>1, <2>3 DEF Authenticates
<1>5. QED
  BY <1>1, <1>3, <1>4

\* A session that waits for its account after some lines of a read has not passed it.
HeadGiven == hand.lines # <<>> /\ file.tracker = NoTracker => ~Headless(FirstPast, HeadRead)
LEMMA StillWaiting ==
  ASSUME LogTyped, ReadFits, KindsFit, TopFits, FileWaits, HeadGiven, hand.read, file.run = disk.run,
         Roused.tracker # NoTracker, ~Roused.tracker.authenticated,
         NEW m \in 0 .. Len(hand.lines), \A j \in 1 .. m : ~Authenticates(hand.lines[j])
  PROVE  ~AuthUpTo(Through + m)
<1>1. /\ Sound(file) /\ ~file.finished /\ file # NoFile /\ Sound(Source) /\ ~Source.finished
      /\ ~hand.truncated => Source = file
      /\ hand.truncated => Source.tracker = NoTracker
  BY SourceIs
<1>2. /\ hand.lines = <<>> \/ Source.tracker # NoTracker => Roused = Source
      /\ hand.lines # <<>> /\ Source.tracker = NoTracker => Begun(Roused, hand.resumed /\ ~hand.truncated /\ HeadRead)
  BY <1>1, WokenIs, HeadReadIs DEF Roused
<1>3. CASE Source.tracker # NoTracker
  <2>1. Roused = file /\ ~hand.truncated
    BY <1>1, <1>2, <1>3
  <2>2. Live(file.tracker)
    BY <1>1, <2>1, LiveIsWatched
  <2>3. Waiting
    BY <1>1, <2>1, <2>2 DEF FileWaits
  <2>4. QED
    BY <1>1, <2>3, LinesAhead DEF Waiting
<1>4. CASE Source.tracker = NoTracker /\ (hand.truncated \/ ~hand.resumed)
  <2>1. Through = 0 /\ \A n \in DOMAIN hand.lines : hand.lines[n].whole
    BY <1>4 DEF TopFits
  <2>2. ~AuthUpTo(Through)
    BY <2>1 DEF AuthUpTo
  <2>3. QED
    BY <1>1, <2>1, <2>2, LinesAhead
<1>5. CASE Source.tracker = NoTracker /\ ~hand.truncated /\ hand.resumed
  <2>1. hand.lines # <<>> /\ file.tracker = NoTracker /\ ~(HeadRead /\ AuthInHead)
    <3>1. hand.lines # <<>>
      BY <1>2, <1>5
    <3>2. QED
      BY <1>1, <1>2, <1>5, <3>1 DEF Begun
  <2>2. \A i \in DOMAIN disk.lines : i <= FirstPast => disk.lines[i].kind # "auth"
    BY <2>1 DEF HeadGiven, Headless
  <2>3. /\ hand.lines \in Seq(Lines) /\ Len(hand.lines) \in Nat /\ Len(hand.lines) > 0
        /\ DOMAIN hand.lines = 1 .. Len(hand.lines) /\ Through \in Int
    <3>1. hand.lines \in Seq(Lines) /\ file.offset \in Nat
      BY <1>1, FileFields DEF LogTyped, DaemonFits, Hands
    <3>2. QED
      BY <2>1, <3>1, LenProperties, EmptySeq DEF Through
  <2>4. hand.lines[1].line = Through + 1 /\ hand.lines[1].run = disk.run
    BY <1>1, <2>3 DEF ReadFits
  <2>5. Through <= FirstPast /\ (~hand.lines[1].whole => FirstPast = Through + 1)
    BY <2>3, <2>4 DEF FirstPast
  <2>6. ~AuthUpTo(Through)
    <3>1. SUFFICES ASSUME NEW i \in 1 .. Through, i \in DOMAIN disk.lines, disk.lines[i].kind = "auth"
                   PROVE  FALSE
      BY DEF AuthUpTo
    <3>2. i <= FirstPast
      BY <2>3, <2>4, <2>5 DEF FirstPast
    <3>3. QED
      BY <2>2, <3>1, <3>2
  <2>7. ASSUME NEW n \in DOMAIN hand.lines, ~hand.lines[n].whole
        PROVE  hand.lines[n].text.kind # "auth"
    <3>1. n = 1
      BY <2>3, <2>7 DEF TopFits
    <3>2. hand.lines[1].line \in DOMAIN disk.lines /\ hand.lines[1].text = disk.lines[hand.lines[1].line]
      BY <1>1, <2>4, <2>7, <3>1 DEF KindsFit, OfDisk
    <3>3. hand.lines[1].line <= FirstPast
      BY <2>3, <2>4, <2>5, <2>7, <3>1
    <3>4. QED
      BY <2>2, <3>1, <3>2, <3>3
  <2>8. QED
    BY <1>1, <2>6, <2>7, LinesAhead
<1>6. QED
  BY <1>3, <1>4, <1>5

LEMMA AuthUpToGrows ==
  ASSUME NEW m \in Int, NEW n \in Int, m <= n, AuthUpTo(m)
  PROVE  AuthUpTo(n)
BY DEF AuthUpTo

\* What a session lets go of at its end is known, if what it held is behind the tail.
LEMMA LateIsKnown ==
  ASSUME DiskFits, NEW f, Sound(f), f.run <= disk.run, f.run = disk.run => f.offset <= Size,
         \A a \in Range(Content(f)) : a[1] < f.run \/ (a[1] = f.run /\ a[2] <= f.offset \div 2),
         f.run = disk.run /\ ~f.tracker.authenticated => ~AuthUpTo(f.offset \div 2),
         f.carry # NoLine => f.carry.run <= f.run,
         f.carry # NoLine /\ f.run = disk.run =>
           /\ f.carry.run = f.run /\ f.carry.line = f.offset \div 2 + 1
           /\ f.carry.line \in DOMAIN disk.lines /\ f.carry.text = disk.lines[f.carry.line],
         NEW x \in Stamps, Place(x) \in Range(Ending(f)), x.account \/ Late(f, x)
  PROVE  Known(x)
<1>1. /\ f.run \in Nat /\ f.offset \in Nat /\ disk.run \in Nat /\ Size \in Nat /\ x.run \in Nat /\ x.line \in Nat \ {0}
      /\ DOMAIN disk.lines = 1 .. Len(disk.lines) /\ Len(disk.lines) \in Nat /\ Size <= 2 * Len(disk.lines)
  <2>1. f.run \in Nat /\ f.offset \in Nat
    BY FileFields DEF Keys
  <2>2. disk.run \in Nat /\ disk.lines \in Seq(Texts)
    BY Bounds DEF DiskFits
  <2>3. Size \in Nat /\ Size <= 2 * Len(disk.lines) /\ Len(disk.lines) \in Nat
    BY DiskSize
  <2>4. QED
    BY <2>1, <2>2, <2>3, LenProperties DEF Stamps, Keys
<1>2. Place(x) \in Range(Content(f)) \/ (f.carry # NoLine /\ Place(x) = Place(f.carry))
  <2> DEFINE c == Content(f)
             y == Place(f.carry)
  <2>1. c \in Seq(Spots)
    BY ContentTyped
  <2>2. CASE f.carry = NoLine
    BY <2>2, EndingIs
  <2>3. CASE f.carry # NoLine
    <3>1. Ending(f) = Append(c, y) /\ y \in Spots
      BY <2>3, EndingIs
    <3> HIDE DEF c, y
    <3>2. Range(Append(c, y)) = Range(c) \cup {y}
      BY <2>1, <3>1, RangeAppended
    <3>3. QED
      BY <2>3, <3>1, <3>2 DEF c, y
  <2>4. QED
    BY <2>2, <2>3
<1>3. CASE Place(x) \in Range(Content(f))
  <2>1. x.run < f.run \/ (x.run = f.run /\ x.line <= f.offset \div 2)
    <3> DEFINE a == Place(x)
    <3>1. a[1] < f.run \/ (a[1] = f.run /\ a[2] <= f.offset \div 2)
      BY <1>3
    <3>2. a[1] = x.run /\ a[2] = x.line
      BY DEF Place
    <3> HIDE DEF a
    <3>3. QED
      BY <3>1, <3>2
  <2>2. x.run <= disk.run
    BY <1>1, <2>1
  <2>3. ASSUME x.run = disk.run
        PROVE  x.line \in DOMAIN disk.lines /\ (x.account \/ ~AuthUpTo(x.line))
    <3>1. f.run = disk.run /\ x.line <= f.offset \div 2
      BY <1>1, <2>1, <2>3
    <3>2. x.line <= Len(disk.lines)
      BY <1>1, <3>1
    <3>3. x.account \/ ~AuthUpTo(x.line)
      <4>1. x.account \/ ~AuthUpTo(f.offset \div 2)
        BY <3>1 DEF Late
      <4>2. x.line \in Int /\ f.offset \div 2 \in Int
        BY <1>1
      <4>3. QED
        BY <3>1, <4>1, <4>2, AuthUpToGrows
    <3>4. QED
      BY <1>1, <3>2, <3>3
  <2>4. QED
    BY <2>2, <2>3 DEF Known
<1>4. CASE f.carry # NoLine /\ Place(x) = Place(f.carry) /\ Place(x) \notin Range(Content(f))
  <2>1. x.run = f.carry.run /\ x.line = f.carry.line
    BY <1>4 DEF Place
  <2>2. x.run <= disk.run
    BY <1>1, <1>4, <2>1
  <2>3. ASSUME x.run = disk.run
        PROVE  x.line \in DOMAIN disk.lines /\ (x.account \/ ~AuthUpTo(x.line))
    <3>1. f.run = disk.run
      BY <1>1, <1>4, <2>1, <2>3
    <3>2. x.line \in DOMAIN disk.lines /\ f.carry.text = disk.lines[x.line] /\ x.line = f.offset \div 2 + 1
      BY <1>4, <2>1, <3>1
    <3>3. SUFFICES ASSUME ~x.account
                   PROVE  ~AuthUpTo(x.line)
      BY <3>2
    <3>4. disk.lines[x.line].kind # "auth" /\ ~AuthUpTo(f.offset \div 2)
      BY <1>4, <3>1, <3>2, <3>3 DEF Late
    <3>5. SUFFICES ASSUME NEW i \in 1 .. x.line, i \in DOMAIN disk.lines, disk.lines[i].kind = "auth"
                   PROVE  FALSE
      BY DEF AuthUpTo
    <3>6. f.offset \in Nat /\ i # x.line
      BY <1>1, <3>4, <3>5, FileFields
    <3>7. i \in 1 .. f.offset \div 2
      BY <3>2, <3>5, <3>6
    <3>8. QED
      BY <3>4, <3>5, <3>7 DEF AuthUpTo
  <2>4. QED
    BY <2>2, <2>3 DEF Known
<1>5. QED
  BY <1>2, <1>3, <1>4

LEMMA SameKnown ==
  ASSUME AllKnown, UNCHANGED disk, db' \cup Range(bus') \subseteq db \cup Range(bus)
  PROVE  AllKnown'
BY DEF AllKnown, Known, AuthUpTo

LEMMA MoreKnown ==
  ASSUME LogTyped, AllKnown, UNCHANGED <<disk, db>>, NEW o \in Seq(Stamps), bus' = bus \o o,
         \A x \in Range(o) : Known(x)
  PROVE  AllKnown'
<1>1. Range(bus \o o) = Range(bus) \cup Range(o)
  BY RangeConcatenation DEF LogTyped, DaemonFits
<1>2. \A e \in db' \cup Range(bus') : Known(e)
  BY <1>1 DEF AllKnown
<1>3. QED
  BY <1>2 DEF AllKnown, Known, AuthUpTo

\* The client adds to the file, the watcher does nothing.
LEMMA ClientWritesKnown ==
  ASSUME LogTyped, Attributed, ClientWritesHalf \/ ClientEndsLine
  PROVE  Attributed'
<1>1. /\ UNCHANGED <<bus, db, file, hand, excuse>> /\ disk'.run = disk.run
  BY DEF ClientWritesHalf, ClientEndsLine, daemonVars, storeVars, LogTyped, DiskFits
<1>2. \A i \in DOMAIN disk.lines : i \in DOMAIN disk'.lines /\ disk'.lines[i] = disk.lines[i]
  BY LinesStay
<1>3. DOMAIN disk.lines = 1 .. Len(disk.lines) /\ Len(disk.lines) \in Nat /\ Size <= 2 * Len(disk.lines) /\ Size \in Nat
  BY LenProperties, DiskSize DEF LogTyped, DiskFits
<1>4. ASSUME NEW n \in Int, n <= Len(disk.lines), AuthUpTo(n)'
      PROVE  AuthUpTo(n)
  <2>1. PICK i \in 1 .. n : disk'.lines[i].kind = "auth"
    BY <1>4 DEF AuthUpTo
  <2>2. i \in DOMAIN disk.lines
    BY <1>3, <1>4
  <2>3. QED
    BY <1>2, <2>1, <2>2 DEF AuthUpTo
<1> SUFFICES ASSUME excuse = {}
             PROVE  AllKnown' /\ FileWaits'
  BY <1>1 DEF Attributed
<1>5. AllKnown /\ FileWaits
  BY DEF Attributed
<1>6. AllKnown'
  <2> SUFFICES ASSUME NEW e \in db \cup Range(bus)
               PROVE  Known(e)'
    BY <1>1 DEF AllKnown
  <2>1. Known(e)
    BY <1>5 DEF AllKnown
  <2>2. e.run = disk.run => /\ e.line \in DOMAIN disk'.lines /\ e.line \in Int /\ e.line <= Len(disk.lines)
                            /\ (e.account \/ ~AuthUpTo(e.line))
    BY <1>2, <1>3, <2>1 DEF Known
  <2> DEFINE n == e.line
  <2>3. n \in Int /\ n <= Len(disk.lines) => (AuthUpTo(n)' => AuthUpTo(n))
    <3> HIDE DEF n
    <3>1. QED
      BY <1>4
  <2>4. QED
    BY <1>1, <2>1, <2>2, <2>3 DEF Known
<1>7. FileWaits'
  <2> SUFFICES ASSUME file # NoFile, file.run = disk.run, 
                      Live(file.tracker), ~file.tracker.authenticated, ~hand.truncated
               PROVE  Waiting'
    BY <1>1, <1>5 DEF FileWaits
  <2>1. Waiting
    BY <1>5 DEF FileWaits
  <2>2. Through \in Int /\ Through <= Len(disk.lines)
    <3>1. Sound(file) /\ file.offset <= Size /\ hand.lines \in Seq(Lines)
      BY DEF LogTyped, DaemonFits, Hands
    <3>2. file.offset \in Nat /\ Len(hand.lines) \in Nat
      BY <3>1, FileFields, LenProperties
    <3>3. QED
      BY <1>3, <3>1, <3>2 DEF Through
  <2>3. ~AuthUpTo(Through)'
    <3> DEFINE n == Through
    <3>1. n \in Int /\ n <= Len(disk.lines) /\ ~AuthUpTo(n)
      BY <2>1, <2>2 DEF Waiting
    <3>2. Through' = n
      BY <1>1 DEF Through
    <3>3. AuthUpTo(Through)' => \E i \in 1 .. n : i \in DOMAIN disk'.lines /\ disk'.lines[i].kind = "auth"
      BY <3>2 DEF AuthUpTo
    <3> HIDE DEF n
    <3>4. \A i \in 1 .. n : i \in DOMAIN disk.lines
      BY <1>3, <3>1
    <3>5. QED
      BY <1>2, <3>1, <3>3, <3>4 DEF AuthUpTo
  <2>4. QED
    BY <1>1, <1>2, <2>1, <2>3 DEF Waiting
<1>8. QED
  BY <1>6, <1>7

LEMMA OutIsPlaced ==
  ASSUME NEW o \in Seq(Stamps), NEW x \in Range(o)
  PROVE  x \in Stamps /\ Place(x) \in Range(Places(o))
<1>1. o \in Seq(Located)
  BY SeqMonotonic DEF Located
<1>2. PICK n \in 1 .. Len(o) : x = o[n]
  BY RangeEquality
<1>3. Places(o) \in Seq(Spots) /\ Len(Places(o)) = Len(o) /\ Places(o)[n] = Place(o[n])
  BY <1>1, PlacesOf
<1> DEFINE q == Places(o)
<1>4. q \in Seq(Spots) /\ n \in 1 .. Len(q) /\ q[n] = Place(x)
  BY <1>2, <1>3
<1> HIDE DEF q
<1>5. q[n] \in Range(q)
  BY <1>4, RangeEquality
<1>6. QED
  BY <1>2, <1>4, <1>5 DEF q

\* What leaves when the watcher, with nothing in hand, ends the session of its file.
LEMMA EndKnown ==
  ASSUME LogTyped, ReadFits, KindsFit, Ordered, FileWaits, Clean, file # NoFile, ~file.finished,
         file.tracker # NoTracker, hand = NoHand,
         NEW x \in Stamps, Place(x) \in Range(Ending(file)), x.account \/ Late(file, x)
  PROVE  Known(x)
<1>1. /\ Sound(file) /\ file.run <= disk.run /\ (file.run = disk.run => file.offset <= Size) /\ DiskFits
  BY DEF LogTyped, DaemonFits
<1>2. Following /\ Live(file.tracker)
  BY <1>1, LiveIsWatched DEF Ordered
<1>3. Through = file.offset \div 2 /\ ~hand.truncated
  <2>1. Len(hand.lines) = 0 /\ file.offset \in Nat
    BY <1>1, FileFields DEF NoHand
  <2>2. QED
    BY <2>1, NoHandIs DEF Through
<1>4. \A a \in Range(Content(file)) : a[1] < file.run \/ (a[1] = file.run /\ a[2] <= file.offset \div 2)
  BY <1>2, <1>3, StoryIs DEF Following, Passed
<1>5. file.run = disk.run /\ ~file.tracker.authenticated => ~AuthUpTo(file.offset \div 2)
  BY <1>2, <1>3 DEF FileWaits, Waiting
<1>6. file.carry # NoLine => file.carry.run <= file.run
  <2> SUFFICES ASSUME file.carry # NoLine
               PROVE  file.carry.run <= file.run
    OBVIOUS
  <2>1. file.carry.run < file.run \/ file.carry.run = file.run
    BY DEF ReadFits
  <2>2. file.carry.run \in Nat /\ file.run \in Nat
    BY <1>1, FileFields DEF Halves, Lines, Keys
  <2>3. QED
    BY <2>1, <2>2
<1>7. ASSUME file.carry # NoLine, file.run = disk.run
      PROVE  /\ file.carry.run = file.run /\ file.carry.line = file.offset \div 2 + 1
             /\ file.carry.line \in DOMAIN disk.lines /\ file.carry.text = disk.lines[file.carry.line]
  <2>1. file.carry.run = file.run
    BY <1>7 DEF FileWaits
  <2>2. file.carry.line = file.offset \div 2 + 1
    <3>1. file.carry.run < file.run \/ file.carry.line = file.offset \div 2 + 1
      BY <1>7 DEF ReadFits
    <3>2. file.run \in Nat
      BY <1>1, FileFields DEF Keys
    <3>3. QED
      BY <2>1, <3>1, <3>2
  <2>3. file.carry.line \in DOMAIN disk.lines /\ file.carry.text = disk.lines[file.carry.line]
    BY <1>7, <2>1 DEF KindsFit, OfDisk
  <2>4. QED
    BY <2>1, <2>2, <2>3
<1>8. QED
  BY <1>1, <1>4, <1>5, <1>6, <1>7, LateIsKnown

LEMMA ScanAttributed ==
  ASSUME LogTyped, ReadFits, KindsFit, Ordered, Attributed, Scan
  PROVE  Attributed'
<1> DEFINE ends == file # NoFile /\ ~file.finished /\ file.tracker # NoTracker
           s == Finish(file, "crash")
<1>1. /\ bus' = IF ends THEN bus \o s.out ELSE bus
      /\ file' = Taken /\ excuse \subseteq excuse' /\ UNCHANGED <<disk, db, hand>>
      /\ disk.run > 0 /\ hand = NoHand
      /\ Taken.tracker # NoTracker /\ "headless" \notin excuse' => ~Headless((Taken.offset + 1) \div 2, HeadSeen)
  BY ScanSteps DEF AdoptedWith, Taken, Replaced
<1>2. /\ Sound(Taken) /\ Taken.run = disk.run /\ Taken.carry = NoLine
      /\ ~Taken.finished /\ Taken.offset <= Size
      /\ IF Taken.tracker = NoTracker THEN Taken.offset = Size ELSE Begun(Taken, Taken.offset > 0 /\ HeadSeen)
      /\ Taken.offset = IF stored[disk.key].run > 0 /\ stored[disk.key].pos <= Size THEN stored[disk.key].pos ELSE 0
  BY <1>1, TakenIs DEF LogTyped, DaemonFits
<1> SUFFICES ASSUME excuse' = {}
             PROVE  AllKnown' /\ FileWaits'
  BY DEF Attributed
<1>3. excuse = {} /\ Clean /\ AllKnown /\ FileWaits
  BY <1>1 DEF Attributed, Clean
<1>4. AllKnown'
  <2>1. CASE ~ends
    BY <1>1, <1>3, <2>1, SameKnown
  <2>2. CASE ends
    <3>1. s.out \in Seq(Stamps) /\ Places(s.out) = Ending(file) /\ \A x \in Range(s.out) : x.account \/ Late(file, x)
      BY <2>2, SessionEnds DEF LogTyped, DaemonFits
    <3> HIDE DEF s
    <3>2. \A x \in Range(s.out) : Known(x)
      <4> TAKE x \in Range(s.out)
      <4>1. x \in Stamps /\ Place(x) \in Range(Ending(file))
        BY <3>1, OutIsPlaced
      <4>2. QED
        BY <1>1, <1>3, <2>2, <3>1, <4>1, EndKnown
    <3>3. QED
      BY <1>1, <1>3, <2>2, <3>1, <3>2, MoreKnown
  <2>3. QED
    BY <2>1, <2>2
<1>5. FileWaits'
  <2>1. SUFFICES ASSUME Live(Taken.tracker), ~Taken.tracker.authenticated
                 PROVE  Waiting'
    BY <1>1, <1>2 DEF FileWaits
  <2>2. Begun(Taken, Taken.offset > 0 /\ HeadSeen)
    BY <1>2, <2>1, NoTrackerIs
  <2>3. /\ hand'.lines = <<>> /\ DOMAIN hand'.lines = {} /\ Len(hand'.lines) = 0
    BY <1>1 DEF NoHand
  <2>4. /\ Taken.offset \in Nat /\ Size \in Nat /\ DOMAIN disk.lines = 1 .. Len(disk.lines)
        /\ Len(disk.lines) \in Nat /\ Size <= 2 * Len(disk.lines)
    BY <1>2, FileFields, DiskSize, LenProperties DEF LogTyped, DiskFits
  <2>5. Through' = Taken.offset \div 2
    BY <1>1, <2>3, <2>4 DEF Through
  <2>6. CASE Taken.offset = 0
    <3>1. Through' = 0
      BY <2>5, <2>6
    <3>2. ~AuthUpTo(Through)'
      BY <3>1 DEF AuthUpTo
    <3>3. file'.offset % 2 = 0
      BY <1>1, <2>6
    <3>4. QED
      BY <2>3, <3>2, <3>3 DEF Waiting
  <2>7. CASE Taken.offset > 0
    <3> DEFINE n == Taken.offset \div 2
    <3>1. \A i \in DOMAIN disk.lines : i <= (Taken.offset + 1) \div 2 => disk.lines[i].kind # "auth"
      <4>1. ~(HeadSeen /\ AuthInHead)
        BY <2>1, <2>2, <2>7 DEF Begun
      <4>2. Taken.tracker # NoTracker
        BY <2>1, NoTrackerIs
      <4>3. ~Headless((Taken.offset + 1) \div 2, HeadSeen)
        BY <1>1, <4>2
      <4>4. QED
        BY <4>1, <4>3 DEF Headless
    <3>2. n \in Nat /\ n <= (Taken.offset + 1) \div 2 /\ (Taken.offset % 2 = 1 => n + 1 <= (Taken.offset + 1) \div 2)
          /\ 2 * n <= Taken.offset
      BY <2>4, SMTT(30)
    <3>3. ~AuthUpTo(Through)'
      <4>1. SUFFICES ASSUME NEW i \in 1 .. n, i \in DOMAIN disk.lines, disk.lines[i].kind = "auth"
                     PROVE  FALSE
        BY <1>1, <2>5 DEF AuthUpTo
      <4> HIDE DEF n
      <4>2. i <= (Taken.offset + 1) \div 2
        BY <2>4, <3>2, <4>1
      <4>3. QED
        BY <3>1, <4>1, <4>2
    <3>4. ASSUME Taken.offset % 2 = 1
          PROVE  n + 1 \in DOMAIN disk.lines /\ disk.lines[n + 1].kind # "auth"
      <4>1. n + 1 \in 1 .. Len(disk.lines)
        BY <1>2, <2>4, <3>4
      <4>2. QED
        BY <2>4, <3>1, <3>2, <3>4, <4>1
    <3>5. file'.offset \div 2 + 1 = n + 1
      BY <1>1
    <3>6. QED
      BY <1>1, <2>3, <3>3, <3>4, <3>5 DEF Waiting
  <2>8. QED
    BY <2>4, <2>6, <2>7
<1>6. QED
  BY <1>4, <1>5

LEMMA ReadTailAttributed ==
  ASSUME LogTyped, ReadFits, KindsFit, Attributed, ReadTail
  PROVE  Attributed'
<1> DEFINE m == From \div 2
           k == To \div 2
<1>1. /\ file # NoFile /\ ~file.finished /\ Sound(file) /\ hand = NoHand
      /\ disk.run \in Keys /\ m \in Nat /\ k \in Nat /\ m <= k
      /\ (To % 2 = 1 => k + 1 <= Len(disk.lines)) /\ Len(disk.lines) \in Nat
      /\ From \in Nat /\ To \in Nat
      /\ UNCHANGED <<disk, db, bus>>
      /\ excuse \subseteq excuse' /\ (~Cut /\ Overgrown(file.run, file.offset) => "overgrown" \in excuse')
  BY ReadTailIs
<1>2. /\ file' # NoFile /\ file'.run = disk.run /\ file'.offset = To
      /\ file'.carry = IF To = From THEN Carried ELSE IF To % 2 = 1 THEN LineOnDisk(k + 1) ELSE NoLine
      /\ file'.tracker = file.tracker
      /\ hand' \in Hands /\ hand'.truncated = Cut
      /\ Len(hand'.lines) = k - m
      /\ \A n \in 1 .. k - m : m + n \in 1 .. Len(disk.lines) /\ hand'.lines[n] = Spilled(m + n)
  BY ReadResult
<1>3. Through' = m
  BY ReadTailFits
<1>4. DOMAIN hand'.lines = 1 .. k - m
  <2>1. hand'.lines \in Seq(Lines)
    BY <1>2 DEF Hands
  <2>2. QED
    BY <1>2, <2>1, LenProperties
<1> SUFFICES ASSUME excuse' = {}
             PROVE  AllKnown' /\ FileWaits'
  BY DEF Attributed
<1>5. excuse = {} /\ AllKnown /\ FileWaits /\ ~(~Cut /\ Overgrown(file.run, file.offset))
  BY <1>1 DEF Attributed
<1>6. AllKnown'
  BY <1>1, <1>5, SameKnown
<1>7. /\ file.run \in Nat /\ disk.run \in Nat /\ file.run <= disk.run /\ file.offset \in Nat /\ Size \in Nat
      /\ DOMAIN disk.lines = 1 .. Len(disk.lines) /\ file.carry \in Halves
  BY <1>1, FileFields, DiskSize, LenProperties, SMTT(30) DEF Keys, LogTyped, DaemonFits, DiskFits
\* What the tail held belongs to the run it reads.
<1>8. Carried # NoLine => Carried = file.carry /\ ~Cut /\ file.run = disk.run /\ file.carry.run = disk.run
  <2> SUFFICES ASSUME Carried # NoLine
               PROVE  ~Cut /\ file.run = disk.run /\ file.carry.run = disk.run
    BY DEF Carried
  <2>1. ~Cut /\ file.carry # NoLine
    BY DEF Carried
  <2>2. file.offset % 2 = 1
    BY <1>1, <2>1 DEF ReadFits
  <2>3. file.run = disk.run
    BY <1>5, <1>7, <2>1, <2>2 DEF Cut, Overgrown
  <2>4. QED
    BY <1>1, <1>5, <2>1, <2>3 DEF FileWaits
<1>9. To # From /\ To % 2 = 1 => LineOnDisk(k + 1) # NoLine /\ LineOnDisk(k + 1).run = disk.run
  <2> SUFFICES ASSUME To # From, To % 2 = 1
               PROVE  LineOnDisk(k + 1) # NoLine /\ LineOnDisk(k + 1).run = disk.run
    OBVIOUS
  <2> DEFINE i == k + 1
  <2>1. i \in 1 .. Len(disk.lines)
    BY <1>1
  <2> HIDE DEF i, k
  <2>2. LineOnDisk(i) # NoLine /\ LineOnDisk(i).run = disk.run
    BY <1>1, <2>1, LineOnDiskIs DEF LogTyped
  <2>3. QED
    BY <2>2 DEF i
<1>10. file'.carry # NoLine => file'.carry.run = file'.run
  BY <1>2, <1>8, <1>9
<1>11. ASSUME Live(file.tracker), ~file.tracker.authenticated, ~Cut
       PROVE  Waiting'
  <2>1. From = file.offset
    BY <1>11 DEF From
  <2>2. file.run = disk.run \/ file.offset = 0
    BY <1>5, <1>7, <1>11 DEF Cut, Overgrown
  <2>3. file.run = disk.run => Waiting /\ Through = m
    <3>1. file.run = disk.run => Waiting
      BY <1>1, <1>5, <1>11, NoHandIs DEF FileWaits
    <3>2. Len(hand.lines) = 0
      BY <1>1 DEF NoHand
    <3>3. QED
      BY <1>7, <2>1, <3>1, <3>2 DEF Through
  <2>4. ~AuthUpTo(m)
    <3>1. CASE file.run = disk.run
      BY <2>3, <3>1 DEF Waiting
    <3>2. CASE file.offset = 0
      <4>1. m = 0
        BY <2>1, <3>2
      <4>2. QED
        BY <4>1 DEF AuthUpTo
    <3>3. QED
      BY <2>2, <3>1, <3>2
  <2>5. ~AuthUpTo(Through)'
    BY <1>1, <1>3, <2>4 DEF AuthUpTo
  <2>6. ASSUME NEW n \in 1 .. k - m, ~hand'.lines[n].whole
        PROVE  hand'.lines[n].text.kind # "auth"
    <3> DEFINE i == m + n
    <3>1. i \in 1 .. Len(disk.lines) /\ hand'.lines[n] = Spilled(i) /\ i \in Nat
      BY <1>1, <1>2
    <3> HIDE DEF i
    <3>2. Spilled(i).text = disk.lines[i] /\ Spilled(i).whole = Whole(i)
      BY <1>1, <3>1, LineOnDiskIs DEF LogTyped
    <3>3. ~Whole(i)
      BY <2>6, <3>1, <3>2
    <3>4. 2 * i - 1 <= From
      BY <1>1, <3>1, <3>3 DEF Whole
    <3>5. i = From \div 2 + 1 /\ From % 2 = 1
      BY <1>1, <3>1, <3>4, SMTT(30) DEF i
    <3>6. file.run = disk.run
      BY <2>1, <2>2, <3>5
    <3>7. file.carry = NoLine
      <4> SUFFICES ASSUME file.carry # NoLine
                   PROVE  FALSE
        OBVIOUS
      <4>1. Carried = file.carry
        BY <1>11 DEF Carried
      <4>2. QED
        BY <1>8, <3>3, <4>1 DEF Whole
    <3>8. disk.lines[file.offset \div 2 + 1].kind # "auth"
      BY <2>1, <2>3, <3>5, <3>6, <3>7 DEF Waiting
    <3>9. QED
      BY <2>1, <3>1, <3>2, <3>5, <3>8
  <2>7. ASSUME To % 2 = 1, file'.carry = NoLine
        PROVE  k + 1 \in DOMAIN disk.lines /\ disk.lines[k + 1].kind # "auth"
    <3>1. To = From /\ Carried = NoLine
      BY <1>2, <1>9, <2>7
    <3>2. file.carry = NoLine
      BY <1>11, <3>1 DEF Carried
    <3>3. file.run = disk.run
      BY <2>1, <2>2, <2>7, <3>1
    <3>4. QED
      BY <2>1, <2>3, <2>7, <3>1, <3>2, <3>3 DEF Waiting
  <2> HIDE DEF m, k
  <2>8. file'.offset \div 2 + 1 = k + 1
    BY <1>2 DEF k
  <2>9. QED
    BY <1>1, <1>2, <1>4, <2>5, <2>6, <2>7, <2>8 DEF Waiting
<1>12. FileWaits'
  BY <1>1, <1>2, <1>10, <1>11 DEF FileWaits
<1>13. QED
  BY <1>6, <1>12

LEMMA TickAttributed ==
  ASSUME LogTyped, ReadFits, KindsFit, Ordered, Attributed, TickWithoutRead
  PROVE  Attributed'
<1>1. /\ hand = NoHand /\ file # NoFile /\ ~file.finished /\ Sound(file)
      /\ UNCHANGED <<disk, db, hand, excuse>>
  BY TickIs
<1>2. PICK missing \in BOOLEAN :
        LET g == Polled(missing)
            r == Reaped(g)
        IN /\ file' = r.file /\ bus' = bus \o r.out
           /\ Sound(g) /\ g.run = file.run /\ g.offset = file.offset
           /\ g.carry = file.carry /\ g.block = file.block /\ g.tracker = file.tracker
           /\ g.finished = file.finished
  BY TickIs
<1> DEFINE g == Polled(missing)
           f == Reaped(g).file
           o == Reaped(g).out
<1>3. /\ file' = f /\ bus' = bus \o o
      /\ Sound(g) /\ g.run = file.run /\ g.offset = file.offset
      /\ g.carry = file.carry /\ g.block = file.block /\ g.tracker = file.tracker
      /\ g.finished = file.finished
  BY <1>2
<1> HIDE DEF g
<1>4. /\ Sound(f) /\ o \in Seq(Stamps)
      /\ \/ f = g /\ o = <<>>
         \/ f.finished /\ g.tracker # NoTracker /\ Places(o) = Ending(g) /\ \A x \in Range(o) : x.account \/ Late(g, x)
  BY <1>3, ReapedIs
<1> HIDE DEF f, o
<1> SUFFICES ASSUME excuse = {}
             PROVE  AllKnown' /\ FileWaits'
  BY <1>1 DEF Attributed
<1>5. AllKnown /\ FileWaits /\ Clean
  BY DEF Attributed, Clean
<1>6. CASE f = g /\ o = <<>>
  <2>1. bus' = bus
    BY <1>3, <1>6, ConcatEmptySeq DEF LogTyped, DaemonFits
  <2>2. AllKnown'
    BY <1>1, <1>5, <2>1, SameKnown
  <2>3. Waiting => Waiting'
    BY <1>1, <1>3, <1>6 DEF Waiting, AuthUpTo, Through
  <2>4. FileWaits'
    BY <1>1, <1>3, <1>5, <1>6, <2>3 DEF FileWaits
  <2>5. QED
    BY <2>2, <2>4
<1>7. CASE f.finished /\ g.tracker # NoTracker /\ Places(o) = Ending(g) /\ \A x \in Range(o) : x.account \/ Late(g, x)
  <2>1. Ending(g) = Ending(file)
    BY <1>3 DEF Ending, ScanState
  <2>2. \A x \in Range(o) : x.account \/ Late(file, x)
    BY <1>3, <1>7 DEF Late, Content, ScanState
  <2>3. \A x \in Range(o) : Known(x)
    <3> TAKE x \in Range(o)
    <3>1. x \in Stamps /\ Place(x) \in Range(Ending(file))
      BY <1>4, <1>7, <2>1, OutIsPlaced
    <3>2. QED
      BY <1>1, <1>3, <1>5, <1>7, <2>2, <3>1, EndKnown
  <2>4. AllKnown'
    BY <1>1, <1>3, <1>4, <1>5, <2>3, MoreKnown
  <2>5. ~Live(f.tracker)
    BY <1>4, <1>7, LiveIsWatched
  <2>6. FileWaits'
    BY <1>3, <1>7, <2>5 DEF FileWaits
  <2>7. QED
    BY <2>4, <2>6
<1>8. QED
  BY <1>4, <1>6, <1>7

\* A session that still waits at the end of a read has not passed its account.
LEMMA SettledWaits ==
  ASSUME LogTyped, ReadFits, KindsFit, TopFits, FileWaits, HeadGiven, hand.read, file.run = disk.run,
         Live(Settled.tracker), ~Settled.tracker.authenticated
  PROVE  /\ ~AuthUpTo(file.offset \div 2)
         /\ Roused.tracker # NoTracker /\ ~Roused.tracker.authenticated
<1>1. /\ Roused.tracker = NoTracker => Scanned = ScanState(Roused)
      /\ Roused.tracker # NoTracker => Ingested(Roused, Len(hand.lines), Scanned)
      /\ Settled.tracker = Scanned.tracker
  BY SettledIs
<1>2. Roused.tracker # NoTracker
  <2> SUFFICES ASSUME Roused.tracker = NoTracker
               PROVE  FALSE
    OBVIOUS
  <2>1. Settled.tracker = NoTracker
    BY <1>1 DEF ScanState
  <2>2. QED
    BY <2>1, NoTrackerIs
<1> DEFINE N == Len(hand.lines)
<1>3. Ingested(Roused, N, Scanned)
  BY <1>1, <1>2
<1>4. Working(Scanned.tracker)
  BY <1>1, <1>3 DEF Ingested, Live, Over
<1>5. ~Roused.tracker.authenticated /\ \A j \in 1 .. N : ~Authenticates(hand.lines[j])
  BY <1>1, <1>3, <1>4 DEF Ingested
<1>6. /\ N \in 0 .. N /\ Through + N = file.offset \div 2
  <2>1. file.offset \in Nat
    BY SourceIs, FileFields
  <2>2. N \in Nat
    BY LenProperties DEF LogTyped, DaemonFits, Hands
  <2> HIDE DEF N
  <2>3. Through = file.offset \div 2 - N
    BY DEF Through, N
  <2>4. QED
    BY <2>1, <2>2, <2>3
<1>7. ~AuthUpTo(Through + N)
  BY <1>2, <1>5, <1>6, StillWaiting
<1>8. QED
  BY <1>2, <1>5, <1>6, <1>7

\* What the lines of a read bring out.
LEMMA ScannedKnown ==
  ASSUME LogTyped, ReadFits, KindsFit, TopFits, Ordered, FileWaits, Clean, HeadGiven, hand.read,
         NEW p \in Seq(Spots), p \o Content(Roused) = Story, NEW x \in Range(Scanned.out)
  PROVE  Known(x)
<1> DEFINE c == Content(Roused)
           N == Len(hand.lines)
<1>1. /\ Sound(file) /\ ~file.finished /\ file # NoFile /\ file.run <= disk.run
      /\ (file.run = disk.run => file.offset <= Size)
  BY SourceIs DEF LogTyped, DaemonFits
<1>2. /\ Sound(Roused) /\ Scanned.out \in Seq(Stamps)
      /\ Roused.tracker = NoTracker => Scanned = ScanState(Roused)
      /\ Roused.tracker # NoTracker => Ingested(Roused, N, Scanned)
  BY SettledIs
<1>3. Roused.tracker # NoTracker
  <2> SUFFICES ASSUME Roused.tracker = NoTracker
               PROVE  FALSE
    OBVIOUS
  <2>1. Scanned.out = <<>>
    BY <1>2 DEF ScanState
  <2>2. QED
    BY <2>1 DEF Range
<1>4. Ingested(Roused, N, Scanned)
  BY <1>2, <1>3
<1>5. /\ x.account \/ Unattributed(x, Roused, N)
      /\ Place(x) \in Range(c) \/ \E m \in 1 .. N : Place(x) = Place(hand.lines[m])
      /\ x \in Stamps
  <2>1. Scanned \in ScanStates
    BY <1>4 DEF Ingested
  <2>2. Place(x) \in Range(Contents(Scanned))
    BY <2>1, StampsArePlaced
  <2>3. QED
    BY <1>2, <1>4, <2>2, OutIsPlaced DEF Ingested
<1>6. /\ file.run \in Nat /\ file.offset \in Nat /\ disk.run \in Nat /\ N \in Nat /\ x.run \in Nat /\ x.line \in Nat \ {0}
      /\ DOMAIN disk.lines = 1 .. Len(disk.lines) /\ Len(disk.lines) \in Nat /\ Size <= 2 * Len(disk.lines) /\ Size \in Nat
      /\ DOMAIN hand.lines = 1 .. N /\ Through = file.offset \div 2 - N /\ Through \in Int
  <2>1. file.run \in Nat /\ file.offset \in Nat
    BY <1>1, FileFields DEF Keys
  <2>2. disk.run \in Nat /\ disk.lines \in Seq(Texts) /\ hand.lines \in Seq(Lines)
    BY Bounds DEF LogTyped, DiskFits, DaemonFits, Hands
  <2>3. Size \in Nat /\ Size <= 2 * Len(disk.lines) /\ Len(disk.lines) \in Nat
    BY DiskSize DEF LogTyped
  <2>4. x.run \in Nat /\ x.line \in Nat \ {0}
    BY <1>5 DEF Stamps, Keys
  <2>5. N \in Nat /\ DOMAIN hand.lines = 1 .. N
    BY <2>2, LenProperties
  <2> HIDE DEF N
  <2>6. Through = file.offset \div 2 - N /\ Through \in Int
    BY <2>1, <2>5 DEF Through, N
  <2>7. QED
    BY <2>1, <2>2, <2>3, <2>4, <2>5, <2>6, LenProperties
<1>7. CASE Place(x) \in Range(c)
  <2>1. x.run < file.run \/ (x.run = file.run /\ x.line <= Through)
    <3> DEFINE a == Place(x)
    <3>1. a \in Range(Story)
      <4>1. c \in Seq(Spots)
        BY <1>2, ContentTyped
      <4>2. p \o c = Story /\ a \in Range(c)
        BY <1>7
      <4> HIDE DEF c, a
      <4>3. Range(p \o c) = Range(p) \cup Range(c)
        BY <4>1, RangeConcatenation
      <4>4. QED
        BY <4>2, <4>3
    <3>2. a[1] < file.run \/ (a[1] = file.run /\ a[2] <= Through)
      BY <1>1, <3>1 DEF Ordered, Following, Passed
    <3>3. a[1] = x.run /\ a[2] = x.line
      BY DEF Place
    <3> HIDE DEF a
    <3>4. QED
      BY <3>2, <3>3
  <2>2. x.run <= disk.run
    <3>1. file.run \in Nat /\ disk.run \in Nat /\ x.run \in Nat
      BY <1>6
    <3>2. file.run <= disk.run
      BY <1>1
    <3>3. QED
      BY <2>1, <3>1, <3>2
  <2>3. ASSUME x.run = disk.run
        PROVE  x.line \in DOMAIN disk.lines /\ (x.account \/ ~AuthUpTo(x.line))
    <3> HIDE DEF N
    <3>1. file.run = disk.run /\ x.line <= Through
      <4>1. file.run \in Nat /\ disk.run \in Nat /\ x.run \in Nat
        BY <1>6
      <4>2. file.run <= disk.run
        BY <1>1
      <4>3. QED
        BY <2>1, <2>3, <4>1, <4>2
    <3>2. x.line \in DOMAIN disk.lines
      BY <1>1, <1>6, <3>1, SMTT(30)
    <3>3. ASSUME ~x.account
          PROVE  ~AuthUpTo(x.line)
      <4>1. ~Roused.tracker.authenticated
        BY <1>5, <3>3 DEF Unattributed
      <4>2. 0 \in 0 .. Len(hand.lines) /\ \A j \in 1 .. 0 : ~Authenticates(hand.lines[j])
        BY <1>6 DEF N
      <4>3. ~AuthUpTo(Through + 0)
        BY <1>3, <3>1, <4>1, <4>2, StillWaiting
      <4>4. x.line \in Int /\ Through + 0 \in Int /\ x.line <= Through + 0
        <5>1. x.line \in Nat /\ Through \in Int
          BY <1>6
        <5>2. Through + 0 = Through
          BY <5>1
        <5>3. QED
          BY <3>1, <5>1, <5>2
      <4>5. QED
        BY <4>3, <4>4, AuthUpToGrows
    <3>4. QED
      BY <3>2, <3>3
  <2>4. QED
    BY <2>2, <2>3 DEF Known
<1>8. CASE Place(x) \notin Range(c)
  <2>1. ASSUME NEW m \in 1 .. N, Place(x) = Place(hand.lines[m])
        PROVE  x.run = file.run /\ x.line = Through + m /\ hand.lines[m].line = Through + m /\ hand.lines[m].run = file.run
    <3>1. x.run = hand.lines[m].run /\ x.line = hand.lines[m].line
      BY <2>1 DEF Place
    <3>2. QED
      BY <1>1, <1>6, <2>1, <3>1 DEF ReadFits
  <2>2. PICK m \in 1 .. N : Place(x) = Place(hand.lines[m])
    BY <1>5, <1>8
  <2>3. x.run <= disk.run
    BY <1>1, <2>1, <2>2
  <2>4. ASSUME x.run = disk.run
        PROVE  x.line \in DOMAIN disk.lines /\ (x.account \/ ~AuthUpTo(x.line))
    <3>1. file.run = disk.run
      BY <2>1, <2>2, <2>4
    <3>2. x.line \in DOMAIN disk.lines
      <4>1. m \in DOMAIN hand.lines
        BY <1>6
      <4>2. hand.lines[m].run = disk.run /\ OfDisk(hand.lines[m])
        BY <1>1, <2>1, <2>2, <3>1, <4>1 DEF KindsFit
      <4>3. x.line = hand.lines[m].line
        BY <2>1, <2>2
      <4>4. QED
        BY <4>2, <4>3 DEF OfDisk
    <3>3. ASSUME ~x.account
          PROVE  ~AuthUpTo(x.line)
      <4>1. ~Roused.tracker.authenticated
        BY <1>5, <3>3 DEF Unattributed
      <4>2. PICK n \in 1 .. N : /\ Place(x) = Place(hand.lines[n])
                                /\ \A j \in 1 .. n : ~Authenticates(hand.lines[j])
        BY <1>5, <1>8, <3>3 DEF Unattributed
      <4>3. n \in 0 .. Len(hand.lines) /\ x.line = Through + n
        BY <1>6, <2>1, <4>2
      <4>4. ~AuthUpTo(Through + n)
        BY <1>3, <3>1, <4>1, <4>2, <4>3, StillWaiting
      <4>5. QED
        BY <4>3, <4>4
    <3>4. QED
      BY <3>2, <3>3
  <2>5. QED
    BY <2>3, <2>4 DEF Known
<1>9. QED
  BY <1>7, <1>8

\* What the reaper brings out behind them.
LEMMA ResultKnown ==
  ASSUME LogTyped, ReadFits, KindsFit, TopFits, Ordered, FileWaits, Clean, HeadGiven, hand.read,
         NEW p \in Seq(Spots), p \o Content(Roused) = Story, NEW x \in Range(Result.out)
  PROVE  Known(x)
<1>1. /\ Sound(file) /\ ~file.finished /\ file # NoFile /\ file.run <= disk.run /\ DiskFits
      /\ (file.run = disk.run => file.offset <= Size)
      /\ (Source.carry = NoLine \/ Source.carry = file.carry)
  BY SourceIs DEF LogTyped, DaemonFits
<1>2. /\ Sound(Settled) /\ Settled.run = file.run /\ Settled.offset = file.offset /\ Settled.carry = Source.carry
      /\ Scanned.out \in Seq(Stamps) /\ Contents(Scanned) = Places(Scanned.out) \o Content(Settled)
  BY SettledIs
<1>3. Result.out \in Seq(Stamps)
  BY SentIs
<1>4. /\ Live(Settled.tracker) /\ ~Settled.finished
      /\ Places(Result.out) = Ending(Settled)
      /\ x.account \/ Late(Settled, x)
  <2>1. Result.out # <<>>
    BY DEF Range
  <2>2. QED
    BY <1>2, <2>1, ReapedIs DEF Result
<1>5. x \in Stamps /\ Place(x) \in Range(Ending(Settled))
  BY <1>3, <1>4, OutIsPlaced
<1>6. \A a \in Range(Content(Settled)) : a[1] < file.run \/ (a[1] = file.run /\ a[2] <= file.offset \div 2)
  <2> DEFINE c == Content(Settled)
             o == Places(Scanned.out)
             d == o \o c
             w == p \o d
  <2>1. \A a \in Range(w) : a[1] < file.run \/ (a[1] = file.run /\ a[2] <= file.offset \div 2)
    BY <1>2, ReadPasses
  <2>2. c \in Seq(Spots) /\ o \in Seq(Spots)
    <3>1. Scanned.out \in Seq(Located)
      BY <1>2, SeqMonotonic DEF Located
    <3>2. QED
      BY <1>2, <3>1, ContentTyped, PlacesOf
  <2> HIDE DEF c, o
  <2>3. d \in Seq(Spots) /\ Range(d) = Range(o) \cup Range(c)
    BY <2>2, ConcatProperties, RangeConcatenation
  <2> HIDE DEF d
  <2>4. Range(w) = Range(p) \cup Range(d)
    BY <2>3, RangeConcatenation
  <2>5. \A a \in Range(c) : a \in Range(w)
    BY <2>3, <2>4
  <2> HIDE DEF w
  <2>6. QED
    BY <2>1, <2>5 DEF c
<1>7. file.run = disk.run /\ ~Settled.tracker.authenticated => ~AuthUpTo(file.offset \div 2)
  BY <1>4, SettledWaits
<1>8. file.carry # NoLine => file.carry.run <= file.run
  <2> SUFFICES ASSUME file.carry # NoLine
               PROVE  file.carry.run <= file.run
    OBVIOUS
  <2>1. file.carry.run < file.run \/ file.carry.run = file.run
    BY <1>1 DEF ReadFits
  <2>2. file.carry.run \in Nat /\ file.run \in Nat
    BY <1>1, FileFields DEF Halves, Lines, Keys
  <2>3. QED
    BY <2>1, <2>2
<1>9. ASSUME file.carry # NoLine, file.run = disk.run
      PROVE  /\ file.carry.run = file.run /\ file.carry.line = file.offset \div 2 + 1
             /\ file.carry.line \in DOMAIN disk.lines /\ file.carry.text = disk.lines[file.carry.line]
  <2>1. file.carry.run = file.run
    BY <1>1, <1>9 DEF FileWaits
  <2>2. file.carry.line = file.offset \div 2 + 1
    <3>1. file.carry.run < file.run \/ file.carry.line = file.offset \div 2 + 1
      BY <1>1, <1>9 DEF ReadFits
    <3>2. file.run \in Nat
      BY <1>1, FileFields DEF Keys
    <3>3. QED
      BY <2>1, <3>1, <3>2
  <2>3. file.carry.line \in DOMAIN disk.lines /\ file.carry.text = disk.lines[file.carry.line]
    BY <1>1, <1>9, <2>1 DEF KindsFit, OfDisk
  <2>4. QED
    BY <2>1, <2>2, <2>3
<1> DEFINE f == Settled
<1>10. /\ Sound(f) /\ f.run <= disk.run /\ (f.run = disk.run => f.offset <= Size)
       /\ \A a \in Range(Content(f)) : a[1] < f.run \/ (a[1] = f.run /\ a[2] <= f.offset \div 2)
       /\ f.run = disk.run /\ ~f.tracker.authenticated => ~AuthUpTo(f.offset \div 2)
       /\ f.carry # NoLine => f.carry.run <= f.run
       /\ f.carry # NoLine /\ f.run = disk.run =>
            /\ f.carry.run = f.run /\ f.carry.line = f.offset \div 2 + 1
            /\ f.carry.line \in DOMAIN disk.lines /\ f.carry.text = disk.lines[f.carry.line]
  <2>1. /\ f.run = file.run /\ f.offset = file.offset /\ (f.carry = NoLine \/ f.carry = file.carry)
    BY <1>1, <1>2
  <2>2. \A a \in Range(Content(f)) : a[1] < f.run \/ (a[1] = f.run /\ a[2] <= f.offset \div 2)
    BY <1>6, <2>1
  <2>3. f.run = disk.run /\ ~f.tracker.authenticated => ~AuthUpTo(f.offset \div 2)
    BY <1>7, <2>1
  <2>4. Sound(f)
    BY <1>2
  <2> HIDE DEF f
  <2>5. QED
    BY <1>1, <1>8, <1>9, <2>1, <2>2, <2>3, <2>4
<1>11. Place(x) \in Range(Ending(f)) /\ (x.account \/ Late(f, x))
  BY <1>4, <1>5
<1> HIDE DEF f
<1>12. QED
  BY <1>1, <1>5, <1>10, <1>11, LateIsKnown

\* What the session of before a truncation brings out is of an earlier run.
LEMMA LastKnown ==
  ASSUME LogTyped, ReadFits, Ordered, Clean, hand.read, Ends, file.carry = NoLine, NEW x \in Range(Last.out)
  PROVE  Known(x)
<1>1. Sound(file) /\ ~file.finished /\ file # NoFile /\ file.run <= disk.run
  BY SourceIs DEF LogTyped, DaemonFits
<1>2. Last.out \in Seq(Stamps) /\ Places(Last.out) = Ending(file)
  BY SentIs
<1>3. x \in Stamps /\ Place(x) \in Range(Content(file))
  <2>1. Ending(file) = Content(file)
    BY <1>1, EndingIs
  <2>2. QED
    BY <1>2, <2>1, OutIsPlaced
<1>4. Through = 0
  BY <1>1 DEF ReadFits, Ends
<1>5. x.run < file.run \/ x.line <= 0
  <2> DEFINE a == Place(x)
  <2>1. a \in Range(Story)
    BY <1>3, StoryIs
  <2>2. a[1] < file.run \/ a[2] <= 0
    BY <1>1, <1>4, <2>1 DEF Ordered, Following, Passed
  <2>3. a[1] = x.run /\ a[2] = x.line
    BY DEF Place
  <2> HIDE DEF a
  <2>4. QED
    BY <2>2, <2>3
<1>6. x.run \in Nat /\ x.line \in Nat \ {0} /\ file.run \in Nat /\ disk.run \in Nat
  BY <1>1, <1>3, FileFields, Bounds DEF Stamps, Keys, LogTyped, DiskFits
<1>7. x.run < disk.run
  BY <1>1, <1>5, <1>6
<1>8. QED
  BY <1>6, <1>7 DEF Known

LEMMA IngestAttributed ==
  ASSUME LogTyped, ReadFits, KindsFit, TopFits, Ordered, Attributed, IngestRead
  PROVE  Attributed'
<1>1. /\ hand.read /\ file' = Result.file /\ hand' = NoHand /\ UNCHANGED <<disk, db>> /\ bus' = bus \o Sent
      /\ excuse \subseteq excuse' /\ (Ends /\ file.carry # NoLine => "cut" \in excuse')
      /\ "headless" \notin excuse' => HeadGiven
  BY IngestSteps DEF Written, HeadGiven
<1> SUFFICES ASSUME excuse' = {}
             PROVE  AllKnown' /\ FileWaits'
  BY DEF Attributed
<1>2. /\ excuse = {} /\ Clean /\ AllKnown /\ FileWaits /\ HeadGiven /\ "cut" \notin excuse'
      /\ (Ends => file.carry = NoLine)
  BY <1>1 DEF Attributed, Clean
<1>3. PICK p \in Seq(Spots) : p \o Content(Roused) = Story
  BY <1>2, StoryOfIngest
<1>4. AllKnown'
  <2> DEFINE a == IF Ends THEN Last.out ELSE <<>>
             b == Scanned.out
             c == Result.out
             ab == a \o b
  <2>1. a \in Seq(Stamps) /\ b \in Seq(Stamps) /\ c \in Seq(Stamps) /\ Sent = ab \o c /\ Sent \in Seq(Stamps)
    BY <1>1, SentIs, SettledIs DEF Sent, AllSent
  <2>2. \A x \in Range(a) : Known(x)
    <3>1. CASE Ends
      BY <1>1, <1>2, <3>1, LastKnown
    <3>2. CASE ~Ends
      BY <3>2 DEF Range
    <3>3. QED
      BY <3>1, <3>2
  <2>3. \A x \in Range(b) : Known(x)
    BY <1>1, <1>2, <1>3, ScannedKnown
  <2>4. \A x \in Range(c) : Known(x)
    BY <1>1, <1>2, <1>3, ResultKnown
  <2> HIDE DEF a, b, c
  <2>5. ab \in Seq(Stamps) /\ Range(ab) = Range(a) \cup Range(b)
    BY <2>1, ConcatProperties, RangeConcatenation
  <2> HIDE DEF ab
  <2>6. Range(ab \o c) = Range(ab) \cup Range(c)
    BY <2>1, <2>5, RangeConcatenation
  <2>7. \A x \in Range(Sent) : Known(x)
    BY <2>1, <2>2, <2>3, <2>4, <2>5, <2>6
  <2>8. QED
    BY <1>1, <1>2, <2>1, <2>7, MoreKnown
<1>5. /\ Sound(file) /\ ~file.finished /\ file # NoFile /\ Sound(Source) /\ ~Source.finished
      /\ (~hand.truncated => Source = file)
      /\ (hand.truncated => Source.tracker = NoTracker)
      /\ (Source.carry = NoLine \/ Source.carry = file.carry)
      /\ (Source.carry = NoLine => file.carry = NoLine)
  BY <1>1, <1>2, SourceIs
<1>6. /\ Sound(Settled) /\ Settled.run = file.run /\ Settled.offset = file.offset /\ Settled.carry = Source.carry
  BY <1>1, SettledIs
<1>7. Sound(Result.file) /\ Result.file.run = file.run
  BY <1>1, SentIs
<1>8. Result.file = Settled \/ Result.file.finished
  BY <1>6, ReapedIs DEF Result
<1>9. CASE Result.file.finished
  <2>1. ~Live(file'.tracker)
    BY <1>1, <1>7, <1>9, LiveIsWatched
  <2>2. FileWaits'
    BY <1>1, <1>9, <2>1 DEF FileWaits
  <2>3. QED
    BY <1>4, <2>2
<1>10. CASE Result.file = Settled
  <2>1. file' = Settled
    BY <1>1, <1>10
  <2>2. file.run = disk.run /\ file'.carry # NoLine => file'.carry.run = file'.run
    BY <1>2, <1>5, <1>6, <2>1 DEF FileWaits
  <2>3. ASSUME file.run = disk.run, Live(Settled.tracker), ~Settled.tracker.authenticated
        PROVE  Waiting'
    <3>1. /\ ~AuthUpTo(file.offset \div 2)
          /\ Roused.tracker # NoTracker /\ ~Roused.tracker.authenticated
      BY <1>1, <1>2, <2>3, SettledWaits
    <3>2. /\ hand'.lines = <<>> /\ DOMAIN hand'.lines = {} /\ Len(hand'.lines) = 0
      BY <1>1 DEF NoHand
    <3>3. Through' = file.offset \div 2
      <4>1. file.offset \in Nat
        BY <1>5, FileFields
      <4>2. QED
        BY <1>6, <2>1, <3>2, <4>1 DEF Through
    <3>4. ~AuthUpTo(Through)'
      BY <1>1, <3>1, <3>3 DEF AuthUpTo
    <3>5. ASSUME file.offset % 2 = 1, Source.carry = NoLine
          PROVE  file.offset \div 2 + 1 \in DOMAIN disk.lines /\ disk.lines[file.offset \div 2 + 1].kind # "auth"
      <4>1. file.carry = NoLine
        BY <1>5, <3>5
      <4>2. hand.lines = <<>>
        BY <3>5, <4>1 DEF TopFits
      <4>3. Roused = Source
        BY <1>5, <4>2, WokenIs, HeadReadIs DEF Roused
      <4>4. Source = file /\ ~hand.truncated
        BY <1>5, <3>1, <4>3
      <4>5. Live(file.tracker) /\ ~file.tracker.authenticated
        BY <1>5, <3>1, <4>3, <4>4, LiveIsWatched
      <4>6. Waiting
        BY <1>2, <1>5, <2>3, <4>4, <4>5 DEF FileWaits
      <4>7. QED
        BY <3>5, <4>1, <4>6 DEF Waiting
    <3>6. file'.offset = file.offset /\ file'.carry = Source.carry /\ disk' = disk
      BY <1>1, <1>6, <2>1
    <3>7. file'.offset % 2 = 1 /\ file'.carry = NoLine =>
            file'.offset \div 2 + 1 \in DOMAIN disk'.lines /\ disk'.lines[file'.offset \div 2 + 1].kind # "auth"
      BY <3>5, <3>6
    <3>8. QED
      BY <3>2, <3>4, <3>7 DEF Waiting
  <2>4. FileWaits'
    BY <1>1, <1>6, <2>1, <2>2, <2>3 DEF FileWaits
  <2>5. QED
    BY <1>4, <2>4
<1>11. QED
  BY <1>8, <1>9, <1>10

LEMMA AttributedStep ==
  ASSUME LogTyped, OpenIsFollowed, ReadFits, KindsFit, TopFits, Ordered, Attributed, [Next]_vars
  PROVE  Attributed'
<1>1. CASE \E rewrite \in BOOLEAN : ClientStarts(rewrite)
  <2>1. UNCHANGED <<bus, db, file, hand, excuse>> /\ disk'.run = disk.run + 1
    BY <1>1 DEF ClientStarts, daemonVars, storeVars
  <2>2. /\ disk.run \in Nat /\ (file # NoFile => file.run <= disk.run /\ file.run \in Nat)
        /\ bus \in Seq(Stamps) /\ db \subseteq Stamps
    BY FileFields, Bounds, SMTT(30) DEF LogTyped, DaemonFits, DiskFits, StoreFits, Keys
  <2>3. \A e \in db \cup Range(bus) : e.run \in Nat
    <3>1. Range(bus) \subseteq Stamps
      BY <2>2, RangeEquality
    <3>2. QED
      BY <2>2, <3>1 DEF Stamps, Keys
  <2>4. AllKnown => AllKnown'
    BY <2>1, <2>2, <2>3 DEF AllKnown, Known
  <2>5. FileWaits'
    BY <2>1, <2>2 DEF FileWaits
  <2>6. QED
    BY <2>1, <2>4, <2>5 DEF Attributed
<1>2. CASE ClientWritesHalf \/ ClientEndsLine
  BY <1>2, ClientWritesKnown
<1>3. CASE DaemonStarts \/ Flush \/ FlushFails \/ TimePasses \/ UNCHANGED vars
  <2>1. /\ UNCHANGED <<disk, bus>> /\ excuse \subseteq excuse'
        /\ db' = db \/ db' = Recorded(Queue)
    BY <1>3 DEF DaemonStarts, Flush, FlushFails, TimePasses, vars, daemonVars, storeVars
  <2>2. AllKnown => AllKnown'
    <3>1. Recorded(Queue) \subseteq db \cup Range(bus)
      BY QueueIs DEF LogTyped, DaemonFits
    <3>2. QED
      BY <2>1, <3>1, SameKnown
  <2>3. \/ UNCHANGED <<file, hand>>
        \/ hand = NoHand /\ hand' = NoHand /\ file' = IF file = NoFile THEN file ELSE [file EXCEPT !.stale = TRUE]
    BY <1>3 DEF DaemonStarts, Flush, FlushFails, TimePasses, vars, daemonVars
  <2>4. /\ UNCHANGED hand
        /\ file' = NoFile <=> file = NoFile
        /\ file'.carry = file.carry /\ file'.run = file.run /\ file'.offset = file.offset
        /\ file'.finished = file.finished /\ file'.tracker = file.tracker
    <3>1. file # NoFile => file \in Files
      BY FileFields DEF LogTyped, DaemonFits
    <3>2. QED
      BY <2>3, <3>1, NoFileIs DEF Files
  <2>5. Waiting => Waiting'
    BY <2>1, <2>4 DEF Waiting, AuthUpTo, Through
  <2>6. FileWaits => FileWaits'
    BY <2>1, <2>4, <2>5 DEF FileWaits
  <2>7. QED
    BY <2>1, <2>2, <2>6 DEF Attributed
<1>4. CASE Scan
  BY <1>4, ScanAttributed
<1>5. CASE ReadTail
  BY <1>5, ReadTailAttributed
<1>6. CASE IngestRead
  BY <1>6, IngestAttributed
<1>7. CASE TickWithoutRead
  BY <1>7, TickAttributed
<1>8. CASE DaemonStops \/ DaemonExits \/ DaemonKilled
  <2>1. /\ UNCHANGED disk /\ excuse \subseteq excuse'
        /\ db' = db \/ db' = Recorded(Queue)
        /\ \/ file' = NoFile /\ bus' = <<>>
           \/ UNCHANGED <<file, hand, bus>>
    BY <1>8, GoneTyped
  <2>2. AllKnown => AllKnown'
    <3>1. Recorded(Queue) \subseteq db \cup Range(bus)
      BY QueueIs DEF LogTyped, DaemonFits
    <3>2. Range(<<>>) = {}
      BY DEF Range
    <3>3. QED
      BY <2>1, <3>1, <3>2, SameKnown
  <2>3. FileWaits => FileWaits'
    <3>1. CASE file' = NoFile
      BY <3>1 DEF FileWaits
    <3>2. CASE UNCHANGED <<file, hand, bus>>
      BY <2>1, <3>2 DEF FileWaits, Waiting, AuthUpTo, Through
    <3>3. QED
      BY <2>1, <3>1, <3>2
  <2>4. QED
    BY <2>1, <2>2, <2>3 DEF Attributed
<1>9. QED
  BY <1>1, <1>2, <1>3, <1>4, <1>5, <1>6, <1>7, <1>8 DEF Next

LEMMA AttributedInit == Init => TopFits /\ Attributed
<1> SUFFICES ASSUME Init
             PROVE  TopFits /\ Attributed
  OBVIOUS
<1>1. file = NoFile /\ hand = NoHand /\ db = {} /\ Range(bus) = {}
  BY DEF Init, Range
<1>2. TopFits
  BY <1>1, NoHandIs DEF TopFits, NoHand
<1>3. QED
  BY <1>1, <1>2 DEF Attributed, AllKnown, FileWaits

LEMMA AttributedHolds == LogTyped /\ Attributed => KnownAccountIsStamped
<1> SUFFICES ASSUME LogTyped, Attributed, excuse = {}, NEW e \in Saved, e.run = disk.run,
                    NEW i \in 1 .. e.line, disk.lines[i].kind = "auth"
             PROVE  e.account
  BY DEF KnownAccountIsStamped
<1>1. e \in db \cup Range(bus)
  BY QueueIs DEF Saved, LogTyped, DaemonFits
<1>2. e.line \in DOMAIN disk.lines /\ (e.account \/ ~AuthUpTo(e.line))
  BY <1>1 DEF Attributed, AllKnown, Known
<1>3. i \in DOMAIN disk.lines
  <2>1. DOMAIN disk.lines = 1 .. Len(disk.lines) /\ Len(disk.lines) \in Nat
    BY LenProperties DEF LogTyped, DiskFits
  <2>2. QED
    BY <1>2, <2>1
<1>4. QED
  BY <1>2, <1>3 DEF AuthUpTo

\* An event behind the authentication line of its run carries the account, whether the watcher
\* has read that line, resumed behind it, or held the event back until it came.
THEOREM AccountIsStamped == Spec => []KnownAccountIsStamped
<1>1. /\ LogTyped /\ OpenIsFollowed /\ ReadFits /\ KindsFit /\ TopFits /\ Ordered /\ Attributed /\ [Next]_vars
         => (LogTyped /\ OpenIsFollowed /\ ReadFits /\ KindsFit /\ TopFits /\ Ordered /\ Attributed)'
  BY LogTypedStep, ReadFitsStep, TopFitsStep, OrderedStep, AttributedStep
<1>2. QED
  BY LogTypedInit, OrderedInit, AttributedInit, <1>1, AttributedHolds, PTL DEF Spec
-----------------------------------------------------------------------------
(* No line under the stored offset is skipped.                             *)

LEMMA QueueGrows ==
  ASSUME LogTyped, NEW o \in Seq(Stamps), bus' = bus \o o, flushed' = flushed
  PROVE  Range(Places(Queue')) = Range(Places(Queue)) \cup Range(Places(o))
<1>1. /\ bus \in Seq(Stamps) /\ Len(bus) \in Nat /\ Len(o) \in Nat /\ flushed \in Nat /\ flushed <= Len(bus)
      /\ Queue \in Seq(Stamps) /\ Len(Queue) = Len(bus) - flushed
      /\ \A n \in 1 .. Len(bus) - flushed : Queue[n] = bus[flushed + n]
  <2>1. bus \in Seq(Stamps) /\ flushed \in 0 .. Len(bus)
    BY DEF LogTyped, DaemonFits
  <2>2. QED
    BY <2>1, LenProperties, QueueIs
<1> DEFINE b == bus \o o
           q == Queue
<1>2. b \in Seq(Stamps) /\ Len(b) = Len(bus) + Len(o)
      /\ \A n \in 1 .. Len(bus) + Len(o) : b[n] = IF n <= Len(bus) THEN bus[n] ELSE o[n - Len(bus)]
  BY <1>1, ConcatProperties
<1>3. Queue' = SubSeq(b, flushed + 1, Len(b))
  BY DEF Queue
<1> HIDE DEF b, q
<1>4. q \o o \in Seq(Stamps) /\ Len(q \o o) = Len(b) - flushed
      /\ \A n \in 1 .. Len(b) - flushed : (q \o o)[n] = b[flushed + n]
  <2>1. /\ q \in Seq(Stamps) /\ Len(q) = Len(bus) - flushed
        /\ \A n \in 1 .. Len(bus) - flushed : q[n] = bus[flushed + n]
    BY <1>1 DEF q
  <2>2. /\ q \o o \in Seq(Stamps) /\ Len(q \o o) = Len(q) + Len(o)
        /\ \A n \in 1 .. Len(q) + Len(o) : (q \o o)[n] = IF n <= Len(q) THEN q[n] ELSE o[n - Len(q)]
    BY <2>1, ConcatProperties
  <2>3. Len(q) + Len(o) = Len(b) - flushed
    BY <1>1, <1>2, <2>1
  <2>4. ASSUME NEW n \in 1 .. Len(b) - flushed
        PROVE  (q \o o)[n] = b[flushed + n]
    <3>1. flushed + n \in 1 .. Len(bus) + Len(o) /\ n \in 1 .. Len(q) + Len(o)
      BY <1>1, <1>2, <2>1
    <3>2. CASE n <= Len(q)
      <4>1. n \in 1 .. Len(bus) - flushed /\ flushed + n <= Len(bus)
        BY <1>1, <2>1, <3>2
      <4>2. QED
        BY <1>2, <2>1, <2>2, <3>1, <3>2, <4>1
    <3>3. CASE ~(n <= Len(q))
      <4>1. ~(flushed + n <= Len(bus)) /\ n - Len(q) = (flushed + n) - Len(bus)
        BY <1>1, <2>1, <3>3
      <4>2. (q \o o)[n] = o[n - Len(q)]
        BY <2>2, <3>1, <3>3
      <4>3. b[flushed + n] = o[(flushed + n) - Len(bus)]
        BY <1>2, <3>1, <4>1
      <4>4. QED
        BY <4>1, <4>2, <4>3
    <3>4. QED
      BY <3>2, <3>3
  <2>5. QED
    BY <2>2, <2>3, <2>4
<1>5. Queue' = q \o o
  <2>1. /\ Queue' \in Seq(Stamps) /\ Len(Queue') = Len(b) - flushed
        /\ \A n \in 1 .. Len(b) - flushed : Queue'[n] = b[flushed + n]
    <3>1. \A n \in 1 .. Len(b) - flushed : flushed + 1 + n - 1 = flushed + n /\ flushed + n \in 1 .. Len(b)
      BY <1>1, <1>2
    <3> DEFINE l == Len(b)
               z == SubSeq(b, flushed + 1, l)
    <3>2. l \in Nat /\ flushed \in Nat /\ flushed <= l /\ \A n \in 1 .. l - flushed : flushed + 1 + n - 1 = flushed + n
      BY <1>1, <1>2, <3>1
    <3> HIDE DEF l
    <3>3. z = [n \in 1 .. l - flushed |-> b[flushed + n]]
      BY <3>2
    <3> HIDE DEF z
    <3>4. z \in Seq(Stamps) /\ Len(z) = l - flushed /\ \A n \in 1 .. l - flushed : z[n] = b[flushed + n]
      BY <1>2, <3>1, <3>2, <3>3 DEF l
    <3>5. QED
      BY <1>3, <3>4 DEF l, z
  <2>2. QED
    BY <1>4, <2>1, SeqEqual
<1>6. Places(q) \in Seq(Spots) /\ Places(o) \in Seq(Spots) /\ Places(q \o o) = Places(q) \o Places(o)
  <2>1. q \in Seq(Located) /\ o \in Seq(Located)
    BY <1>1, SeqMonotonic DEF q, Located
  <2>2. QED
    BY <2>1, PlacesOf, PlacesOfConcat
<1>7. QED
  <2> DEFINE pq == Places(q)
             po == Places(o)
  <2>1. pq \in Seq(Spots) /\ po \in Seq(Spots) /\ Places(Queue') = pq \o po
    BY <1>5, <1>6
  <2> HIDE DEF pq, po
  <2>2. Range(Places(Queue')) = Range(pq) \cup Range(po)
    BY <2>1, RangeConcatenation
  <2>3. QED
    BY <2>2 DEF pq, po, q

\* What is safe stays, as a place or at least by what it says.
SafeStays ==
  /\ \A a \in Safe : a \in Safe' \/ \E e \in db' : e.text = a[3]
  /\ db \subseteq db'

LEMMA SafeGrows ==
  ASSUME Safe \subseteq Safe', db \subseteq db'
  PROVE  SafeStays
BY DEF SafeStays

LEMMA StillAccounted ==
  ASSUME SafeStays, disk'.run = disk.run,
         \A i \in DOMAIN disk.lines : i \in DOMAIN disk'.lines /\ disk'.lines[i] = disk.lines[i]
  PROVE  \A i : Accounted(i) => Accounted(i)'
<1> SUFFICES ASSUME NEW i, Accounted(i)
             PROVE  Accounted(i)'
  OBVIOUS
<1>1. CASE AfterQuit(i)
  <2>1. AfterQuit(i)'
    BY <1>1 DEF AfterQuit
  <2>2. QED
    BY <2>1 DEF Accounted
<1>2. CASE i \in DOMAIN disk.lines /\ Spot(i) \in Safe
  <2>1. Spot(i)' = Spot(i) /\ Spot(i)[3] = disk.lines[i] /\ i \in DOMAIN disk'.lines /\ disk'.lines[i] = disk.lines[i]
    BY <1>2 DEF Spot
  <2>2. Spot(i) \in Safe' \/ \E e \in db' : e.text = disk.lines[i]
    BY <1>2, <2>1 DEF SafeStays
  <2>3. QED
    BY <2>1, <2>2 DEF Accounted
<1>3. CASE i \in DOMAIN disk.lines /\ \E e \in db : e.text = disk.lines[i]
  BY <1>3 DEF Accounted, SafeStays
<1>4. QED
  BY <1>1, <1>2, <1>3 DEF Accounted

\* What is on its way to the store is in its queue.
LEMMA QueuedPlace ==
  ASSUME LogTyped, NEW a \in Range(Places(Queue))
  PROVE  \E e \in Range(Queue) : a = Place(e)
<1> DEFINE q == Queue
           p == Places(q)
<1>1. q \in Seq(Stamps) /\ q \in Seq(Located)
  <2>1. Queue \in Seq(Stamps)
    BY QueueIs DEF LogTyped, DaemonFits
  <2>2. QED
    BY <2>1, SeqMonotonic DEF Located
<1> HIDE DEF q
<1>2. p \in Seq(Spots) /\ Len(p) = Len(q) /\ \A n \in 1 .. Len(q) : p[n] = Place(q[n])
  BY <1>1, PlacesOf
<1>3. a \in Range(p)
  BY DEF q
<1> HIDE DEF p
<1>4. PICK n \in 1 .. Len(p) : a = p[n]
  BY <1>2, <1>3, RangeEquality
<1>5. a = Place(q[n]) /\ q[n] \in Range(q)
  BY <1>1, <1>2, <1>4, RangeEquality
<1>6. QED
  BY <1>5 DEF q

\* A store that has taken the queue says all that it said, and all that the queue did.
LEMMA RecordedSays ==
  ASSUME LogTyped
  PROVE  /\ db \subseteq Recorded(Queue)
         /\ \A e \in Range(Queue) : \E d \in Recorded(Queue) : d.text = e.text
<1> DEFINE q == Queue
           N == Len(q)
           Told(k) == \A m \in 1 .. k : \E d \in Recorded(q) : Says(d) = Says(q[m])
           S == {k \in 0 .. N : Told(k)}
<1>1. q \in Seq(Stamps) /\ N \in Nat /\ DOMAIN q = 1 .. N
  <2>1. Queue \in Seq(Stamps)
    BY QueueIs DEF LogTyped, DaemonFits
  <2>2. QED
    BY <2>1, LenProperties
<1> HIDE DEF q, N
<1>2. 0 \in S
  BY <1>1
<1>3. ASSUME NEW k \in 1 .. N, k - 1 \in S
      PROVE  k \in S
  <2>1. k \in 0 .. N /\ k \in DOMAIN q /\ k \in Nat
    BY <1>1
  <2>2. \E d \in Recorded(q) : Says(d) = Says(q[k])
    <3>1. CASE \E d \in db : Says(d) = Says(q[k])
      BY <3>1 DEF Recorded
    <3>2. CASE \E m \in 1 .. k - 1 : Says(q[m]) = Says(q[k])
      BY <1>3, <3>2
    <3>3. CASE /\ \A d \in db : Says(d) # Says(q[k])
               /\ \A m \in 1 .. k - 1 : Says(q[m]) # Says(q[k])
      <4>1. q[k] \in Recorded(q)
        BY <2>1, <3>3 DEF Recorded
      <4>2. QED
        BY <4>1
    <3>4. QED
      BY <3>1, <3>2, <3>3
  <2>3. Told(k)
    <3>1. SUFFICES ASSUME NEW m \in 1 .. k
                   PROVE  \E d \in Recorded(q) : Says(d) = Says(q[m])
      OBVIOUS
    <3>2. CASE m = k
      BY <2>2, <3>2
    <3>3. CASE m # k
      <4>1. m \in 1 .. k - 1
        BY <2>1, <3>3
      <4>2. QED
        BY <1>3, <4>1
    <3>4. QED
      BY <3>2, <3>3
  <2> HIDE DEF Told
  <2>4. QED
    BY <2>1, <2>3
<1>4. 0 .. N \subseteq S
  <2> HIDE DEF S
  <2>1. QED
    BY <1>1, <1>2, <1>3, Counting
<1>5. ASSUME NEW e \in Range(Queue)
      PROVE  \E d \in Recorded(Queue) : d.text = e.text
  <2>1. PICK m \in 1 .. N : e = q[m]
    BY <1>1, RangeEquality DEF q, N
  <2>2. N \in 0 .. N
    BY <1>1
  <2>3. Told(N)
    BY <1>4, <2>2
  <2>4. PICK d \in Recorded(q) : Says(d) = Says(q[m])
    BY <2>1, <2>3
  <2>5. d.text = e.text
    BY <2>1, <2>4 DEF Says
  <2>6. QED
    BY <2>4, <2>5 DEF q
<1>6. QED
  BY <1>5 DEF Recorded

\* So nothing that was safe is lost by it.
LEMMA FlushedIsSafe ==
  ASSUME LogTyped, db' = Recorded(Queue), Range(Content(file)) \subseteq Range(Content(file'))
  PROVE  SafeStays
<1>1. Safe' = {Place(e) : e \in db'} \cup Range(Places(Queue')) \cup Range(Content(file'))
  BY DEF Safe
<1>2. db \subseteq db'
  BY RecordedSays
<1>3. ASSUME NEW a \in Safe
      PROVE  a \in Safe' \/ \E e \in db' : e.text = a[3]
  <2>1. CASE a \in {Place(e) : e \in db}
    BY <1>1, <1>2, <2>1
  <2>2. CASE a \in Range(Places(Queue))
    <3>1. PICK e \in Range(Queue) : a = Place(e)
      BY <2>2, QueuedPlace
    <3>2. PICK d \in Recorded(Queue) : d.text = e.text
      BY RecordedSays
    <3>3. a[3] = e.text
      BY <3>1 DEF Place
    <3>4. QED
      BY <3>2, <3>3
  <2>3. CASE a \in Range(Content(file))
    BY <1>1, <2>3
  <2>4. QED
    BY <2>1, <2>2, <2>3 DEF Safe
<1>4. QED
  BY <1>2, <1>3 DEF SafeStays


\* The offset that poll() stores is the one of the tail, unless an older one was higher.
LEMMA ReadStored ==
  ASSUME LogTyped, IngestRead, "pinned" \notin excuse'
  PROVE  stored' = [stored EXCEPT ![file.key] = [run |-> file.run, pos |-> file.offset]]
<1>1. /\ hand.read /\ "pinned" \notin excuse
      /\ stored' = [stored EXCEPT ![file.key] =
           [run |-> file.run, pos |-> IF hand.truncated THEN file.offset ELSE Most(stored[file.key].pos, file.offset)]]
      /\ hand.truncated \/ ~(stored[file.key].pos > file.offset)
  BY IngestSteps DEF Written
<1>2. file.key \in Keys /\ file.offset \in Nat /\ stored[file.key].pos \in Nat
  <2>1. file.key \in Keys /\ file.offset \in Nat
    BY <1>1, SourceIs, FileFields
  <2>2. QED
    BY <2>1 DEF LogTyped, StoreFits
<1>3. (IF hand.truncated THEN file.offset ELSE Most(stored[file.key].pos, file.offset)) = file.offset
  BY <1>1, <1>2 DEF Most
<1>4. QED
  BY <1>1, <1>3

LEMMA KeysFitStep ==
  ASSUME LogTyped, OpenIsFollowed, KeysFit, [Next]_vars
  PROVE  KeysFit'
<1>1. /\ disk.run \in Nat /\ disk.key \in Nat /\ disk.key <= disk.run
      /\ \A k \in Keys : k \in Nat /\ stored[k].run \in Nat /\ stored[k].run <= disk.run /\ stored[k].pos \in Nat
      /\ file # NoFile => Sound(file) /\ file.key \in Keys /\ file.run \in Nat /\ file.run <= disk.run /\ file.key <= disk.key
  BY FileFields, Bounds, SMTT(30) DEF LogTyped, DiskFits, StoreFits, DaemonFits, Keys
<1>2. CASE \E rewrite \in BOOLEAN : ClientStarts(rewrite)
  <2>1. /\ UNCHANGED <<stored, file, excuse>> /\ disk'.run = disk.run + 1
        /\ disk'.key = disk.key \/ disk'.key = disk.run + 1
    BY <1>2 DEF ClientStarts, daemonVars, storeVars
  <2>2. \A k \in Keys : k > disk'.key => k > disk.key
    BY <1>1, <2>1
  <2>3. \A k \in Keys : stored[k].run # disk'.run
    BY <1>1, <2>1
  <2>4. QED
    BY <2>1, <2>2, <2>3 DEF KeysFit
<1>3. CASE ClientWritesHalf \/ ClientEndsLine
  <2>1. UNCHANGED <<stored, file, excuse>> /\ disk'.run = disk.run /\ disk'.key = disk.key
    <3>1. disk = [run |-> disk.run, key |-> disk.key, lines |-> disk.lines, half |-> disk.half, script |-> disk.script]
      BY DEF LogTyped, DiskFits
    <3>2. QED
      BY <1>3, <3>1 DEF ClientWritesHalf, ClientEndsLine, daemonVars, storeVars
  <2>2. Size' >= Size /\ Size \in Nat /\ Size' \in Nat
    <3>1. Size' >= Size /\ DiskFits /\ DiskFits'
      BY <1>3, ClientWritesTyped DEF LogTyped
    <3>2. Size \in Nat
      BY <3>1, DiskSize
    <3>3. Size' \in Nat
      BY <3>1 DEF Size, DiskFits
    <3>4. QED
      BY <3>1, <3>2, <3>3
  <2>3. QED
    BY <1>1, <2>1, <2>2 DEF KeysFit
<1>4. CASE UNCHANGED <<disk, stored>> /\ (file' = NoFile <=> file = NoFile) /\ file'.key = file.key /\ file.run <= file'.run
           /\ file'.run \in Nat /\ excuse \subseteq excuse'
  BY <1>1, <1>4 DEF KeysFit, Size
<1>5. CASE TimePasses \/ DaemonStarts \/ Flush \/ FlushFails \/ UNCHANGED vars
  <2>1. /\ UNCHANGED <<disk, stored>> /\ excuse \subseteq excuse'
        /\ file' = file \/ (file # NoFile /\ file' = [file EXCEPT !.stale = TRUE])
    BY <1>5 DEF TimePasses, DaemonStarts, Flush, FlushFails, vars, daemonVars, storeVars
  <2>2. (file' = NoFile <=> file = NoFile) /\ file'.key = file.key /\ file'.run = file.run
    <3>1. file # NoFile => file \in Files /\ [file EXCEPT !.stale = TRUE] # NoFile
      BY <1>1, FileFields, NoFileIs DEF Files
    <3>2. file # NoFile => [file EXCEPT !.stale = TRUE].key = file.key /\ [file EXCEPT !.stale = TRUE].run = file.run
      BY <3>1 DEF Files
    <3>3. QED
      BY <2>1, <3>1, <3>2
  <2>3. file.run \in Nat
    BY <1>1, NoFileIs
  <2>4. QED
    BY <1>4, <2>1, <2>2, <2>3
<1>6. CASE Scan
  <2>1. UNCHANGED <<disk, stored>> /\ excuse \subseteq excuse' /\ file' = Taken /\ disk.run > 0
    BY <1>6, ScanSteps DEF AdoptedWith, Taken
  <2>2. Taken # NoFile /\ Taken.key = disk.key /\ Taken.run = disk.run /\ disk.key \in Keys
    <3>1. disk.key \in Keys
      BY <2>1, DiskSize DEF LogTyped
    <3>2. QED
      BY <2>1, <3>1, TakenIs, FileFields DEF LogTyped, DaemonFits
  <2>3. QED
    BY <1>1, <2>1, <2>2 DEF KeysFit, Size
<1>7. CASE ReadTail
  <2>1. UNCHANGED <<disk, stored>> /\ excuse \subseteq excuse'
    BY <1>7, ReadTailIs
  <2>2. file # NoFile /\ file' # NoFile /\ file'.key = file.key /\ file'.run = disk.run
    BY <1>7, ReadTailIs, ReadResult
  <2>3. QED
    BY <1>1, <1>4, <2>1, <2>2
<1>8. CASE IngestRead
  <2>1. UNCHANGED disk /\ file' # NoFile /\ file # NoFile /\ file'.key = file.key /\ file'.run = file.run
        /\ stored' = [stored EXCEPT ![file.key] =
             [run |-> file.run, pos |-> IF hand.truncated THEN file.offset ELSE Most(stored[file.key].pos, file.offset)]]
        /\ excuse \subseteq excuse'
    <3>1. hand.read /\ UNCHANGED disk /\ file' = Result.file /\ Written(HeadRead, Result, Sent)
      BY <1>8, IngestSteps DEF Written
    <3>2. Sound(Result.file) /\ Result.file.key = file.key /\ Result.file.run = file.run /\ file # NoFile
      BY <3>1, SentIs, SourceIs
    <3>3. QED
      BY <3>1, <3>2, FileFields DEF Written
  <2>2. stored \in [Keys -> [run : 0 .. MaxRuns, pos : Nat]]
    BY DEF LogTyped, StoreFits
  <2>3. /\ \A k \in Keys : k # file.key => stored'[k] = stored[k]
        /\ stored'[file.key].run = file.run
    BY <1>1, <2>1, <2>2
  <2>4. stored'[file.key].run = disk.run /\ "pinned" \notin excuse' => stored'[file.key].pos <= Size
    <3> SUFFICES ASSUME stored'[file.key].run = disk.run, "pinned" \notin excuse'
                 PROVE  stored'[file.key].pos <= Size
      OBVIOUS
    <3>1. stored' = [stored EXCEPT ![file.key] = [run |-> file.run, pos |-> file.offset]]
      BY <1>8, ReadStored
    <3>2. stored'[file.key].pos = file.offset
      BY <1>1, <2>1, <2>2, <3>1
    <3>3. QED
      BY <2>1, <2>3, <3>2 DEF LogTyped, DaemonFits
  <2>5. /\ \A k \in Keys : k > disk.key => k # file.key
        /\ \A k \in Keys : k > file.key => k # file.key
    BY <1>1, <2>1
  <2>6. Size' = Size
    BY <2>1 DEF Size
  <2>7. QED
    BY <1>1, <2>1, <2>3, <2>4, <2>5, <2>6 DEF KeysFit
<1>9. CASE TickWithoutRead
  <2>1. UNCHANGED <<disk, stored, excuse>> /\ file # NoFile
    BY <1>9, TickIs
  <2>2. PICK missing \in BOOLEAN :
          /\ file' = Reaped(Polled(missing)).file
          /\ Sound(Polled(missing)) /\ Polled(missing).key = file.key /\ Polled(missing).run = file.run
    BY <1>9, TickIs
  <2>3. Sound(file') /\ file'.key = file.key /\ file'.run = file.run
    BY <2>2, ReapedIs
  <2>4. file' # NoFile
    BY <2>3, FileFields
  <2>5. QED
    BY <1>1, <1>4, <2>1, <2>3, <2>4
<1>10. CASE DaemonStops \/ DaemonExits \/ DaemonKilled
  <2>1. UNCHANGED <<disk, stored>> /\ excuse \subseteq excuse' /\ (file' = NoFile \/ file' = file)
    BY <1>10 DEF DaemonStops, DaemonExits, DaemonKilled, Gone
  <2>2. QED
    BY <2>1 DEF KeysFit, Size
<1>11. QED
  BY <1>2, <1>3, <1>5, <1>6, <1>7, <1>8, <1>9, <1>10 DEF Next

\* A tick that goes on while the daemon stops emits only what counts as held.
LEMMA DrainedStep ==
  ASSUME LogTyped, Drained, [Next]_vars
  PROVE  Drained'
<1>1. CASE IngestRead
  <2>1. /\ hand.read /\ bus' = bus \o Sent /\ UNCHANGED <<status, flushed>> /\ excuse \subseteq excuse'
        /\ status = "stopping" /\ Sent # <<>> => "held" \in excuse'
    BY <1>1, IngestSteps DEF Written
  <2>2. bus \in Seq(Stamps) /\ Sent \in Seq(Stamps)
    BY <2>1, SentIs DEF LogTyped, DaemonFits
  <2>3. Sent = <<>> => bus' = bus
    BY <2>1, <2>2
  <2>4. QED
    BY <2>1, <2>3 DEF Drained
<1>2. CASE DaemonStops \/ DaemonExits \/ DaemonKilled
  BY <1>2 DEF DaemonStops, DaemonExits, DaemonKilled, Gone, Drained
<1>3. CASE ~IngestRead /\ ~(DaemonStops \/ DaemonExits \/ DaemonKilled)
  <2>1. \/ status' = "up"
        \/ UNCHANGED <<status, bus, flushed, excuse>>
    BY <1>3 DEF Next, vars, ClientStarts, ClientWritesHalf, ClientEndsLine, TimePasses, DaemonStarts, Scan,
                ReadTail, TickWithoutRead, Flush, FlushFails, daemonVars, storeVars
  <2>2. QED
    BY <2>1 DEF Drained
<1>4. QED
  BY <1>1, <1>2, <1>3

\* What leaves the watcher waits in the queue.
LEMMA EmittedIsSafe ==
  ASSUME LogTyped, NEW o \in Seq(Stamps), bus' = bus \o o, UNCHANGED <<flushed, db>>,
         Range(Content(file)) \subseteq Range(Places(o)) \cup Range(Content(file'))
  PROVE  Safe \subseteq Safe' /\ Range(Places(o)) \subseteq Safe'
<1>1. Range(Places(Queue')) = Range(Places(Queue)) \cup Range(Places(o))
  BY QueueGrows
<1>2. Safe' = {Place(e) : e \in db} \cup Range(Places(Queue')) \cup Range(Content(file'))
  BY DEF Safe
<1>3. QED
  BY <1>1, <1>2 DEF Safe

\* Nothing that matters for the accounts of the lines has changed.
LEMMA SameAccounts ==
  ASSUME Kept, Reading, disk'.run = disk.run, disk'.key = disk.key,
         \A i \in DOMAIN disk.lines : i \in DOMAIN disk'.lines /\ disk'.lines[i] = disk.lines[i],
         UNCHANGED <<stored, hand>>, excuse \subseteq excuse', file' = NoFile <=> file = NoFile,
         file'.key = file.key, file'.run = file.run, file'.offset = file.offset, file'.carry = file.carry,
         file'.finished = file.finished, SafeStays
  PROVE  (Kept /\ Reading)'
<1>1. \A i : Accounted(i) => Accounted(i)'
  BY StillAccounted
<1>2. /\ Lossless' => Lossless
      /\ Resumed' <=> Resumed
      /\ Watching' <=> Watching
      /\ \A i : InTail(i)' <=> InTail(i)
  BY DEF Lossless, Resumed, Watching, InTail
<1>3. Kept'
  BY <1>1, <1>2 DEF Kept
<1>4. Reading'
  BY <1>1, <1>2 DEF Reading
<1>5. QED
  BY <1>3, <1>4

LEMMA SameSafe ==
  ASSUME UNCHANGED <<db, bus, flushed>>, file'.tracker = file.tracker, file'.block = file.block
  PROVE  Safe' = Safe
<1>1. Content(file') = Content(file)
  BY DEF Content, ScanState
<1>2. Queue' = Queue
  BY DEF Queue
<1>3. Safe' = {Place(e) : e \in db} \cup Range(Places(Queue')) \cup Range(Content(file'))
  BY DEF Safe
<1>4. QED
  BY <1>1, <1>2, <1>3 DEF Safe

\* A file that is not watched holds nothing.
LEMMA UnwatchedIsEmpty ==
  ASSUME LogTyped, ~Watching \/ file.tracker = NoTracker
  PROVE  Content(file) = <<>>
<1>1. CASE file = NoFile
  BY <1>1, ContentTyped
<1>2. CASE file # NoFile
  <2>1. Sound(file)
    BY <1>2 DEF LogTyped, DaemonFits
  <2>2. file.block = NoLine /\ file.tracker.buffered = <<>>
    BY <1>2, <2>1, NoTrackerIs DEF Sound, Watching, Over
  <2>3. QED
    BY <2>2, NoContent
<1>3. QED
  BY <1>1, <1>2

\* A key that the watcher has not come to has no offset.
LEMMA NotYetResumed ==
  ASSUME LogTyped, KeysFit, file # NoFile, file.key # disk.key, disk.run > 0
  PROVE  ~Resumed /\ stored[disk.key].pos = 0
<1>1. file.key <= disk.key /\ file.key \in Nat /\ disk.key \in Keys /\ disk.key \in Nat
  <2>1. Sound(file) /\ file.key <= disk.key
    BY DEF LogTyped, DaemonFits
  <2>2. disk.key \in Keys /\ disk.key \in Nat
    BY DiskSize, Bounds DEF LogTyped, Keys
  <2>3. QED
    BY <2>1, <2>2, FileFields DEF Keys
<1>2. stored[disk.key] = [run |-> 0, pos |-> 0]
  BY <1>1 DEF KeysFit
<1>3. QED
  BY <1>2 DEF Resumed

\* What the watcher follows is what the store has the offset of.
LEMMA ResumedIsFollowed ==
  ASSUME LogTyped, KeysFit, file # NoFile, Resumed
  PROVE  file.key = disk.key /\ file.run = disk.run
<1>1. disk.run > 0 /\ stored[disk.key].run = disk.run
  BY DEF Resumed
<1>2. file.key = disk.key
  BY <1>1, NotYetResumed
<1>3. disk.run <= file.run /\ file.run <= disk.run
  BY <1>1, <1>2 DEF KeysFit, LogTyped, DaemonFits
<1>4. file.run \in Nat /\ disk.run \in Nat
  <2>1. Sound(file)
    BY DEF LogTyped, DaemonFits
  <2>2. QED
    BY <2>1, FileFields, DiskSize DEF LogTyped, Keys
<1>5. QED
  BY <1>2, <1>3, <1>4

LEMMA EndingHolds ==
  ASSUME NEW f, Sound(f)
  PROVE  /\ Range(Content(f)) \subseteq Range(Ending(f))
         /\ f.carry # NoLine => Place(f.carry) \in Range(Ending(f))
<1> DEFINE c == Content(f)
           x == Place(f.carry)
<1>1. c \in Seq(Spots)
  BY ContentTyped
<1>2. /\ f.carry = NoLine => Ending(f) = c
      /\ f.carry # NoLine => Ending(f) = Append(c, x) /\ x \in Spots
  BY EndingIs
<1> HIDE DEF c, x
<1>3. x \in Spots => Range(Append(c, x)) = Range(c) \cup {x}
  BY <1>1, RangeAppended
<1>4. QED
  BY <1>2, <1>3 DEF c, x

LEMMA ScanKeeps ==
  ASSUME LogTyped, KeysFit, Kept, Scan
  PROVE  (Kept /\ Reading)'
<1> DEFINE ends == file # NoFile /\ ~file.finished /\ file.tracker # NoTracker
           s == Finish(file, "crash")
<1>1. /\ bus' = IF ends THEN bus \o s.out ELSE bus
      /\ file' = Taken
      /\ excuse \subseteq excuse' /\ excuse' \subseteq excuse \cup {"overgrown", "headless"}
      /\ Overgrown(stored[disk.key].run, stored[disk.key].pos) => "overgrown" \in excuse'
      /\ UNCHANGED <<disk, old, stored, db, status, starts, hand, flushed>>
      /\ hand = NoHand /\ disk.run > 0
      /\ file = NoFile \/ file.key # disk.key
  BY ScanSteps DEF AdoptedWith, Taken, Replaced
<1>2. /\ Sound(Taken) /\ Taken.key = disk.key /\ Taken.run = disk.run
      /\ ~Taken.finished /\ Taken # NoFile
      /\ Taken.offset = IF stored[disk.key].run > 0 /\ stored[disk.key].pos <= Size THEN stored[disk.key].pos ELSE 0
  <2>1. DiskFits /\ StoreFits /\ old \in BOOLEAN
    BY DEF LogTyped, DaemonFits
  <2>2. QED
    BY <1>1, <2>1, TakenIs, FileFields
<1>3. Safe \subseteq Safe'
  <2>1. CASE ends
    <3>1. Sound(file)
      BY <2>1 DEF LogTyped, DaemonFits
    <3> DEFINE o == s.out
    <3>2. o \in Seq(Stamps) /\ Places(o) = Ending(file)
      BY <2>1, <3>1, SessionEnds
    <3>3. Range(Content(file)) \subseteq Range(Ending(file))
      BY <3>1, EndingHolds
    <3> HIDE DEF o, s
    <3>4. bus' = bus \o o
      BY <1>1, <2>1 DEF o
    <3>5. QED
      BY <1>1, <3>2, <3>3, <3>4, EmittedIsSafe
  <2>2. CASE ~ends
    <3>1. Content(file) = <<>>
      BY <2>2, UnwatchedIsEmpty DEF Watching
    <3>2. Range(Content(file)) = {}
      BY <3>1 DEF Range
    <3>3. Queue' = Queue
      BY <1>1, <2>2 DEF Queue
    <3>4. Safe' = {Place(e) : e \in db} \cup Range(Places(Queue')) \cup Range(Content(file'))
      BY <1>1 DEF Safe
    <3>5. QED
      BY <3>2, <3>3, <3>4 DEF Safe
  <2>3. QED
    BY <2>1, <2>2
<1>4. \A i : Accounted(i) => Accounted(i)'
  BY <1>1, <1>3, SafeGrows, StillAccounted
<1>5. Watching' /\ (Lossless' => Lossless) /\ (Resumed' <=> Resumed)
  BY <1>1, <1>2 DEF Watching, Lossless, Resumed
<1>6. Kept'
  BY <1>1, <1>4, <1>5 DEF Kept
<1>7. stored[disk.key].pos \in Nat /\ stored[disk.key].run \in Nat /\ disk.run \in Nat /\ Size \in Nat /\ disk.key \in Keys
  <2>1. disk.key \in Keys /\ disk.run \in Nat /\ Size \in Nat
    BY <1>1, DiskSize DEF LogTyped
  <2>2. QED
    BY <2>1 DEF LogTyped, StoreFits
<1>8. ASSUME Lossless'
      PROVE  /\ Resumed' => ~hand'.truncated /\ stored'[disk'.key].pos <= file'.offset
             /\ \A i \in Nat \ {0} : 2 * i <= file'.offset + 1 => Accounted(i)'
  <2>1. "pinned" \notin excuse /\ "overgrown" \notin excuse'
    BY <1>5, <1>8 DEF Lossless
  <2>2. Resumed => stored[disk.key].pos <= Size
    BY <1>1, <1>7, <2>1 DEF KeysFit, Resumed
  <2>3. Resumed' => ~hand'.truncated /\ stored'[disk'.key].pos <= file'.offset
    BY <1>1, <1>2, <1>5, <1>7, <2>2, NoHandIs DEF Resumed
  <2>4. ASSUME NEW i \in Nat \ {0}, 2 * i <= file'.offset + 1
        PROVE  Accounted(i)
    <3>1. stored[disk.key].pos <= Size /\ file'.offset = stored[disk.key].pos /\ stored[disk.key].pos > 0
      BY <1>1, <1>2, <1>7, <2>4
    <3>2. Resumed
      BY <1>1, <2>1, <3>1 DEF Overgrown, Resumed
    <3>3. file = NoFile
      BY <1>1, <3>2, ResumedIsFollowed
    <3>4. Lossless /\ ~Watching
      BY <1>5, <1>8, <3>3 DEF Watching
    <3>5. QED
      BY <2>4, <3>1, <3>2, <3>4 DEF Kept
  <2>5. QED
    BY <1>4, <2>3, <2>4
<1>9. Reading'
  BY <1>8 DEF Reading
<1>10. QED
  BY <1>6, <1>9

LEMMA ReadTailKeeps ==
  ASSUME LogTyped, ReadFits, KeysFit, Kept, Reading, ReadTail
  PROVE  (Kept /\ Reading)'
<1>1. /\ file # NoFile /\ ~file.finished /\ Sound(file) /\ hand = NoHand /\ disk.run \in Keys /\ disk.run \in Nat
      /\ From \in Nat /\ To \in Nat /\ From <= To /\ Size \in Nat
      /\ From \div 2 \in Nat /\ To \div 2 \in Nat /\ From \div 2 <= To \div 2 /\ To \div 2 <= Len(disk.lines)
      /\ (To % 2 = 1 => To \div 2 + 1 <= Len(disk.lines)) /\ Len(disk.lines) \in Nat
      /\ excuse' = excuse \cup (IF file.key # disk.key THEN {"swapped"} ELSE {})
               \cup (IF ~Cut /\ Overgrown(file.run, file.offset) THEN {"overgrown"} ELSE {})
      /\ UNCHANGED <<disk, stored, db, bus, flushed>>
  BY ReadTailIs, SMTT(30) DEF Keys
<1>2. /\ file' # NoFile /\ file'.key = file.key /\ file'.run = disk.run /\ file'.offset = To
      /\ file'.carry = IF To = From THEN Carried ELSE IF To % 2 = 1 THEN LineOnDisk(To \div 2 + 1) ELSE NoLine
      /\ file'.block = file.block /\ file'.tracker = file.tracker /\ file'.finished = FALSE
      /\ hand'.truncated = Cut /\ hand' \in Hands
      /\ Len(hand'.lines) = (To \div 2) - (From \div 2)
      /\ \A n \in 1 .. (To \div 2) - (From \div 2) :
               /\ (From \div 2) + n \in 1 .. Len(disk.lines)
               /\ hand'.lines[n] = Spilled((From \div 2) + n)
  BY ReadResult
<1>3. Safe' = Safe
  BY <1>1, <1>2, SameSafe
<1>4. \A i : Accounted(i) => Accounted(i)'
  BY <1>1, <1>3, SafeGrows, StillAccounted
<1>5. Watching' /\ Watching /\ (Lossless' => Lossless) /\ (Resumed' <=> Resumed)
  BY <1>1, <1>2 DEF Watching, Lossless, Resumed
<1>6. Kept'
  BY <1>1, <1>4, <1>5 DEF Kept
<1>7. file.offset \in Nat /\ file.run \in Nat /\ file.carry \in Halves /\ file.run <= disk.run
      /\ (file.run = disk.run => file.offset <= Size)
  <2>1. file.offset \in Nat /\ file.run \in Nat /\ file.carry \in Halves
    <3>1. Sound(file)
      BY <1>1
    <3>2. file.offset \in Nat /\ file.run \in Keys /\ file.carry \in Halves
      BY <3>1, FileFields
    <3>3. QED
      BY <3>2 DEF Keys
  <2>2. file.run <= disk.run /\ (file.run = disk.run => file.offset <= Size)
    BY <1>1 DEF LogTyped, DaemonFits
  <2>3. QED
    BY <2>1, <2>2
<1>8. DiskFits /\ DOMAIN hand'.lines = 1 .. (To \div 2) - (From \div 2)
  BY <1>2, LenProperties DEF LogTyped, Hands
\* A line whose beginning the daemon has read is whole when its end is.
<1>9. ASSUME NEW i \in Nat \ {0}, 2 * i <= To, 2 * i > From,
             2 * i - 1 > From \/ (Carried # NoLine /\ Carried.run = disk.run)
      PROVE  InTail(i)'
  <2> DEFINE n == i - (From \div 2)
  <2>1. n \in 1 .. (To \div 2) - (From \div 2) /\ (From \div 2) + n = i
    BY <1>1, <1>9
  <2> HIDE DEF n
  <2>2. hand'.lines[n] = Spilled(i) /\ i \in 1 .. Len(disk.lines)
    BY <1>2, <2>1
  <2>3. Spilled(i).line = i /\ Spilled(i).whole = Whole(i)
    BY <1>1, <1>8, <2>2, LineOnDiskIs
  <2>4. Whole(i)
    BY <1>9 DEF Whole
  <2>5. n \in DOMAIN hand'.lines /\ hand'.lines[n].whole /\ hand'.lines[n].line = i
    BY <1>8, <2>1, <2>2, <2>3, <2>4
  <2>6. QED
    BY <2>5 DEF InTail
\* The read has ended in the middle of a line.
<1>10. ASSUME NEW i \in Nat \ {0}, 2 * i = To + 1, To # From
       PROVE  InTail(i)'
  <2>1. To % 2 = 1 /\ To \div 2 + 1 = i
    BY <1>1, <1>10
  <2>2. file'.carry = LineOnDisk(i) /\ i \in 1 .. Len(disk.lines)
    BY <1>1, <1>2, <1>10, <2>1
  <2>3. LineOnDisk(i) # NoLine /\ LineOnDisk(i).run = disk.run /\ LineOnDisk(i).line = i
    BY <1>1, <1>8, <2>2, LineOnDiskIs
  <2>4. file'.carry # NoLine /\ file'.carry.run = disk'.run /\ file'.carry.line = i
    BY <1>1, <2>2, <2>3
  <2>5. QED
    BY <2>4 DEF InTail
<1>11. ASSUME Lossless', file.key = disk.key
       PROVE  /\ Resumed' => ~hand'.truncated /\ stored'[disk'.key].pos <= file'.offset
              /\ \A i \in Nat \ {0} : 2 * i <= file'.offset + 1 => Accounted(i)' \/ InTail(i)'
  <2>1. Lossless /\ "overgrown" \notin excuse'
    BY <1>5, <1>11 DEF Lossless
  <2>2. Resumed' => ~hand'.truncated /\ stored'[disk'.key].pos <= file'.offset
    <3> SUFFICES ASSUME Resumed
                 PROVE  ~Cut /\ stored[disk.key].pos <= To
      BY <1>1, <1>2, <1>5
    <3>1. file.run = disk.run
      BY <1>1, ResumedIsFollowed
    <3>2. ~Cut /\ From = file.offset
      BY <1>1, <1>7, <3>1 DEF Cut, From
    <3>3. stored[disk.key].pos <= file.offset
      BY <1>5, <1>11, <2>1, <3>1 DEF Reading
    <3>4. stored[disk.key].pos \in Nat
      <4>1. disk.key \in Keys
        BY <1>1, <1>8, DiskSize DEF Keys
      <4>2. QED
        BY <4>1 DEF LogTyped, StoreFits
    <3>5. file.offset <= To
      BY <1>1, <3>2
    <3> DEFINE q == stored[disk.key].pos
    <3>6. q \in Nat /\ To \in Nat /\ file.offset \in Nat /\ q <= file.offset
      BY <1>1, <1>7, <3>3, <3>4
    <3> HIDE DEF q
    <3>7. q <= To
      BY <3>5, <3>6
    <3>8. QED
      BY <3>2, <3>7 DEF q
  <2>3. ASSUME NEW i \in Nat \ {0}, 2 * i <= To + 1
        PROVE  Accounted(i)' \/ InTail(i)'
    <3>1. CASE 2 * i > From + 1
      <4>1. CASE 2 * i <= To
        BY <1>1, <1>9, <3>1, <4>1
      <4>2. CASE 2 * i = To + 1
        BY <1>1, <1>10, <3>1, <4>2
      <4>3. QED
        BY <1>1, <2>3, <4>1, <4>2
    <3>2. CASE 2 * i <= From + 1
      <4>1. From > 0 /\ ~Cut /\ From = file.offset /\ file.offset > 0 /\ file.offset <= Size
        <5>1. From > 0
          <6>1. From \in Nat
            BY <1>1
          <6>2. QED
            BY <3>2, <6>1
        <5>2. ~Cut /\ From = file.offset
          BY <5>1 DEF From
        <5>3. file.offset \in Nat /\ Size \in Nat
          BY <1>1, <1>7
        <5>4. file.offset <= Size
          BY <5>2, <5>3 DEF Cut
        <5>5. QED
          BY <5>1, <5>2, <5>4
      <4>2. file.run = disk.run
        BY <1>1, <2>1, <4>1 DEF Overgrown
      <4>3. Accounted(i) \/ InTail(i)
        BY <1>5, <1>11, <2>1, <3>2, <4>1, <4>2 DEF Reading
      <4>4. CASE Accounted(i)
        BY <1>4, <4>4
      <4>5. CASE InTail(i)
        <5>1. file.carry # NoLine /\ file.carry.run = disk.run /\ file.carry.line = i
          BY <1>1, <4>5, NoHandIs DEF InTail
        <5>2. file.carry.run = disk.run /\ Carried = file.carry
          BY <4>1, <5>1 DEF Carried
        <5>3. file.offset % 2 = 1 /\ file.carry.line = file.offset \div 2 + 1
          BY <1>1, <1>7, <4>2, <5>1, <5>2 DEF ReadFits
        <5>4. 2 * i = From + 1
          BY <1>7, <4>1, <5>1, <5>3
        <5>5. CASE To = From
          <6>1. file'.carry # NoLine /\ file'.carry.run = disk'.run /\ file'.carry.line = i
            BY <1>1, <1>2, <5>1, <5>2, <5>5
          <6>2. QED
            BY <6>1 DEF InTail
        <5>6. CASE To # From
          <6>1. 2 * i <= To /\ 2 * i > From
            BY <1>1, <5>4, <5>6
          <6>2. QED
            BY <1>9, <5>1, <5>2, <6>1
        <5>7. QED
          BY <5>5, <5>6
      <4>6. QED
        BY <4>3, <4>4, <4>5
    <3>3. QED
      BY <1>1, <3>1, <3>2
  <2>4. QED
    BY <1>2, <2>2, <2>3
<1>12. Reading'
  BY <1>1, <1>2, <1>11 DEF Reading
<1>13. QED
  BY <1>6, <1>12

\* A quit marker among the lines of a read is in front of the lines behind it.
LEMMA QuitIsPassed ==
  ASSUME LogTyped, ReadFits, KindsFit, hand.read, file.run = disk.run,
         NEW m \in Nat, QuitBefore(m), m <= Len(hand.lines) + 1, NEW i \in Nat, i >= Through + m
  PROVE  AfterQuit(i)
<1>1. file # NoFile /\ file.offset \in Nat /\ hand.lines \in Seq(Lines) /\ Len(hand.lines) \in Nat
  BY SourceIs, FileFields, LenProperties DEF LogTyped, DaemonFits, Hands
<1> DEFINE N == Len(hand.lines)
<1>2. Through \in Int /\ N \in Nat /\ DOMAIN hand.lines = 1 .. N
  <2>1. N \in Nat /\ file.offset \in Nat
    BY <1>1
  <2> HIDE DEF N
  <2>2. file.offset \div 2 - N \in Int
    BY <2>1
  <2>3. QED
    BY <1>1, <2>2, LenProperties DEF Through, N
<1>3. PICK j \in 1 .. m - 1 : hand.lines[j].text.kind = "quit"
  BY DEF QuitBefore
<1>4. j \in 1 .. N /\ j < m /\ j \in Nat
  BY <1>2, <1>3
<1>5. hand.lines[j].run = file.run /\ hand.lines[j].line = Through + j
  BY <1>1, <1>2, <1>4 DEF ReadFits
<1>6. Through + j \in DOMAIN disk.lines /\ disk.lines[Through + j].kind = "quit"
  BY <1>1, <1>2, <1>3, <1>4, <1>5 DEF KindsFit, OfDisk
<1>7. Through + j < i
  BY <1>2, <1>4
<1>8. QED
  BY <1>6, <1>7 DEF AfterQuit

\* What a read leaves: what was held, and the lines it has brought, are safe afterwards, and
\* the half line the tail held is, unless the tail still holds it.
LEMMA IngestIsSafe ==
  ASSUME LogTyped, IngestRead
  PROVE  /\ Safe \subseteq Safe'
         /\ \A m \in 1 .. Len(hand.lines) :
              hand.lines[m].whole => Place(hand.lines[m]) \in Safe' \/ QuitBefore(m)
         /\ file.carry # NoLine =>
              \/ Place(file.carry) \in Safe'
              \/ Watching' /\ file'.carry = file.carry
              \/ QuitBefore(Len(hand.lines) + 1)
<1> DEFINE N == Len(hand.lines)
<1>1. /\ hand.read /\ hand' = NoHand /\ file' = Result.file /\ bus' = bus \o Sent
      /\ UNCHANGED <<disk, old, db, status, starts, flushed>>
  BY IngestSteps DEF Written
<1>2. /\ Sound(file) /\ ~file.finished /\ file # NoFile
      /\ Sound(Source) /\ ~Source.finished
      /\ (~hand.truncated => Source = file)
      /\ (hand.truncated => Source.tracker = NoTracker /\ (Source.carry = IF Ends THEN NoLine ELSE file.carry))
  BY <1>1, SourceIs
<1>3. /\ Sound(Roused) /\ ~Roused.finished
      /\ (Roused.tracker = NoTracker => hand.lines = <<>> /\ Scanned = ScanState(Roused))
      /\ (Roused.tracker # NoTracker => Ingested(Roused, N, Scanned))
      /\ Sound(Settled) /\ Settled.carry = Source.carry
      /\ (Settled.finished <=> Over(Scanned.tracker)) /\ Settled.tracker = Scanned.tracker
      /\ Scanned.out \in Seq(Stamps) /\ Contents(Scanned) = Places(Scanned.out) \o Content(Settled)
  BY <1>1, SettledIs
<1>4. /\ Sent \in Seq(Stamps) /\ Result.out \in Seq(Stamps) /\ Sound(Result.file)
      /\ Ends => Last.out \in Seq(Stamps) /\ Places(Last.out) = Ending(file)
  BY <1>1, SentIs
<1>5. \/ Result.file = Settled
      \/ /\ Live(Settled.tracker) /\ Content(Result.file) = <<>> /\ Places(Result.out) = Ending(Settled)
  BY <1>3, ReapedIs DEF Result
\* What has been sent.
<1>6. /\ Range(Places(Sent)) \subseteq Safe'
      /\ Range(Places(Scanned.out)) \cup Range(Places(Result.out)) \subseteq Range(Places(Sent))
      /\ Ends => Range(Ending(file)) \subseteq Range(Places(Sent))
  <2> DEFINE a == IF Ends THEN Last.out ELSE <<>>
             b == Scanned.out
             c == Result.out
             ab == a \o b
             z == Sent
  <2>1. a \in Seq(Stamps) /\ b \in Seq(Stamps) /\ c \in Seq(Stamps) /\ z = ab \o c /\ z \in Seq(Stamps)
    BY <1>3, <1>4 DEF Sent, AllSent
  <2>2. Ends => Places(a) = Ending(file)
    BY <1>4
  <2> HIDE DEF a, b, c, z
  <2>3. a \in Seq(Located) /\ b \in Seq(Located) /\ c \in Seq(Located) /\ ab \in Seq(Stamps) /\ ab \in Seq(Located)
    <3>1. ab \in Seq(Stamps)
      BY <2>1, ConcatProperties
    <3> HIDE DEF ab
    <3>2. QED
      BY <2>1, <3>1, SeqMonotonic DEF Located
  <2>4. Places(ab) = Places(a) \o Places(b)
    BY <2>3, PlacesOfConcat
  <2> HIDE DEF ab
  <2>5. Places(z) = Places(ab) \o Places(c)
    BY <2>1, <2>3, PlacesOfConcat
  <2> DEFINE pa == Places(a)
             pb == Places(b)
             pc == Places(c)
             pab == Places(ab)
  <2>6. /\ pa \in Seq(Spots) /\ pb \in Seq(Spots) /\ pc \in Seq(Spots) /\ pab \in Seq(Spots)
        /\ pab = pa \o pb /\ Places(z) = pab \o pc
    BY <2>3, <2>4, <2>5, PlacesOf
  <2> HIDE DEF pa, pb, pc, pab
  <2>7. Range(pab) = Range(pa) \cup Range(pb) /\ Range(pab \o pc) = Range(pab) \cup Range(pc)
    <3>1. Range(pa \o pb) = Range(pa) \cup Range(pb)
      BY <2>6, RangeConcatenation
    <3>2. Range(pab \o pc) = Range(pab) \cup Range(pc)
      BY <2>6, RangeConcatenation, ZenonT(60)
    <3>3. QED
      BY <2>6, <3>1, <3>2
  <2>8. Range(Places(z)) = Range(pa) \cup Range(pb) \cup Range(pc)
    BY <2>6, <2>7
  <2>9. Range(Places(z)) \subseteq Safe'
    <3>1. bus' = bus \o z /\ flushed' = flushed
      BY <1>1 DEF z
    <3>2. Range(Places(Queue')) = Range(Places(Queue)) \cup Range(Places(z))
      BY <2>1, <3>1, QueueGrows
    <3>3. Safe' = {Place(e) : e \in db'} \cup Range(Places(Queue')) \cup Range(Content(file'))
      BY DEF Safe
    <3>4. QED
      BY <3>2, <3>3
  <2>10. QED
    BY <2>2, <2>8, <2>9 DEF pa, pb, pc, b, c, z
\* What the session of the read holds, and what it has when the lines are through.
<1>7. Range(Content(Settled)) \subseteq Safe'
  <2>1. CASE Result.file = Settled
    <3>1. Safe' = {Place(e) : e \in db'} \cup Range(Places(Queue')) \cup Range(Content(file'))
      BY DEF Safe
    <3>2. QED
      BY <1>1, <2>1, <3>1
  <2>2. CASE Places(Result.out) = Ending(Settled)
    <3>1. Range(Content(Settled)) \subseteq Range(Ending(Settled))
      BY <1>3, EndingHolds
    <3>2. QED
      BY <1>6, <2>2, <3>1
  <2>3. QED
    BY <1>5, <2>1, <2>2
<1>8. Range(Contents(Scanned)) \subseteq Safe'
  <2> DEFINE a == Places(Scanned.out)
             c == Content(Settled)
  <2>1. a \in Seq(Spots) /\ c \in Seq(Spots)
    <3>1. Scanned.out \in Seq(Located)
      BY <1>3, SeqMonotonic DEF Located
    <3>2. QED
      BY <1>3, <3>1, PlacesOf, ContentTyped
  <2>2. Contents(Scanned) = a \o c /\ Range(a) \subseteq Safe' /\ Range(c) \subseteq Safe'
    BY <1>3, <1>6, <1>7
  <2> HIDE DEF a, c
  <2>3. Range(a \o c) = Range(a) \cup Range(c)
    BY <2>1, RangeConcatenation
  <2>4. QED
    BY <2>2, <2>3
<1>9. Range(Content(Roused)) \subseteq Safe'
  <2>1. CASE Roused.tracker = NoTracker
    BY <1>3, <1>8, <2>1 DEF Content
  <2>2. CASE Roused.tracker # NoTracker
    BY <1>3, <1>8, <2>2 DEF Ingested
  <2>3. QED
    BY <2>1, <2>2
<1>10. Range(Content(file)) \subseteq Safe'
  <2>1. CASE file.tracker = NoTracker
    <3>1. Content(file) = <<>>
      BY <2>1, UnwatchedIsEmpty
    <3>2. QED
      BY <3>1 DEF Range
  <2>2. CASE file.tracker # NoTracker /\ hand.truncated
    <3>1. Range(Ending(file)) \subseteq Safe'
      BY <1>6, <2>2 DEF Ends
    <3>2. QED
      BY <1>2, <3>1, EndingHolds
  <2>3. CASE file.tracker # NoTracker /\ ~hand.truncated
    <3>1. Roused = file
      BY <1>2, <2>3, WokenIs, HeadReadIs DEF Roused
    <3>2. QED
      BY <1>9, <3>1
  <2>4. QED
    BY <2>1, <2>2, <2>3
<1>11. Safe \subseteq Safe'
  <2> DEFINE z == Sent
  <2>1. z \in Seq(Stamps) /\ bus' = bus \o z /\ flushed' = flushed
    BY <1>1, <1>4
  <2> HIDE DEF z
  <2>2. Range(Places(Queue')) = Range(Places(Queue)) \cup Range(Places(z))
    BY <2>1, QueueGrows
  <2>3. Safe' = {Place(e) : e \in db'} \cup Range(Places(Queue')) \cup Range(Content(file'))
    BY DEF Safe
  <2>4. QED
    BY <1>1, <1>10, <2>2, <2>3 DEF Safe
<1>12. ASSUME NEW m \in 1 .. N, hand.lines[m].whole
       PROVE  Place(hand.lines[m]) \in Safe' \/ QuitBefore(m)
  <2>1. Roused.tracker # NoTracker
    <3>1. hand.lines # <<>>
      BY <1>12
    <3>2. QED
      BY <1>3, <3>1
  <2>2. QED
    BY <1>3, <1>8, <1>12, <2>1 DEF Ingested
<1>13. ASSUME file.carry # NoLine
       PROVE  \/ Place(file.carry) \in Safe'
              \/ Watching' /\ file'.carry = file.carry
              \/ QuitBefore(N + 1)
  <2>1. CASE Ends
    <3>1. Place(file.carry) \in Range(Ending(file))
      BY <1>2, <1>13, EndingHolds
    <3>2. QED
      BY <1>6, <2>1, <3>1
  <2>2. CASE ~Ends
    <3>1. Settled.carry = file.carry
      BY <1>2, <1>3, <2>2
    <3>2. CASE Places(Result.out) = Ending(Settled)
      <4>1. Place(file.carry) \in Range(Ending(Settled))
        BY <1>3, <1>13, <3>1, EndingHolds
      <4>2. QED
        BY <1>6, <3>2, <4>1
    <3>3. CASE Result.file = Settled /\ Settled.finished
      <4>1. Over(Scanned.tracker)
        BY <1>3, <3>3
      <4>2. Roused.tracker # NoTracker
        <5> SUFFICES ASSUME Roused.tracker = NoTracker
                     PROVE  FALSE
          OBVIOUS
        <5>1. Scanned.tracker = NoTracker
          BY <1>3 DEF ScanState
        <5>2. QED
          BY <4>1, <5>1, NoTrackerIs DEF Over
      <4>3. QED
        BY <1>3, <4>1, <4>2 DEF Ingested
    <3>4. CASE Result.file = Settled /\ ~Settled.finished
      <4>1. file' # NoFile
        BY <1>1, <1>4, FileFields
      <4>2. QED
        BY <1>1, <3>1, <3>4, <4>1 DEF Watching
    <3>5. QED
      BY <1>5, <3>2, <3>3, <3>4
  <2>3. QED
    BY <2>1, <2>2
<1>14. QED
  BY <1>11, <1>12, <1>13

LEMMA IngestKeeps ==
  ASSUME LogTyped, ReadFits, KindsFit, KeysFit, Reading, IngestRead
  PROVE  (Kept /\ Reading)'
<1>1. /\ hand.read /\ hand' = NoHand /\ file' = Result.file
      /\ excuse \subseteq excuse' /\ UNCHANGED <<disk, old, db, status, starts, flushed>>
  BY IngestSteps DEF Written
<1>2. /\ Sound(file) /\ ~file.finished /\ file # NoFile /\ Watching
      /\ Result.file.key = file.key /\ Result.file.run = file.run /\ Result.file.offset = file.offset
  BY <1>1, SourceIs, SentIs DEF Watching
<1>3. /\ file.offset \in Nat /\ file.key \in Keys /\ file.run \in Nat /\ hand.lines \in Seq(Lines)
      /\ stored \in [Keys -> [run : 0 .. MaxRuns, pos : Nat]]
      /\ file.carry \in Halves
  <2>1. file.offset \in Nat /\ file.key \in Keys /\ file.run \in Keys /\ file.carry \in Halves
    BY <1>2, FileFields
  <2>2. hand.lines \in Seq(Lines) /\ stored \in [Keys -> [run : 0 .. MaxRuns, pos : Nat]]
    BY DEF LogTyped, DaemonFits, StoreFits, Hands
  <2>3. QED
    BY <2>1, <2>2 DEF Keys
<1> DEFINE N == Len(hand.lines)
<1>4. N \in Nat /\ Through \in Int /\ Through + N = file.offset \div 2 /\ DOMAIN hand.lines = 1 .. N
  <2>1. N \in Nat /\ DOMAIN hand.lines = 1 .. N
    BY <1>3, LenProperties
  <2> HIDE DEF N
  <2>2. Through = file.offset \div 2 - N
    BY DEF Through, N
  <2>3. QED
    BY <1>3, <2>1, <2>2
<1>5. /\ Safe \subseteq Safe'
      /\ \A m \in 1 .. N : hand.lines[m].whole => Place(hand.lines[m]) \in Safe' \/ QuitBefore(m)
      /\ file.carry # NoLine =>
           \/ Place(file.carry) \in Safe'
           \/ Watching' /\ file'.carry = file.carry
           \/ QuitBefore(N + 1)
  BY IngestIsSafe
<1>6. \A i : Accounted(i) => Accounted(i)'
  BY <1>1, <1>5, SafeGrows, StillAccounted
<1>7. \A i : (i \in DOMAIN disk.lines /\ Spot(i) \in Safe') \/ AfterQuit(i) => Accounted(i)'
  BY <1>1 DEF Accounted, AfterQuit, Spot
\* Every line up to the tail is accounted for, but for the one the tail is in.
<1>8. ASSUME Lossless, file.key = disk.key, file.run = disk.run, NEW i \in Nat \ {0}, 2 * i <= file.offset + 1
      PROVE  \/ Accounted(i)'
             \/ Watching' /\ 2 * i = file.offset + 1 /\ InTail(i)'
  <2>1. Accounted(i) \/ InTail(i)
    BY <1>2, <1>8 DEF Reading
  <2>2. CASE Accounted(i)
    BY <1>6, <2>2
  <2>3. CASE \E n \in DOMAIN hand.lines : hand.lines[n].whole /\ hand.lines[n].line = i
    <3>1. PICK n \in 1 .. N : hand.lines[n].whole /\ hand.lines[n].line = i
      BY <1>4, <2>3
    <3>2. hand.lines[n].run = file.run /\ i = Through + n
      BY <1>2, <1>4, <3>1 DEF ReadFits
    <3>3. i \in DOMAIN disk.lines /\ Place(hand.lines[n]) = Spot(i)
      BY <1>2, <1>4, <1>8, <3>1, <3>2 DEF Place, Spot, KindsFit, OfDisk
    <3>4. QuitBefore(n) => AfterQuit(i)
      <4>1. n \in Nat /\ n <= N + 1 /\ i \in Nat /\ i >= Through + n
        BY <1>4, <3>2
      <4>2. QED
        BY <1>1, <1>8, <4>1, QuitIsPassed
    <3>5. QED
      BY <1>5, <1>7, <3>1, <3>3, <3>4
  <2>4. CASE file.carry # NoLine /\ file.carry.run = disk.run /\ file.carry.line = i
    <3>1. /\ file.carry.run = file.run /\ file.carry.line = i
          /\ i \in DOMAIN disk.lines /\ Place(file.carry) = Spot(i)
      BY <1>2, <1>8, <2>4 DEF Place, Spot, KindsFit, OfDisk
    <3>2. file.offset % 2 = 1 /\ i = file.offset \div 2 + 1
      BY <1>2, <1>3, <2>4, <3>1 DEF ReadFits
    <3>3. 2 * i = file.offset + 1
      <4> DEFINE off == file.offset
      <4>1. off \in Nat /\ off % 2 = 1 /\ i = off \div 2 + 1
        BY <1>3, <3>2
      <4> HIDE DEF off
      <4>2. 2 * i = off + 1
        BY <4>1
      <4>3. QED
        BY <4>2 DEF off
    <3>4. QuitBefore(N + 1) => AfterQuit(i)
      <4>1. N + 1 \in Nat /\ N + 1 <= N + 1 /\ i \in Nat /\ i >= Through + (N + 1)
        <5> DEFINE off == file.offset \div 2
                   t == Through
        <5>1. N \in Nat /\ t \in Int /\ t + N = off /\ i = off + 1 /\ i \in Nat
          BY <1>4, <3>2
        <5> HIDE DEF off, t, N
        <5>2. N + 1 \in Nat /\ N + 1 <= N + 1 /\ i >= t + (N + 1)
          BY <5>1
        <5>3. QED
          BY <5>1, <5>2 DEF t
      <4>2. QED
        BY <1>1, <1>8, <4>1, QuitIsPassed
    <3>5. Watching' /\ file'.carry = file.carry => InTail(i)'
      BY <1>1, <2>4 DEF InTail
    <3>6. QED
      BY <1>5, <1>7, <2>4, <3>1, <3>3, <3>4, <3>5
  <2>5. QED
    BY <2>1, <2>2, <2>3, <2>4 DEF InTail
<1>9. ASSUME Lossless', Resumed'
      PROVE  /\ file.key = disk.key /\ file.run = disk.run
             /\ stored'[disk'.key].pos = file.offset /\ Lossless
  <2>1. Lossless /\ "pinned" \notin excuse'
    BY <1>1, <1>9 DEF Lossless
  <2>2. stored' = [stored EXCEPT ![file.key] = [run |-> file.run, pos |-> file.offset]]
    BY <2>1, ReadStored
  <2>3. disk.run > 0 /\ stored'[disk.key].run = disk.run
    BY <1>1, <1>9 DEF Resumed
  <2>4. file.key = disk.key
    <3> SUFFICES ASSUME file.key # disk.key
                 PROVE  FALSE
      OBVIOUS
    <3>1. disk.key \in Keys
      BY <2>3, DiskSize DEF LogTyped
    <3>2. stored'[disk.key] = stored[disk.key]
      BY <1>3, <2>2, <3>1
    <3>3. Resumed
      BY <2>3, <3>2 DEF Resumed
    <3>4. QED
      BY <1>2, <3>3, ResumedIsFollowed
  <2>5. stored'[disk.key] = [run |-> file.run, pos |-> file.offset]
    BY <1>3, <2>2, <2>4
  <2>6. QED
    BY <1>1, <2>1, <2>3, <2>4, <2>5
<1>10. Kept'
  <2> SUFFICES ASSUME Lossless', Resumed', NEW i \in Nat \ {0},
                      2 * i <= stored'[disk'.key].pos \/ (~Watching' /\ 2 * i <= stored'[disk'.key].pos + 1)
               PROVE  Accounted(i)'
    BY DEF Kept
  <2>1. 2 * i <= file.offset \/ (~Watching' /\ 2 * i <= file.offset + 1)
    BY <1>9
  <2>2. 2 * i <= file.offset + 1
    BY <1>3, <2>1
  <2>3. ~(Watching' /\ 2 * i = file.offset + 1)
    BY <1>3, <2>1
  <2>4. QED
    BY <1>8, <1>9, <2>2, <2>3
<1>11. Reading'
  <2> SUFFICES ASSUME Lossless', file'.key = disk'.key, file'.run = disk'.run
               PROVE  /\ Resumed' => ~hand'.truncated /\ stored'[disk'.key].pos <= file'.offset
                      /\ \A i \in Nat \ {0} : 2 * i <= file'.offset + 1 => Accounted(i)' \/ InTail(i)'
    BY DEF Reading
  <2>1. Lossless /\ file.key = disk.key /\ file.run = disk.run /\ file'.offset = file.offset
    BY <1>1, <1>2 DEF Lossless
  <2>2. Resumed' => ~hand'.truncated /\ stored'[disk'.key].pos <= file'.offset
    BY <1>1, <1>3, <1>9, <2>1, NoHandIs
  <2>3. QED
    BY <1>8, <2>1, <2>2
<1>12. QED
  BY <1>10, <1>11

\* The session that the reaper ends leaves the half line of the tail behind.
LEMMA TickKeeps ==
  ASSUME LogTyped, KindsFit, KeysFit, Kept, Reading, TickWithoutRead
  PROVE  (Kept /\ Reading)'
<1>1. /\ hand = NoHand /\ file # NoFile /\ ~file.finished /\ Sound(file)
      /\ UNCHANGED <<disk, old, stored, db, status, starts, hand, flushed, excuse>>
  BY TickIs
<1>2. PICK missing \in BOOLEAN :
        LET g == Polled(missing)
            r == Reaped(g)
        IN /\ file' = r.file /\ bus' = bus \o r.out
           /\ Sound(g) /\ g.key = file.key /\ g.run = file.run /\ g.offset = file.offset
           /\ g.carry = file.carry /\ g.block = file.block /\ g.tracker = file.tracker
           /\ g.finished = file.finished
  BY TickIs
<1> DEFINE g == Polled(missing)
           r == Reaped(g)
           o == r.out
<1>3. /\ Sound(r.file) /\ o \in Seq(Stamps)
      /\ \/ r.file = g /\ o = <<>>
         \/ r.file.finished /\ Content(r.file) = <<>> /\ Places(o) = Ending(g)
  BY <1>2, ReapedIs
<1>4. Content(g) = Content(file)
  BY <1>2 DEF Content, ScanState
<1>5. Range(Content(g)) \subseteq Range(Ending(g)) /\ (file.carry # NoLine => Place(file.carry) \in Range(Ending(g)))
  BY <1>2, EndingHolds
<1>6. /\ file' = r.file /\ bus' = bus \o o /\ Sound(g) /\ g.key = file.key /\ g.run = file.run /\ g.offset = file.offset
      /\ g.carry = file.carry /\ g.finished = file.finished
  BY <1>2
<1>7. g # NoFile /\ file' # NoFile
  BY <1>3, <1>6, FileFields
<1> HIDE DEF g, r, o
<1>8. Safe \subseteq Safe' /\ Range(Places(o)) \subseteq Safe'
  <2>1. Range(Content(file)) \subseteq Range(Places(o)) \cup Range(Content(file'))
    BY <1>3, <1>4, <1>5, <1>6
  <2>2. UNCHANGED <<flushed, db>>
    BY <1>1
  <2>3. QED
    BY <1>3, <1>6, <2>1, <2>2, EmittedIsSafe
<1>9. CASE r.file = g
  <2>1. /\ file' = NoFile <=> file = NoFile
        /\ file'.key = file.key /\ file'.run = file.run /\ file'.offset = file.offset /\ file'.carry = file.carry
        /\ file'.finished = file.finished
    BY <1>1, <1>6, <1>7, <1>9
  <2>2. QED
    BY <1>1, <1>8, <2>1, SafeGrows, SameAccounts
<1>10. CASE r.file.finished /\ Places(o) = Ending(g)
  <2>1. ~Watching' /\ Watching
    BY <1>1, <1>6, <1>10 DEF Watching
  <2>2. Reading'
    BY <2>1 DEF Reading
  <2>3. Kept'
    <3> SUFFICES ASSUME Lossless', Resumed', NEW i \in Nat \ {0},
                        2 * i <= stored'[disk'.key].pos \/ 2 * i <= stored'[disk'.key].pos + 1
                 PROVE  Accounted(i)'
      BY DEF Kept
    <3>1. Lossless /\ Resumed
      BY <1>1 DEF Lossless, Resumed
    <3>2. file.key = disk.key /\ file.run = disk.run
      BY <1>1, <3>1, ResumedIsFollowed
    <3>3. 2 * i <= file.offset + 1
      <4>1. stored[disk.key].pos <= file.offset
        BY <2>1, <3>1, <3>2 DEF Reading
      <4>2. stored[disk.key].pos \in Nat /\ file.offset \in Nat
        <5>1. file.offset \in Nat /\ file.key \in Keys
          BY <1>1, FileFields
        <5>2. QED
          BY <3>2, <5>1 DEF LogTyped, StoreFits
      <4> DEFINE q == stored[disk.key].pos
      <4>3. 2 * i <= q \/ 2 * i <= q + 1
        BY <1>1
      <4>4. q \in Nat /\ q <= file.offset
        BY <4>1, <4>2
      <4> HIDE DEF q
      <4>5. QED
        BY <4>2, <4>3, <4>4
    <3>4. Accounted(i) \/ InTail(i)
      BY <2>1, <3>1, <3>2, <3>3 DEF Reading
    <3>5. \A j : Accounted(j) => Accounted(j)'
      BY <1>1, <1>8, SafeGrows, StillAccounted
    <3>6. InTail(i) => i \in DOMAIN disk.lines /\ Spot(i) \in Safe'
      <4> SUFFICES ASSUME InTail(i)
                   PROVE  i \in DOMAIN disk.lines /\ Spot(i) \in Safe'
        OBVIOUS
      <4>1. file.carry # NoLine /\ file.carry.run = disk.run /\ file.carry.line = i
        BY <1>1, NoHandIs DEF InTail
      <4>2. i \in DOMAIN disk.lines /\ Place(file.carry) = Spot(i)
        BY <1>1, <3>2, <4>1 DEF KindsFit, OfDisk, Place, Spot
      <4>3. QED
        BY <1>5, <1>8, <1>10, <4>1, <4>2
    <3>7. i \in DOMAIN disk.lines /\ Spot(i) \in Safe' => Accounted(i)'
      BY <1>1 DEF Accounted, Spot
    <3>8. QED
      BY <3>4, <3>5, <3>6, <3>7
  <2>4. QED
    BY <2>2, <2>3
<1>11. QED
  BY <1>3, <1>9, <1>10

LEMMA FlushKeeps ==
  ASSUME LogTyped, Kept, Reading, UNCHANGED <<disk, stored, hand, file, bus>>, flushed' = Len(bus),
         db' = Recorded(Queue), excuse \subseteq excuse'
  PROVE  (Kept /\ Reading)'
<1>1. SafeStays
  BY FlushedIsSafe
<1>2. QED
  BY <1>1, SameAccounts

\* The daemon goes, with nothing in hand that no restart reads again.
LEMMA GoneKeeps ==
  ASSUME LogTyped, OpenIsFollowed, KeysFit, Drained, Kept, DaemonStops \/ DaemonExits \/ DaemonKilled, file' = NoFile
  PROVE  (Kept /\ Reading)'
<1>1. ~Watching'
  BY DEF Watching
<1>2. Reading'
  BY <1>1 DEF Reading
<1>3. ASSUME Lossless', Resumed'
      PROVE  Lossless /\ Resumed /\ ~Held /\ (Queue = <<>> \/ db' = Recorded(Queue)) /\ UNCHANGED <<disk, stored>>
  <2>1. "held" \notin excuse'
    BY <1>3 DEF Lossless
  <2>2. /\ UNCHANGED <<disk, stored>> /\ excuse \subseteq excuse'
        /\ db' = Recorded(Queue) \/ Queue = <<>> \/ DaemonExits
    BY <2>1 DEF DaemonStops, DaemonExits, DaemonKilled, Gone
  <2>3. Lossless /\ Resumed
    BY <1>3, <2>2 DEF Lossless, Resumed
  <2>4. ASSUME ~DaemonExits, ~DaemonKilled
        PROVE  ~Held
    <3>1. DaemonStops
      BY <2>4
    <3>2. CASE Gone(Held)
      BY <2>1, <3>2 DEF Gone
    <3>3. CASE hand.read /\ file' = file
      <4>1. Watching /\ file = NoFile
        BY <3>3 DEF LogTyped, DaemonFits
      <4>2. QED
        BY <4>1 DEF Watching
    <3>4. QED
      BY <3>1, <3>2, <3>3 DEF DaemonStops
  <2>5. ASSUME DaemonExits
        PROVE  ~Held /\ Queue = <<>>
    <3>1. ~Held /\ status = "stopping"
      BY <2>1, <2>5 DEF DaemonExits, Gone
    <3>2. flushed = Len(bus) /\ bus \in Seq(Stamps) /\ flushed \in 0 .. Len(bus)
      BY <2>1, <2>2, <3>1 DEF Drained, LogTyped, DaemonFits
    <3>3. Queue \in Seq(Stamps) /\ Len(Queue) = Len(bus) - flushed /\ Len(bus) \in Nat
      BY <3>2, QueueIs, LenProperties
    <3>4. Queue \in Seq(Stamps) /\ Len(Queue) = 0
      BY <3>2, <3>3
    <3>5. QED
      BY <3>1, <3>4, EmptySeq
  <2>6. ASSUME DaemonKilled
        PROVE  ~Held
    BY <2>1, <2>6 DEF DaemonKilled, Gone
  <2>7. QED
    BY <2>2, <2>3, <2>4, <2>5, <2>6
<1>4. ASSUME Lossless', Resumed'
      PROVE  SafeStays
  <2>1. Content(file) = <<>>
    <3>1. CASE Watching
      <4>1. file.block = NoLine /\ file.tracker.buffered = <<>>
        BY <1>3, <1>4, <3>1 DEF Held
      <4>2. QED
        BY <4>1, NoContent
    <3>2. CASE ~Watching
      BY <3>2, UnwatchedIsEmpty
    <3>3. QED
      BY <3>1, <3>2
  <2>2. Range(Content(file)) = {}
    BY <2>1 DEF Range
  <2>3. CASE db' = Recorded(Queue)
    BY <2>2, <2>3, FlushedIsSafe
  <2>4. CASE Queue = <<>> /\ db' # Recorded(Queue)
    <3>1. Range(Places(Queue)) = {}
      BY <2>4, PlacesOfNone DEF Range
    <3>2. db' = db
      BY <2>4, GoneTyped
    <3>3. Safe' = {Place(e) : e \in db'} \cup Range(Places(Queue')) \cup Range(Content(file'))
      BY DEF Safe
    <3>4. Safe \subseteq Safe'
      BY <2>2, <3>1, <3>2, <3>3 DEF Safe
    <3>5. QED
      BY <3>2, <3>4, SafeGrows
  <2>5. QED
    BY <1>3, <1>4, <2>3, <2>4
<1>5. Kept'
  <2> SUFFICES ASSUME Lossless', Resumed', NEW i \in Nat \ {0},
                      2 * i <= stored'[disk'.key].pos \/ 2 * i <= stored'[disk'.key].pos + 1
               PROVE  Accounted(i)'
    BY DEF Kept
  <2> DEFINE q == stored[disk.key].pos
  <2>1. Lossless /\ Resumed /\ ~Held /\ UNCHANGED <<disk, stored>> /\ (2 * i <= q \/ 2 * i <= q + 1)
    BY <1>3
  <2>2. 2 * i <= q \/ (~Watching /\ 2 * i <= q + 1)
    <3>1. CASE Watching
      <4>1. file # NoFile
        BY <3>1 DEF Watching
      <4>2. file.key = disk.key /\ Sound(file)
        BY <2>1, <4>1, ResumedIsFollowed DEF LogTyped, DaemonFits
      <4>3. q \in Nat
        <5>1. disk.key \in Keys
          BY <4>2, FileFields
        <5>2. QED
          BY <5>1 DEF LogTyped, StoreFits
      <4>4. q % 2 # 1
        BY <2>1, <3>1, <4>2 DEF Held
      <4> HIDE DEF q
      <4>5. QED
        BY <2>1, <4>3, <4>4
    <3>2. CASE ~Watching
      BY <2>1, <3>2
    <3>3. QED
      BY <3>1, <3>2
  <2>3. Accounted(i)
    BY <2>1, <2>2 DEF Kept
  <2>4. QED
    BY <1>4, <2>1, <2>3, StillAccounted
<1>6. QED
  BY <1>2, <1>5

LEMMA KeptStep ==
  ASSUME LogTyped, OpenIsFollowed, ReadFits, KindsFit, KeysFit, Drained, Kept, Reading, [Next]_vars
  PROVE  (Kept /\ Reading)'
<1>1. CASE \E rewrite \in BOOLEAN : ClientStarts(rewrite)
  <2>1. UNCHANGED <<stored, file, excuse>> /\ disk'.run = disk.run + 1
    BY <1>1 DEF ClientStarts, daemonVars, storeVars
  <2>2. disk.run \in Nat /\ \A k \in Keys : stored[k].run \in Nat /\ stored[k].run <= disk.run
    BY Bounds DEF LogTyped, DiskFits, StoreFits
  <2>3. disk'.run # 0 => disk'.key \in Keys
    <3>1. LogTyped'
      BY <1>1, ClientStartsTyped
    <3>2. QED
      BY <2>1, <2>2, <3>1, Bounds DEF LogTyped, DiskFits, Keys
  <2>4. ~Resumed'
    BY <2>1, <2>2, <2>3 DEF Resumed
  <2>5. file # NoFile => file.run # disk'.run
    <3>1. file # NoFile => file.run \in Nat /\ file.run <= disk.run
      BY FileFields DEF LogTyped, DaemonFits, Keys
    <3>2. QED
      BY <2>1, <2>2, <3>1
  <2>6. QED
    BY <2>1, <2>4, <2>5 DEF Kept, Reading, Watching
<1>2. CASE ClientWritesHalf \/ ClientEndsLine
  <2>1. /\ UNCHANGED <<stored, file, hand, excuse, db, bus, flushed>> /\ disk'.run = disk.run /\ disk'.key = disk.key
    <3>1. disk = [run |-> disk.run, key |-> disk.key, lines |-> disk.lines, half |-> disk.half, script |-> disk.script]
      BY DEF LogTyped, DiskFits
    <3>2. QED
      BY <1>2, <3>1 DEF ClientWritesHalf, ClientEndsLine, daemonVars, storeVars
  <2>2. \A i \in DOMAIN disk.lines : i \in DOMAIN disk'.lines /\ disk'.lines[i] = disk.lines[i]
    BY <1>2, LinesStay
  <2>3. Safe' = Safe
    BY <2>1, SameSafe
  <2>4. QED
    BY <2>1, <2>2, <2>3, SafeGrows, SameAccounts
<1>3. CASE TimePasses \/ DaemonStarts \/ UNCHANGED vars
  <2>1. /\ UNCHANGED <<disk, stored, hand, excuse, db, bus, flushed>>
        /\ file' = file \/ (file # NoFile /\ file' = [file EXCEPT !.stale = TRUE])
    BY <1>3 DEF TimePasses, DaemonStarts, vars, daemonVars, storeVars
  <2>2. /\ file' = NoFile <=> file = NoFile
        /\ file'.key = file.key /\ file'.run = file.run /\ file'.offset = file.offset /\ file'.carry = file.carry
        /\ file'.finished = file.finished /\ file'.tracker = file.tracker /\ file'.block = file.block
    <3>1. file # NoFile => file \in Files
      BY FileFields DEF LogTyped, DaemonFits
    <3>2. QED
      BY <2>1, <3>1, NoFileIs DEF Files
  <2>3. Safe' = Safe
    BY <2>1, <2>2, SameSafe
  <2>4. QED
    BY <2>1, <2>2, <2>3, SafeGrows, SameAccounts
<1>4. CASE Scan
  BY <1>4, ScanKeeps
<1>5. CASE ReadTail
  BY <1>5, ReadTailKeeps
<1>6. CASE IngestRead
  BY <1>6, IngestKeeps
<1>7. CASE TickWithoutRead
  BY <1>7, TickKeeps
<1>8. CASE Flush
  BY <1>8, FlushKeeps DEF Flush
<1>9. CASE FlushFails
  <2>1. ~Lossless'
    BY <1>9 DEF FlushFails, Lossless
  <2>2. QED
    BY <2>1 DEF Kept, Reading
<1>10. CASE DaemonStops \/ DaemonExits \/ DaemonKilled
  <2>1. CASE file' = NoFile
    BY <1>10, <2>1, GoneKeeps
  <2>2. CASE file' # NoFile
    <3>1. /\ UNCHANGED <<disk, stored, hand, file, bus>> /\ flushed' = Len(bus)
          /\ db' = Recorded(Queue) /\ excuse \subseteq excuse'
      BY <1>10, <2>2, GoneTyped
    <3>2. QED
      BY <3>1, FlushKeeps
  <2>3. QED
    BY <2>1, <2>2
<1>11. QED
  BY <1>1, <1>2, <1>3, <1>4, <1>5, <1>6, <1>7, <1>8, <1>9, <1>10 DEF Next

LEMMA KeptInit == Init => KeysFit /\ Drained /\ Kept /\ Reading
<1> SUFFICES ASSUME Init
             PROVE  KeysFit /\ Drained /\ Kept /\ Reading
  OBVIOUS
<1>1. file = NoFile /\ status = "down" /\ disk.run = 0 /\ \A k \in Keys : stored[k] = [run |-> 0, pos |-> 0]
  BY DEF Init
<1>2. KeysFit
  BY <1>1 DEF KeysFit
<1>3. QED
  BY <1>1, <1>2 DEF Drained, Kept, Reading, Resumed, Watching

\* What is safe is in the store, in the queue, in the buffer of the tracker or in the open block.
LEMMA SafeIsFound ==
  ASSUME LogTyped, NEW i, Spot(i) \in Safe
  PROVE  (\E e \in Saved : e.text = disk.lines[i]) \/ InHand(disk.run, i)
<1> DEFINE a == Spot(i)
<1>1. ASSUME NEW e, a = Place(e)
      PROVE  e.run = disk.run /\ e.line = i /\ e.text = disk.lines[i]
  BY <1>1 DEF Place, Spot
<1>2. CASE a \in {Place(e) : e \in db} \cup Range(Places(Queue))
  <2>1. \E e \in db \cup Range(Queue) : a = Place(e)
    BY <1>2, QueuedPlace
  <2>2. QED
    BY <1>1, <2>1 DEF Saved
<1>3. CASE a \in Range(Content(file))
  <2>1. file # NoFile
    <3>1. Range(<<>>) = {}
      BY DEF Range
    <3>2. QED
      BY <1>3, <3>1, ContentTyped
  <2>2. Sound(file) /\ file.tracker # NoTracker
    <3>1. Sound(file)
      BY <2>1 DEF LogTyped, DaemonFits
    <3>2. Range(<<>>) = {}
      BY DEF Range
    <3>3. QED
      BY <1>3, <3>1, <3>2, UnwatchedIsEmpty
  <2> DEFINE s == ScanState(file)
             b == s.tracker.buffered
             p == Places(b)
             c == Core(s)
  <2>3. s \in ScanStates /\ s.tracker = file.tracker /\ s.block = file.block /\ s.out = <<>>
    BY <2>2, ScanStateIs
  <2>4. b \in Seq(Located) /\ b = file.tracker.buffered /\ c \in Seq(Spots)
    BY <2>3, ScanFields, CoreIs
  <2>5. /\ p \in Seq(Spots) /\ Len(p) = Len(b) /\ \A n \in 1 .. Len(b) : p[n] = Place(b[n])
    BY <2>4, PlacesOf
  <2>6. c = p
    <3>1. c = <<>> \o p
      BY <2>3, PlacesOfNone DEF Core
    <3> HIDE DEF p, c
    <3>2. QED
      BY <2>5, <3>1
  <2>7. Content(file) = IF s.block = NoLine THEN c ELSE Append(c, Place(s.block))
    BY DEF Content, Contents
  <2>8. s.block # NoLine => Place(s.block) \in Spots
    BY <2>3, NoLineIs, PlaceIsSpot, ScanFields DEF Located
  <2> DEFINE x == Place(s.block)
  <2>9. a \in Range(c) \/ (s.block # NoLine /\ a = x)
    <3>1. x \in Spots /\ c \in Seq(Spots) => Range(Append(c, x)) = Range(c) \cup {x}
      <4> HIDE DEF x, c
      <4>1. QED
        BY RangeAppended
    <3> HIDE DEF c
    <3>2. QED
      BY <1>3, <2>4, <2>7, <2>8, <3>1
  <2>10. CASE a \in Range(c)
    <3> HIDE DEF p, c, b, s, a
    <3>1. PICK n \in 1 .. Len(p) : a = p[n]
      BY <2>5, <2>6, <2>10, RangeEquality
    <3>2. n \in DOMAIN b /\ a = Place(b[n])
      BY <2>4, <2>5, <3>1, LenProperties
    <3>3. b[n].run = disk.run /\ b[n].line = i
      BY <3>2 DEF a, Place, Spot
    <3>4. QED
      BY <2>4, <3>2, <3>3 DEF InHand
  <2>11. CASE s.block # NoLine /\ a = x
    BY <1>1, <2>3, <2>11 DEF InHand
  <2>12. QED
    BY <2>9, <2>10, <2>11
<1>4. QED
  BY <1>2, <1>3 DEF Safe

LEMMA KeptHolds == LogTyped /\ Kept => NothingSkipped
<1> SUFFICES ASSUME LogTyped, Kept, excuse \subseteq {"cut", "swapped", "headless"}, status = "up", disk.run > 0,
                    stored[disk.key].run = disk.run, NEW i \in 1 .. (stored[disk.key].pos \div 2)
             PROVE  \/ \E e \in Saved : e.text = disk.lines[i]
                    \/ InHand(disk.run, i)
                    \/ AfterQuit(i)
  BY DEF NothingSkipped
<1> DEFINE q == stored[disk.key].pos
<1>1. q \in Nat
  <2>1. disk.key \in Keys
    BY DiskSize DEF LogTyped
  <2>2. QED
    BY <2>1 DEF LogTyped, StoreFits
<1>2. i \in Nat \ {0} /\ 2 * i <= q
  <2> HIDE DEF q
  <2>1. i \in 1 .. q \div 2
    BY DEF q
  <2>2. QED
    BY <1>1, <2>1
<1>3. Lossless /\ Resumed
  BY DEF Lossless, Resumed
<1>4. Accounted(i)
  BY <1>2, <1>3 DEF Kept
<1>5. QED
  BY <1>4, SafeIsFound DEF Accounted, Saved

\* A line under the offset that a restart resumes at is stored, on its way to the store, held by
\* the tracker or the scanner, or behind the end of its session: whatever way the reads of the
\* daemon, its restarts and crashes, the rotations of the client and the reaper interleave.
THEOREM LinesAreAccounted == Spec => []NothingSkipped
<1>1. /\ LogTyped /\ OpenIsFollowed /\ ReadFits /\ KindsFit /\ KeysFit /\ Drained /\ Kept /\ Reading /\ [Next]_vars
         => (LogTyped /\ OpenIsFollowed /\ ReadFits /\ KindsFit /\ KeysFit /\ Drained /\ Kept /\ Reading)'
  BY LogTypedStep, ReadFitsStep, KeysFitStep, DrainedStep, KeptStep
<1>2. QED
  BY LogTypedInit, OrderedInit, KeptInit, <1>1, KeptHolds, PTL DEF Spec
=============================================================================
