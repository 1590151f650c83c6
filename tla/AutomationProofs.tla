-------------------------- MODULE AutomationProofs --------------------------
(***************************************************************************)
(* The events a plugin is sent, and the graphs that the daemon walks.      *)
(***************************************************************************)
EXTENDS EventsBridge, GraphEngine, FiniteSetTheorems, WellFoundedInduction, TLAPS

(***************************************************************************)
(* The bridge, for every set of subscriptions, policies, grants and        *)
(* events: no queue of a plugin is left waiting for an event that need not *)
(* come; its array, dead prefix and index of keys are one bounded queue,   *)
(* the one of the reference semantics; and what is delivered is granted.   *)
(* First, that nothing is stranded.                                        *)
(***************************************************************************)
Fields == {"policy", "wants", "items", "head", "slots", "outstanding", "lost", "closing"}
Shaped(r) == DOMAIN r = Fields /\ r.closing \in BOOLEAN

\* A registration that nothing is owed to, and nothing is to be told.
AtRest(r) == ~Owes(r) /\ ~(r.lost > 0) /\ ~r.closing

\* A plugin without a channel has no subscription, so that a flush that skips it
\* forgets nothing.
BridgeInv ==
  /\ DOMAIN subs = Subs /\ \A s \in Subs : Shaped(subs[s])
  /\ ~attached => subs = AllClosed
  /\ NeverStranded

-----------------------------------------------------------------------------
LEMMA ClosedIsAtRest == Shaped(Closed) /\ AtRest(Closed)
BY DEF Closed, Shaped, AtRest, Owes, Fields

LEMMA OpenedIsAtRest == \A p, w : Shaped(Opened(p, w)) /\ AtRest(Opened(p, w))
BY DEF Opened, Closed, Shaped, AtRest, Owes, Fields, Size

\* The queue's operations leave the flag and the losses of a registration alone.
LEMMA AnewKeeps ==
  ASSUME NEW r, NEW q, Shaped(r)
  PROVE  Shaped(Anew(r, q)) /\ Anew(r, q).lost = r.lost /\ Anew(r, q).closing = r.closing
BY DEF Shaped, Anew, Fields

LEMMA CompactKeeps ==
  ASSUME NEW r, Shaped(r)
  PROVE  Shaped(Compact(r)) /\ Compact(r).lost = r.lost /\ Compact(r).closing = r.closing
BY AnewKeeps DEF Compact

LEMMA CommitKeeps ==
  ASSUME NEW r, NEW n, Shaped(r)
  PROVE  Shaped(Commit(r, n)) /\ Commit(r, n).lost = r.lost /\ Commit(r, n).closing = r.closing
<1> DEFINE t == [r EXCEPT !.head = Least(Len(r.items), @ + n)]
<1>1. Shaped(t) /\ t.lost = r.lost /\ t.closing = r.closing
  BY DEF Shaped, Fields
<1> HIDE DEF t
<1>2. Commit(r, n) = Compact(t)
  BY DEF Commit, t
<1>3. QED
  BY <1>1, <1>2, CompactKeeps

LEMMA PushKeeps ==
  ASSUME NEW r, NEW e, Shaped(r)
  PROVE  Shaped(Push(r, e)) /\ Shaped(Supersede(r, e))
BY DEF Push, Supersede, Shaped, Fields

LEMMA DropOldestKeeps ==
  ASSUME NEW r, Shaped(r)
  PROVE  Shaped(DropOldest(r))
BY CommitKeeps DEF DropOldest

LEMMA LoseKeeps ==
  ASSUME NEW r, Shaped(r)
  PROVE  Shaped(Lose(r)) /\ Shaped([Lose(r) EXCEPT !.closing = TRUE])
BY DEF Lose, Shaped, Fields

LEMMA DeliverKeeps ==
  ASSUME NEW r, NEW e, Shaped(r)
  PROVE  Shaped(Deliver(r, e)) /\ (~r.closing /\ ~Wanted(r, e) => Deliver(r, e) = r)
BY PushKeeps, DropOldestKeeps, LoseKeeps DEF Deliver

LEMMA KeptKeeps ==
  ASSUME NEW r, Shaped(r)
  PROVE  Shaped(Kept(r))
<1>1. Shaped(Purge(r, grant))
  BY AnewKeeps DEF Purge
<1>2. ASSUME NEW n PROVE Shaped([Purge(r, grant) EXCEPT !.lost = n])
  BY <1>1 DEF Shaped, Fields
<1>3. QED
  BY <1>2 DEF Kept

\* After its turn in a flush a registration has told everything, and is closed if it was
\* closing.
LEMMA EmittedHasTold ==
  ASSUME NEW r, NEW fits, Shaped(r)
  PROVE  /\ Shaped(Emitted(r, fits))
         /\ ~(Emitted(r, fits).lost > 0) /\ ~Emitted(r, fits).closing
<1> DEFINE t == [r EXCEPT !.outstanding = @ + Sent(r, fits), !.lost = 0]
           after == Commit(t, Sent(r, fits) + Shed(r, fits))
<1>1. Shaped(t) /\ t.lost = 0 /\ t.closing = r.closing
  BY DEF Shaped, Fields
<1> HIDE DEF t
<1>2. Shaped(after) /\ after.lost = 0 /\ after.closing = r.closing
  BY <1>1, CommitKeeps
<1> HIDE DEF after
<1>3. Emitted(r, fits) = IF r.closing THEN Closed ELSE after
  BY DEF Emitted, after, t
<1>4. QED
  BY <1>2, <1>3, ClosedIsAtRest DEF AtRest, Shaped

-----------------------------------------------------------------------------
LEMMA RestIsEnough ==
  ASSUME \A s \in Subs : AtRest(subs[s]) PROVE NeverStranded
BY DEF AtRest, NeverStranded

LEMMA InitHolds == BridgeInit => BridgeInv
BY ClosedIsAtRest, RestIsEnough DEF BridgeInit, BridgeInv, AllClosed

LEMMA StepKeeps == BridgeInv /\ [BridgeNext]_bridgeVars => BridgeInv'
<1> SUFFICES ASSUME BridgeInv, [BridgeNext]_bridgeVars PROVE BridgeInv'
  OBVIOUS
<1> USE DEF BridgeInv
\* Whoever closes everything leaves nothing behind.
<1>1. ASSUME subs' = AllClosed PROVE BridgeInv'
  BY <1>1, ClosedIsAtRest DEF AllClosed, NeverStranded, AtRest, Owes
<1>2. ASSUME UNCHANGED <<subs, scheduled>>, attached' = attached \/ attached' PROVE BridgeInv'
  BY <1>2 DEF NeverStranded, Owes
<1>3. CASE Attach
  BY <1>3, <1>2 DEF Attach
<1>4. CASE Detach
  BY <1>4, <1>1 DEF Detach
<1>5. CASE PeerDies \/ Regrant
  BY <1>5, <1>2 DEF PeerDies, Regrant
<1>6. CASE Emit
  <2>1. PICK e : /\ subs' = [s \in Subs |-> IF s \in {x \in Subs : IsOpen(x)} THEN Deliver(subs[s], e) ELSE subs[s]]
                 /\ scheduled' = (scheduled \/ \E s \in {x \in Subs : IsOpen(x)} :
                                                 ~subs[s].closing /\ Wanted(subs[s], e))
    BY <1>6 DEF Emit
  <2>2. ASSUME NEW s \in Subs
        PROVE  /\ Shaped(subs'[s])
               /\ scheduled' \/ subs'[s] = subs[s]
    <3>1. CASE ~IsOpen(s)
      BY <2>1, <2>2, <3>1
    <3>2. CASE IsOpen(s)
      <4>1. subs'[s] = Deliver(subs[s], e)
        BY <2>1, <2>2, <3>2
      <4>2. subs[s].closing => scheduled'
        BY <2>1, <2>2 DEF NeverStranded
      <4>3. ~subs[s].closing /\ Wanted(subs[s], e) => scheduled'
        BY <2>1, <2>2, <3>2
      <4>4. QED
        BY <2>2, <4>1, <4>2, <4>3, DeliverKeeps
    <3>3. QED
      BY <3>1, <3>2
  <2>3. NeverStranded'
    BY <2>1, <2>2 DEF NeverStranded, Owes
  <2>4. ~attached' => subs' = AllClosed
    <3>1. SUFFICES ASSUME ~attached PROVE subs' = AllClosed
      BY <1>6 DEF Emit
    <3>2. \A s \in Subs : subs[s] = Closed /\ ~IsOpen(s)
      BY <3>1 DEF AllClosed, IsOpen, Closed
    <3>3. QED
      BY <2>1, <3>2 DEF AllClosed
  <2>5. QED
    BY <2>1, <2>2, <2>3, <2>4
<1>7. CASE Flush
  <2>1. CASE ~attached
    BY <1>7, <2>1, <1>1 DEF Flush
  <2>2. CASE attached /\ FlushRevoked
    BY <2>2, <1>1 DEF FlushRevoked
  <2>3. CASE attached /\ FlushGranted
    <3>1. PICK fits : /\ subs' = [s \in Subs |-> IF IsOpen(s) THEN Emitted(Kept(subs[s]), fits[s]) ELSE Closed]
                      /\ scheduled' = \E s \in Subs : Owes(subs'[s])
      BY <2>3 DEF FlushGranted
    <3>2. ASSUME NEW s \in Subs
          PROVE  Shaped(subs'[s]) /\ ~(subs'[s].lost > 0) /\ ~subs'[s].closing
      BY <3>1, <3>2, KeptKeeps, EmittedHasTold, ClosedIsAtRest DEF AtRest
    <3>3. NeverStranded'
      BY <3>1, <3>2 DEF NeverStranded, Owes
    <3>4. QED
      BY <1>7, <2>3, <3>1, <3>2, <3>3 DEF Flush
  <2>4. QED
    BY <1>7, <2>1, <2>2, <2>3 DEF Flush
<1>8. ASSUME NEW s \in Subs, Subscribe(s) PROVE BridgeInv'
  <2>1. CASE UNCHANGED subs
    BY <1>8, <2>1, <1>2 DEF Subscribe
  <2>2. ASSUME NEW p, NEW w, subs' = [subs EXCEPT ![s] = Opened(p, w)] PROVE BridgeInv'
    <3>1. Shaped(subs'[s]) /\ AtRest(subs'[s]) /\ DOMAIN subs' = Subs
      BY <2>2, OpenedIsAtRest
    <3>2. \A x \in Subs \ {s} : subs'[x] = subs[x]
      BY <2>2
    <3>3. NeverStranded'
      BY <1>8, <3>1, <3>2 DEF Subscribe, NeverStranded, AtRest, Owes
    <3>4. QED
      BY <1>8, <3>1, <3>2, <3>3 DEF Subscribe
  <2>3. QED
    BY <1>8, <2>1, <2>2 DEF Subscribe
<1>9. ASSUME NEW s \in Subs, Unsubscribe(s) PROVE BridgeInv'
  <2>1. subs' = [subs EXCEPT ![s] = Closed] /\ attached /\ attached' = attached /\ scheduled' = scheduled
    BY <1>9 DEF Unsubscribe
  <2>2. Shaped(subs'[s]) /\ AtRest(subs'[s]) /\ DOMAIN subs' = Subs
    BY <2>1, ClosedIsAtRest
  <2>3. \A x \in Subs \ {s} : subs'[x] = subs[x]
    BY <2>1
  <2>4. QED
    BY <2>1, <2>2, <2>3 DEF NeverStranded, AtRest, Owes
<1>10. ASSUME NEW s \in Subs, Credit(s) PROVE BridgeInv'
  <2>1. PICK k : subs' = [subs EXCEPT ![s].outstanding = IF @ > k THEN @ - k ELSE 0]
    BY <1>10 DEF Credit
  <2>2. DOMAIN subs' = Subs /\ \A x \in Subs : Shaped(subs'[x])
    BY <2>1 DEF Shaped, Fields
  <2>3. QED
    BY <1>10, <2>2 DEF Credit, NeverStranded
<1>11. CASE UNCHANGED bridgeVars
  BY <1>11, <1>2 DEF bridgeVars
<1>12. QED
  BY <1>3, <1>4, <1>5, <1>6, <1>7, <1>8, <1>9, <1>10, <1>11 DEF BridgeNext

\* The inductive invariant of the bridge.
THEOREM BridgeInvariant == BridgeSpec => []BridgeInv
BY InitHolds, StepKeeps, PTL DEF BridgeSpec

\* No interleaving of bursts, partial batches, credit, refused frames and re-grants strands
\* a queue, or a loss, until the next event happens to arrive (events-bridge.ts:820).
THEOREM NothingIsStranded == BridgeSpec => []NeverStranded
<1>1. BridgeInv => NeverStranded
  BY DEF BridgeInv
<1>2. QED
  BY <1>1, BridgeInvariant, PTL

-----------------------------------------------------------------------------
(***************************************************************************)
(* The queue is the one of the protocol. First, what a filter and a search *)
(* by halves return: both by the least element of a set of numbers, in     *)
(* place of an induction.                                                  *)
(***************************************************************************)
LEMMA Counting ==
  ASSUME NEW n \in Nat, NEW S, 0 \in S, \A i \in 1 .. n : i - 1 \in S => i \in S
  PROVE  0 .. n \subseteq S
<1> DEFINE R == {ss \in Nat \X Nat : ss[1] < ss[2]}
           T == (0 .. n) \ S
<1> SUFFICES ASSUME T # {}
             PROVE  FALSE
  OBVIOUS
<1>1. IsWellFoundedOn(R, Nat) /\ T \subseteq Nat
  BY NatLessThanWellFounded DEF OpToRel
<1>2. PICK x \in T : \A y \in T : <<y, x>> \notin R
  BY <1>1, WFMin
<1>3. x \in 1 .. n /\ x - 1 \in 0 .. n /\ x \in Nat /\ x - 1 \in Nat /\ x - 1 < x
  BY <1>2
<1>4. x - 1 \in S
  <2>1. x - 1 \in T => <<x - 1, x>> \notin R
    BY <1>2
  <2>2. <<x - 1, x>> \in R
    BY <1>3
  <2>3. QED
    BY <1>3, <2>1, <2>2
<1>5. QED
  BY <1>2, <1>3, <1>4

\* No two events of a queue have the same key.
Distinct(q) == \A a, b \in 1 .. Len(q) : q[a].key = q[b].key /\ q[a].key # "none" => a = b

\* f filters q step by step, as far as m.
Filters(f, q, g, m) ==
  /\ f = [i \in 0 .. m |-> f[i]]
  /\ f[0] = <<>>
  /\ \A i \in 1 .. m : f[i] = IF q[i].topic \in g THEN Append(f[i - 1], q[i]) ELSE f[i - 1]

LEMMA FilterExists ==
  ASSUME NEW n \in Nat, NEW q, NEW g
  PROVE  \E f : Filters(f, q, g, n)
<1> DEFINE S == {m \in 0 .. n : \E f : Filters(f, q, g, m)}
<1>1. 0 \in S
  <2> DEFINE f == [i \in 0 .. 0 |-> <<>>]
  <2>1. Filters(f, q, g, 0)
    BY DEF Filters
  <2>2. QED
    BY <2>1
<1>2. ASSUME NEW m \in 1 .. n, m - 1 \in S
      PROVE  m \in S
  <2>1. PICK f : Filters(f, q, g, m - 1)
    BY <1>2
  <2> DEFINE last == IF q[m].topic \in g THEN Append(f[m - 1], q[m]) ELSE f[m - 1]
             h == [i \in 0 .. m |-> IF i = m THEN last ELSE f[i]]
  <2>2. /\ h = [i \in 0 .. m |-> h[i]]
        /\ h[m] = last /\ \A i \in 0 .. m - 1 : h[i] = f[i]
    OBVIOUS
  <2>3. h[0] = <<>>
    BY <2>1 DEF Filters
  <2>4. \A i \in 1 .. m - 1 : f[i] = IF q[i].topic \in g THEN Append(f[i - 1], q[i]) ELSE f[i - 1]
    BY <2>1 DEF Filters
  <2> HIDE DEF h
  <2>a. \A i \in 1 .. m : i - 1 \in 0 .. m - 1 /\ (i # m => i \in 1 .. m - 1 /\ i \in 0 .. m - 1)
    OBVIOUS
  <2>5. \A i \in 1 .. m : h[i] = IF q[i].topic \in g THEN Append(h[i - 1], q[i]) ELSE h[i - 1]
    <3> TAKE i \in 1 .. m
    <3>1. CASE i = m
      <4>1. h[i - 1] = f[m - 1]
        BY <2>2, <2>a, <3>1
      <4>2. QED
        BY <2>2, <3>1, <4>1
    <3>2. CASE i # m
      <4>1. i \in 1 .. m - 1 /\ h[i] = f[i] /\ h[i - 1] = f[i - 1]
        BY <2>2, <2>a, <3>2
      <4>2. QED
        BY <2>4, <4>1
    <3>3. QED
      BY <3>1, <3>2
  <2>6. Filters(h, q, g, m)
    BY <2>2, <2>3, <2>5 DEF Filters
  <2>7. QED
    BY <2>6
<1> HIDE DEF S
<1>3. 0 .. n \subseteq S
  BY <1>1, <1>2, Counting
<1>4. QED
  BY <1>3 DEF S

LEMMA ReadableFilters ==
  ASSUME NEW q, Len(q) \in Nat, NEW g
  PROVE  \E f : Filters(f, q, g, Len(q)) /\ Feed!Readable(q, g) = f[Len(q)]
<1> DEFINE Rec(f) == f = [i \in 0 .. Len(q) |->
                           IF i = 0 THEN <<>>
                           ELSE IF q[i].topic \in g THEN Append(f[i - 1], q[i]) ELSE f[i - 1]]
           upTo == CHOOSE f : Rec(f)
<1>1. Feed!Readable(q, g) = upTo[Len(q)]
  BY DEF Feed!Readable
<1>2. \E f : Rec(f)
  <2>1. PICK f : Filters(f, q, g, Len(q))
    BY FilterExists
  <2>2. Rec(f)
    <3>1. f = [i \in 0 .. Len(q) |-> f[i]]
      BY <2>1 DEF Filters
    <3>2. \A i \in 0 .. Len(q) : f[i] = IF i = 0 THEN <<>>
            ELSE IF q[i].topic \in g THEN Append(f[i - 1], q[i]) ELSE f[i - 1]
      <4>1. \A i \in 0 .. Len(q) : i = 0 \/ i \in 1 .. Len(q)
        OBVIOUS
      <4>2. f[0] = <<>> /\ \A i \in 1 .. Len(q) :
              f[i] = IF q[i].topic \in g THEN Append(f[i - 1], q[i]) ELSE f[i - 1]
        BY <2>1 DEF Filters
      <4>3. \A i \in 1 .. Len(q) : i # 0
        OBVIOUS
      <4>4. QED
        BY <4>1, <4>2, <4>3
    <3>3. [i \in 0 .. Len(q) |-> f[i]] = [i \in 0 .. Len(q) |->
            IF i = 0 THEN <<>>
            ELSE IF q[i].topic \in g THEN Append(f[i - 1], q[i]) ELSE f[i - 1]]
      BY <3>2
    <3>4. QED
      BY <3>1, <3>3
  <2>3. QED
    BY <2>2
<1>3. Rec(upTo)
  <2> HIDE DEF Rec
  <2>1. QED
    BY <1>2
<1> HIDE DEF upTo
<1>4. Filters(upTo, q, g, Len(q))
  <2>1. \A i \in 0 .. Len(q) : upTo[i] = IF i = 0 THEN <<>>
          ELSE IF q[i].topic \in g THEN Append(upTo[i - 1], q[i]) ELSE upTo[i - 1]
    BY <1>3
  <2>2. upTo = [i \in 0 .. Len(q) |-> upTo[i]]
    BY <1>3
  <2>3. QED
    BY <2>1, <2>2 DEF Filters
<1>5. QED
  BY <1>1, <1>4

\* t is what a filter leaves of the first i events of q.
Prefix(E, t, q, g, i) ==
  /\ t \in Seq(E) /\ Len(t) <= i
  /\ \A a \in 1 .. Len(t) : t[a].topic \in g /\ \E x \in 1 .. i : t[a] = q[x]
  /\ Distinct(q) => Distinct(t)
  /\ Len(t) = i => \A a \in 1 .. i : t[a] = q[a]
  /\ (\A x \in 1 .. i : q[x].topic \in g) => Len(t) = i

LEMMA PrefixGrows ==
  ASSUME NEW E, NEW q \in Seq(E), NEW g, NEW i \in 1 .. Len(q), NEW p, Prefix(E, p, q, g, i - 1),
         q[i].topic \in g
  PROVE  Prefix(E, Append(p, q[i]), q, g, i)
<1> DEFINE t == Append(p, q[i])
<1>1. /\ p \in Seq(E) /\ Len(p) <= i - 1 /\ Len(p) \in Nat /\ i \in Nat /\ q[i] \in E
      /\ \A a \in 1 .. Len(p) : p[a].topic \in g /\ \E x \in 1 .. i - 1 : p[a] = q[x]
      /\ Distinct(q) => Distinct(p)
      /\ Len(p) = i - 1 => \A a \in 1 .. i - 1 : p[a] = q[a]
      /\ (\A x \in 1 .. i - 1 : q[x].topic \in g) => Len(p) = i - 1
  BY DEF Prefix
<1>2. /\ t \in Seq(E) /\ Len(t) = Len(p) + 1 /\ t[Len(p) + 1] = q[i]
      /\ \A a \in 1 .. Len(p) : t[a] = p[a]
  BY <1>1
<1>3. \A a \in 1 .. Len(t) : a \in 1 .. Len(p) \/ a = Len(p) + 1
  BY <1>1, <1>2
<1> HIDE DEF t
<1>4. \A a \in 1 .. Len(t) : t[a].topic \in g /\ \E x \in 1 .. i : t[a] = q[x]
  <2> TAKE a \in 1 .. Len(t)
  <2>1. CASE a \in 1 .. Len(p)
    <3>1. \A x \in 1 .. i - 1 : x \in 1 .. i
      BY <1>1
    <3>2. QED
      BY <1>1, <1>2, <2>1, <3>1, SMTT(30)
  <2>2. CASE a = Len(p) + 1
    <3>1. i \in 1 .. i
      BY <1>1
    <3>2. QED
      BY <1>2, <2>2, <3>1
  <2>3. QED
    BY <1>3, <2>1, <2>2
<1>5. Distinct(q) => Distinct(t)
  <2> SUFFICES ASSUME Distinct(q), NEW a \in 1 .. Len(t), NEW b \in 1 .. Len(t),
                      t[a].key = t[b].key, t[a].key # "none"
               PROVE  a = b
    BY DEF Distinct
  <2>1. ASSUME NEW c \in 1 .. Len(p)
        PROVE  t[c].key = q[i].key => t[c].key = "none"
    <3>1. PICK x \in 1 .. i - 1 : t[c] = q[x]
      <4>1. t[c] = p[c]
        BY <1>2
      <4>2. \E x \in 1 .. i - 1 : p[c] = q[x]
        BY <1>1
      <4>3. QED
        BY <4>1, <4>2
    <3>2. x \in 1 .. Len(q) /\ x # i
      BY <3>1
    <3>3. QED
      BY <3>1, <3>2 DEF Distinct
  <2>2. CASE a \in 1 .. Len(p) /\ b \in 1 .. Len(p)
    BY <1>1, <1>2, <2>2 DEF Distinct
  <2>3. CASE a = Len(p) + 1 /\ b = Len(p) + 1
    BY <2>3
  <2>4. CASE a \in 1 .. Len(p) /\ b = Len(p) + 1
    BY <1>2, <2>1, <2>4
  <2>5. CASE a = Len(p) + 1 /\ b \in 1 .. Len(p)
    BY <1>2, <2>1, <2>5
  <2>6. QED
    BY <1>3, <2>2, <2>3, <2>4, <2>5
<1>6. Len(t) = i => \A a \in 1 .. i : t[a] = q[a]
  BY <1>1, <1>2, <1>3
<1>7. (\A x \in 1 .. i : q[x].topic \in g) => Len(t) = i
  BY <1>1, <1>2
<1>8. Len(t) <= i
  BY <1>1, <1>2
<1>9. QED
  BY <1>2, <1>4, <1>5, <1>6, <1>7, <1>8 DEF Prefix, t

LEMMA PrefixStays ==
  ASSUME NEW E, NEW q \in Seq(E), NEW g, NEW i \in 1 .. Len(q), NEW p, Prefix(E, p, q, g, i - 1),
         q[i].topic \notin g
  PROVE  Prefix(E, p, q, g, i)
<1>1. /\ p \in Seq(E) /\ Len(p) <= i - 1 /\ Len(p) \in Nat /\ i \in Nat
      /\ \A a \in 1 .. Len(p) : p[a].topic \in g /\ \E x \in 1 .. i - 1 : p[a] = q[x]
      /\ Distinct(q) => Distinct(p)
  BY DEF Prefix
<1>2. \A x \in 1 .. i - 1 : x \in 1 .. i
  BY <1>1
<1>3. \A a \in 1 .. Len(p) : p[a].topic \in g /\ \E x \in 1 .. i : p[a] = q[x]
  BY <1>1, <1>2
<1>4. Len(p) <= i /\ Len(p) # i /\ i \in 1 .. i
  BY <1>1
<1>5. QED
  BY <1>1, <1>3, <1>4 DEF Prefix

\* What a filter leaves of a queue.
LEMMA ReadableIs ==
  ASSUME NEW E, NEW q \in Seq(E), NEW g
  PROVE  /\ Prefix(E, Feed!Readable(q, g), q, g, Len(q))
         /\ Len(Feed!Readable(q, g)) = Len(q) => Feed!Readable(q, g) = q
         /\ (\A x \in 1 .. Len(q) : q[x].topic \in g) => Feed!Readable(q, g) = q
<1>1. PICK f : Filters(f, q, g, Len(q)) /\ Feed!Readable(q, g) = f[Len(q)]
  BY ReadableFilters
<1> DEFINE S == {i \in 0 .. Len(q) : Prefix(E, f[i], q, g, i)}
<1>2. f[0] = <<>> /\ \A i \in 1 .. Len(q) : f[i] = IF q[i].topic \in g THEN Append(f[i - 1], q[i]) ELSE f[i - 1]
  BY <1>1 DEF Filters
<1>3. 0 \in S
  <2>1. Prefix(E, <<>>, q, g, 0)
    BY DEF Prefix, Distinct
  <2>2. QED
    BY <1>2, <2>1
<1>4. ASSUME NEW i \in 1 .. Len(q), i - 1 \in S
      PROVE  i \in S
  <2>1. Prefix(E, f[i - 1], q, g, i - 1) /\ i \in 0 .. Len(q)
    BY <1>4
  <2>2. Prefix(E, f[i], q, g, i)
    BY <1>2, <2>1, PrefixGrows, PrefixStays
  <2>3. QED
    BY <2>1, <2>2
<1>5. Len(q) \in S
  <2> HIDE DEF S
  <2>1. Len(q) \in Nat
    OBVIOUS
  <2>2. 0 .. Len(q) \subseteq S
    BY <1>3, <1>4, <2>1, Counting
  <2>3. QED
    BY <2>1, <2>2
<1>6. Prefix(E, f[Len(q)], q, g, Len(q))
  BY <1>5
<1>7. \A s, t \in Seq(E) : Len(s) = Len(t) /\ (\A a \in 1 .. Len(t) : s[a] = t[a]) => s = t
  OBVIOUS
<1>8. QED
  BY <1>1, <1>6, <1>7 DEF Prefix

LEMMA Greatest ==
  ASSUME NEW K \in Nat, NEW S, S \subseteq 0 .. K, S # {}
  PROVE  Max(S) \in S
<1> DEFINE R == {ss \in Nat \X Nat : ss[1] < ss[2]}
           T == {K - x : x \in S}
<1>1. T \subseteq Nat /\ T # {}
  <2>1. \A x \in S : K - x \in Nat
    OBVIOUS
  <2>2. QED
    BY <2>1
<1>2. IsWellFoundedOn(R, Nat)
  BY NatLessThanWellFounded DEF OpToRel
<1>3. PICK t \in T : \A u \in T : <<u, t>> \notin R
  BY <1>1, <1>2, WFMin
<1>4. PICK x \in S : t = K - x
  BY <1>3
<1>5. \A y \in S : x >= y
  <2> TAKE y \in S
  <2>1. K - y \in T /\ <<K - y, t>> \notin R
    BY <1>3
  <2>2. t \in Nat /\ K - y \in Nat
    BY <1>1, <1>3, <2>1
  <2>3. ~(K - y < t)
    BY <2>1, <2>2
  <2>4. QED
    BY <1>4, <2>3
<1>6. QED
  BY <1>5 DEF Max

LEMMA HalvedIs ==
  ASSUME NEW n \in Int, NEW fits \in Nat
  PROVE  Halved(n, fits) \in Nat /\ (Halved(n, fits) = 0 \/ Halved(n, fits) <= n)
<1> DEFINE S == {0} \cup {m \in 1 .. Least(n, fits) : \E k \in 0 .. n : m = n \div 2 ^ k}
<1>1. S # {} /\ S \subseteq 0 .. fits /\ \A m \in S : m = 0 \/ m <= n
  BY DEF Least
<1>2. Halved(n, fits) = Max(S)
  BY DEF Halved
<1> HIDE DEF S
<1>3. Max(S) \in S
  BY <1>1, Greatest
<1>4. \A m \in S : m \in Nat /\ (m = 0 \/ m <= n)
  BY <1>1
<1>5. QED
  BY <1>2, <1>3, <1>4
-----------------------------------------------------------------------------
(* The queue: an array, its dead prefix and the index of keys, and what is pending in it. *)

Happenings == [n : 1 .. MaxEvents, topic : Topics, key : Keys \cup {"none"}]
Policies == {f.policy : f \in Frames}
Registrations ==
  [policy : {{}} \cup {{p} : p \in Policies}, wants : SUBSET Topics, items : Seq(Happenings),
   head : Nat, slots : [Keys -> Nat], outstanding : Nat, lost : Nat, closing : BOOLEAN]

Indexed(r) ==
  Coalesces(r) =>
    \A k \in Keys :
      /\ \A i \in r.head + 1 .. Len(r.items) : r.items[i].key = k => r.slots[k] = i
      /\ r.slots[k] > r.head => r.slots[k] <= Len(r.items) /\ r.items[r.slots[k]].key = k

Sound(r) == r \in Registrations /\ r.head <= Len(r.items) /\ Indexed(r)

\* Only the queue is another one.
Alike(r, t) ==
  /\ t.policy = r.policy /\ t.wants = r.wants /\ t.outstanding = r.outstanding
  /\ t.lost = r.lost /\ t.closing = r.closing

LEMMA PolicyIs ==
  \A p \in Policies : /\ p.credits \in Nat \ {0} /\ p.maxBatch \in Nat \ {0}
                      /\ p.overflow \in {"coalesce", "drop-oldest", "drop-newest", "disconnect"}
BY BridgeAssumption DEF Policies

LEMMA PendingIs ==
  ASSUME NEW r, Sound(r)
  PROVE  /\ Pending(r) \in Seq(Happenings) /\ Len(Pending(r)) = Size(r) /\ Size(r) \in Nat
         /\ \A i \in 1 .. Size(r) : Pending(r)[i] = r.items[r.head + i]
         /\ Size(r) = Len(r.items) - r.head
<1>1. r.items \in Seq(Happenings) /\ r.head \in 0 .. Len(r.items)
  BY DEF Sound, Registrations
<1>2. QED
  BY <1>1, SMTT(30) DEF Pending, Size

LEMMA PendingDistinct ==
  ASSUME NEW r, Sound(r), Coalesces(r)
  PROVE  Distinct(Pending(r))
<1> SUFFICES ASSUME NEW a \in 1 .. Size(r), NEW b \in 1 .. Size(r),
                    Pending(r)[a].key = Pending(r)[b].key, Pending(r)[a].key # "none"
             PROVE  a = b
  BY PendingIs DEF Distinct
<1>1. /\ r.items \in Seq(Happenings) /\ r.head \in 0 .. Len(r.items) /\ Size(r) = Len(r.items) - r.head
      /\ Pending(r)[a] = r.items[r.head + a] /\ Pending(r)[b] = r.items[r.head + b]
  <2>1. r \in Registrations /\ r.head <= Len(r.items)
    BY DEF Sound
  <2>2. r.items \in Seq(Happenings) /\ r.head \in 0 .. Len(r.items)
    BY <2>1 DEF Registrations
  <2>3. QED
    BY <2>2, PendingIs, Zenon
<1>2. /\ r.head + a \in r.head + 1 .. Len(r.items) /\ r.head + b \in r.head + 1 .. Len(r.items)
      /\ r.head + a \in 1 .. Len(r.items)
  <2>1. r.head \in Nat /\ Len(r.items) \in Nat
    BY <1>1
  <2>2. /\ a \in Nat /\ 1 <= a /\ a <= Len(r.items) - r.head
        /\ b \in Nat /\ 1 <= b /\ b <= Len(r.items) - r.head
    BY <1>1, <2>1
  <2>3. QED
    BY <2>1, <2>2
<1>3. r.items[r.head + a].key \in Keys
  <2>1. r.items[r.head + a] \in Happenings
    BY <1>1, <1>2
  <2>2. QED
    BY <1>1, <2>1 DEF Happenings
<1>4. r.slots[r.items[r.head + a].key] = r.head + a /\ r.slots[r.items[r.head + a].key] = r.head + b
  BY <1>1, <1>2, <1>3 DEF Sound, Indexed
<1>5. QED
  BY <1>1, <1>4

LEMMA AnewIs ==
  ASSUME NEW r, Sound(r), NEW q \in Seq(Happenings), Coalesces(r) => Distinct(q)
  PROVE  Sound(Anew(r, q)) /\ Pending(Anew(r, q)) = q /\ Alike(r, Anew(r, q))
<1> DEFINE t == Anew(r, q)
           at(k) == {i \in 1 .. Len(q) : KeyOf(r, q[i]) = k}
<1>1. r \in Registrations
  BY DEF Sound
<1>2. /\ t.items = q /\ t.head = 0 /\ t.slots = SlotsIn(r, q) /\ Alike(r, t)
      /\ Coalesces(t) = Coalesces(r)
  BY <1>1 DEF Anew, Alike, Registrations, Coalesces
<1>3. \A k \in Keys : SlotsIn(r, q)[k] = IF at(k) = {} THEN 0 ELSE CHOOSE i \in at(k) : \A j \in at(k) : j <= i
  BY DEF SlotsIn
<1>4. ASSUME NEW k \in Keys
      PROVE  /\ SlotsIn(r, q)[k] \in Nat
             /\ Coalesces(r) => /\ \A i \in 1 .. Len(q) : q[i].key = k => SlotsIn(r, q)[k] = i
                                /\ SlotsIn(r, q)[k] > 0 => /\ SlotsIn(r, q)[k] <= Len(q)
                                                           /\ q[SlotsIn(r, q)[k]].key = k
  <2>1. k # "none"
    BY BridgeAssumption
  <2>2. CASE at(k) = {}
    BY <1>3, <2>2, SMTT(30) DEF KeyOf
  <2>3. CASE at(k) # {}
    <3>1. PICK i \in 1 .. Len(q) : KeyOf(r, q[i]) = k
      BY <2>3
    <3>2. Coalesces(r) /\ q[i].key = k
      BY <2>1, <3>1 DEF KeyOf
    <3>3. \A j \in at(k) : j = i
      BY <2>1, <3>2 DEF KeyOf, Distinct
    <3>4. i \in at(k) /\ i \in Nat
      BY <3>1
    <3>a. at(k) = {i}
      BY <3>3, <3>4
    <3> HIDE DEF at
    <3>b. (CHOOSE x \in {i} : \A j \in {i} : j <= x) = i
      BY <3>4
    <3>5. SlotsIn(r, q)[k] = i
      BY <1>3, <3>a, <3>b
    <3>6. \A j \in 1 .. Len(q) : q[j].key = k => j = i
      BY <3>2, <3>3 DEF KeyOf, at
    <3>7. QED
      BY <3>1, <3>2, <3>5, <3>6
  <2>4. QED
    BY <2>2, <2>3
<1>5. t \in Registrations
  <2>1. SlotsIn(r, q) = [k \in Keys |-> SlotsIn(r, q)[k]]
    BY DEF SlotsIn
  <2>2. SlotsIn(r, q) \in [Keys -> Nat]
    BY <1>4, <2>1
  <2>3. QED
    BY <1>1, <2>2 DEF Anew, Registrations
<1>6. Indexed(t)
  BY <1>2, <1>4 DEF Indexed
<1>7. Sound(t)
  BY <1>2, <1>5, <1>6 DEF Sound
<1>8. Pending(t) = q
  BY <1>2 DEF Pending
<1>9. QED
  BY <1>2, <1>7, <1>8

LEMMA CompactIs ==
  ASSUME NEW r, Sound(r)
  PROVE  Sound(Compact(r)) /\ Pending(Compact(r)) = Pending(r) /\ Alike(r, Compact(r))
BY AnewIs, PendingIs, PendingDistinct DEF Compact, Alike

LEMMA SameQueue ==
  ASSUME NEW s \in Seq(Happenings), NEW t \in Seq(Happenings), Len(s) = Len(t),
         \A i \in 1 .. Len(t) : s[i] = t[i]
  PROVE  s = t
OBVIOUS

LEMMA CommitIs ==
  ASSUME NEW r, Sound(r), NEW n \in 0 .. Size(r)
  PROVE  /\ Sound(Commit(r, n)) /\ Alike(r, Commit(r, n))
         /\ Pending(Commit(r, n)) = SubSeq(Pending(r), n + 1, Size(r))
<1> DEFINE t == [r EXCEPT !.head = Least(Len(r.items), @ + n)]
<1>1. /\ r \in Registrations /\ r.head \in Nat /\ Len(r.items) \in Nat /\ r.items \in Seq(Happenings)
      /\ Size(r) = Len(r.items) - r.head /\ n \in Nat /\ n <= Size(r) /\ Size(r) \in Nat
  BY PendingIs DEF Sound, Registrations
<1>2. Least(Len(r.items), r.head + n) = r.head + n
  BY <1>1 DEF Least
<1>3. /\ t \in Registrations /\ t.head = r.head + n /\ t.items = r.items /\ t.slots = r.slots
      /\ Alike(r, t) /\ Coalesces(t) = Coalesces(r)
  <2> DEFINE u == [r EXCEPT !.head = r.head + n]
  <2>1. t = u
    BY <1>2
  <2>2. r.head + n \in Nat
    BY <1>1
  <2>3. u \in Registrations /\ u.head = r.head + n /\ u.items = r.items /\ u.slots = r.slots /\ u.policy = r.policy
    BY <1>1, <2>2 DEF Registrations
  <2>4. Alike(r, u)
    BY <1>1 DEF Registrations, Alike
  <2>5. QED
    BY <2>1, <2>3, <2>4 DEF Coalesces
<1> HIDE DEF t
<1>4. Sound(t)
  <2>1. t.head <= Len(t.items)
    BY <1>1, <1>3
  <2>2. \A i \in t.head + 1 .. Len(t.items) : i \in r.head + 1 .. Len(r.items)
    BY <1>1, <1>3
  <2>3. \A k \in Keys : r.slots[k] > t.head => r.slots[k] > r.head
    <3>1. \A k \in Keys : r.slots[k] \in Nat
      BY <1>1 DEF Registrations
    <3>2. QED
      BY <1>1, <1>3, <3>1
  <2>4. Indexed(t)
    BY <1>3, <2>2, <2>3 DEF Sound, Indexed
  <2>5. QED
    BY <1>3, <2>1, <2>4 DEF Sound
<1>5. Pending(t) = SubSeq(Pending(r), n + 1, Size(r))
  <2>1. /\ Pending(t) \in Seq(Happenings) /\ Len(Pending(t)) = Len(r.items) - (r.head + n)
        /\ \A i \in 1 .. Len(r.items) - (r.head + n) : Pending(t)[i] = r.items[r.head + n + i]
    BY <1>3, <1>4, PendingIs, SMTT(30)
  <2>2. /\ Pending(r) \in Seq(Happenings) /\ Len(Pending(r)) = Size(r)
        /\ \A i \in 1 .. Size(r) : Pending(r)[i] = r.items[r.head + i]
    BY PendingIs
  <2> DEFINE u == SubSeq(Pending(r), n + 1, Size(r))
  <2>3. /\ u \in Seq(Happenings) /\ Len(u) = Size(r) - n
        /\ \A i \in 1 .. Size(r) - n : u[i] = Pending(r)[n + i]
    BY <1>1, <2>2
  <2> HIDE DEF u
  <2>4. \A i \in 1 .. Size(r) - n : u[i] = Pending(t)[i]
    <3> TAKE i \in 1 .. Size(r) - n
    <3>1. n + i \in 1 .. Size(r) /\ i \in 1 .. Len(r.items) - (r.head + n)
      BY <1>1
    <3>2. r.head + n + i = r.head + (n + i)
      BY <1>1
    <3>3. QED
      BY <2>1, <2>2, <2>3, <3>1, <3>2
  <2>5. Len(Pending(t)) = Len(u)
    BY <1>1, <2>1, <2>3
  <2>6. Pending(t) = u
    BY <1>1, <2>1, <2>3, <2>4, <2>5, SameQueue
  <2>7. QED
    BY <2>6 DEF u
<1>6. Commit(r, n) = Compact(t)
  BY DEF Commit, t
<1>7. Sound(Compact(t)) /\ Pending(Compact(t)) = Pending(t) /\ Alike(t, Compact(t))
  BY <1>4, CompactIs
<1>8. QED
  BY <1>3, <1>5, <1>6, <1>7 DEF Alike

LEMMA DropOldestIs ==
  ASSUME NEW r, Sound(r), Size(r) > 0
  PROVE  /\ Sound(DropOldest(r)) /\ Alike(r, DropOldest(r))
         /\ Pending(DropOldest(r)) = Tail(Pending(r)) /\ Size(DropOldest(r)) = Size(r) - 1
<1>1. /\ 1 \in 0 .. Size(r) /\ Size(r) # 0 /\ Size(r) \in Nat
      /\ Pending(r) \in Seq(Happenings) /\ Len(Pending(r)) = Size(r)
  BY PendingIs
<1>2. DropOldest(r) = Commit(r, 1)
  BY <1>1 DEF DropOldest
<1>3. /\ Sound(Commit(r, 1)) /\ Alike(r, Commit(r, 1))
      /\ Pending(Commit(r, 1)) = SubSeq(Pending(r), 1 + 1, Size(r))
  BY <1>1, CommitIs
<1>4. SubSeq(Pending(r), 1 + 1, Size(r)) = Tail(Pending(r)) /\ Len(Tail(Pending(r))) = Size(r) - 1
  BY <1>1
<1>5. QED
  BY <1>2, <1>3, <1>4, PendingIs

\* A key is superseded exactly when it is pending, and then in its only place.
LEMMA SupersedesIs ==
  ASSUME NEW r, Sound(r), NEW e \in Happenings
  PROVE  /\ Supersedes(r, e) <=> /\ Coalesces(r) /\ e.key # "none"
                                 /\ \E i \in 1 .. Size(r) : Pending(r)[i].key = e.key
         /\ Supersedes(r, e) => /\ r.slots[e.key] - r.head \in 1 .. Size(r)
                                /\ \A i \in 1 .. Size(r) : Pending(r)[i].key = e.key => i = r.slots[e.key] - r.head
                                /\ Pending(r)[r.slots[e.key] - r.head].key = e.key
<1>1. /\ r.head \in Nat /\ Len(r.items) \in Nat /\ r.slots \in [Keys -> Nat]
      /\ Size(r) = Len(r.items) - r.head /\ r.head <= Len(r.items)
      /\ \A i \in 1 .. Size(r) : Pending(r)[i] = r.items[r.head + i]
  BY PendingIs, SMTT(30) DEF Sound, Registrations
<1>2. CASE ~Coalesces(r) \/ e.key = "none"
  BY <1>2 DEF Supersedes, KeyOf
<1>3. CASE Coalesces(r) /\ e.key # "none"
  <2>1. e.key \in Keys
    BY <1>3 DEF Happenings
  <2> DEFINE k == e.key
  <2>2. r.slots[k] \in Nat
    BY <1>1, <2>1
  <2>3. /\ \A i \in r.head + 1 .. Len(r.items) : r.items[i].key = k => r.slots[k] = i
        /\ r.slots[k] > r.head => r.slots[k] <= Len(r.items) /\ r.items[r.slots[k]].key = k
    BY <1>3, <2>1 DEF Sound, Indexed
  <2>4. Supersedes(r, e) <=> r.slots[k] > r.head
    BY <1>3 DEF Supersedes, KeyOf
  <2> HIDE DEF k
  <2>5. \A i \in 1 .. Size(r) : /\ r.head + i \in r.head + 1 .. Len(r.items)
                                /\ Pending(r)[i].key = k => r.slots[k] = r.head + i
    <3> TAKE i \in 1 .. Size(r)
    <3>1. r.head + i \in r.head + 1 .. Len(r.items)
      BY <1>1
    <3>2. QED
      BY <1>1, <2>3, <3>1
  <2>6. ASSUME r.slots[k] > r.head
        PROVE  /\ r.slots[k] - r.head \in 1 .. Size(r)
               /\ Pending(r)[r.slots[k] - r.head].key = k
    <3>1. r.slots[k] <= Len(r.items) /\ r.items[r.slots[k]].key = k
      BY <2>3, <2>6
    <3>2. r.slots[k] - r.head \in 1 .. Size(r) /\ r.head + (r.slots[k] - r.head) = r.slots[k]
      BY <1>1, <2>2, <2>6, <3>1
    <3>3. QED
      BY <1>1, <3>1, <3>2
  <2>7. \A i \in 1 .. Size(r) : Pending(r)[i].key = k => r.slots[k] > r.head /\ i = r.slots[k] - r.head
    BY <1>1, <2>2, <2>5
  <2>8. QED
    BY <1>3, <2>4, <2>6, <2>7 DEF k
<1>4. QED
  BY <1>2, <1>3

LEMMA SupersedeIs ==
  ASSUME NEW r, Sound(r), NEW e \in Happenings, Supersedes(r, e)
  PROVE  /\ Sound(Supersede(r, e)) /\ Alike(r, Supersede(r, e)) /\ Size(Supersede(r, e)) = Size(r)
         /\ Pending(Supersede(r, e)) = [Pending(r) EXCEPT ![r.slots[e.key] - r.head] = e]
<1> DEFINE x == r.slots[e.key]
           t == Supersede(r, e)
<1>1. /\ r \in Registrations /\ r.head \in Nat /\ Len(r.items) \in Nat /\ r.slots \in [Keys -> Nat]
      /\ Size(r) = Len(r.items) - r.head /\ r.head <= Len(r.items) /\ r.items \in Seq(Happenings)
      /\ Pending(r) \in Seq(Happenings) /\ Len(Pending(r)) = Size(r) /\ Size(r) \in Nat
      /\ \A i \in 1 .. Size(r) : Pending(r)[i] = r.items[r.head + i]
  BY PendingIs DEF Sound, Registrations
<1>2. /\ Coalesces(r) /\ e.key # "none" /\ x - r.head \in 1 .. Size(r)
      /\ Pending(r)[x - r.head].key = e.key
  BY SupersedesIs
<1>3. e.key \in Keys
  BY <1>2 DEF Happenings
<1>4. x \in Nat /\ x \in 1 .. Len(r.items) /\ x - r.head \in Nat
  BY <1>1, <1>2, <1>3
<1>5. r.items[x].key = e.key
  <2>1. r.head + (x - r.head) = x
    BY <1>1, <1>4
  <2>2. QED
    BY <1>1, <1>2, <2>1
<1>6. /\ t.items = [r.items EXCEPT ![x] = e] /\ t.head = r.head /\ t.slots = r.slots
      /\ Alike(r, t) /\ Coalesces(t) = Coalesces(r)
  BY <1>1 DEF Supersede, Registrations, Alike, Coalesces
<1>7. /\ t.items \in Seq(Happenings) /\ Len(t.items) = Len(r.items)
      /\ \A i \in 1 .. Len(r.items) : t.items[i] = IF i = x THEN e ELSE r.items[i]
  BY <1>1, <1>4, <1>6
<1>8. t \in Registrations
  BY <1>1, <1>6, <1>7 DEF Supersede, Registrations
<1> HIDE DEF x, t
<1>9. Sound(t)
  <2>1. \A i \in r.head + 1 .. Len(r.items) : i \in 1 .. Len(r.items) /\ t.items[i].key = r.items[i].key
    BY <1>1, <1>5, <1>7, SMTT(30)
  <2>2. ASSUME NEW k \in Keys, r.slots[k] > r.head, r.slots[k] <= Len(r.items)
        PROVE  t.items[r.slots[k]].key = r.items[r.slots[k]].key
    <3>1. r.slots[k] \in r.head + 1 .. Len(r.items)
      BY <1>1, <2>2
    <3>2. QED
      BY <2>1, <3>1
  <2>3. Indexed(t)
    BY <1>2, <1>6, <1>7, <2>1, <2>2 DEF Sound, Indexed
  <2>4. QED
    BY <1>1, <1>6, <1>7, <1>8, <2>3 DEF Sound
<1>10. Size(t) = Size(r)
  BY <1>6, <1>7 DEF Size
<1>11. Pending(t) = [Pending(r) EXCEPT ![x - r.head] = e]
  <2>1. /\ Pending(t) \in Seq(Happenings) /\ Len(Pending(t)) = Size(r)
        /\ \A i \in 1 .. Size(r) : Pending(t)[i] = t.items[r.head + i]
    <3>1. /\ Pending(t) \in Seq(Happenings) /\ Len(Pending(t)) = Size(t)
          /\ \A i \in 1 .. Size(t) : Pending(t)[i] = t.items[t.head + i]
      BY <1>9, PendingIs
    <3>2. QED
      BY <1>6, <1>10, <3>1
  <2> DEFINE u == [Pending(r) EXCEPT ![x - r.head] = e]
  <2>2. /\ u \in Seq(Happenings) /\ Len(u) = Size(r)
        /\ \A i \in 1 .. Size(r) : u[i] = IF i = x - r.head THEN e ELSE Pending(r)[i]
    BY <1>1, <1>2
  <2> HIDE DEF u
  <2>3. \A i \in 1 .. Size(r) : u[i] = Pending(t)[i]
    <3> TAKE i \in 1 .. Size(r)
    <3>1. r.head + i \in 1 .. Len(r.items) /\ (r.head + i = x <=> i = x - r.head)
      BY <1>1, <1>4
    <3>2. QED
      BY <1>1, <1>7, <2>1, <2>2, <3>1
  <2>4. Pending(t) = u
    BY <2>1, <2>2, <2>3, SameQueue
  <2>5. QED
    BY <2>4 DEF u
<1>12. QED
  BY <1>6, <1>9, <1>10, <1>11 DEF x, t

LEMMA PushIs ==
  ASSUME NEW r, Sound(r), NEW e \in Happenings, ~Supersedes(r, e)
  PROVE  /\ Sound(Push(r, e)) /\ Alike(r, Push(r, e)) /\ Size(Push(r, e)) = Size(r) + 1
         /\ Pending(Push(r, e)) = Append(Pending(r), e)
<1> DEFINE t == Push(r, e)
           keyed == KeyOf(r, e) # "none"
<1>1. /\ r \in Registrations /\ r.head \in Nat /\ Len(r.items) \in Nat /\ r.slots \in [Keys -> Nat]
      /\ Size(r) = Len(r.items) - r.head /\ r.head <= Len(r.items) /\ r.items \in Seq(Happenings)
      /\ Pending(r) \in Seq(Happenings) /\ Len(Pending(r)) = Size(r) /\ Size(r) \in Nat
      /\ \A i \in 1 .. Size(r) : Pending(r)[i] = r.items[r.head + i]
  BY PendingIs DEF Sound, Registrations
<1>2. keyed => e.key \in Keys /\ Coalesces(r)
  BY DEF KeyOf, Happenings
<1>3. /\ t.items = Append(r.items, e) /\ t.head = r.head
      /\ t.slots = IF keyed THEN [r.slots EXCEPT ![e.key] = Len(r.items) + 1] ELSE r.slots
      /\ Alike(r, t) /\ Coalesces(t) = Coalesces(r)
  BY <1>1 DEF Push, Registrations, Alike, Coalesces
<1>4. /\ t.items \in Seq(Happenings) /\ Len(t.items) = Len(r.items) + 1
      /\ t.items[Len(r.items) + 1] = e
      /\ \A i \in 1 .. Len(r.items) : t.items[i] = r.items[i]
  BY <1>1, <1>3
<1>5. t.slots \in [Keys -> Nat]
  <2>1. CASE keyed
    <3>1. Len(r.items) + 1 \in Nat /\ e.key \in Keys
      BY <1>1, <1>2, <2>1
    <3>2. QED
      BY <1>1, <1>3, <2>1, <3>1
  <2>2. CASE ~keyed
    BY <1>1, <1>3, <2>2
  <2>3. QED
    BY <2>1, <2>2
<1>6. t \in Registrations
  BY <1>1, <1>4, <1>5 DEF Push, Registrations
<1> HIDE DEF t
<1>7. Indexed(t)
  <2> SUFFICES ASSUME Coalesces(r), NEW k \in Keys
               PROVE  /\ \A i \in r.head + 1 .. Len(r.items) + 1 : t.items[i].key = k => t.slots[k] = i
                      /\ t.slots[k] > r.head =>
                           t.slots[k] <= Len(r.items) + 1 /\ t.items[t.slots[k]].key = k
    BY <1>3, <1>4, ZenonT(60) DEF Indexed
  <2>1. /\ \A i \in r.head + 1 .. Len(r.items) : r.items[i].key = k => r.slots[k] = i
        /\ r.slots[k] > r.head => r.slots[k] <= Len(r.items) /\ r.items[r.slots[k]].key = k
    BY DEF Sound, Indexed
  <2>2. k # "none" /\ KeyOf(r, e) = e.key /\ r.slots[k] \in Nat
    BY <1>1, BridgeAssumption DEF KeyOf
  <2>3. \A i \in r.head + 1 .. Len(r.items) + 1 :
          i = Len(r.items) + 1 \/ (i \in r.head + 1 .. Len(r.items) /\ i \in 1 .. Len(r.items))
    BY <1>1
  <2>4. CASE e.key = k
    <3>1. t.slots[k] = Len(r.items) + 1
      BY <1>1, <1>3, <2>2, <2>4
    <3>2. ~(r.slots[k] > r.head)
      BY <2>2, <2>4 DEF Supersedes
    <3>3. \A i \in r.head + 1 .. Len(r.items) : r.items[i].key # k
      BY <1>1, <2>1, <2>2, <3>2
    <3>4. \A i \in r.head + 1 .. Len(r.items) + 1 : t.items[i].key = k => t.slots[k] = i
      BY <1>4, <2>3, <3>1, <3>3
    <3>5. t.slots[k] <= Len(r.items) + 1 /\ t.items[t.slots[k]].key = k
      BY <1>1, <1>4, <2>4, <3>1
    <3>6. QED
      BY <3>4, <3>5
  <2>5. CASE e.key # k
    <3>1. t.slots[k] = r.slots[k]
      BY <1>1, <1>3, <2>5
    <3>2. \A i \in r.head + 1 .. Len(r.items) + 1 : t.items[i].key = k => t.slots[k] = i
      BY <1>4, <2>1, <2>3, <2>5, <3>1
    <3>3. ASSUME r.slots[k] > r.head
          PROVE  r.slots[k] <= Len(r.items) + 1 /\ t.items[r.slots[k]].key = k
      <4>1. r.slots[k] <= Len(r.items) /\ r.items[r.slots[k]].key = k
        BY <2>1, <3>3
      <4>2. r.slots[k] \in 1 .. Len(r.items) /\ r.slots[k] <= Len(r.items) + 1
        BY <1>1, <2>2, <3>3, <4>1
      <4>3. QED
        BY <1>4, <4>1, <4>2
    <3>4. QED
      BY <3>1, <3>2, <3>3
  <2>6. QED
    BY <2>4, <2>5
<1>8. Sound(t) /\ Size(t) = Size(r) + 1
  BY <1>1, <1>3, <1>4, <1>6, <1>7 DEF Sound, Size
<1>9. Pending(t) = Append(Pending(r), e)
  <2>1. /\ Pending(t) \in Seq(Happenings) /\ Len(Pending(t)) = Size(r) + 1
        /\ \A i \in 1 .. Size(r) + 1 : Pending(t)[i] = t.items[r.head + i]
    <3>1. /\ Pending(t) \in Seq(Happenings) /\ Len(Pending(t)) = Size(t)
          /\ \A i \in 1 .. Size(t) : Pending(t)[i] = t.items[t.head + i]
      BY <1>8, PendingIs
    <3>2. QED
      BY <1>3, <1>8, <3>1
  <2> DEFINE u == Append(Pending(r), e)
  <2>2. /\ u \in Seq(Happenings) /\ Len(u) = Size(r) + 1 /\ u[Size(r) + 1] = e
        /\ \A i \in 1 .. Size(r) : u[i] = Pending(r)[i]
    BY <1>1
  <2> HIDE DEF u
  <2>3. ASSUME NEW i \in 1 .. Size(r) + 1
        PROVE  u[i] = Pending(t)[i]
    <3>1. CASE i = Size(r) + 1
      <4>1. r.head + i = Len(r.items) + 1
        BY <1>1, <3>1
      <4>2. QED
        BY <1>4, <2>1, <2>2, <3>1, <4>1
    <3>2. CASE i # Size(r) + 1
      <4>1. i \in 1 .. Size(r) /\ r.head + i \in 1 .. Len(r.items)
        BY <1>1, <3>2, SMTT(30)
      <4>2. QED
        BY <1>1, <1>4, <2>1, <2>2, <4>1
    <3>3. QED
      BY <3>1, <3>2
  <2>4. Pending(t) = u
    BY <2>1, <2>2, <2>3, SameQueue
  <2>5. QED
    BY <2>4 DEF u
<1>10. QED
  BY <1>3, <1>8, <1>9 DEF t
-----------------------------------------------------------------------------
(* A registration: within its room, and closing only when it overflowed.   *)

InRoom(r) ==
  \A p \in r.policy : /\ Size(r) <= p.credits /\ r.outstanding <= p.credits
                      /\ r.closing => p.overflow = "disconnect" /\ Size(r) >= p.credits

Well(r) == Sound(r) /\ InRoom(r) /\ (r.policy = {} => r = Closed)

LEMMA ClosedIsWell == Well(Closed) /\ Pending(Closed) = <<>> /\ Size(Closed) = 0
<1>1. NoSlots \in [Keys -> Nat]
  BY DEF NoSlots
<1>2. Closed \in Registrations
  BY <1>1 DEF Closed, Registrations
<1>3. Size(Closed) = 0 /\ Pending(Closed) = <<>> /\ Closed.policy = {} /\ Closed.head <= Len(Closed.items)
  BY DEF Closed, Size, Pending
<1>4. QED
  BY <1>2, <1>3 DEF Well, InRoom, Sound, Indexed, Coalesces

LEMMA OpenedIsWell ==
  ASSUME NEW p \in Policies, NEW w \in SUBSET Topics, NEW d, d = Opened(p, w)
  PROVE  /\ Well(d) /\ Pending(d) = <<>> /\ Size(d) = 0
         /\ d.policy = {p} /\ d.lost = 0 /\ d.outstanding = 0
<1>1. NoSlots \in [Keys -> Nat]
  BY DEF NoSlots
<1>2. d = [policy |-> {p}, wants |-> w, items |-> <<>>, head |-> 0, slots |-> NoSlots,
           outstanding |-> 0, lost |-> 0, closing |-> FALSE]
  BY DEF Opened, Closed
<1>3. d \in Registrations
  BY <1>1, <1>2 DEF Registrations
<1>4. Size(d) = 0 /\ Pending(d) = <<>>
  BY <1>2 DEF Size, Pending
<1>5. Sound(d)
  <2>1. \A k \in Keys : d.slots[k] = 0
    BY <1>2 DEF NoSlots
  <2>2. d.head = 0 /\ d.items = <<>>
    BY <1>2
  <2>3. QED
    BY <1>3, <2>1, <2>2 DEF Sound, Indexed
<1>6. InRoom(d)
  BY <1>2, <1>4, PolicyIs DEF InRoom
<1>7. QED
  BY <1>2, <1>4, <1>5, <1>6 DEF Well

\* Only the losses are others, and perhaps that it is closing.
LEMMA LoseIs ==
  ASSUME NEW r, Sound(r), NEW t, t = Lose(r) \/ t = [Lose(r) EXCEPT !.closing = TRUE]
  PROVE  /\ Sound(t) /\ Pending(t) = Pending(r) /\ Size(t) = Size(r) /\ t.lost = r.lost + 1
         /\ t.policy = r.policy /\ t.outstanding = r.outstanding
         /\ t.closing = IF t = Lose(r) THEN r.closing ELSE TRUE
<1>1. r \in Registrations /\ r.lost \in Nat
  BY DEF Sound, Registrations
<1>2. /\ t \in Registrations /\ t.items = r.items /\ t.head = r.head /\ t.slots = r.slots
      /\ t.lost = r.lost + 1 /\ t.policy = r.policy /\ t.outstanding = r.outstanding
      /\ t.closing = IF t = Lose(r) THEN r.closing ELSE TRUE
  <2> DEFINE u == Lose(r)
  <2>1. /\ u \in Registrations /\ u.items = r.items /\ u.head = r.head /\ u.slots = r.slots
        /\ u.lost = r.lost + 1 /\ u.policy = r.policy /\ u.outstanding = r.outstanding
        /\ u.closing = r.closing
    <3>1. r.lost + 1 \in Nat
      BY <1>1
    <3>2. u = [r EXCEPT !.lost = r.lost + 1]
      BY DEF Lose
    <3>3. u \in Registrations
      BY <1>1, <3>1, <3>2 DEF Registrations
    <3>4. QED
      BY <1>1, <3>2, <3>3 DEF Registrations
  <2> HIDE DEF u
  <2>2. CASE t = u
    BY <2>1, <2>2 DEF u
  <2>3. CASE t # u /\ t = [u EXCEPT !.closing = TRUE]
    <3>1. /\ t \in Registrations /\ t.items = r.items /\ t.head = r.head /\ t.slots = r.slots
          /\ t.lost = r.lost + 1 /\ t.policy = r.policy /\ t.outstanding = r.outstanding
          /\ t.closing = TRUE
      BY <2>1, <2>3 DEF Registrations
    <3>2. t # Lose(r)
      BY <2>3 DEF u
    <3>3. QED
      BY <3>1, <3>2
  <2>4. QED
    BY <2>2, <2>3 DEF u
<1>3. Coalesces(t) = Coalesces(r)
  BY <1>2 DEF Coalesces
<1>4. Sound(t)
  BY <1>2, <1>3 DEF Sound, Indexed
<1>5. Pending(t) = Pending(r) /\ Size(t) = Size(r)
  BY <1>2 DEF Pending, Size
<1>6. QED
  BY <1>2, <1>4, <1>5

\* Every event of t is one of q, or e.
From(t, q, e) == \A i \in 1 .. Len(t) : t[i] = e \/ \E j \in 1 .. Len(q) : t[i] = q[j]

\* d is what the reference semantics make of r when e is wanted.
Overflows(r, e, p, d) ==
  /\ Pending(d) = Feed!Overflow(Pending(r), e, p)
  /\ d.lost = r.lost + Feed!Loses(Pending(r), e, p)
  /\ From(Pending(d), Pending(r), e)

LEMMA SupersedingOverflows ==
  ASSUME NEW r, Sound(r), NEW e \in Happenings, NEW p \in Policies, r.policy = {p}, Supersedes(r, e)
  PROVE  Overflows(r, e, p, Lose(Supersede(r, e)))
<1> DEFINE x == r.slots[e.key] - r.head
           q == Pending(r)
           t == Supersede(r, e)
<1>1. /\ p.overflow = "coalesce" /\ e.key # "none" /\ x \in 1 .. Size(r)
      /\ \A i \in 1 .. Size(r) : q[i].key = e.key => i = x
      /\ q[x].key = e.key
  BY SupersedesIs DEF Coalesces
<1>2. /\ Sound(t) /\ t.lost = r.lost /\ Pending(t) = [q EXCEPT ![x] = e]
  BY SupersedeIs DEF Alike
<1>3. q \in Seq(Happenings) /\ Len(q) = Size(r)
  BY PendingIs
<1> HIDE DEF x, q, t
<1>4. Feed!SlotsOf(q, e) = {x}
  BY <1>1, <1>3 DEF Feed!SlotsOf
<1>5. Feed!Superseded(q, e, p) /\ (CHOOSE i \in Feed!SlotsOf(q, e) : TRUE) = x
  BY <1>1, <1>4 DEF Feed!Superseded
<1>6. Feed!Overflow(q, e, p) = [q EXCEPT ![x] = e] /\ Feed!Loses(q, e, p) = 1
  BY <1>5 DEF Feed!Overflow, Feed!Loses
<1>7. Pending(Lose(t)) = Pending(t) /\ Lose(t).lost = t.lost + 1
  BY <1>2, LoseIs
<1>8. From([q EXCEPT ![x] = e], q, e)
  BY <1>1, <1>3 DEF From
<1>9. QED
  BY <1>2, <1>6, <1>7, <1>8 DEF Overflows, q, t

LEMMA NothingSuperseded ==
  ASSUME NEW r, Sound(r), NEW e \in Happenings, NEW p, r.policy = {p}, ~Supersedes(r, e)
  PROVE  ~Feed!Superseded(Pending(r), e, p)
<1>1. ~(/\ Coalesces(r) /\ e.key # "none"
        /\ \E i \in 1 .. Size(r) : Pending(r)[i].key = e.key)
  BY SupersedesIs
<1>2. Len(Pending(r)) = Size(r)
  BY PendingIs
<1>3. QED
  BY <1>1, <1>2 DEF Feed!Superseded, Feed!SlotsOf, Coalesces

LEMMA PushingOverflows ==
  ASSUME NEW r, Sound(r), NEW e \in Happenings, NEW p \in Policies, r.policy = {p},
         ~Supersedes(r, e), Size(r) < p.credits
  PROVE  Overflows(r, e, p, Push(r, e))
<1>1. Pending(Push(r, e)) = Append(Pending(r), e) /\ Push(r, e).lost = r.lost /\ r.lost \in Nat
  BY PushIs DEF Alike, Sound, Registrations
<1>2. Pending(r) \in Seq(Happenings) /\ Len(Pending(r)) = Size(r) /\ Size(r) \in Nat /\ p.credits \in Nat
  BY PendingIs, PolicyIs
<1>3. ~Feed!Full(Pending(r), p) /\ ~Feed!Superseded(Pending(r), e, p)
  BY <1>2, NothingSuperseded DEF Feed!Full
<1>4. Feed!Overflow(Pending(r), e, p) = Append(Pending(r), e) /\ Feed!Loses(Pending(r), e, p) = 0
  BY <1>3 DEF Feed!Overflow, Feed!Loses
<1>5. From(Append(Pending(r), e), Pending(r), e)
  BY <1>2 DEF From
<1>6. QED
  BY <1>1, <1>4, <1>5 DEF Overflows

LEMMA DroppingOverflows ==
  ASSUME NEW r, Sound(r), NEW e \in Happenings, NEW p \in Policies, r.policy = {p},
         ~Supersedes(r, e), Size(r) >= p.credits, p.overflow \in {"coalesce", "drop-oldest"}
  PROVE  /\ Overflows(r, e, p, Lose(Push(DropOldest(r), e)))
         /\ Sound(Push(DropOldest(r), e)) /\ Alike(r, Push(DropOldest(r), e))
         /\ Size(Push(DropOldest(r), e)) = Size(r)
<1> DEFINE q == Pending(r)
           d == DropOldest(r)
           t == Push(d, e)
<1>1. q \in Seq(Happenings) /\ Len(q) = Size(r) /\ Size(r) \in Nat /\ p.credits \in Nat \ {0}
  BY PendingIs, PolicyIs
<1>2. Size(r) > 0
  BY <1>1
<1>3. Sound(d) /\ Alike(r, d) /\ Pending(d) = Tail(q) /\ Size(d) = Size(r) - 1
  BY <1>2, DropOldestIs
<1> HIDE DEF d
<1>4. ~Supersedes(d, e)
  <2>1. Coalesces(d) = Coalesces(r)
    BY <1>3 DEF Alike, Coalesces
  <2>2. \A i \in 1 .. Size(d) : Pending(d)[i] = q[i + 1] /\ i + 1 \in 1 .. Size(r)
    BY <1>1, <1>2, <1>3
  <2>3. \A i \in 1 .. Size(r) : Coalesces(r) /\ e.key # "none" => q[i].key # e.key
    BY SupersedesIs
  <2>4. Supersedes(d, e) => /\ Coalesces(d) /\ e.key # "none"
                            /\ \E i \in 1 .. Size(d) : Pending(d)[i].key = e.key
    <3>1. Sound(d)
      BY <1>3
    <3>2. QED
      BY <3>1, SupersedesIs
  <2> HIDE DEF q
  <2>5. QED
    BY <2>1, <2>2, <2>3, <2>4
<1>5. Sound(t) /\ Alike(d, t) /\ Size(t) = Size(d) + 1 /\ Pending(t) = Append(Pending(d), e)
  BY <1>3, <1>4, PushIs
<1> HIDE DEF t
<1>6. Alike(r, t) /\ Size(t) = Size(r) /\ Pending(t) = Append(Tail(q), e)
  BY <1>1, <1>3, <1>5 DEF Alike
<1> HIDE DEF q
<1>7. Feed!Full(q, p) /\ ~Feed!Superseded(q, e, p)
  BY <1>1, NothingSuperseded DEF Feed!Full, q
<1>8. Feed!Overflow(q, e, p) = Append(Tail(q), e) /\ Feed!Loses(q, e, p) = 1
  BY <1>7 DEF Feed!Overflow, Feed!Loses
<1>9. Pending(Lose(t)) = Pending(t) /\ Lose(t).lost = r.lost + 1
  BY <1>5, <1>6, LoseIs, ZenonT(60) DEF Alike
<1>10. From(Append(Tail(q), e), q, e)
  BY <1>1, <1>2 DEF From
<1>11. QED
  BY <1>5, <1>6, <1>8, <1>9, <1>10 DEF Overflows, q, t, d

LEMMA RefusingOverflows ==
  ASSUME NEW r, Sound(r), NEW e \in Happenings, NEW p \in Policies, r.policy = {p},
         ~Supersedes(r, e), Size(r) >= p.credits, p.overflow \notin {"coalesce", "drop-oldest"},
         NEW t, t = Lose(r) \/ t = [Lose(r) EXCEPT !.closing = TRUE]
  PROVE  Overflows(r, e, p, t)
<1>1. Pending(t) = Pending(r) /\ t.lost = r.lost + 1
  BY LoseIs
<1>2. Len(Pending(r)) = Size(r) /\ Size(r) \in Nat /\ p.credits \in Nat
  BY PendingIs, PolicyIs
<1>3. Feed!Full(Pending(r), p) /\ ~Feed!Superseded(Pending(r), e, p)
  BY <1>2, NothingSuperseded DEF Feed!Full
<1>4. Feed!Overflow(Pending(r), e, p) = Pending(r) /\ Feed!Loses(Pending(r), e, p) = 1
  BY <1>3 DEF Feed!Overflow, Feed!Loses
<1>5. From(Pending(r), Pending(r), e)
  BY DEF From
<1>6. QED
  BY <1>1, <1>4, <1>5 DEF Overflows

\* What the emit path does to an open registration.
LEMMA DeliverIs ==
  ASSUME NEW r, Well(r), NEW e \in Happenings, NEW p \in Policies, r.policy = {p}, NEW d, d = Deliver(r, e)
  PROVE  /\ Well(d) /\ d.policy = r.policy /\ d.outstanding = r.outstanding
         /\ \/ d = r
            \/ /\ p.overflow = "disconnect" /\ Size(r) >= p.credits
               /\ Pending(d) = Pending(r) /\ d.lost = r.lost + 1
            \/ Wanted(r, e) /\ Overflows(r, e, p, d)
<1> DEFINE Kind == \/ d = r
                   \/ /\ p.overflow = "disconnect" /\ Size(r) >= p.credits
                      /\ Pending(d) = Pending(r) /\ d.lost = r.lost + 1
                   \/ Wanted(r, e) /\ Overflows(r, e, p, d)
<1>1. /\ Sound(r) /\ r.policy # {} /\ Size(r) \in Nat /\ r.outstanding \in Nat
      /\ Size(r) <= p.credits /\ r.outstanding <= p.credits
      /\ r.closing => p.overflow = "disconnect" /\ Size(r) >= p.credits
      /\ p.credits \in Nat \ {0}
      /\ p.overflow \in {"coalesce", "drop-oldest", "drop-newest", "disconnect"}
  BY PolicyIs, PendingIs DEF Well, InRoom, Sound, Registrations
<1>2. ASSUME Sound(d), d.policy = r.policy, d.outstanding = r.outstanding, Size(d) <= p.credits,
             d.closing => p.overflow = "disconnect" /\ Size(d) >= p.credits
      PROVE  Well(d) /\ d.policy = r.policy /\ d.outstanding = r.outstanding
  BY <1>1, <1>2 DEF Well, InRoom
<1>3. CASE r.closing
  <2>1. d = Lose(r)
    BY <1>3 DEF Deliver
  <2>2. /\ Sound(d) /\ Pending(d) = Pending(r) /\ Size(d) = Size(r) /\ d.lost = r.lost + 1
        /\ d.policy = r.policy /\ d.outstanding = r.outstanding
    BY <1>1, <2>1, LoseIs
  <2>3. QED
    BY <1>1, <1>2, <1>3, <2>2
<1>4. CASE ~r.closing /\ ~Wanted(r, e)
  <2>1. d = r
    BY <1>4 DEF Deliver
  <2>2. QED
    BY <2>1
<1>5. CASE ~r.closing /\ Wanted(r, e) /\ Supersedes(r, e)
  <2>1. d = Lose(Supersede(r, e))
    BY <1>5 DEF Deliver
  <2>2. Overflows(r, e, p, d)
    BY <1>1, <1>5, <2>1, SupersedingOverflows
  <2> DEFINE t == Supersede(r, e)
  <2>3. Sound(t) /\ Alike(r, t) /\ Size(t) = Size(r)
    BY <1>1, <1>5, SupersedeIs
  <2> HIDE DEF t
  <2>4. /\ Sound(d) /\ Size(d) = Size(t) /\ d.policy = t.policy /\ d.outstanding = t.outstanding
        /\ d.closing = t.closing
    BY <2>1, <2>3, LoseIs DEF t
  <2>5. Well(d) /\ d.policy = r.policy /\ d.outstanding = r.outstanding
    BY <1>1, <1>2, <1>5, <2>3, <2>4 DEF Alike
  <2>6. QED
    BY <1>5, <2>2, <2>5
<1>6. CASE ~r.closing /\ Wanted(r, e) /\ ~Supersedes(r, e) /\ Size(r) < p.credits
  <2>1. d = Push(r, e)
    <3>1. (CHOOSE x \in r.policy : TRUE) = p
      OBVIOUS
    <3>2. QED
      BY <1>6, <3>1 DEF Deliver
  <2>2. Overflows(r, e, p, d)
    BY <1>1, <1>6, <2>1, PushingOverflows
  <2>3. Sound(d) /\ Alike(r, d) /\ Size(d) = Size(r) + 1
    BY <1>1, <1>6, <2>1, PushIs
  <2>4. Size(d) <= p.credits
    BY <1>1, <1>6, <2>3
  <2>5. Well(d) /\ d.policy = r.policy /\ d.outstanding = r.outstanding
    BY <1>2, <1>6, <2>3, <2>4 DEF Alike
  <2>6. QED
    BY <1>6, <2>2, <2>5
<1>7. CASE ~r.closing /\ Wanted(r, e) /\ ~Supersedes(r, e) /\ ~(Size(r) < p.credits)
  <2>1. Size(r) >= p.credits /\ (CHOOSE x \in r.policy : TRUE) = p
    BY <1>1, <1>7
  <2>2. d = IF p.overflow = "drop-newest" THEN Lose(r)
            ELSE IF p.overflow = "disconnect" THEN [Lose(r) EXCEPT !.closing = TRUE]
            ELSE Lose(Push(DropOldest(r), e))
    BY <1>7, <2>1 DEF Deliver
  <2>3. CASE p.overflow = "drop-newest" \/ p.overflow = "disconnect"
    <3>1. d = Lose(r) \/ d = [Lose(r) EXCEPT !.closing = TRUE]
      BY <2>2, <2>3
    <3>2. Overflows(r, e, p, d)
      <4>1. p.overflow \notin {"coalesce", "drop-oldest"}
        BY <2>3
      <4>2. QED
        BY <1>1, <1>7, <2>1, <3>1, <4>1, RefusingOverflows
    <3>3. /\ Sound(d) /\ Size(d) = Size(r) /\ d.policy = r.policy /\ d.outstanding = r.outstanding
          /\ d.closing = IF d = Lose(r) THEN r.closing ELSE TRUE
      BY <1>1, <3>1, LoseIs
    <3>4. d.closing => p.overflow = "disconnect"
      BY <1>7, <2>2, <2>3, <3>3
    <3>5. Well(d) /\ d.policy = r.policy /\ d.outstanding = r.outstanding
      BY <1>1, <1>2, <2>1, <3>3, <3>4
    <3>6. QED
      BY <1>7, <3>2, <3>5
  <2>4. CASE p.overflow \in {"coalesce", "drop-oldest"}
    <3> DEFINE t == Push(DropOldest(r), e)
    <3>1. d = Lose(t)
      BY <2>2, <2>4
    <3>2. Overflows(r, e, p, d) /\ Sound(t) /\ Alike(r, t) /\ Size(t) = Size(r)
      BY <1>1, <1>7, <2>1, <2>4, <3>1, DroppingOverflows
    <3> HIDE DEF t
    <3>3. /\ Sound(d) /\ Size(d) = Size(t) /\ d.policy = t.policy /\ d.outstanding = t.outstanding
          /\ d.closing = t.closing
      BY <3>1, <3>2, LoseIs
    <3>4. Well(d) /\ d.policy = r.policy /\ d.outstanding = r.outstanding
      BY <1>1, <1>2, <1>7, <3>2, <3>3 DEF Alike
    <3>5. QED
      BY <1>7, <3>2, <3>4
  <2>5. QED
    BY <1>1, <2>3, <2>4
<1>8. QED
  BY <1>3, <1>4, <1>5, <1>6, <1>7

\* What the grant no longer admits has left a queue, and is counted as lost.
Readers == IF authority = grant THEN Topics ELSE grant

LEMMA KeptIs ==
  ASSUME NEW r, Sound(r), NEW k, k = Kept(r)
  PROVE  /\ Sound(k) /\ k.policy = r.policy /\ k.outstanding = r.outstanding /\ k.closing = r.closing
         /\ Pending(k) = Feed!Readable(Pending(r), Readers)
         /\ Size(k) <= Size(r) /\ k.lost = r.lost + Size(r) - Size(k)
         /\ authority = grant => k = r
<1> DEFINE q == Pending(r)
<1>1. q \in Seq(Happenings) /\ Len(q) = Size(r) /\ Size(r) \in Nat /\ r \in Registrations /\ r.lost \in Nat
  BY PendingIs DEF Sound, Registrations
<1> HIDE DEF q
<1>2. CASE authority = grant
  <2>1. \A i \in 1 .. Len(q) : q[i].topic \in Topics
    <3>1. \A i \in 1 .. Len(q) : q[i] \in Happenings
      BY <1>1
    <3>2. QED
      BY <3>1 DEF Happenings
  <2>2. Feed!Readable(q, Topics) = q
    BY <1>1, <2>1, ReadableIs
  <2>3. k = r
    BY <1>2 DEF Kept
  <2>4. QED
    BY <1>1, <1>2, <2>2, <2>3 DEF q, Readers
<1>3. CASE authority # grant
  <2> DEFINE t == Feed!Readable(q, grant)
             u == Purge(r, grant)
  <2>1. /\ t \in Seq(Happenings) /\ Len(t) <= Len(q) /\ (Distinct(q) => Distinct(t))
        /\ Len(t) = Len(q) => t = q
    BY <1>1, ReadableIs DEF Prefix
  <2> HIDE DEF t
  <2>2. u = IF Len(t) = Size(r) THEN r ELSE Anew(r, t)
    BY DEF Purge, t, q
  <2> HIDE DEF u
  <2>3. Coalesces(r) => Distinct(t)
    BY <2>1, PendingDistinct DEF q
  <2>4. Sound(u) /\ Pending(u) = t /\ Alike(r, u)
    <3>1. CASE Len(t) = Size(r)
      BY <1>1, <2>1, <2>2, <3>1 DEF q, Alike
    <3>2. CASE Len(t) # Size(r)
      BY <2>1, <2>2, <2>3, <3>2, AnewIs
    <3>3. QED
      BY <3>1, <3>2
  <2>5. Size(u) = Len(t) /\ Size(u) \in Nat
    BY <2>4, PendingIs
  <2>6. k = [u EXCEPT !.lost = @ + Size(r) - Size(u)]
    BY <1>3 DEF Kept, u
  <2>7. /\ k = [u EXCEPT !.lost = r.lost + Size(r) - Size(u)]
        /\ r.lost + Size(r) - Size(u) \in Nat
    BY <1>1, <2>1, <2>4, <2>5, <2>6 DEF Alike
  <2>8. u \in Registrations
    BY <2>4 DEF Sound
  <2>9. /\ k \in Registrations /\ k.items = u.items /\ k.head = u.head /\ k.slots = u.slots
        /\ k.policy = u.policy /\ k.outstanding = u.outstanding /\ k.closing = u.closing
        /\ k.lost = r.lost + Size(r) - Size(u)
    BY <2>7, <2>8 DEF Registrations
  <2>10. Pending(k) = Pending(u) /\ Size(k) = Size(u) /\ Coalesces(k) = Coalesces(u)
    BY <2>9 DEF Pending, Size, Coalesces
  <2>11. Sound(k)
    BY <2>4, <2>9, <2>10 DEF Sound, Indexed
  <2>12. Readers = grant
    BY <1>3 DEF Readers
  <2>13. QED
    BY <1>1, <1>3, <2>1, <2>4, <2>5, <2>9, <2>10, <2>11, <2>12 DEF Alike, t, q
<1>4. QED
  BY <1>2, <1>3

\* How much of a queue goes out, and what is left.
LEMMA SentIs ==
  ASSUME NEW k, NEW p \in Policies, k.policy = {p}, Sound(k), k.outstanding <= p.credits, NEW fits \in Nat
  PROVE  /\ Sent(k, fits) \in 0 .. Size(k) /\ k.outstanding + Sent(k, fits) <= p.credits
         /\ Shed(k, fits) \in {0, 1} /\ Sent(k, fits) * Shed(k, fits) = 0
         /\ Sent(k, fits) + Shed(k, fits) \in 0 .. Size(k)
<1>1. /\ Size(k) \in Nat /\ k.outstanding \in Nat /\ p.credits \in Nat /\ p.maxBatch \in Nat
      /\ (CHOOSE x \in k.policy : TRUE) = p
  BY PendingIs, PolicyIs DEF Sound, Registrations
<1>2. Budget(k) = Least(Least(p.credits - k.outstanding, p.maxBatch), Size(k))
  BY <1>1 DEF Budget
<1>3. Budget(k) \in Int /\ Budget(k) <= Size(k) /\ Budget(k) <= p.credits - k.outstanding
  BY <1>1, <1>2 DEF Least
<1> DEFINE n == Sent(k, fits)
<1>4. n \in Nat /\ (n = 0 \/ n <= Budget(k))
  BY <1>3, HalvedIs DEF Sent
<1>5. Shed(k, fits) = IF Budget(k) > 0 /\ n = 0 THEN 1 ELSE 0
  BY DEF Shed
<1> HIDE DEF n
<1>6. n \in 0 .. Size(k) /\ k.outstanding + n <= p.credits
  BY <1>1, <1>3, <1>4
<1>7. CASE Budget(k) > 0 /\ n = 0
  <2>1. Shed(k, fits) = 1
    BY <1>5, <1>7
  <2>2. n + 1 \in 0 .. Size(k) /\ n * 1 = 0
    BY <1>1, <1>3, <1>7
  <2>3. QED
    BY <1>6, <2>1, <2>2 DEF n
<1>8. CASE ~(Budget(k) > 0 /\ n = 0)
  <2>1. Shed(k, fits) = 0
    BY <1>5, <1>8
  <2>2. n + 0 = n /\ n * 0 = 0
    BY <1>4
  <2>3. QED
    BY <1>6, <2>1, <2>2 DEF n
<1>9. QED
  BY <1>7, <1>8

LEMMA EmittedIs ==
  ASSUME NEW k, NEW p \in Policies, k.policy = {p}, Sound(k), Size(k) <= p.credits,
         k.outstanding <= p.credits, ~k.closing, NEW fits \in Nat, NEW d, d = Emitted(k, fits)
  PROVE  /\ Well(d) /\ d.policy = k.policy /\ d.lost = 0 /\ ~d.closing
         /\ d.outstanding = k.outstanding + Sent(k, fits)
         /\ Pending(d) = SubSeq(Pending(k), Sent(k, fits) + Shed(k, fits) + 1, Size(k))
<1> DEFINE n == Sent(k, fits)
           m == Sent(k, fits) + Shed(k, fits)
           t == [k EXCEPT !.outstanding = @ + n, !.lost = 0]
<1>1. /\ k \in Registrations /\ k.outstanding \in Nat /\ Size(k) \in Nat /\ p.credits \in Nat
      /\ k.outstanding + n \in Nat /\ k.outstanding + n <= p.credits /\ m \in 0 .. Size(k)
  <2>1. k \in Registrations /\ k.outstanding \in Nat /\ Size(k) \in Nat /\ p.credits \in Nat
    BY PendingIs, PolicyIs DEF Sound, Registrations
  <2>2. n \in 0 .. Size(k) /\ k.outstanding + n <= p.credits /\ m \in 0 .. Size(k)
    BY SentIs
  <2>3. QED
    BY <2>1, <2>2
<1>2. d = Commit(t, m)
  BY DEF Emitted
<1> HIDE DEF n, m
<1>3. /\ t \in Registrations /\ t.items = k.items /\ t.head = k.head /\ t.slots = k.slots
      /\ t.policy = k.policy /\ t.closing = k.closing
      /\ t.outstanding = k.outstanding + n /\ t.lost = 0
  <2> DEFINE u == [k EXCEPT !.outstanding = k.outstanding + n]
  <2>1. /\ u \in Registrations /\ u.items = k.items /\ u.head = k.head /\ u.slots = k.slots
        /\ u.policy = k.policy /\ u.closing = k.closing /\ u.outstanding = k.outstanding + n
    BY <1>1 DEF Registrations
  <2>2. t = [u EXCEPT !.lost = 0]
    OBVIOUS
  <2> HIDE DEF u, t
  <2>3. QED
    BY <2>1, <2>2 DEF Registrations
<1> HIDE DEF t
<1>4. Pending(t) = Pending(k) /\ Size(t) = Size(k) /\ Coalesces(t) = Coalesces(k)
  BY <1>3 DEF Pending, Size, Coalesces
<1>5. Sound(t)
  BY <1>3, <1>4 DEF Sound, Indexed
<1>6. Sound(d) /\ Alike(t, d) /\ Pending(d) = SubSeq(Pending(k), m + 1, Size(k))
  BY <1>1, <1>2, <1>4, <1>5, CommitIs
<1>7. Size(d) <= Size(k)
  <2>1. Len(Pending(k)) = Size(k) /\ Pending(k) \in Seq(Happenings)
    BY PendingIs
  <2>2. Len(SubSeq(Pending(k), m + 1, Size(k))) = Size(k) - m
    BY <1>1, <2>1
  <2>3. Size(d) = Size(k) - m
    BY <1>6, <2>2, PendingIs
  <2>4. QED
    BY <1>1, <2>3
<1>8. Size(d) <= p.credits
  BY <1>1, <1>6, <1>7, PendingIs
<1>9. /\ d.policy = k.policy /\ d.closing = k.closing /\ d.lost = 0
      /\ d.outstanding = k.outstanding + n
  BY <1>3, <1>6 DEF Alike
<1>10. Well(d)
  BY <1>1, <1>6, <1>8, <1>9 DEF Well, InRoom
<1>11. QED
  BY <1>6, <1>9, <1>10 DEF n, m

-----------------------------------------------------------------------------
(* What a step does to one registration, as the reference semantics see it. *)

\* Subscription s is left as it is.
LEMMA IdleWhenSame ==
  ASSUME NEW s \in Subs, subs'[s] = subs[s], wire'[s] = Silence
  PROVE  Feed!Idles(s)
BY DEF Feed!Idles, Feed!Same, Feed!Quiet, Feed!Silence, Silence

LEMMA ClosingIs ==
  ASSUME NEW s \in Subs, subs'[s] = Closed
  PROVE  Feed!Closed(s)
<1>1. SubSeq(<<>>, 0 + 1, Len(<<>>)) = <<>>
  OBVIOUS
<1>2. QED
  BY <1>1 DEF Feed!Closed, Closed

Sends(s, events, lost) == wire'[s] = IF deaf THEN Silence ELSE [events |-> events, lost |-> lost]

LEMMA TurnStays ==
  ASSUME NEW s \in Subs, NEW p \in subs[s].policy, NEW g \in SUBSET Topics,
         NEW kept, kept = Feed!Readable(Pending(subs[s]), g),
         NEW n \in 0 .. Len(Pending(subs[s])), NEW shed \in {0, 1},
         n <= p.credits - subs[s].outstanding, n * shed = 0, n + shed <= Len(kept),
         NEW rest, rest = SubSeq(kept, n + shed + 1, Len(kept)),
         NEW gone, gone = subs[s].lost + (Len(Pending(subs[s])) - Len(kept)) + shed,
         subs'[s].policy = subs[s].policy, Pending(subs'[s]) = rest,
         subs'[s].outstanding = subs[s].outstanding + n, subs'[s].lost = 0,
         Sends(s, SubSeq(kept, 1, n), gone)
  PROVE  Feed!Turn(s)
<1>1. /\ SubSeq(subs[s].items, subs[s].head + 1, Len(subs[s].items)) = Pending(subs[s])
      /\ SubSeq(subs'[s].items, subs'[s].head + 1, Len(subs'[s].items)) = rest
  BY DEF Pending
<1>2. wire'[s] = IF deaf THEN Feed!Silence ELSE [events |-> SubSeq(kept, 1, n), lost |-> gone]
  BY DEF Sends, Silence, Feed!Silence
<1>3. Feed!TurnWith(s, p, g, n, shed)
  BY <1>1, <1>2 DEF Feed!TurnWith
<1>4. QED
  BY <1>1, <1>3 DEF Feed!Turn

LEMMA TurnEnds ==
  ASSUME NEW s \in Subs, NEW p \in subs[s].policy, NEW g \in SUBSET Topics,
         NEW kept, kept = Feed!Readable(Pending(subs[s]), g),
         NEW n \in 0 .. Len(Pending(subs[s])), NEW shed \in {0, 1},
         n <= p.credits - subs[s].outstanding, n * shed = 0, n + shed <= Len(kept),
         NEW rest, rest = SubSeq(kept, n + shed + 1, Len(kept)),
         NEW gone, gone = subs[s].lost + (Len(Pending(subs[s])) - Len(kept)) + shed,
         subs'[s] = Closed, Sends(s, SubSeq(kept, 1, n), gone + Len(rest))
  PROVE  Feed!Turn(s)
<1>1. SubSeq(subs[s].items, subs[s].head + 1, Len(subs[s].items)) = Pending(subs[s])
  BY DEF Pending
<1>2. Feed!Closed(s)
  BY ClosingIs
<1>3. wire'[s] = IF deaf THEN Feed!Silence ELSE [events |-> SubSeq(kept, 1, n), lost |-> gone + Len(rest)]
  BY DEF Sends, Silence, Feed!Silence
<1>4. Feed!TurnWith(s, p, g, n, shed)
  BY <1>1, <1>2, <1>3 DEF Feed!TurnWith
<1>5. QED
  BY <1>1, <1>4 DEF Feed!Turn

\* Every event of t is one of q, on a topic that Readers has.
Read(t, q) == \A i \in 1 .. Len(t) : t[i].topic \in Readers /\ \E j \in 1 .. Len(q) : t[i] = q[j]

LEMMA PartsAreRead ==
  ASSUME NEW t \in Seq(Happenings), NEW q, Read(t, q), NEW n \in 0 .. Len(t), NEW m \in 0 .. Len(t)
  PROVE  Read(SubSeq(t, 1, n), q) /\ Read(SubSeq(t, m + 1, Len(t)), q)
<1>1. /\ Len(SubSeq(t, 1, n)) = n
      /\ \A i \in 1 .. n : i \in 1 .. Len(t) /\ SubSeq(t, 1, n)[i] = t[i]
  OBVIOUS
<1>2. /\ Len(SubSeq(t, m + 1, Len(t))) = Len(t) - m
      /\ \A i \in 1 .. Len(t) - m : m + i \in 1 .. Len(t) /\ SubSeq(t, m + 1, Len(t))[i] = t[m + i]
  OBVIOUS
<1>3. Read(SubSeq(t, 1, n), q)
  BY <1>1 DEF Read
<1>4. Read(SubSeq(t, m + 1, Len(t)), q)
  BY <1>2 DEF Read
<1>5. QED
  BY <1>3, <1>4

\* A registration that is open, in a flush that has a grant.
LEMMA FlushTakesTurn ==
  ASSUME NEW s \in Subs, NEW r, r = subs[s], Well(r), NEW p \in Policies, r.policy = {p},
         grant \in SUBSET Topics, NEW fits \in Nat, NEW k, k = Kept(r),
         subs'[s] = Emitted(k, fits), wire'[s] = IF deaf THEN Silence ELSE Told(k, fits)
  PROVE  /\ Feed!Turn(s) /\ Well(subs'[s])
         /\ Read(Pending(subs'[s]), Pending(r)) /\ Read(wire'[s].events, Pending(r))
<1> DEFINE n == Sent(k, fits)
           shed == Shed(k, fits)
           q == Pending(r)
           kept == Pending(k)
           rest == SubSeq(kept, n + shed + 1, Len(kept))
           gone == r.lost + (Len(q) - Len(kept)) + shed
<1>1. /\ Sound(r) /\ Size(r) \in Nat /\ r.lost \in Nat /\ r.outstanding \in Nat
      /\ Size(r) <= p.credits /\ r.outstanding <= p.credits /\ p.credits \in Nat
      /\ q \in Seq(Happenings) /\ Len(q) = Size(r)
  BY PolicyIs, PendingIs DEF Well, InRoom, Sound, Registrations
<1>2. /\ Sound(k) /\ k.policy = {p} /\ k.outstanding = r.outstanding /\ k.closing = r.closing
      /\ kept = Feed!Readable(q, Readers)
      /\ Size(k) <= Size(r) /\ k.lost = r.lost + Size(r) - Size(k)
  BY <1>1, KeptIs
<1>3. Size(k) \in Nat /\ Len(kept) = Size(k) /\ kept \in Seq(Happenings)
  BY <1>2, PendingIs
<1>4. /\ n \in 0 .. Size(k) /\ k.outstanding + n <= p.credits /\ shed \in {0, 1} /\ n * shed = 0
      /\ n + shed \in 0 .. Size(k)
  <2>1. k.outstanding <= p.credits
    BY <1>1, <1>2
  <2>2. QED
    BY <1>2, <2>1, SentIs
<1>5. Readers \in SUBSET Topics
  BY DEF Readers
<1>6. Read(kept, q)
  <2>1. \A i \in 1 .. Len(kept) : kept[i].topic \in Readers /\ \E j \in 1 .. Len(q) : kept[i] = q[j]
    <3>1. Prefix(Happenings, kept, q, Readers, Len(q))
      BY <1>1, <1>2, ReadableIs
    <3>2. QED
      BY <3>1 DEF Prefix
  <2>2. QED
    BY <2>1 DEF Read
<1>7. Told(k, fits) = [events |-> SubSeq(kept, 1, n),
                      lost |-> k.lost + shed + (IF r.closing THEN Size(k) - n - shed ELSE 0)]
  BY <1>2 DEF Told
<1>a. Told(k, fits).events = SubSeq(kept, 1, n)
  BY DEF Told
<1> HIDE DEF n, shed, q, kept
<1>8. /\ n \in 0 .. Len(q) /\ n <= p.credits - r.outstanding /\ n + shed <= Len(kept)
      /\ Len(rest) = Size(k) - n - shed /\ gone = k.lost + shed /\ gone \in Int
  <2>1. n \in Nat /\ shed \in Nat
    BY <1>4
  <2>2. Len(rest) = Size(k) - n - shed
    BY <1>3, <1>4, <2>1
  <2>3. /\ Size(k) \in Nat /\ Size(r) \in Nat /\ r.lost \in Nat /\ n \in 0 .. Size(k)
        /\ Size(k) <= Size(r) /\ Len(q) = Size(r) /\ Len(kept) = Size(k)
        /\ k.lost = r.lost + Size(r) - Size(k) /\ n + shed \in 0 .. Size(k)
    BY <1>1, <1>2, <1>3, <1>4
  <2>4. gone = k.lost + shed /\ gone \in Int
    BY <2>1, <2>3
  <2>5. n \in 0 .. Len(q) /\ n + shed <= Len(kept)
    BY <2>3
  <2>6. n <= p.credits - r.outstanding
    <3>1. r.outstanding + n <= p.credits /\ r.outstanding \in Nat /\ p.credits \in Nat
      BY <1>1, <1>2, <1>4
    <3>2. QED
      BY <2>1, <3>1
  <2>7. QED
    BY <2>2, <2>4, <2>5, <2>6
<1>9. Read(rest, q) /\ Read(SubSeq(kept, 1, n), q)
  <2> DEFINE m == n + shed
  <2>1. m \in 0 .. Len(kept) /\ n \in 0 .. Len(kept)
    BY <1>3, <1>4
  <2> HIDE DEF m
  <2>2. Read(SubSeq(kept, m + 1, Len(kept)), q) /\ Read(SubSeq(kept, 1, n), q)
    BY <1>3, <1>6, <2>1, PartsAreRead
  <2>3. QED
    BY <2>2 DEF m
<1>10. Read(wire'[s].events, q)
  <2>1. CASE deaf
    <3>1. wire'[s].events = <<>>
      BY <2>1 DEF Silence
    <3>2. QED
      BY <3>1 DEF Read
  <2>2. CASE ~deaf
    <3>1. wire'[s] = Told(k, fits)
      BY <2>2
    <3>2. QED
      BY <1>9, <1>a, <3>1
  <2>3. QED
    BY <2>1, <2>2
<1> HIDE DEF rest, gone
<1>11. CASE ~r.closing
  <2>1. /\ Well(subs'[s]) /\ subs'[s].policy = k.policy /\ subs'[s].lost = 0
        /\ subs'[s].outstanding = k.outstanding + n
        /\ Pending(subs'[s]) = SubSeq(kept, n + shed + 1, Size(k))
    <3>1. Size(k) <= p.credits /\ k.outstanding <= p.credits /\ ~k.closing
      BY <1>1, <1>2, <1>3, <1>11
    <3>2. QED
      BY <1>2, <3>1, EmittedIs DEF n, shed, kept
  <2>2. Pending(subs'[s]) = rest
    BY <1>3, <2>1 DEF rest
  <2>3. Sends(s, SubSeq(kept, 1, n), gone)
    <3>1. Told(k, fits) = [events |-> SubSeq(kept, 1, n), lost |-> gone]
      BY <1>2, <1>4, <1>7, <1>8, <1>11
    <3>2. QED
      BY <3>1 DEF Sends
  <2>4. Feed!Turn(s)
    <3>1. /\ subs'[s].policy = subs[s].policy /\ Pending(subs'[s]) = rest
          /\ subs'[s].outstanding = subs[s].outstanding + n /\ subs'[s].lost = 0
          /\ Sends(s, SubSeq(kept, 1, n), gone)
      BY <1>2, <2>1, <2>2, <2>3
    <3>2. QED
      BY <1>2, <1>4, <1>5, <1>8, <3>1, TurnStays DEF q, rest, gone
  <2>5. QED
    BY <1>9, <1>10, <2>1, <2>2, <2>4 DEF q
<1>12. CASE r.closing
  <2>1. subs'[s] = Closed
    BY <1>2, <1>12 DEF Emitted
  <2>2. Sends(s, SubSeq(kept, 1, n), gone + Len(rest))
    <3>1. Told(k, fits) = [events |-> SubSeq(kept, 1, n), lost |-> gone + Len(rest)]
      BY <1>7, <1>8, <1>12
    <3>2. QED
      BY <3>1 DEF Sends
  <2>3. Feed!Turn(s)
    <3>1. subs'[s] = Closed /\ Sends(s, SubSeq(kept, 1, n), gone + Len(rest))
      BY <2>1, <2>2
    <3>2. p \in subs[s].policy /\ n * shed = 0 /\ n + shed <= Len(kept)
      BY <1>4, <1>8
    <3>3. QED
      BY <1>2, <1>4, <1>5, <1>8, <3>1, <3>2, TurnEnds, ZenonT(60) DEF q, rest, gone
  <2>4. Well(Closed) /\ Pending(Closed) = <<>>
    BY ClosedIsWell
  <2>5. QED
    BY <1>10, <2>1, <2>3, <2>4 DEF Read, q
<1>13. QED
  BY <1>11, <1>12

LEMMA AcceptsWhen ==
  ASSUME NEW s \in Subs, NEW e \in Happenings, NEW p, subs[s].policy = {p}, wire'[s] = Silence,
         Overflows(subs[s], e, p, subs'[s]),
         subs'[s].policy = subs[s].policy, subs'[s].outstanding = subs[s].outstanding
  PROVE  Feed!Accepts(s)
<1>1. /\ SubSeq(subs[s].items, subs[s].head + 1, Len(subs[s].items)) = Pending(subs[s])
      /\ SubSeq(subs'[s].items, subs'[s].head + 1, Len(subs'[s].items))
           = Feed!Overflow(Pending(subs[s]), e, p)
      /\ subs'[s].lost = subs[s].lost + Feed!Loses(Pending(subs[s]), e, p)
  BY DEF Pending, Overflows
<1>2. wire'[s] = Feed!Silence /\ p \in subs[s].policy
  BY DEF Silence, Feed!Silence
<1>3. QED
  BY <1>1, <1>2 DEF Feed!Accepts, Feed!Same, Feed!Quiet, Happenings

LEMMA RefusesWhen ==
  ASSUME NEW s \in Subs, NEW p, subs[s].policy = {p}, wire'[s] = Silence, Sound(subs[s]),
         p.overflow = "disconnect", Size(subs[s]) >= p.credits,
         Pending(subs'[s]) = Pending(subs[s]), subs'[s].lost = subs[s].lost + 1,
         subs'[s].policy = subs[s].policy, subs'[s].outstanding = subs[s].outstanding
  PROVE  Feed!Refuses(s)
<1>1. /\ SubSeq(subs[s].items, subs[s].head + 1, Len(subs[s].items)) = Pending(subs[s])
      /\ SubSeq(subs'[s].items, subs'[s].head + 1, Len(subs'[s].items)) = Pending(subs[s])
  BY DEF Pending
<1>2. wire'[s] = Feed!Silence /\ p \in subs[s].policy /\ Feed!Full(Pending(subs[s]), p)
  BY PendingIs DEF Silence, Feed!Silence, Feed!Full
<1>3. QED
  BY <1>1, <1>2 DEF Feed!Refuses, Feed!Same, Feed!Quiet

-----------------------------------------------------------------------------
(* The invariant of the registrations, and what each action does to them.  *)

\* Every registration is well formed and within its room, and there is none without a
\* channel.
RegistrationsInv ==
  /\ subs = [s \in Subs |-> subs[s]] /\ \A s \in Subs : Well(subs[s])
  /\ emitted \in Nat /\ grant \in Grants /\ authority \in Grants \cup {NoGrant}
  /\ ~attached => subs = AllClosed

\* What waits is of the grant that was looked at last, or was spared by a subscribe.
Entitled(s) ==
  \A i \in 1 .. Len(Pending(subs[s])) :
    Pending(subs[s])[i].topic \in Admits(authority) \/ Pending(subs[s])[i].n \in spared

GrantsInv == DeliveredIsGranted /\ \A s \in Subs : Entitled(s)

LEMMA OpenHasPolicy ==
  ASSUME NEW r, Well(r)
  PROVE  \/ r = Closed
         \/ r.policy # {} /\ \E p \in Policies : r.policy = {p}
BY DEF Well, Sound, Registrations

LEMMA NothingSent ==
  ASSUME Quiet
  PROVE  DeliveredIsGranted' /\ \A s \in Subs : wire'[s] = Silence
<1>1. \A s \in Subs : wire'[s] = Silence
  BY DEF Quiet
<1>2. \A s \in Subs : Len(wire'[s].events) = 0
  BY <1>1 DEF Silence
<1>3. QED
  BY <1>1, <1>2 DEF DeliveredIsGranted

\* Nobody's queue changes, nor whose it may be.
LEMMA QuietStep ==
  ASSUME RegistrationsInv, Quiet, UNCHANGED <<subs, emitted>>,
         grant' \in Grants, authority' \in Grants \cup {NoGrant}, attached => attached'
  PROVE  RegistrationsInv' /\ Feed!FeedNext
<1>1. \A s \in Subs : Feed!Idles(s)
  BY NothingSent, IdleWhenSame
<1>2. Feed!FeedNext
  BY <1>1 DEF Feed!FeedNext
<1>3. RegistrationsInv'
  BY DEF RegistrationsInv, Well, InRoom, Sound, Indexed, Size, Coalesces, AllClosed
<1>4. QED
  BY <1>2, <1>3

LEMMA AllClosedIs ==
  ASSUME subs' = AllClosed
  PROVE  /\ subs' = [s \in Subs |-> subs'[s]]
         /\ \A s \in Subs : Well(subs'[s]) /\ Len(Pending(subs'[s])) = 0 /\ Feed!Closed(s)
<1>1. \A s \in Subs : subs'[s] = Closed
  BY DEF AllClosed
<1>2. Len(Pending(Closed)) = 0
  BY ClosedIsWell
<1>3. subs' = [s \in Subs |-> subs'[s]]
  BY DEF AllClosed
<1>4. QED
  BY <1>1, <1>2, <1>3, ClosedIsWell, ClosingIs

LEMMA RegistrationsInit == BridgeInit => RegistrationsInv /\ GrantsInv /\ Feed!FeedInit
<1> SUFFICES ASSUME BridgeInit
             PROVE  RegistrationsInv /\ GrantsInv /\ Feed!FeedInit
  OBVIOUS
<1>1. \A s \in Subs : subs[s] = Closed
  BY DEF BridgeInit, AllClosed
<1>2. /\ subs = AllClosed /\ subs = [s \in Subs |-> subs[s]] /\ emitted = 0 /\ grant \in Grants
      /\ authority = NoGrant /\ deaf = FALSE /\ wire = [s \in Subs |-> Silence]
  BY DEF BridgeInit, AllClosed
<1>3. RegistrationsInv
  BY <1>1, <1>2, ClosedIsWell DEF RegistrationsInv
<1>4. GrantsInv
  <2>1. \A s \in Subs : Len(Pending(subs[s])) = 0 /\ Len(wire[s].events) = 0
    BY <1>1, <1>2, ClosedIsWell DEF Silence
  <2>2. QED
    BY <2>1 DEF GrantsInv, DeliveredIsGranted, Entitled
<1>5. Feed!FeedInit
  <2>1. /\ [s \in Subs |-> subs[s].policy] = [s \in Subs |-> {}]
        /\ [s \in Subs |-> subs[s].lost] = [s \in Subs |-> 0]
        /\ [s \in Subs |-> subs[s].outstanding] = [s \in Subs |-> 0]
    BY <1>1 DEF Closed
  <2>2. \A s \in Subs : SubSeq(subs[s].items, subs[s].head + 1, Len(subs[s].items)) = <<>>
    BY <1>1, ClosedIsWell DEF Pending
  <2>3. wire = [s \in Subs |-> Feed!Silence]
    BY <1>2 DEF Silence, Feed!Silence
  <2>4. QED
    BY <1>2, <2>1, <2>2, <2>3 DEF Feed!FeedInit
<1>6. QED
  BY <1>3, <1>4, <1>5

LEMMA EmitIs ==
  ASSUME RegistrationsInv, Emit
  PROVE  RegistrationsInv' /\ Feed!FeedNext /\ (GrantsInv => GrantsInv')
<1> DEFINE open == {s \in Subs : IsOpen(s)}
<1>1. PICK e \in Happenings :
        subs' = [s \in Subs |-> IF s \in open THEN Deliver(subs[s], e) ELSE subs[s]]
  <2>1. emitted + 1 \in 1 .. MaxEvents
    <3>1. emitted \in Nat /\ MaxEvents \in Nat
      BY BridgeAssumption DEF RegistrationsInv
    <3>2. emitted < MaxEvents
      BY DEF Emit
    <3>3. QED
      BY <3>1, <3>2
  <2>2. PICK t \in Topics, k \in Keys \cup {"none"} :
          subs' = [s \in Subs |-> IF s \in open THEN Deliver(subs[s], [n |-> emitted + 1, topic |-> t, key |-> k])
                                  ELSE subs[s]]
    BY DEF Emit
  <2>3. [n |-> emitted + 1, topic |-> t, key |-> k] \in Happenings
    BY <2>1 DEF Happenings
  <2>4. QED
    BY <2>2, <2>3
<1>2. /\ Quiet /\ UNCHANGED <<grant, attached, authority, deaf, spared>> /\ emitted' = emitted + 1
  BY DEF Emit
<1> DEFINE Drawn(s) == \A i \in 1 .. Len(Pending(subs'[s])) :
                         \/ Pending(subs'[s])[i] = e /\ e.topic \in Admits(authority)
                         \/ \E j \in 1 .. Len(Pending(subs[s])) : Pending(subs'[s])[i] = Pending(subs[s])[j]
<1>3. ASSUME NEW s \in Subs
      PROVE  /\ Well(subs'[s]) /\ Drawn(s) /\ (subs[s] = Closed => subs'[s] = Closed)
             /\ Feed!Idles(s) \/ Feed!Accepts(s) \/ Feed!Refuses(s)
  <2>1. Well(subs[s]) /\ wire'[s] = Silence
    BY <1>2, NothingSent DEF RegistrationsInv
  <2>2. CASE subs'[s] = subs[s]
    <3>1. Feed!Idles(s)
      BY <2>1, <2>2, IdleWhenSame
    <3>2. QED
      BY <2>1, <2>2, <3>1
  <2>3. CASE subs'[s] # subs[s]
    <3>1. subs'[s] = Deliver(subs[s], e) /\ subs[s].policy # {}
      BY <1>1, <2>3 DEF IsOpen
    <3>2. PICK p \in Policies : subs[s].policy = {p}
      BY <2>1, <3>1, OpenHasPolicy DEF Closed
    <3> DEFINE r == subs[s]
               d == subs'[s]
    <3>3. /\ Well(d) /\ d.policy = r.policy /\ d.outstanding = r.outstanding
          /\ \/ d = r
             \/ /\ p.overflow = "disconnect" /\ Size(r) >= p.credits
                /\ Pending(d) = Pending(r) /\ d.lost = r.lost + 1
             \/ Wanted(r, e) /\ Overflows(r, e, p, d)
      BY <2>1, <3>1, <3>2, DeliverIs
    <3>4. r # Closed
      BY <3>1 DEF Closed
    <3>5. CASE p.overflow = "disconnect" /\ Size(r) >= p.credits /\ Pending(d) = Pending(r) /\ d.lost = r.lost + 1
      <4>1. Feed!Refuses(s)
        BY <2>1, <3>2, <3>3, <3>5, RefusesWhen DEF Well
      <4>2. QED
        BY <3>3, <3>4, <3>5, <4>1
    <3>6. CASE Wanted(r, e) /\ Overflows(r, e, p, d)
      <4>1. Feed!Accepts(s)
        BY <2>1, <3>2, <3>3, <3>6, AcceptsWhen
      <4>2. Drawn(s)
        BY <3>6 DEF Wanted, Overflows, From
      <4>3. QED
        BY <3>3, <3>4, <4>1, <4>2
    <3>7. QED
      BY <2>3, <3>3, <3>5, <3>6
  <2>4. QED
    BY <2>2, <2>3
<1>4. Feed!FeedNext
  BY <1>3 DEF Feed!FeedNext
<1>5. RegistrationsInv'
  <2>1. subs' = [s \in Subs |-> subs'[s]]
    BY <1>1
  <2>2. ~attached' => subs' = AllClosed
    <3>1. ASSUME ~attached'
          PROVE  \A s \in Subs : subs'[s] = Closed
      <4>1. subs = AllClosed
        BY <1>2, <3>1 DEF RegistrationsInv
      <4>2. QED
        BY <1>3, <4>1 DEF AllClosed
    <3>2. QED
      BY <2>1, <3>1 DEF AllClosed
  <2>3. emitted' \in Nat /\ grant' \in Grants /\ authority' \in Grants \cup {NoGrant}
    BY <1>2 DEF RegistrationsInv
  <2>4. QED
    BY <1>3, <2>1, <2>2, <2>3 DEF RegistrationsInv
<1>6. ASSUME GrantsInv
      PROVE  GrantsInv'
  <2>1. ASSUME NEW s \in Subs
        PROVE  Entitled(s)'
    <3>1. Drawn(s) /\ Entitled(s)
      BY <1>3, <1>6 DEF GrantsInv
    <3>2. UNCHANGED <<authority, spared>>
      BY <1>2
    <3>3. ASSUME NEW i \in 1 .. Len(Pending(subs'[s]))
          PROVE  Pending(subs'[s])[i].topic \in Admits(authority) \/ Pending(subs'[s])[i].n \in spared
      BY <3>1 DEF Entitled
    <3>4. QED
      BY <3>2, <3>3 DEF Entitled, Admits
  <2>2. DeliveredIsGranted'
    BY <1>2, NothingSent
  <2>3. QED
    BY <2>1, <2>2 DEF GrantsInv
<1>7. QED
  BY <1>4, <1>5, <1>6

\* Nothing that waits is on a topic that Readers lacks, and the grant of that is looked at.
LEMMA LookedAt ==
  ASSUME RegistrationsInv, GrantsInv, grant # NoGrant, NEW s \in Subs, NEW t, Read(t, Pending(subs[s])),
         NEW i \in 1 .. Len(t)
  PROVE  t[i].topic \in Admits(grant) \/ t[i].n \in spared
<1>1. PICK j \in 1 .. Len(Pending(subs[s])) : t[i] = Pending(subs[s])[j] /\ t[i].topic \in Readers
  BY DEF Read
<1>2. t[i].topic \in Admits(authority) \/ t[i].n \in spared
  BY <1>1 DEF GrantsInv, Entitled
<1>3. CASE authority = grant
  BY <1>2, <1>3
<1>4. CASE authority # grant
  <2>1. t[i].topic \in grant
    BY <1>1, <1>4 DEF Readers
  <2>2. grant \subseteq Topics
    BY BridgeAssumption DEF RegistrationsInv
  <2>3. QED
    BY <2>1, <2>2 DEF Admits
<1>5. QED
  BY <1>3, <1>4

LEMMA FlushGrantedIs ==
  ASSUME RegistrationsInv, attached, FlushGranted, UNCHANGED <<grant, attached, deaf, emitted, spared>>
  PROVE  RegistrationsInv' /\ Feed!FeedNext /\ (GrantsInv => GrantsInv')
<1>1. PICK fits \in [Subs -> IF deaf THEN {0} ELSE 0 .. 2] :
        /\ subs' = [s \in Subs |-> IF IsOpen(s) THEN Emitted(Kept(subs[s]), fits[s]) ELSE Closed]
        /\ wire' = [s \in Subs |-> IF deaf \/ ~IsOpen(s) THEN Silence
                                   ELSE Told(Kept(subs[s]), fits[s])]
  BY DEF FlushGranted
<1>2. /\ grant # NoGrant /\ authority' = grant
      /\ grant \in Grants /\ grant \in SUBSET Topics /\ emitted \in Nat
  BY BridgeAssumption DEF FlushGranted, RegistrationsInv
<1>3. ASSUME NEW s \in Subs
      PROVE  /\ Well(subs'[s]) /\ (Feed!Turn(s) \/ Feed!Idles(s))
             /\ Read(Pending(subs'[s]), Pending(subs[s])) /\ Read(wire'[s].events, Pending(subs[s]))
  <2>1. Well(subs[s])
    BY DEF RegistrationsInv
  <2>2. CASE subs[s] = Closed
    <3>1. ~IsOpen(s)
      BY <2>2 DEF IsOpen, Closed
    <3>2. subs'[s] = subs[s] /\ wire'[s] = Silence
      BY <1>1, <2>2, <3>1
    <3>3. Feed!Idles(s)
      BY <3>2, IdleWhenSame
    <3>4. Len(Pending(subs'[s])) = 0 /\ Len(wire'[s].events) = 0
      BY <2>2, <3>2, ClosedIsWell DEF Silence
    <3>5. QED
      BY <2>1, <3>2, <3>3, <3>4 DEF Read
  <2>3. CASE subs[s].policy # {} /\ \E p \in Policies : subs[s].policy = {p}
    <3>1. PICK p \in Policies : subs[s].policy = {p}
      BY <2>3
    <3>2. /\ subs'[s] = Emitted(Kept(subs[s]), fits[s])
          /\ wire'[s] = IF deaf THEN Silence ELSE Told(Kept(subs[s]), fits[s])
      BY <1>1, <2>3 DEF IsOpen
    <3>3. fits[s] \in Nat
      OBVIOUS
    <3>4. QED
      BY <1>2, <2>1, <3>1, <3>2, <3>3, FlushTakesTurn
  <2>4. QED
    BY <2>1, <2>2, <2>3, OpenHasPolicy
<1>4. Feed!FeedNext
  BY <1>3 DEF Feed!FeedNext
<1>5. RegistrationsInv'
  <2>1. subs' = [s \in Subs |-> subs'[s]]
    BY <1>1
  <2>2. attached' /\ emitted' \in Nat /\ grant' \in Grants /\ authority' \in Grants
    BY <1>2
  <2>3. QED
    BY <1>3, <2>1, <2>2 DEF RegistrationsInv
<1>6. ASSUME GrantsInv
      PROVE  GrantsInv'
  <2>1. ASSUME NEW s \in Subs
        PROVE  /\ \A i \in 1 .. Len(Pending(subs'[s])) :
                    Pending(subs'[s])[i].topic \in Admits(grant) \/ Pending(subs'[s])[i].n \in spared
               /\ \A i \in 1 .. Len(wire'[s].events) :
                    wire'[s].events[i].topic \in Admits(grant) \/ wire'[s].events[i].n \in spared
    BY <1>2, <1>3, <1>6, LookedAt
  <2>2. \A s \in Subs : Entitled(s)'
    BY <1>2, <2>1 DEF Entitled, Admits
  <2>3. DeliveredIsGranted'
    BY <1>2, <2>1 DEF DeliveredIsGranted, Admits
  <2>4. QED
    BY <2>2, <2>3 DEF GrantsInv
<1>7. QED
  BY <1>4, <1>5, <1>6

LEMMA FlushRevokedIs ==
  ASSUME RegistrationsInv, attached, FlushRevoked, UNCHANGED <<grant, attached, deaf, emitted, spared>>
  PROVE  RegistrationsInv' /\ Feed!FeedNext /\ GrantsInv'
<1>1. /\ subs' = AllClosed /\ UNCHANGED authority
      /\ wire' = [s \in Subs |-> IF deaf THEN Silence
                                 ELSE [events |-> <<>>, lost |-> Size(subs[s]) + subs[s].lost]]
  BY DEF FlushRevoked
<1>2. RegistrationsInv'
  BY <1>1, AllClosedIs DEF RegistrationsInv
<1>3. GrantsInv'
  <2>1. \A s \in Subs : Len(wire'[s].events) = 0
    BY <1>1 DEF Silence
  <2>2. DeliveredIsGranted'
    BY <2>1 DEF DeliveredIsGranted
  <2>3. \A s \in Subs : Entitled(s)'
    BY <1>1, AllClosedIs DEF Entitled
  <2>4. QED
    BY <2>2, <2>3 DEF GrantsInv
<1>4. ASSUME NEW s \in Subs
      PROVE  Feed!Turn(s) \/ Feed!Idles(s)
  <2>1. Well(subs[s]) /\ subs'[s] = Closed
    BY <1>1 DEF RegistrationsInv, AllClosed
  <2>2. CASE subs[s] = Closed
    <3>1. wire'[s] = Silence
      <4>1. Size(subs[s]) + subs[s].lost = 0
        BY <2>2, ClosedIsWell DEF Closed
      <4>2. QED
        BY <1>1, <4>1 DEF Silence
    <3>2. QED
      BY <2>1, <2>2, <3>1, IdleWhenSame
  <2>3. CASE subs[s].policy # {} /\ \E p \in Policies : subs[s].policy = {p}
    <3>1. PICK p \in Policies : subs[s].policy = {p}
      BY <2>3
    <3> DEFINE q == Pending(subs[s])
    <3>2. /\ q \in Seq(Happenings) /\ Len(q) = Size(subs[s]) /\ Size(subs[s]) \in Nat
          /\ subs[s].lost \in Nat /\ subs[s].outstanding \in Nat /\ p.credits \in Nat
          /\ subs[s].outstanding <= p.credits
      BY <2>1, <3>1, PendingIs, PolicyIs DEF Well, InRoom, Sound, Registrations
    <3>3. q = Feed!Readable(q, Topics)
      <4>1. \A i \in 1 .. Len(q) : q[i] \in Happenings
        BY <3>2
      <4>2. \A i \in 1 .. Len(q) : q[i].topic \in Topics
        BY <4>1 DEF Happenings
      <4>3. QED
        BY <3>2, <4>2, ReadableIs
    <3> HIDE DEF q
    <3> DEFINE rest == SubSeq(q, 0 + 0 + 1, Len(q))
               gone == subs[s].lost + (Len(q) - Len(q)) + 0
    <3>4. SubSeq(q, 1, 0) = <<>> /\ Len(rest) = Len(q) /\ gone = subs[s].lost
      BY <3>2
    <3>5. Sends(s, SubSeq(q, 1, 0), gone + Len(rest))
      <4>1. gone + Len(rest) = Size(subs[s]) + subs[s].lost
        BY <3>2, <3>4
      <4>2. QED
        BY <1>1, <3>4, <4>1 DEF Sends
    <3>6. /\ 0 \in 0 .. Len(q) /\ 0 <= p.credits - subs[s].outstanding /\ 0 * 0 = 0 /\ 0 + 0 <= Len(q)
          /\ p \in subs[s].policy /\ Topics \in SUBSET Topics /\ 0 \in {0, 1}
      BY <3>1, <3>2
    <3> HIDE DEF rest, gone
    <3>7. Feed!Turn(s)
      BY <2>1, <3>3, <3>5, <3>6, TurnEnds DEF q, rest, gone
    <3>8. QED
      BY <3>7
  <2>4. QED
    BY <2>1, <2>2, <2>3, OpenHasPolicy
<1>5. QED
  BY <1>2, <1>3, <1>4 DEF Feed!FeedNext

\* One registration becomes another one, and the others stay.
LEMMA OneChanges ==
  ASSUME RegistrationsInv, Quiet, NEW s \in Subs, NEW d, subs' = [subs EXCEPT ![s] = d], Well(d),
         emitted' \in Nat, grant' \in Grants, authority' \in Grants, attached',
         Feed!Opens(s) \/ Feed!Cancelled(s) \/ Feed!Credited(s) \/ Feed!Idles(s)
  PROVE  RegistrationsInv' /\ Feed!FeedNext /\ subs'[s] = d /\ \A x \in Subs \ {s} : subs'[x] = subs[x]
<1>1. /\ subs = [x \in Subs |-> subs[x]] /\ \A x \in Subs : Well(subs[x])
  BY DEF RegistrationsInv
<1>2. /\ subs' = [x \in Subs |-> subs'[x]] /\ subs'[s] = d
      /\ \A x \in Subs \ {s} : subs'[x] = subs[x]
  BY <1>1
<1>3. \A x \in Subs : Well(subs'[x])
  BY <1>1, <1>2
<1>4. \A x \in Subs \ {s} : Feed!Idles(x)
  BY <1>2, NothingSent, IdleWhenSame
<1>5. RegistrationsInv'
  BY <1>2, <1>3 DEF RegistrationsInv
<1>6. Feed!FeedNext
  BY <1>4 DEF Feed!FeedNext
<1>7. QED
  BY <1>2, <1>5, <1>6

LEMMA SubscribeIs ==
  ASSUME RegistrationsInv, NEW s \in Subs, Subscribe(s)
  PROVE  RegistrationsInv' /\ Feed!FeedNext /\ (GrantsInv => GrantsInv')
<1>1. /\ Quiet /\ attached /\ attached' /\ grant # NoGrant /\ authority' = grant
      /\ UNCHANGED <<grant, emitted, deaf>>
      /\ grant \in Grants /\ grant \subseteq Topics /\ emitted \in Nat
      /\ wire'[s] = Silence
  BY BridgeAssumption, NothingSent DEF Subscribe, RegistrationsInv
<1>2. /\ RegistrationsInv' /\ Feed!FeedNext
      /\ \A x \in Subs : subs'[x] = subs[x] \/ Pending(subs'[x]) = <<>>
  <2>1. CASE UNCHANGED subs
    BY <1>1, <2>1, QuietStep
  <2>2. CASE ~IsOpen(s) /\ \E f \in Frames : subs' = [subs EXCEPT ![s] = Opened(f.policy, f.wants)]
    <3>1. PICK f \in Frames : subs' = [subs EXCEPT ![s] = Opened(f.policy, f.wants)]
      BY <2>2
    <3> DEFINE d == Opened(f.policy, f.wants)
    <3>2. f.policy \in Policies /\ f.wants \in SUBSET Topics
      BY BridgeAssumption DEF Policies
    <3>3. /\ Well(d) /\ Pending(d) = <<>> /\ d.policy = {f.policy} /\ d.lost = 0 /\ d.outstanding = 0
      BY <3>2, OpenedIsWell
    <3> HIDE DEF d
    <3>4. subs' = [subs EXCEPT ![s] = d] /\ subs'[s] = d
      BY <3>1 DEF d, RegistrationsInv
    <3>5. Feed!Opens(s)
      <4>1. SubSeq(subs'[s].items, subs'[s].head + 1, Len(subs'[s].items)) = <<>>
        BY <3>3, <3>4 DEF Pending
      <4>2. wire'[s] = Feed!Silence /\ subs[s].policy = {}
        BY <1>1, <2>2 DEF Silence, Feed!Silence, IsOpen
      <4>3. f.policy \in {g.policy : g \in Frames}
        OBVIOUS
      <4>4. QED
        BY <3>3, <3>4, <4>1, <4>2, <4>3 DEF Feed!Opens, Feed!Quiet
    <3>6. RegistrationsInv' /\ Feed!FeedNext /\ \A x \in Subs \ {s} : subs'[x] = subs[x]
      BY <1>1, <3>3, <3>4, <3>5, OneChanges
    <3>7. QED
      BY <3>3, <3>4, <3>6
  <2>3. QED
    BY <2>1, <2>2 DEF Subscribe
<1>3. ASSUME GrantsInv
      PROVE  GrantsInv'
  <2>1. ASSUME NEW x \in Subs, NEW i \in 1 .. Len(Pending(subs[x]))
        PROVE  Pending(subs[x])[i].topic \in Admits(grant) \/ Pending(subs[x])[i].n \in spared'
    <3> DEFINE e == Pending(subs[x])[i]
    <3>1. e.topic \in Admits(authority) \/ e.n \in spared
      BY <1>3 DEF GrantsInv, Entitled
    <3>2. CASE authority = grant
      <4>1. spared' = spared
        BY <3>2 DEF Subscribe
      <4>2. QED
        BY <3>1, <3>2, <4>1
    <3>3. CASE authority # grant
      <4> DEFINE waiting == UNION {{Pending(subs[y])[j] : j \in 1 .. Size(subs[y])} : y \in Subs}
      <4>1. spared' = spared \cup {z.n : z \in {z \in waiting : z.topic \notin grant}}
        BY <3>3 DEF Subscribe
      <4>2. Len(Pending(subs[x])) = Size(subs[x])
        BY PendingIs DEF RegistrationsInv, Well
      <4>3. e \in waiting
        BY <4>2
      <4> HIDE DEF waiting, e
      <4>4. CASE e.topic \in grant
        BY <1>1, <4>4 DEF Admits, e
      <4>5. CASE e.topic \notin grant
        BY <4>1, <4>3, <4>5 DEF e
      <4>6. QED
        BY <4>4, <4>5
    <3>4. QED
      BY <3>2, <3>3
  <2>2. ASSUME NEW x \in Subs
        PROVE  Entitled(x)'
    <3>1. ASSUME NEW i \in 1 .. Len(Pending(subs'[x]))
          PROVE  Pending(subs'[x])[i].topic \in Admits(grant) \/ Pending(subs'[x])[i].n \in spared'
      <4>1. CASE subs'[x] = subs[x]
        BY <2>1, <3>1, <4>1
      <4>2. CASE Pending(subs'[x]) = <<>>
        BY <3>1, <4>2
      <4>3. QED
        BY <1>2, <4>1, <4>2
    <3>2. QED
      BY <1>1, <3>1 DEF Entitled, Admits
  <2>3. DeliveredIsGranted'
    BY <1>1, NothingSent
  <2>4. QED
    BY <2>2, <2>3 DEF GrantsInv
<1>4. QED
  BY <1>2, <1>3

LEMMA UnsubscribeIs ==
  ASSUME RegistrationsInv, NEW s \in Subs, Unsubscribe(s)
  PROVE  RegistrationsInv' /\ Feed!FeedNext /\ (GrantsInv => GrantsInv')
<1>1. /\ Quiet /\ attached /\ attached' /\ subs' = [subs EXCEPT ![s] = Closed]
      /\ UNCHANGED <<grant, authority, emitted, spared>>
      /\ grant \in Grants /\ emitted \in Nat
  BY DEF Unsubscribe, RegistrationsInv
<1>2. subs'[s] = Closed /\ wire'[s] = Silence /\ subs' = [x \in Subs |-> subs'[x]]
      /\ \A x \in Subs \ {s} : subs'[x] = subs[x]
  BY <1>1, NothingSent DEF RegistrationsInv
<1>3. Feed!Cancelled(s)
  BY <1>2, ClosingIs DEF Feed!Cancelled, Feed!Quiet, Silence, Feed!Silence
<1>4. \A x \in Subs : Feed!Idles(x) \/ Feed!Cancelled(x)
  BY <1>1, <1>2, <1>3, NothingSent, IdleWhenSame
<1>5. Feed!FeedNext
  BY <1>4 DEF Feed!FeedNext
<1>6. RegistrationsInv'
  BY <1>1, <1>2, ClosedIsWell DEF RegistrationsInv
<1>7. ASSUME GrantsInv
      PROVE  GrantsInv'
  <2>1. ASSUME NEW x \in Subs
        PROVE  Entitled(x)'
    <3>1. CASE x = s
      <4>1. Len(Pending(subs'[x])) = 0
        BY <1>2, <3>1, ClosedIsWell
      <4>2. QED
        BY <4>1 DEF Entitled
    <3>2. CASE x # s
      BY <1>1, <1>2, <1>7, <3>2 DEF Entitled, GrantsInv, Admits
    <3>3. QED
      BY <3>1, <3>2
  <2>2. QED
    BY <1>1, <2>1, NothingSent DEF GrantsInv
<1>8. QED
  BY <1>5, <1>6, <1>7

LEMMA CreditIs ==
  ASSUME RegistrationsInv, NEW s \in Subs, Credit(s)
  PROVE  RegistrationsInv' /\ Feed!FeedNext /\ (GrantsInv => GrantsInv')
<1>1. /\ Quiet /\ attached /\ attached' /\ IsOpen(s)
      /\ UNCHANGED <<grant, authority, emitted, spared>>
      /\ grant \in Grants /\ emitted \in Nat
  BY DEF Credit, RegistrationsInv
<1>2. PICK k \in 1 .. 2 : subs' = [subs EXCEPT ![s].outstanding = IF @ > k THEN @ - k ELSE 0]
  BY DEF Credit
<1> DEFINE r == subs[s]
           o == IF r.outstanding > k THEN r.outstanding - k ELSE 0
           d == [r EXCEPT !.outstanding = o]
<1>3. Well(r) /\ r \in Registrations /\ r.outstanding \in Nat /\ subs = [x \in Subs |-> subs[x]]
  BY DEF RegistrationsInv, Well, Sound, Registrations
<1>4. o \in Nat /\ o <= r.outstanding
  BY <1>3
<1>5. /\ subs'[s] = d /\ subs' = [x \in Subs |-> subs'[x]]
      /\ \A x \in Subs \ {s} : subs'[x] = subs[x]
  BY <1>2, <1>3
<1> HIDE DEF o
<1>6. /\ d \in Registrations /\ d.items = r.items /\ d.head = r.head /\ d.slots = r.slots
      /\ d.policy = r.policy /\ d.closing = r.closing /\ d.lost = r.lost /\ d.outstanding = o
  BY <1>3, <1>4 DEF Registrations
<1> HIDE DEF d
<1>7. Pending(d) = Pending(r) /\ Size(d) = Size(r) /\ Coalesces(d) = Coalesces(r)
  BY <1>6 DEF Pending, Size, Coalesces
<1>8. Well(d)
  <2>1. Sound(d)
    BY <1>3, <1>6, <1>7 DEF Well, Sound, Indexed
  <2>2. d.policy # {}
    BY <1>1, <1>6 DEF IsOpen
  <2>3. ASSUME NEW p \in d.policy
        PROVE  /\ Size(d) <= p.credits /\ d.outstanding <= p.credits
               /\ d.closing => p.overflow = "disconnect" /\ Size(d) >= p.credits
    <3>1. /\ Size(r) <= p.credits /\ r.outstanding <= p.credits
          /\ r.closing => p.overflow = "disconnect" /\ Size(r) >= p.credits
      BY <1>3, <1>6 DEF Well, InRoom
    <3>2. p.credits \in Nat
      BY <1>6, PolicyIs DEF Registrations
    <3>3. QED
      BY <1>3, <1>4, <1>6, <1>7, <3>1, <3>2
  <2>4. QED
    BY <2>1, <2>2, <2>3 DEF Well, InRoom
<1>9. Feed!Credited(s)
  <2>1. /\ SubSeq(subs'[s].items, subs'[s].head + 1, Len(subs'[s].items))
             = SubSeq(subs[s].items, subs[s].head + 1, Len(subs[s].items))
        /\ subs'[s].policy = subs[s].policy /\ subs'[s].lost = subs[s].lost
        /\ subs'[s].outstanding <= subs[s].outstanding /\ subs[s].policy # {}
    BY <1>1, <1>4, <1>5, <1>6 DEF IsOpen
  <2>2. wire'[s] = Feed!Silence
    BY <1>1, NothingSent DEF Silence, Feed!Silence
  <2>3. QED
    BY <2>1, <2>2 DEF Feed!Credited, Feed!Quiet
<1>10. \A x \in Subs : Feed!Idles(x) \/ Feed!Credited(x)
  BY <1>1, <1>5, <1>9, NothingSent, IdleWhenSame
<1>11. Feed!FeedNext
  BY <1>10 DEF Feed!FeedNext
<1>12. RegistrationsInv'
  <2>1. \A x \in Subs : Well(subs'[x])
    BY <1>5, <1>8 DEF RegistrationsInv
  <2>2. attached' /\ emitted' \in Nat /\ grant' \in Grants /\ authority' \in Grants \cup {NoGrant}
    BY <1>1 DEF RegistrationsInv
  <2>3. QED
    BY <1>5, <2>1, <2>2 DEF RegistrationsInv
<1>13. ASSUME GrantsInv
       PROVE  GrantsInv'
  <2>1. \A x \in Subs : Pending(subs'[x]) = Pending(subs[x])
    BY <1>5, <1>7
  <2>2. \A x \in Subs : Entitled(x)'
    BY <1>1, <1>13, <2>1 DEF GrantsInv, Entitled, Admits
  <2>3. QED
    BY <1>1, <2>2, NothingSent DEF GrantsInv
<1>14. QED
  BY <1>11, <1>12, <1>13

\* The steps that touch no queue; a grant is looked at again only where there is none.
LEMMA RestIs ==
  ASSUME RegistrationsInv,
         Attach \/ PeerDies \/ Regrant \/ (Flush /\ ~attached) \/ UNCHANGED bridgeVars
  PROVE  RegistrationsInv' /\ (GrantsInv => GrantsInv') /\ (Feed!FeedNext \/ UNCHANGED Feed!feedVars)
<1>1. CASE UNCHANGED bridgeVars
  <2>1. UNCHANGED <<grant, attached, authority, subs, wire, deaf, emitted, spared>>
    BY <1>1 DEF bridgeVars
  <2>2. UNCHANGED Feed!feedVars
    BY <2>1 DEF Feed!feedVars
  <2>3. RegistrationsInv'
    BY <2>1 DEF RegistrationsInv, AllClosed
  <2>4. GrantsInv => GrantsInv'
    BY <2>1 DEF GrantsInv, DeliveredIsGranted, Entitled, Admits
  <2>5. QED
    BY <2>2, <2>3, <2>4
<1>2. CASE Attach \/ PeerDies \/ Regrant \/ (Flush /\ ~attached)
  <2>1. /\ Quiet /\ UNCHANGED <<subs, emitted, spared>> /\ grant' \in Grants
        /\ authority' \in Grants \cup {NoGrant} /\ (attached => attached')
        /\ authority' = authority \/ ~attached
    <3>1. grant \in Grants /\ authority \in Grants \cup {NoGrant}
      BY DEF RegistrationsInv
    <3>2. CASE Attach
      BY <3>1, <3>2 DEF Attach
    <3>3. CASE PeerDies
      BY <3>1, <3>3 DEF PeerDies
    <3>4. CASE Regrant
      BY <3>1, <3>4 DEF Regrant
    <3>5. CASE Flush /\ ~attached
      BY <3>1, <3>5 DEF Flush
    <3>6. QED
      BY <1>2, <3>2, <3>3, <3>4, <3>5
  <2>2. RegistrationsInv' /\ Feed!FeedNext
    BY <2>1, QuietStep
  <2>3. ASSUME GrantsInv
        PROVE  GrantsInv'
    <3>1. ASSUME NEW s \in Subs
          PROVE  Entitled(s)'
      <4>1. CASE ~attached
        <5>1. subs'[s] = Closed
          BY <2>1, <4>1 DEF RegistrationsInv, AllClosed
        <5>2. Len(Pending(subs'[s])) = 0
          BY <5>1, ClosedIsWell
        <5>3. QED
          BY <5>2 DEF Entitled
      <4>2. CASE attached
        BY <2>1, <2>3, <4>2 DEF GrantsInv, Entitled, Admits
      <4>3. QED
        BY <4>1, <4>2
    <3>2. QED
      BY <2>1, <3>1, NothingSent DEF GrantsInv
  <2>4. QED
    BY <2>2, <2>3
<1>3. QED
  BY <1>1, <1>2

LEMMA DetachIs ==
  ASSUME RegistrationsInv, Detach
  PROVE  RegistrationsInv' /\ Feed!FeedNext /\ GrantsInv'
<1>1. Quiet /\ subs' = AllClosed /\ UNCHANGED <<grant, authority, emitted, spared>>
  BY DEF Detach
<1>2. \A s \in Subs : Feed!Cancelled(s)
  BY <1>1, AllClosedIs, NothingSent DEF Feed!Cancelled, Feed!Quiet, Silence, Feed!Silence
<1>3. Feed!FeedNext
  BY <1>2 DEF Feed!FeedNext
<1>4. RegistrationsInv'
  BY <1>1, AllClosedIs DEF RegistrationsInv
<1>5. \A s \in Subs : Entitled(s)'
  BY <1>1, AllClosedIs DEF Entitled
<1>6. QED
  BY <1>1, <1>3, <1>4, <1>5, NothingSent DEF GrantsInv

LEMMA FlushIs ==
  ASSUME RegistrationsInv, Flush, attached
  PROVE  RegistrationsInv' /\ Feed!FeedNext /\ (GrantsInv => GrantsInv')
<1>1. UNCHANGED <<grant, attached, deaf, emitted, spared>> /\ (FlushRevoked \/ FlushGranted)
  BY DEF Flush
<1>2. QED
  BY <1>1, FlushRevokedIs, FlushGrantedIs

LEMMA BridgeStepIs ==
  ASSUME RegistrationsInv, [BridgeNext]_bridgeVars
  PROVE  /\ RegistrationsInv' /\ (GrantsInv => GrantsInv')
         /\ Feed!FeedNext \/ UNCHANGED Feed!feedVars
<1>1. CASE Attach \/ PeerDies \/ Regrant \/ (Flush /\ ~attached) \/ UNCHANGED bridgeVars
  BY <1>1, RestIs
<1>2. CASE Detach
  BY <1>2, DetachIs
<1>3. CASE Emit
  BY <1>3, EmitIs
<1>4. CASE Flush /\ attached
  BY <1>4, FlushIs
<1>5. CASE \E s \in Subs : Subscribe(s) \/ Unsubscribe(s) \/ Credit(s)
  BY <1>5, SubscribeIs, UnsubscribeIs, CreditIs
<1>6. QED
  BY <1>1, <1>2, <1>3, <1>4, <1>5 DEF BridgeNext

\* Every queue stays within the room of its policy, whatever comes between the events: the
\* array, its dead prefix and the index of keys always describe one bounded queue
\* (events-bridge.ts:160-372).
THEOREM RegistrationsStayWell == BridgeSpec => []RegistrationsInv
<1>1. BridgeInit => RegistrationsInv
  BY RegistrationsInit
<1>2. RegistrationsInv /\ [BridgeNext]_bridgeVars => RegistrationsInv'
  BY BridgeStepIs
<1>3. QED
  BY <1>1, <1>2, PTL DEF BridgeSpec

\* What is delivered is granted when it is delivered, whatever the user installs or consents
\* to between an event and the flush that carries it, but for what a subscribe has kept from
\* the purge (events-bridge.ts:41-44, 545).
THEOREM DeliveredIsAlwaysGranted == BridgeSpec => []DeliveredIsGranted
<1>1. BridgeInit => GrantsInv
  BY RegistrationsInit
<1>2. RegistrationsInv /\ GrantsInv /\ [BridgeNext]_bridgeVars => GrantsInv'
  BY BridgeStepIs
<1>3. GrantsInv => DeliveredIsGranted
  BY DEF GrantsInv
<1>4. QED
  BY <1>1, <1>2, <1>3, RegistrationsStayWell, PTL DEF BridgeSpec

\* The queues of the bridge, with the grant purged, batches halved and credit cut, do what the
\* reference semantics of the protocol say (events-bridge.ts:17, 247).
THEOREM KeepsToTheFeed == BridgeSpec => ImplementsPluginFeed
<1>1. BridgeInit => Feed!FeedInit
  BY RegistrationsInit
<1>2. RegistrationsInv /\ [BridgeNext]_bridgeVars => [Feed!FeedNext]_(Feed!feedVars)
  BY BridgeStepIs
<1>3. QED
  BY <1>1, <1>2, RegistrationsStayWell, PTL DEF BridgeSpec, ImplementsPluginFeed, Feed!FeedSpec
-----------------------------------------------------------------------------
(***************************************************************************)
(* The runs of one graph: for every document, every ceiling and every      *)
(* number of runs, sweeps and starts.                                      *)
(***************************************************************************)

States == [status : {"none", "queued", "running", "waiting"}, pos : 0 .. Len(Document),
           timer : {"none", "armed", "due"}, stepping : BOOLEAN]
Items == [id : Runs, row : States]
Moments == [rows : [Runs -> States], walk : [Runs -> 0 .. Len(Document)]]

EngineTyped ==
  /\ EngineTypeOK
  /\ rows \in [Runs -> States]
  /\ sweeps \in [Slots -> [todo : SUBSET Items, on : 0 .. MaxRuns]]
  /\ furthest \in [Runs -> 0 .. Len(Document)]

\* What a process leaves behind, and what a start has before the timer ticks.
Stopped ==
  /\ engine = "down" => walk = [r \in Runs |-> 0]
  /\ engine # "up" => \A k \in Slots : UnderWay(k) => k = 1 /\ engine # "down"

Emptied == graph = "deleted" => \A r \in Runs : rows[r].status = "none"

\* Runs that have not been fired stay out of it.
Unfired == \A r \in Runs : r > fired => rows[r].status = "none" /\ walk[r] = 0 /\ furthest[r] = 0

Counts ==
  /\ mode = "drop" => Cardinality(Live(rows)) <= 1
  /\ mode = "parallel" => Cardinality(Live(rows)) <= MaxParallel
  /\ Cardinality(WithStatus(rows, {"queued"})) <= MaxQueued

Orderly == "overlapped" \notin disorder
OneSweep == Orderly => \A j, k \in Slots : UnderWay(j) /\ UnderWay(k) => j = k

\* Without two sweeps at once, a run that a sweep has listed is still what it was.
ListedStill ==
  Orderly /\ graph # "deleted" =>
    \A k \in Slots : \A item \in sweeps[k].todo :
      item.row = rows[item.id] /\ item.row.status = "waiting" /\ item.row.timer = "due"

\* Where a run stands is not before what it has executed.
Behind ==
  Orderly =>
    /\ repeated = {}
    /\ \A r \in Runs : /\ walk[r] # 0 => furthest[r] = walk[r]
                       /\ rows[r].status = "queued" => furthest[r] = 0
                       /\ rows[r].status = "waiting" => furthest[r] <= rows[r].pos

Begun(rs, r) == rs[r].status \in {"running", "waiting"}
OneIsBegun ==
  mode = "queue" /\ disorder = {} => \A q, r \in Runs : Begun(rows, q) /\ Begun(rows, r) => q = r

EngineInv ==
  /\ EngineTyped
  /\ Stopped /\ Emptied /\ Unfired /\ RunningIsWalked
  /\ Counts /\ OneSweep /\ ListedStill /\ Behind /\ OneIsBegun
-----------------------------------------------------------------------------
(* The walk.                                                               *)

LEMMA Constants ==
  /\ Len(Document) \in Nat \ {0} /\ Document \in Seq({"act", "break", "wait"})
  /\ MaxRuns \in Nat \ {0} /\ MaxParallel \in Nat \ {0} /\ MaxQueued \in Nat \ {0}
  /\ MaxPerHour \in Nat \ {0} /\ MaxSweeps \in Nat \ {0} /\ MaxStarts \in Nat \ {0}
BY GraphAssumption

LEMMA NoRowIsState == /\ NoRow \in States /\ NoRow.status = "none" /\ NoRow.pos = 0
                      /\ NoRow.timer = "none" /\ NoRow.stepping = FALSE
BY Constants DEF NoRow, States

LEMMA LeastRun ==
  ASSUME NEW S, S \subseteq Runs, S # {}
  PROVE  Min(S) \in S /\ \A x \in S : Min(S) <= x
<1>1. S \subseteq Nat
  BY Constants DEF Runs
<1> DEFINE R == {ss \in Nat \X Nat : ss[1] < ss[2]}
<1>2. IsWellFoundedOn(R, Nat)
  BY NatLessThanWellFounded DEF OpToRel
<1>3. PICK x \in S : \A y \in S : <<y, x>> \notin R
  BY <1>1, <1>2, WFMin
<1>4. \A y \in S : x <= y
  <2> TAKE y \in S
  <2>1. x \in Nat /\ y \in Nat /\ ~(<<y, x>> \in Nat \X Nat /\ y < x)
    BY <1>1, <1>3
  <2>2. QED
    BY <2>1
<1>5. QED
  BY <1>4 DEF Min

\* In s no run is being executed, and q, the oldest one that is queued, begins in t.
Starts(s, t, q) ==
  /\ s.rows[q].status = "queued"
  /\ \A x \in Runs : /\ s.rows[x].status # "running"
                     /\ s.rows[x].status = "queued" => q <= x
  /\ \/ t.rows[q].status = "running" /\ t.walk[q] = 1
     \/ t.rows[q].status = "waiting" /\ t.walk[q] = 0

SameBut(s, t, r) == \A q \in Runs : q # r => t.rows[q] = s.rows[q] /\ t.walk[q] = s.walk[q]

Pumped(s, t) ==
  /\ t \in Moments
  /\ t = s \/ \E q \in Runs : Starts(s, t, q) /\ SameBut(s, t, q)

\* The run r gets as far as node n in t.
Reached(s, t, r, n) ==
  /\ t \in Moments /\ SameBut(s, t, r)
  /\ \/ s.rows[r].status # "none" /\ t.rows[r].status = "running" /\ t.walk[r] = n
     \/ s.rows[r].status # "none" /\ t.rows[r].status = "waiting" /\ t.walk[r] = 0 /\ t.rows[r].pos >= n - 1
     \/ s.rows[r].status = "none" /\ t.rows[r] = s.rows[r] /\ t.walk[r] \in {0, n}

LEMMA PutIs ==
  ASSUME NEW s \in Moments, NEW r \in Runs, NEW row \in States
  PROVE  /\ Put(s, r, row) \in Moments /\ SameBut(s, Put(s, r, row), r) /\ Put(s, r, row).walk = s.walk
         /\ Put(s, r, row).rows[r] = IF s.rows[r].status = "none" THEN s.rows[r] ELSE row
BY DEF Put, SameBut, Moments

LEMMA WalkPut ==
  ASSUME NEW s \in Moments, NEW r \in Runs, NEW n \in 0 .. Len(Document)
  PROVE  /\ [s EXCEPT !.walk[r] = n] \in Moments /\ [s EXCEPT !.walk[r] = n].rows = s.rows
         /\ [s EXCEPT !.walk[r] = n].walk[r] = n
         /\ \A q \in Runs : q # r => [s EXCEPT !.walk[r] = n].walk[q] = s.walk[q]
BY DEF Moments

LEMMA ReachIs ==
  ASSUME NEW s \in Moments, NEW r \in Runs, NEW row \in States, NEW n \in 1 .. Len(Document), NEW over
  PROVE  Reached(s, Reach(s, r, row, n, over), r, n)
<1> DEFINE broken == [row EXCEPT !.status = "waiting", !.pos = n - 1, !.timer = "none"]
           parked == [row EXCEPT !.status = "waiting", !.pos = n, !.timer = "armed"]
           begun == [row EXCEPT !.status = "running", !.pos = n - 1, !.timer = "none"]
           still == [s EXCEPT !.walk[r] = 0]
           moved == [s EXCEPT !.walk[r] = n]
<1>0. n \in 0 .. Len(Document) /\ n - 1 \in 0 .. Len(Document) /\ 0 \in 0 .. Len(Document)
  BY Constants
<1>1. /\ broken \in States /\ broken.status = "waiting" /\ broken.pos = n - 1
      /\ parked \in States /\ parked.status = "waiting" /\ parked.pos = n
      /\ begun \in States /\ begun.status = "running"
  <2>1. broken \in States /\ broken.status = "waiting" /\ broken.pos = n - 1
    BY <1>0 DEF States
  <2>2. parked \in States /\ parked.status = "waiting" /\ parked.pos = n
    BY <1>0 DEF States
  <2>3. begun \in States /\ begun.status = "running"
    BY <1>0 DEF States
  <2>4. QED
    BY <2>1, <2>2, <2>3
<1>2. /\ still \in Moments /\ still.rows = s.rows /\ still.walk[r] = 0
      /\ \A q \in Runs : q # r => still.walk[q] = s.walk[q]
  <2>1. \A i \in 0 .. Len(Document) :
          /\ [s EXCEPT !.walk[r] = i] \in Moments /\ [s EXCEPT !.walk[r] = i].rows = s.rows
          /\ [s EXCEPT !.walk[r] = i].walk[r] = i
          /\ \A q \in Runs : q # r => [s EXCEPT !.walk[r] = i].walk[q] = s.walk[q]
    BY WalkPut
  <2>2. QED
    BY <1>0, <2>1
<1>3. /\ moved \in Moments /\ moved.rows = s.rows /\ moved.walk[r] = n
      /\ \A q \in Runs : q # r => moved.walk[q] = s.walk[q]
  BY <1>0, WalkPut
<1> HIDE DEF broken, parked, begun, still, moved
<1>4. Reach(s, r, row, n, over) \in {Put(still, r, broken), Put(still, r, parked), Put(moved, r, begun)}
  BY DEF Reach, broken, parked, begun, still, moved
<1>5. Reached(s, Put(still, r, broken), r, n)
  <2> DEFINE t == Put(still, r, broken)
  <2>1. /\ t \in Moments /\ SameBut(still, t, r) /\ t.walk = still.walk
        /\ t.rows[r] = IF still.rows[r].status = "none" THEN still.rows[r] ELSE broken
    BY <1>1, <1>2, PutIs
  <2> HIDE DEF t
  <2>2. SameBut(s, t, r)
    BY <1>2, <2>1 DEF SameBut
  <2>3. QED
    BY <1>0, <1>1, <1>2, <2>1, <2>2 DEF Reached, t
<1>6. Reached(s, Put(still, r, parked), r, n)
  <2> DEFINE t == Put(still, r, parked)
  <2>1. /\ t \in Moments /\ SameBut(still, t, r) /\ t.walk = still.walk
        /\ t.rows[r] = IF still.rows[r].status = "none" THEN still.rows[r] ELSE parked
    BY <1>1, <1>2, PutIs
  <2> HIDE DEF t
  <2>2. SameBut(s, t, r)
    BY <1>2, <2>1 DEF SameBut
  <2>3. QED
    BY <1>0, <1>1, <1>2, <2>1, <2>2 DEF Reached, t
<1>7. Reached(s, Put(moved, r, begun), r, n)
  <2> DEFINE t == Put(moved, r, begun)
  <2>1. /\ t \in Moments /\ SameBut(moved, t, r) /\ t.walk = moved.walk
        /\ t.rows[r] = IF moved.rows[r].status = "none" THEN moved.rows[r] ELSE begun
    BY <1>1, <1>3, PutIs
  <2> HIDE DEF t
  <2>2. SameBut(s, t, r)
    BY <1>3, <2>1 DEF SameBut
  <2>3. QED
    BY <1>0, <1>1, <1>3, <2>1, <2>2 DEF Reached, t
<1>8. QED
  BY <1>4, <1>5, <1>6, <1>7

LEMMA PumpIs ==
  ASSUME NEW s \in Moments
  PROVE  Pumped(s, Pump(s))
<1>1. CASE WithStatus(s.rows, {"queued"}) = {} \/ WithStatus(s.rows, {"running"}) # {}
  BY <1>1 DEF Pump, Pumped
<1>2. CASE ~(WithStatus(s.rows, {"queued"}) = {} \/ WithStatus(s.rows, {"running"}) # {})
  <2> DEFINE q == Min(WithStatus(s.rows, {"queued"}))
             t == Reach(s, q, s.rows[q], 1, FALSE)
  <2>1. q \in WithStatus(s.rows, {"queued"}) /\ \A x \in WithStatus(s.rows, {"queued"}) : q <= x
    BY <1>2, LeastRun DEF WithStatus
  <2>2. q \in Runs /\ s.rows[q].status = "queued" /\ s.rows[q] \in States
    BY <2>1 DEF WithStatus, Moments
  <2>3. \A x \in Runs : /\ s.rows[x].status # "running"
                        /\ s.rows[x].status = "queued" => q <= x
    BY <1>2, <2>1 DEF WithStatus
  <2>4. Pump(s) = t
    BY <1>2 DEF Pump
  <2>5. Reached(s, t, q, 1)
    <3>1. 1 \in 1 .. Len(Document)
      BY Constants
    <3>2. QED
      BY <2>2, <3>1, ReachIs
  <2> HIDE DEF q, t
  <2>6. Starts(s, t, q) /\ SameBut(s, t, q) /\ t \in Moments
    BY <2>2, <2>3, <2>5 DEF Starts, Reached
  <2>7. QED
    BY <2>2, <2>4, <2>6 DEF Pumped
<1>3. QED
  BY <1>1, <1>2

LEMMA DeletedIs ==
  ASSUME NEW s \in Moments, NEW r \in Runs
  PROVE  /\ Deleted(s, r) \in Moments /\ SameBut(s, Deleted(s, r), r)
         /\ Deleted(s, r).rows[r] = NoRow /\ Deleted(s, r).walk[r] = 0
<1> DEFINE t0 == [s EXCEPT !.rows[r] = NoRow]
           t == [t0 EXCEPT !.walk[r] = 0]
<1>1. /\ s.rows \in [Runs -> States] /\ s.walk \in [Runs -> 0 .. Len(Document)]
      /\ s = [rows |-> s.rows, walk |-> s.walk]
  BY DEF Moments
<1>2. t = [rows |-> [s.rows EXCEPT ![r] = NoRow], walk |-> [s.walk EXCEPT ![r] = 0]]
  <2>1. t0 = [rows |-> [s.rows EXCEPT ![r] = NoRow], walk |-> s.walk]
    BY <1>1, SMTT(30)
  <2> HIDE DEF t0
  <2>2. QED
    BY <2>1
<1>3. t.rows = [s.rows EXCEPT ![r] = NoRow] /\ t.walk = [s.walk EXCEPT ![r] = 0]
  BY <1>2
<1>4. t.rows \in [Runs -> States] /\ t.walk \in [Runs -> 0 .. Len(Document)]
  BY <1>1, <1>3, NoRowIsState, Constants
<1>5. t \in Moments
  BY <1>2, <1>3, <1>4 DEF Moments
<1>6. QED
  BY <1>1, <1>3, <1>5 DEF Deleted, SameBut

LEMMA EndIs ==
  ASSUME NEW s \in Moments, NEW r \in Runs
  PROVE  Pumped(Deleted(s, r), End(s, r))
BY DeletedIs, PumpIs DEF End

LEMMA AdvanceIs ==
  ASSUME NEW s \in Moments, NEW r \in Runs, NEW row \in States, NEW over
  PROVE  \/ Pumped(Deleted(s, r), Advance(s, r, row, over))
         \/ /\ row.pos + 1 \in 1 .. Len(Document)
            /\ Reached(s, Advance(s, r, row, over), r, row.pos + 1)
<1>1. CASE row.pos = Len(Document)
  BY <1>1, EndIs DEF Advance
<1>2. CASE row.pos # Len(Document)
  <2>1. row.pos + 1 \in 1 .. Len(Document)
    BY <1>2, Constants DEF States
  <2>2. QED
    BY <1>2, <2>1, ReachIs DEF Advance
<1>3. QED
  BY <1>1, <1>2

\* An UPDATE of a row first makes no difference to where the run gets.
LEMMA GoesOn ==
  ASSUME NEW s \in Moments, NEW r \in Runs, NEW first \in States, NEW row \in States, NEW over,
         s.rows[r].status = "none" \/ first.status # "none"
  PROVE  \/ Pumped(Deleted(s, r), Advance(Put(s, r, first), r, row, over))
         \/ /\ row.pos + 1 \in 1 .. Len(Document)
            /\ Reached(s, Advance(Put(s, r, first), r, row, over), r, row.pos + 1)
<1> DEFINE u == Put(s, r, first)
           t == Advance(u, r, row, over)
<1>1. /\ u \in Moments /\ SameBut(s, u, r) /\ u.walk = s.walk
      /\ u.rows[r] = IF s.rows[r].status = "none" THEN s.rows[r] ELSE first
  BY PutIs
<1> HIDE DEF u
<1>2. \/ Pumped(Deleted(u, r), t)
      \/ row.pos + 1 \in 1 .. Len(Document) /\ Reached(u, t, r, row.pos + 1)
  BY <1>1, AdvanceIs
<1> HIDE DEF t
<1>3. Deleted(u, r) = Deleted(s, r)
  <2>1. /\ Deleted(u, r) \in Moments /\ SameBut(u, Deleted(u, r), r)
        /\ Deleted(u, r).rows[r] = NoRow /\ Deleted(u, r).walk[r] = 0
    BY <1>1, DeletedIs
  <2>2. /\ Deleted(s, r) \in Moments /\ SameBut(s, Deleted(s, r), r)
        /\ Deleted(s, r).rows[r] = NoRow /\ Deleted(s, r).walk[r] = 0
    BY DeletedIs
  <2>3. \A q \in Runs : /\ Deleted(u, r).rows[q] = Deleted(s, r).rows[q]
                        /\ Deleted(u, r).walk[q] = Deleted(s, r).walk[q]
    BY <1>1, <2>1, <2>2 DEF SameBut
  <2>4. Deleted(u, r).rows = Deleted(s, r).rows /\ Deleted(u, r).walk = Deleted(s, r).walk
    BY <2>1, <2>2, <2>3 DEF Moments
  <2>5. \A d \in Moments : d = [rows |-> d.rows, walk |-> d.walk]
    BY DEF Moments
  <2>6. Deleted(u, r) \in Moments /\ Deleted(s, r) \in Moments
    BY <2>1, <2>2
  <2>7. QED
    BY <2>4, <2>5, <2>6
<1>4. ASSUME NEW n, Reached(u, t, r, n)
      PROVE  Reached(s, t, r, n)
  <2>1. SameBut(s, t, r)
    BY <1>1, <1>4 DEF SameBut, Reached
  <2>2. QED
    BY <1>1, <1>4, <2>1 DEF Reached
<1>5. QED
  BY <1>2, <1>3, <1>4 DEF u, t
-----------------------------------------------------------------------------
(* A step of a run: it ends, and the queue is pumped, or it gets as far as a node it   *)
(* has not executed.                                                                   *)

Turned(r, n, t) ==
  /\ r \in Runs
  /\ disorder = {} => graph = "deleted" \/ Begun(rows, r)
  /\ \/ Pumped(Deleted(Now, r), t)
     \/ /\ n \in 1 .. Len(Document) /\ Reached(Now, t, r, n)
        /\ graph # "deleted" => rows[r].status # "none"
        /\ rows[r].status # "none" \/ walk[r] # 0
        /\ Orderly => furthest[r] < n

\* At a start nothing ends first.
Pumps(t) ==
  Pumped(Now, t) /\ (t = Now \/ WithStatus(rows, {"waiting"}) = {} \/ disorder' # {})

Shrinks(t) ==
  \A q \in Runs : /\ t.rows[q].status # "none" => rows[q].status # "none"
                  /\ t.rows[q].status = "queued" => rows[q].status = "queued"

LEMMA NowIs == EngineInv => Now \in Moments /\ Now.rows = rows /\ Now.walk = walk
BY DEF EngineInv, EngineTyped, EngineTypeOK, Now, Moments

LEMMA TurnedIsMoment ==
  ASSUME NEW r, NEW n, NEW t, Turned(r, n, t) \/ Pumps(t)
  PROVE  t \in Moments
BY DEF Turned, Pumps, Pumped, Reached

\* What a pumping leaves of the moments before it.
LEMMA PumpedIs ==
  ASSUME EngineInv, NEW s, NEW t, Pumped(s, t), NEW r, r \in Runs,
         s = Now \/ s = Deleted(Now, r)
  PROVE  /\ s \in Moments
         /\ s = Now \/ (s.rows[r] = NoRow /\ s.walk[r] = 0)
         /\ \A q \in Runs : (q # r \/ s = Now) => s.rows[q] = rows[q] /\ s.walk[q] = walk[q]
         /\ \A q \in Runs : (t.rows[q] = s.rows[q] /\ t.walk[q] = s.walk[q]) \/ Starts(s, t, q)
<1>1. Now \in Moments /\ Now.rows = rows /\ Now.walk = walk
  BY NowIs
<1>2. /\ Deleted(Now, r) \in Moments /\ SameBut(Now, Deleted(Now, r), r)
      /\ Deleted(Now, r).rows[r] = NoRow /\ Deleted(Now, r).walk[r] = 0
  BY <1>1, DeletedIs
<1>3. QED
  BY <1>1, <1>2 DEF SameBut, Pumped

LEMMA TurnShrinks ==
  ASSUME EngineInv, NEW r \in Runs, NEW n, NEW t, Turned(r, n, t) \/ Pumps(t)
  PROVE  Shrinks(t)
<1>1. ASSUME NEW s, Pumped(s, t), s = Now \/ s = Deleted(Now, r)
      PROVE  Shrinks(t)
  <2>1. \A q \in Runs : (q # r \/ s = Now) => s.rows[q] = rows[q]
    BY <1>1, PumpedIs
  <2>2. s = Now \/ s.rows[r] = NoRow
    BY <1>1, PumpedIs
  <2>3. \A q \in Runs : t.rows[q] = s.rows[q] \/ Starts(s, t, q)
    BY <1>1, PumpedIs
  <2>4. QED
    BY <2>1, <2>2, <2>3, NoRowIsState DEF Shrinks, Starts
<1>2. ASSUME Reached(Now, t, r, n)
      PROVE  Shrinks(t)
  BY <1>2, NowIs DEF Shrinks, Reached, SameBut
<1>3. QED
  BY <1>1, <1>2 DEF Turned, Pumps

LEMMA BecomesIs ==
  ASSUME EngineInv, NEW t \in Moments, Becomes(t)
  PROVE  /\ rows' = t.rows /\ walk' = t.walk
         /\ rows' \in [Runs -> States] /\ walk' \in [Runs -> 0 .. Len(Document)]
         /\ furthest' \in [Runs -> 0 .. Len(Document)] /\ repeated' \subseteq Runs
         /\ \A q \in Runs : furthest'[q] = IF walk'[q] # 0 /\ walk'[q] # walk[q]
                                         THEN walk'[q] ELSE furthest[q]
         /\ (\A q \in Runs : walk'[q] # 0 /\ walk'[q] # walk[q] => furthest[q] < walk'[q])
            => repeated' = repeated
<1>1. /\ furthest \in [Runs -> 0 .. Len(Document)] /\ repeated \subseteq Runs
      /\ walk \in [Runs -> 0 .. Len(Document)]
  BY DEF EngineInv, EngineTyped, EngineTypeOK
<1>2. t.rows \in [Runs -> States] /\ t.walk \in [Runs -> 0 .. Len(Document)]
  BY DEF Moments
<1>3. QED
  BY <1>1, <1>2, Constants DEF Becomes

LEMMA IdleIs ==
  ASSUME EngineInv, Becomes(Now)
  PROVE  rows' = rows /\ walk' = walk /\ furthest' = furthest /\ repeated' = repeated
<1>1. Now \in Moments /\ Now.rows = rows /\ Now.walk = walk
  BY NowIs
<1>2. furthest \in [Runs -> 0 .. Len(Document)]
  BY DEF EngineInv, EngineTyped
<1>3. QED
  BY <1>1, <1>2, BecomesIs

\* Rows only leave the queue and the table.
LEMMA CountsKept ==
  ASSUME EngineInv, mode' = mode, rows' \in [Runs -> States],
         \A q \in Runs : /\ rows'[q].status # "none" => rows[q].status # "none"
                         /\ rows'[q].status = "queued" => rows[q].status = "queued"
  PROVE  Counts'
<1>1. rows \in [Runs -> States] /\ Counts
  BY DEF EngineInv, EngineTyped
<1>2. Live(rows') \subseteq Live(rows) /\ WithStatus(rows', {"queued"}) \subseteq WithStatus(rows, {"queued"})
  <2>1. ASSUME NEW q \in Runs
        PROVE  /\ rows'[q].status \in {"queued", "running", "waiting"}
                  => rows[q].status \in {"queued", "running", "waiting"}
               /\ rows'[q].status = "queued" => rows[q].status = "queued"
    BY <1>1 DEF States
  <2>2. WithStatus(rows', {"queued"}) \subseteq WithStatus(rows, {"queued"})
    BY <2>1 DEF WithStatus
  <2>3. QED
    BY <2>1, <2>2 DEF Live, WithStatus
<1>3. /\ IsFiniteSet(Live(rows)) /\ IsFiniteSet(WithStatus(rows, {"queued"}))
  <2>1. IsFiniteSet(Runs)
    BY Constants, FS_Interval DEF Runs
  <2>2. Live(rows) \subseteq Runs /\ WithStatus(rows, {"queued"}) \subseteq Runs
    BY DEF Live, WithStatus
  <2>3. QED
    BY <2>1, <2>2, FS_Subset
<1>4. /\ Cardinality(Live(rows')) <= Cardinality(Live(rows))
      /\ Cardinality(WithStatus(rows', {"queued"})) <= Cardinality(WithStatus(rows, {"queued"}))
      /\ Cardinality(Live(rows)) \in Nat /\ Cardinality(Live(rows')) \in Nat
      /\ Cardinality(WithStatus(rows, {"queued"})) \in Nat
      /\ Cardinality(WithStatus(rows', {"queued"})) \in Nat
  BY <1>2, <1>3, FS_Subset, FS_CardinalityType
<1>5. QED
  BY <1>1, <1>4, Constants DEF Counts

LEMMA TurnIsWalked ==
  ASSUME EngineInv, NEW r \in Runs, NEW n, NEW t, Turned(r, n, t) \/ Pumps(t), Becomes(t),
         engine # "down", graph' = graph
  PROVE  RunningIsWalked'
<1> SUFFICES ASSUME graph # "deleted"
             PROVE  \A q \in Runs : rows'[q].status = "running" <=> walk'[q] # 0
  BY DEF RunningIsWalked
<1>1. \A q \in Runs : rows[q].status = "running" <=> walk[q] # 0
  BY DEF EngineInv, RunningIsWalked
<1>2. rows' = t.rows /\ walk' = t.walk
  BY DEF Becomes
<1>3. ASSUME NEW s, Pumped(s, t), s = Now \/ s = Deleted(Now, r), NEW q \in Runs
      PROVE  rows'[q].status = "running" <=> walk'[q] # 0
  <2>1. s.rows[q].status = "running" <=> s.walk[q] # 0
    BY <1>1, <1>3, PumpedIs, NoRowIsState
  <2>2. (t.rows[q] = s.rows[q] /\ t.walk[q] = s.walk[q]) \/ Starts(s, t, q)
    BY <1>3, PumpedIs
  <2>3. QED
    BY <1>2, <2>1, <2>2 DEF Starts
<1>4. ASSUME n \in 1 .. Len(Document), Reached(Now, t, r, n), rows[r].status # "none", NEW q \in Runs
      PROVE  rows'[q].status = "running" <=> walk'[q] # 0
  BY <1>1, <1>2, <1>4, NowIs DEF Reached, SameBut
<1>5. QED
  BY <1>3, <1>4 DEF Turned, Pumps

LEMMA TurnUnfired ==
  ASSUME EngineInv, NEW r \in Runs, NEW n, NEW t, Turned(r, n, t) \/ Pumps(t), Becomes(t),
         fired' = fired
  PROVE  Unfired'
<1> SUFFICES ASSUME NEW q \in Runs, q > fired
             PROVE  rows'[q].status = "none" /\ walk'[q] = 0 /\ furthest'[q] = 0
  BY DEF Unfired
<1>1. rows[q].status = "none" /\ walk[q] = 0 /\ furthest[q] = 0
  BY DEF EngineInv, Unfired
<1>2. rows' = t.rows /\ walk' = t.walk
  BY DEF Becomes
<1>3. rows'[q].status = "none"
  <2>1. Shrinks(t)
    BY TurnShrinks
  <2>2. QED
    BY <1>1, <1>2, <2>1 DEF Shrinks
<1>4. ASSUME NEW s, Pumped(s, t), s = Now \/ s = Deleted(Now, r)
      PROVE  walk'[q] = 0
  <2>1. s.walk[q] = 0 /\ s.rows[q].status = "none"
    BY <1>1, <1>4, PumpedIs, NoRowIsState
  <2>2. (t.rows[q] = s.rows[q] /\ t.walk[q] = s.walk[q]) \/ Starts(s, t, q)
    BY <1>4, PumpedIs
  <2>3. QED
    BY <1>2, <2>1, <2>2 DEF Starts
<1>5. ASSUME Reached(Now, t, r, n), rows[r].status # "none" \/ walk[r] # 0
      PROVE  walk'[q] = 0
  BY <1>1, <1>2, <1>5, NowIs DEF Reached, SameBut
<1>6. walk'[q] = 0
  BY <1>4, <1>5 DEF Turned, Pumps
<1>7. QED
  BY <1>1, <1>3, <1>6, BecomesIs, TurnedIsMoment

LEMMA TurnIsBehind ==
  ASSUME EngineInv, NEW r \in Runs, NEW n, NEW t, Turned(r, n, t) \/ Pumps(t), Becomes(t),
         Orderly' => Orderly
  PROVE  Behind'
<1> SUFFICES ASSUME Orderly
             PROVE  /\ repeated' = {}
                    /\ \A q \in Runs : /\ walk'[q] # 0 => furthest'[q] = walk'[q]
                                       /\ rows'[q].status = "queued" => furthest'[q] = 0
                                       /\ rows'[q].status = "waiting" => furthest'[q] <= rows'[q].pos
  BY DEF Behind
<1>1. /\ repeated = {}
      /\ \A q \in Runs : /\ walk[q] # 0 => furthest[q] = walk[q]
                         /\ rows[q].status = "queued" => furthest[q] = 0
                         /\ rows[q].status = "waiting" => furthest[q] <= rows[q].pos
  BY DEF EngineInv, Behind
<1>2. /\ rows' = t.rows /\ walk' = t.walk
      /\ rows' \in [Runs -> States] /\ walk' \in [Runs -> 0 .. Len(Document)]
      /\ \A q \in Runs : furthest'[q] = IF walk'[q] # 0 /\ walk'[q] # walk[q]
                                      THEN walk'[q] ELSE furthest[q]
      /\ (\A q \in Runs : walk'[q] # 0 /\ walk'[q] # walk[q] => furthest[q] < walk'[q])
         => repeated' = repeated
  BY BecomesIs, TurnedIsMoment
<1>3. \A q \in Runs : rows'[q].pos \in Nat /\ furthest[q] \in Nat /\ walk'[q] \in Nat
  BY <1>2, Constants DEF EngineInv, EngineTyped, States
<1>4. ASSUME NEW q \in Runs
      PROVE  /\ walk'[q] # 0 /\ walk'[q] # walk[q] => furthest[q] < walk'[q]
             /\ rows'[q].status = "queued" => walk'[q] \in {0, walk[q]} /\ furthest[q] = 0
             /\ rows'[q].status = "waiting" => walk'[q] \in {0, walk[q]} /\ furthest[q] <= rows'[q].pos
  <2>1. ASSUME NEW s, Pumped(s, t), s = Now \/ s = Deleted(Now, r)
        PROVE  <1>4!2
    <3>1. /\ (t.rows[q] = s.rows[q] /\ t.walk[q] = s.walk[q]) \/ Starts(s, t, q)
          /\ (s.rows[q] = rows[q] /\ s.walk[q] = walk[q]) \/ (s.rows[q] = NoRow /\ s.walk[q] = 0)
      <4>1. (t.rows[q] = s.rows[q] /\ t.walk[q] = s.walk[q]) \/ Starts(s, t, q)
        BY <2>1, PumpedIs
      <4>2. q # r \/ s = Now => s.rows[q] = rows[q] /\ s.walk[q] = walk[q]
        BY <2>1, PumpedIs
      <4>3. s = Now \/ (s.rows[r] = NoRow /\ s.walk[r] = 0)
        BY <2>1, PumpedIs
      <4>4. QED
        BY <4>1, <4>2, <4>3
    <3>2. CASE s.rows[q] = rows[q] /\ s.walk[q] = walk[q]
      BY <1>1, <1>2, <1>3, <3>1, <3>2 DEF Starts
    <3>3. CASE s.rows[q] = NoRow /\ s.walk[q] = 0
      BY <1>1, <1>2, <1>3, <3>1, <3>3, NoRowIsState DEF Starts
    <3>4. QED
      BY <3>1, <3>2, <3>3
  <2>2. ASSUME n \in 1 .. Len(Document), Reached(Now, t, r, n), furthest[r] < n
        PROVE  <1>4!2
    <3>1. CASE q # r
      BY <1>1, <1>2, <1>3, <2>2, <3>1, NowIs DEF Reached, SameBut
    <3>2. CASE q = r
      <4>1. n \in Nat
        BY <2>2, Constants
      <4>2. QED
        BY <1>1, <1>2, <1>3, <2>2, <3>2, <4>1, NowIs DEF Reached
    <3>3. QED
      BY <3>1, <3>2
  <2>3. QED
    BY <2>1, <2>2 DEF Turned, Pumps
<1>5. repeated' = {}
  BY <1>1, <1>2, <1>4
<1>6. ASSUME NEW q \in Runs
      PROVE  /\ walk'[q] # 0 => furthest'[q] = walk'[q]
             /\ rows'[q].status = "queued" => furthest'[q] = 0
             /\ rows'[q].status = "waiting" => furthest'[q] <= rows'[q].pos
  BY <1>1, <1>2, <1>4
<1>7. QED
  BY <1>5, <1>6

\* In queue mode: one run begins where none has, and nothing is before it.
InOrder(s, t) ==
  /\ \A q, x \in Runs : Begun(t.rows, q) /\ Begun(t.rows, x) => q = x
  /\ \A q \in Runs : ~Begun(s.rows, q) /\ Begun(t.rows, q) =>
       \A x \in 1 .. q - 1 : t.rows[x].status = "none"

LEMMA PumpInOrder ==
  ASSUME NEW s \in Moments, NEW t,
         \A q \in Runs : (t.rows[q] = s.rows[q] /\ t.walk[q] = s.walk[q]) \/ Starts(s, t, q),
         (\E q \in Runs : Starts(s, t, q)) => \A x \in Runs : s.rows[x].status # "waiting",
         \A q, x \in Runs : Begun(s.rows, q) /\ Begun(s.rows, x) => q = x
  PROVE  InOrder(s, t)
<1>1. CASE \A q \in Runs : ~Starts(s, t, q)
  BY <1>1 DEF InOrder, Begun
<1>2. CASE \E q \in Runs : Starts(s, t, q)
  <2>1. PICK q \in Runs : Starts(s, t, q)
    BY <1>2
  <2>2. \A x \in Runs : s.rows[x].status \in {"none", "queued"}
    BY <1>2, <2>1 DEF Starts, Moments, States
  <2>3. \A x \in Runs : Begun(t.rows, x) => Starts(s, t, x)
    BY <2>2 DEF Begun
  <2>4. ASSUME NEW x \in Runs, NEW y \in Runs, Starts(s, t, x), Starts(s, t, y)
        PROVE  x = y
    BY <2>4, Constants DEF Starts, Runs
  <2>5. ASSUME NEW x \in Runs, NEW y \in 1 .. x - 1, Starts(s, t, x)
        PROVE  t.rows[y].status = "none"
    <3>1. y \in Runs /\ y < x /\ ~(x <= y)
      BY Constants DEF Runs
    <3>2. s.rows[y].status = "none"
      BY <2>2, <2>5, <3>1 DEF Starts
    <3>3. QED
      BY <3>1, <3>2 DEF Starts
  <2>6. QED
    BY <2>3, <2>4, <2>5 DEF InOrder
<1>3. QED
  BY <1>1, <1>2

LEMMA TurnInOrder ==
  ASSUME EngineInv, NEW r \in Runs, NEW n, NEW t, Turned(r, n, t) \/ Pumps(t), Becomes(t),
         mode = "queue", disorder \subseteq disorder', disorder' = {}
  PROVE  InOrder(Now, t)
<1>1. /\ disorder = {} /\ Emptied /\ NoRow.status = "none" /\ Now \in Moments /\ Now.rows = rows
      /\ \A q, x \in Runs : Begun(rows, q) /\ Begun(rows, x) => q = x
  BY NowIs, NoRowIsState DEF EngineInv, OneIsBegun
<1>2. CASE Pumps(t)
  <2>1. \A q \in Runs : (t.rows[q] = Now.rows[q] /\ t.walk[q] = Now.walk[q]) \/ Starts(Now, t, q)
    BY <1>2, PumpedIs DEF Pumps
  <2>2. CASE t = Now
    BY <1>1, <2>2 DEF InOrder
  <2>3. CASE WithStatus(rows, {"waiting"}) = {}
    <3>1. \A x \in Runs : Now.rows[x].status # "waiting"
      BY <1>1, <2>3 DEF WithStatus
    <3>2. QED
      BY <1>1, <2>1, <3>1, PumpInOrder
  <2>4. QED
    BY <1>2, <2>2, <2>3 DEF Pumps
<1>3. CASE /\ Pumped(Deleted(Now, r), t)
           /\ graph = "deleted" \/ Begun(rows, r)
  <2> DEFINE s == Deleted(Now, r)
  <2>1. /\ s \in Moments
        /\ \A q \in Runs : (t.rows[q] = s.rows[q] /\ t.walk[q] = s.walk[q]) \/ Starts(s, t, q)
        /\ s.rows[r] = NoRow \/ s = Now
        /\ \A q \in Runs : q # r => s.rows[q] = rows[q]
    BY <1>3, PumpedIs
  <2>2. s.rows[r] = NoRow
    BY <1>1, DeletedIs
  <2> HIDE DEF s
  <2>3. \A x \in Runs : ~Begun(s.rows, x)
    <3>1. CASE graph = "deleted"
      BY <1>1, <2>1, <2>2, <3>1 DEF Begun, Emptied
    <3>2. CASE Begun(rows, r)
      BY <1>1, <2>1, <2>2, <3>2 DEF Begun
    <3>3. QED
      BY <1>3, <3>1, <3>2
  <2>4. InOrder(s, t)
    BY <2>1, <2>3, PumpInOrder DEF Begun
  <2>5. QED
    BY <1>1, <2>1, <2>3, <2>4 DEF InOrder
<1>4. CASE /\ Reached(Now, t, r, n)
           /\ graph = "deleted" \/ Begun(rows, r)
  <2>1. \A q \in Runs : q # r => t.rows[q] = rows[q]
    BY <1>1, <1>4 DEF Reached, SameBut
  <2>2. CASE graph = "deleted"
    <3>1. \A q \in Runs : t.rows[q].status = "none"
      BY <1>1, <1>4, <2>1, <2>2 DEF Reached, Emptied
    <3>2. QED
      BY <3>1 DEF InOrder, Begun
  <2>3. CASE Begun(rows, r)
    <3>1. \A q \in Runs : Begun(t.rows, q) => q = r
      BY <1>1, <2>1, <2>3 DEF Begun
    <3>2. QED
      BY <1>1, <2>3, <3>1 DEF InOrder
  <2>4. QED
    BY <1>4, <2>2, <2>3
<1>5. QED
  BY <1>1, <1>2, <1>3, <1>4 DEF Turned

\* The step that FirstInFirstDone asks for.
InTurn ==
  (mode = "queue" /\ disorder' = {}) =>
    \A r \in Runs :
      (rows[r].status \in {"none", "queued"} /\ rows'[r].status \in {"running", "waiting"}) =>
        \A q \in 1 .. r - 1 : rows'[q].status = "none"

\* All that a turn keeps, whatever becomes of the sweeps.
LEMMA TurnKeeps ==
  ASSUME EngineInv, NEW r \in Runs, NEW n, NEW t, Turned(r, n, t) \/ Pumps(t), Becomes(t),
         UNCHANGED <<graph, mode, fired>>, engine # "down", disorder \subseteq disorder'
  PROVE  /\ Emptied' /\ Unfired' /\ RunningIsWalked' /\ Counts' /\ Behind' /\ OneIsBegun'
         /\ InTurn
<1>1. t \in Moments /\ Shrinks(t) /\ rows' = t.rows /\ rows' \in [Runs -> States]
  BY TurnedIsMoment, TurnShrinks, BecomesIs
<1>2. Emptied'
  BY <1>1 DEF EngineInv, Emptied, Shrinks
<1>3. Unfired' /\ RunningIsWalked'
  BY TurnUnfired, TurnIsWalked
<1>4. Counts'
  BY <1>1, CountsKept DEF Shrinks
<1>5. Behind'
  BY TurnIsBehind DEF Orderly
<1>6. mode = "queue" /\ disorder' = {} => InOrder(Now, t)
  BY TurnInOrder
<1>7. OneIsBegun'
  BY <1>1, <1>6 DEF OneIsBegun, InOrder
<1>8. InTurn
  <2>1. Now.rows = rows
    BY NowIs
  <2>2. QED
    BY <1>1, <1>6, <2>1 DEF InTurn, InOrder, Begun
<1>9. QED
  BY <1>2, <1>3, <1>4, <1>5, <1>7, <1>8
-----------------------------------------------------------------------------
(* The actions, one by one.                                                *)

\* Everything but the rows and the walk.
Others == <<graph, mode, debug, fired, hits, engine, starts, disorder>>

LEMMA SweepsAre ==
  EngineInv => sweeps \in [Slots -> [todo : SUBSET Items, on : 0 .. MaxRuns]]
BY DEF EngineInv, EngineTyped

LEMMA TypedAgain ==
  ASSUME EngineInv, NEW t \in Moments, Becomes(t), UNCHANGED Others,
         sweeps' \in [Slots -> [todo : SUBSET Items, on : 0 .. MaxRuns]]
  PROVE  EngineTyped'
<1>1. EngineTyped
  BY DEF EngineInv
<1>2. /\ rows' \in [Runs -> States] /\ walk' \in [Runs -> 0 .. Len(Document)]
      /\ furthest' \in [Runs -> 0 .. Len(Document)] /\ repeated' \subseteq Runs
  BY BecomesIs
<1>3. /\ graph' \in {"on", "off", "deleted"} /\ \E s \in Settings : mode' = s[1] /\ debug' = s[2]
      /\ fired' \in 0 .. MaxRuns /\ hits' \in 0 .. MaxPerHour /\ starts' \in 0 .. MaxStarts
      /\ engine' \in {"down", "starting", "pumping", "up"} /\ disorder' \subseteq {"overlapped", "jumped"}
  BY <1>1 DEF EngineTyped, EngineTypeOK, Others
<1>4. \A k \in Slots : sweeps'[k].on \in 0 .. MaxRuns
  OBVIOUS
<1>5. EngineTypeOK'
  BY <1>2, <1>3, <1>4 DEF EngineTypeOK, States
<1>6. QED
  BY <1>2, <1>5 DEF EngineTyped

LEMMA WaitingStays ==
  ASSUME EngineInv, NEW r \in Runs, NEW n, NEW t, Turned(r, n, t), Becomes(t),
         NEW q \in Runs, q # r, rows[q].status = "waiting"
  PROVE  rows'[q] = rows[q]
<1>1. rows' = t.rows
  BY DEF Becomes
<1>2. CASE Reached(Now, t, r, n)
  BY <1>1, <1>2, NowIs DEF Reached, SameBut
<1>3. CASE Pumped(Deleted(Now, r), t)
  <2>1. /\ Deleted(Now, r).rows[q] = rows[q]
        /\ t.rows[q] = Deleted(Now, r).rows[q] \/ Starts(Deleted(Now, r), t, q)
    BY <1>3, PumpedIs
  <2>2. QED
    BY <1>1, <2>1 DEF Starts
<1>4. QED
  BY <1>2, <1>3 DEF Turned

\* A turn that leaves the sweeps alone, of a run no sweep has listed.
LEMMA TurnAside ==
  ASSUME EngineInv, NEW r \in Runs, NEW n, NEW t, Turned(r, n, t), Becomes(t),
         UNCHANGED Others, engine # "down",
         graph # "deleted" => rows[r].timer # "due" \/ rows[r].status # "waiting",
         sweeps' \in [Slots -> [todo : SUBSET Items, on : 0 .. MaxRuns]],
         \A k \in Slots : /\ sweeps'[k].todo = sweeps[k].todo
                          /\ sweeps[k].on = 0 => sweeps'[k] = sweeps[k]
  PROVE  EngineInv' /\ InTurn
<1>1. /\ t \in Moments /\ rows' = t.rows /\ walk' = t.walk
      /\ UNCHANGED <<graph, mode, fired>> /\ disorder \subseteq disorder'
  BY TurnedIsMoment DEF Becomes, Others
<1>2. EngineTyped'
  BY <1>1, TypedAgain
<1>3. /\ Emptied' /\ Unfired' /\ RunningIsWalked' /\ Counts' /\ Behind' /\ OneIsBegun'
      /\ InTurn
  BY <1>1, TurnKeeps
<1>4. \A k \in Slots : UnderWay(k)' => UnderWay(k)
  BY SweepsAre DEF UnderWay, IdleSweep
<1>5. Stopped' /\ OneSweep'
  BY <1>4 DEF EngineInv, Stopped, OneSweep, Orderly, Others
<1>6. ListedStill'
  <2> SUFFICES ASSUME Orderly, graph # "deleted", NEW k \in Slots, NEW item \in sweeps[k].todo
               PROVE  /\ item.row = rows'[item.id] /\ item.row.status = "waiting"
                      /\ item.row.timer = "due"
    BY DEF ListedStill, Orderly, Others
  <2>1. item.row = rows[item.id] /\ item.row.status = "waiting" /\ item.row.timer = "due"
    BY DEF EngineInv, ListedStill
  <2>2. item.id \in Runs /\ item.id # r
    BY <2>1, SweepsAre DEF Items
  <2>3. rows'[item.id] = rows[item.id]
    BY <2>1, <2>2, WaitingStays
  <2>4. QED
    BY <2>1, <2>3
<1>7. QED
  BY <1>2, <1>3, <1>5, <1>6 DEF EngineInv

LEMMA ResumeRunKeeps ==
  ASSUME EngineInv, NEW r \in Runs, NEW step \in BOOLEAN, ResumeRun(r, step)
  PROVE  EngineInv' /\ InTurn
<1> DEFINE row == [rows[r] EXCEPT !.stepping = step]
           t == Advance(Now, r, row, TRUE)
<1>1. /\ Now \in Moments /\ rows \in [Runs -> States]
      /\ rows[r].status = "waiting" /\ rows[r].timer = "none"
  BY NowIs DEF EngineInv, EngineTyped, ResumeRun, Paused, WithStatus
<1>2. row \in States /\ row.pos = rows[r].pos
  BY <1>1 DEF States
<1>3. engine # "down" /\ Becomes(t) /\ UNCHANGED Others /\ sweeps' = sweeps
  BY DEF ResumeRun, Running, Others
<1> HIDE DEF row
<1>4. \/ Pumped(Deleted(Now, r), t)
      \/ row.pos + 1 \in 1 .. Len(Document) /\ Reached(Now, t, r, row.pos + 1)
  BY <1>1, <1>2, AdvanceIs
<1> HIDE DEF t
<1>5. Orderly => furthest[r] < row.pos + 1
  <2>1. furthest[r] \in Nat /\ row.pos \in Nat
    BY <1>1, <1>2, Constants DEF EngineInv, EngineTyped, States
  <2>2. Orderly => furthest[r] <= row.pos
    BY <1>1, <1>2 DEF EngineInv, Behind
  <2>3. QED
    BY <2>1, <2>2
<1>6. Turned(r, row.pos + 1, t)
  BY <1>1, <1>4, <1>5 DEF Turned, Begun
<1>7. QED
  BY <1>1, <1>3, <1>6, TurnAside, SweepsAre

LEMMA StopRunKeeps ==
  ASSUME EngineInv, NEW r \in Runs, StopRun(r)
  PROVE  EngineInv' /\ InTurn
<1> DEFINE t == End(Now, r)
<1>1. /\ Now \in Moments /\ rows[r].status = "waiting" /\ rows[r].timer = "none"
  BY NowIs DEF StopRun, Paused, WithStatus
<1>2. engine # "down" /\ Becomes(t) /\ UNCHANGED Others /\ sweeps' = sweeps
  BY DEF StopRun, Running, Others
<1>3. Pumped(Deleted(Now, r), t)
  BY <1>1, EndIs
<1> HIDE DEF t
<1>4. Turned(r, 1, t)
  BY <1>1, <1>3 DEF Turned, Begun
<1>5. QED
  BY <1>1, <1>2, <1>4, TurnAside, SweepsAre

LEMMA PumpedByIs ==
  ASSUME NEW s, NEW t, NEW r
  PROVE  PumpedBy(s, t, r) \in 0 .. MaxRuns
<1> DEFINE begun == {q \in Runs \ {r} : t.walk[q] # 0 /\ s.walk[q] = 0}
<1>1. begun \subseteq Runs /\ (begun # {} => Min(begun) \in begun)
  BY LeastRun
<1>2. PumpedBy(s, t, r) = IF begun = {} THEN 0 ELSE Min(begun)
  BY DEF PumpedBy
<1> HIDE DEF begun
<1>3. 0 \in 0 .. MaxRuns /\ Runs \subseteq 0 .. MaxRuns
  BY Constants DEF Runs
<1>4. CASE begun = {}
  BY <1>2, <1>3, <1>4
<1>5. CASE begun # {}
  <2>1. PumpedBy(s, t, r) = Min(begun)
    BY <1>2, <1>5
  <2>2. QED
    BY <1>1, <1>3, <1>5, <2>1
<1>6. QED
  BY <1>4, <1>5

LEMMA NodeReturnsKeeps ==
  ASSUME EngineInv, NEW r \in Runs, NEW ok \in BOOLEAN, NodeReturns(r, ok)
  PROVE  EngineInv' /\ InTurn
<1> DEFINE row == [rows[r] EXCEPT !.pos = walk[r]]
           t == IF ok THEN Advance(Put(Now, r, row), r, row, FALSE) ELSE End(Now, r)
<1>1. /\ Now \in Moments /\ Now.rows = rows /\ rows \in [Runs -> States]
      /\ walk[r] \in 0 .. Len(Document) /\ walk[r] # 0
      /\ furthest[r] \in Nat
  BY NowIs, Constants, SMTT(30) DEF EngineInv, EngineTyped, EngineTypeOK, NodeReturns
<1>2. row \in States /\ row.pos = walk[r] /\ row.status = rows[r].status
  BY <1>1 DEF States
<1>3. /\ UNCHANGED Others /\ Becomes(t)
      /\ sweeps' = IF t.walk[r] # 0 THEN sweeps ELSE Awaiting(r, PumpedBy(Now, t, r))
  BY DEF NodeReturns, Others
<1>4. engine # "down"
  BY <1>1 DEF EngineInv, Stopped
<1>5. graph # "deleted" => rows[r].status = "running"
  BY <1>1, <1>4 DEF EngineInv, RunningIsWalked
<1> HIDE DEF row
<1>6. \/ Pumped(Deleted(Now, r), t)
      \/ row.pos + 1 \in 1 .. Len(Document) /\ Reached(Now, t, r, row.pos + 1)
  <2>1. CASE ok
    <3>1. Now.rows[r].status = "none" \/ row.status # "none"
      BY <1>1, <1>2
    <3>2. QED
      BY <1>1, <1>2, <2>1, <3>1, GoesOn
  <2>2. CASE ~ok
    BY <1>1, <2>2, EndIs
  <2>3. QED
    BY <2>1, <2>2
<1> HIDE DEF t
<1>7. Orderly => furthest[r] < row.pos + 1
  BY <1>1, <1>2 DEF EngineInv, Behind
<1>8. Turned(r, row.pos + 1, t)
  BY <1>1, <1>5, <1>6, <1>7 DEF Turned, Begun
<1>9. /\ sweeps' \in [Slots -> [todo : SUBSET Items, on : 0 .. MaxRuns]]
      /\ \A k \in Slots : /\ sweeps'[k].todo = sweeps[k].todo
                          /\ sweeps[k].on = 0 => sweeps'[k] = sweeps[k]
  <2>1. r # 0 /\ PumpedBy(Now, t, r) \in 0 .. MaxRuns
    BY PumpedByIs, Constants DEF Runs
  <2>2. QED
    BY <1>3, <2>1, SweepsAre DEF Awaiting
<1>10. QED
  BY <1>3, <1>4, <1>5, <1>8, <1>9, TurnAside

\* A step that begins nothing.
LEMMA NothingBegins ==
  ASSUME \A r \in Runs : rows'[r].status \in {"running", "waiting"} => rows'[r].status = rows[r].status
  PROVE  InTurn
BY DEF InTurn

LEMMA SweepItemKeeps ==
  ASSUME EngineInv, NEW k \in Slots, SweepItem(k)
  PROVE  EngineInv' /\ InTurn
<1>1. PICK item \in sweeps[k].todo, missed \in BOOLEAN :
        \E t \in {IF walk[item.id] # 0 THEN Now ELSE Resumed(item, missed)} :
          /\ Becomes(t)
          /\ sweeps' = [sweeps EXCEPT ![k] =
               [todo |-> @.todo \ {item},
                on |-> IF walk[item.id] # 0 THEN 0
                       ELSE IF t.walk[item.id] # 0 THEN item.id ELSE PumpedBy(Now, t, item.id)]]
  BY DEF SweepItem
<1> DEFINE r == item.id
           t == IF walk[r] # 0 THEN Now ELSE Resumed(item, missed)
           n == item.row.pos + 1
           next == IF walk[r] # 0 THEN 0 ELSE IF t.walk[r] # 0 THEN r ELSE PumpedBy(Now, t, r)
<1>2. /\ UNCHANGED Others /\ Becomes(t)
      /\ sweeps' = [sweeps EXCEPT ![k] = [todo |-> @.todo \ {item}, on |-> next]]
  BY <1>1 DEF SweepItem, Others
<1>3. /\ Now \in Moments /\ Now.rows = rows /\ rows \in [Runs -> States]
      /\ r \in Runs /\ item.row \in States /\ item.row.pos \in Nat /\ furthest[r] \in Nat
  BY NowIs, SweepsAre, Constants DEF EngineInv, EngineTyped, Items, States
<1>4. UnderWay(k) /\ engine # "down"
  BY SweepsAre DEF EngineInv, Stopped, UnderWay, IdleSweep
<1>5. Orderly /\ graph # "deleted" => item.row = rows[r] /\ item.row.status = "waiting"
  BY DEF EngineInv, ListedStill
<1>6. next \in 0 .. MaxRuns
  <2>1. 0 \in 0 .. MaxRuns /\ Runs \subseteq 0 .. MaxRuns /\ PumpedBy(Now, t, r) \in 0 .. MaxRuns
    BY PumpedByIs, Constants DEF Runs
  <2> HIDE DEF t
  <2>2. QED
    BY <1>3, <2>1
<1> HIDE DEF next
<1>7. /\ sweeps' \in [Slots -> [todo : SUBSET Items, on : 0 .. MaxRuns]]
      /\ sweeps'[k].todo = sweeps[k].todo \ {item}
      /\ \A j \in Slots : j # k => sweeps'[j] = sweeps[j]
  BY <1>2, <1>6, SweepsAre
<1>8. t = Now \/ Turned(r, n, t)
  <2>1. CASE walk[r] # 0 \/ graph = "deleted"
    BY <2>1 DEF Resumed
  <2>2. CASE walk[r] = 0 /\ graph # "deleted" /\ (graph = "off" \/ (missed /\ SkipMissed))
    <3>1. t = End(Now, r)
      BY <2>2 DEF Resumed
    <3>2. Pumped(Deleted(Now, r), t)
      BY <1>3, <3>1, EndIs
    <3> HIDE DEF t
    <3>3. QED
      BY <1>3, <1>5, <3>2 DEF Turned, Orderly, Begun
  <2>3. CASE walk[r] = 0 /\ graph # "deleted" /\ ~(graph = "off" \/ (missed /\ SkipMissed))
    <3> DEFINE first == [item.row EXCEPT !.status = "running", !.timer = "none"]
    <3>1. first \in States /\ first.status # "none"
      BY <1>3 DEF States
    <3>2. CASE rows[r].status = "none"
      BY <2>3, <3>2 DEF Resumed
    <3>3. CASE rows[r].status # "none"
      <4>1. t = Advance(Put(Now, r, first), r, item.row, FALSE)
        BY <2>3, <3>3 DEF Resumed
      <4> HIDE DEF first
      <4>2. \/ Pumped(Deleted(Now, r), t)
            \/ n \in 1 .. Len(Document) /\ Reached(Now, t, r, n)
        BY <1>3, <3>1, <4>1, GoesOn
      <4> HIDE DEF t
      <4>3. Orderly => furthest[r] < n
        <5>1. Orderly => furthest[r] <= item.row.pos
          BY <1>3, <1>5, <2>3 DEF EngineInv, Behind
        <5>2. QED
          BY <1>3, <5>1
      <4>4. QED
        BY <1>3, <1>5, <2>3, <3>3, <4>2, <4>3 DEF Turned, Orderly, Begun
    <3>4. QED
      BY <3>2, <3>3
  <2>4. QED
    BY <2>1, <2>2, <2>3
<1> HIDE DEF t
<1>9. t \in Moments
  BY <1>3, <1>8, TurnedIsMoment
<1>10. EngineTyped'
  BY <1>2, <1>7, <1>9, TypedAgain
<1>11. \A j \in Slots : UnderWay(j)' => UnderWay(j)
  BY <1>4, <1>7 DEF UnderWay
<1>12. Stopped' /\ OneSweep'
  BY <1>2, <1>4, <1>11 DEF EngineInv, Stopped, OneSweep, Orderly, Others
<1>13. /\ Emptied' /\ Unfired' /\ RunningIsWalked' /\ Counts' /\ Behind' /\ OneIsBegun'
       /\ InTurn
  <2>1. UNCHANGED <<graph, mode, fired>> /\ disorder \subseteq disorder'
    BY <1>2 DEF Others
  <2>2. CASE Turned(r, n, t)
    BY <1>2, <1>3, <1>4, <2>1, <2>2, TurnKeeps
  <2>3. CASE t = Now
    <3>1. UNCHANGED <<rows, walk, furthest, repeated>> /\ UNCHANGED <<graph, mode, fired, engine, disorder>>
      BY <1>2, <2>3, IdleIs DEF Others
    <3>2. QED
      BY <3>1, NothingBegins DEF EngineInv, Emptied, Unfired, RunningIsWalked, Counts, Behind, OneIsBegun, Orderly
  <2>4. QED
    BY <1>8, <2>2, <2>3
<1>14. ListedStill'
  <2> SUFFICES ASSUME Orderly, graph # "deleted", NEW j \in Slots, NEW i \in sweeps'[j].todo
               PROVE  i.row = rows'[i.id] /\ i.row.status = "waiting" /\ i.row.timer = "due"
    BY <1>2 DEF ListedStill, Orderly, Others
  <2>1. UnderWay(j)
    BY <1>7 DEF UnderWay, IdleSweep
  <2>2. j = k
    BY <1>4, <2>1 DEF EngineInv, OneSweep
  <2>3. i \in sweeps[k].todo /\ i # item
    BY <1>7, <2>2
  <2>4. i.row = rows[i.id] /\ i.row.status = "waiting" /\ i.row.timer = "due"
    BY <2>3 DEF EngineInv, ListedStill
  <2>5. i \in Items /\ item \in Items
    BY <2>3, SweepsAre
  <2>6. i.id \in Runs /\ i.id # r
    BY <1>5, <2>3, <2>4, <2>5 DEF Items
  <2>7. rows'[i.id] = rows[i.id]
    <3>1. CASE Turned(r, n, t)
      BY <1>2, <1>3, <2>4, <2>6, <3>1, WaitingStays
    <3>2. CASE t = Now
      BY <1>2, <3>2, IdleIs
    <3>3. QED
      BY <1>8, <3>1, <3>2
  <2>8. QED
    BY <2>4, <2>7
<1>15. QED
  BY <1>10, <1>12, <1>13, <1>14 DEF EngineInv

LEMMA StartPumpsKeeps ==
  ASSUME EngineInv, StartPumps
  PROVE  EngineInv' /\ InTurn
<1> DEFINE t == Pump(Now)
           next == PumpedBy(Now, t, 0)
<1>1. /\ Now \in Moments /\ 1 \in Slots /\ 1 \in Runs
  BY NowIs, Constants DEF Slots, Runs
<1>2. /\ engine = "starting" /\ ~UnderWay(1) /\ engine' = "pumping" /\ Becomes(t)
      /\ sweeps' = [sweeps EXCEPT ![1].on = next]
      /\ disorder' = IF t # Now /\ WithStatus(rows, {"waiting"}) # {}
                     THEN disorder \cup {"jumped"} ELSE disorder
      /\ UNCHANGED <<graph, mode, debug, fired, hits, starts>>
  BY DEF StartPumps
<1>3. Pumped(Now, t) /\ next \in 0 .. MaxRuns
  BY <1>1, PumpIs, PumpedByIs
<1> HIDE DEF t, next
<1>4. Pumps(t) /\ t \in Moments
  BY <1>2, <1>3, TurnedIsMoment DEF Pumps
<1>5. /\ Emptied' /\ Unfired' /\ RunningIsWalked' /\ Counts' /\ Behind' /\ OneIsBegun'
      /\ InTurn
  BY <1>1, <1>2, <1>4, TurnKeeps
<1>6. /\ sweeps' \in [Slots -> [todo : SUBSET Items, on : 0 .. MaxRuns]]
      /\ \A k \in Slots : sweeps'[k].todo = {} /\ (k # 1 => ~UnderWay(k)')
  <2>1. \A k \in Slots : sweeps[k] = IdleSweep
    BY <1>2 DEF EngineInv, Stopped, UnderWay
  <2>2. sweeps'[1] = [todo |-> {}, on |-> next] /\ \A k \in Slots : k # 1 => sweeps'[k] = IdleSweep
    <3>1. /\ sweeps'[1] = [sweeps[1] EXCEPT !.on = next]
          /\ \A k \in Slots : k # 1 => sweeps'[k] = sweeps[k]
      BY <1>1, <1>2, SweepsAre
    <3>2. [IdleSweep EXCEPT !.on = next] = [todo |-> {}, on |-> next]
      BY DEF IdleSweep
    <3>3. QED
      BY <1>1, <2>1, <3>1, <3>2
  <2>3. sweeps' = [k \in Slots |-> sweeps'[k]]
    BY <1>2, SweepsAre
  <2>4. \A k \in Slots : /\ sweeps'[k] \in [todo : SUBSET Items, on : 0 .. MaxRuns]
                         /\ sweeps'[k].todo = {}
    BY <1>3, <2>2, Constants DEF IdleSweep
  <2>5. QED
    BY <2>2, <2>3, <2>4 DEF UnderWay
<1>7. EngineTyped'
  <2>1. EngineTypeOK
    BY DEF EngineInv, EngineTyped
  <2>2. /\ rows' \in [Runs -> States] /\ walk' \in [Runs -> 0 .. Len(Document)]
        /\ furthest' \in [Runs -> 0 .. Len(Document)] /\ repeated' \subseteq Runs
    BY <1>2, <1>4, BecomesIs
  <2>3. /\ graph' \in {"on", "off", "deleted"} /\ \E s \in Settings : mode' = s[1] /\ debug' = s[2]
        /\ fired' \in 0 .. MaxRuns /\ hits' \in 0 .. MaxPerHour /\ starts' \in 0 .. MaxStarts
        /\ engine' \in {"down", "starting", "pumping", "up"} /\ disorder' \subseteq {"overlapped", "jumped"}
    BY <1>2, <2>1 DEF EngineTypeOK
  <2>4. \A k \in Slots : sweeps'[k].on \in 0 .. MaxRuns
    BY <1>6
  <2>5. EngineTypeOK'
    BY <2>2, <2>3, <2>4 DEF EngineTypeOK, States
  <2>6. QED
    BY <1>6, <2>2, <2>5 DEF EngineTyped
<1>8. Stopped' /\ OneSweep' /\ ListedStill'
  BY <1>2, <1>6 DEF Stopped, OneSweep, ListedStill
<1>9. QED
  BY <1>5, <1>7, <1>8 DEF EngineInv

\* A step that leaves the walk, the run's status and what is fired as they are.
LEMMA RowsAside ==
  ASSUME EngineInv, UNCHANGED <<mode, fired, furthest, repeated>>,
         disorder \subseteq disorder',
         rows' \in [Runs -> States],
         \A r \in Runs : \/ rows'[r].status = rows[r].status /\ rows'[r].pos = rows[r].pos
                         \/ rows'[r].status = "none",
         graph' = "deleted" => \A r \in Runs : rows'[r].status = "none",
         \/ walk' = walk
         \/ walk' = [r \in Runs |-> 0]
  PROVE  /\ Emptied' /\ Unfired' /\ Counts' /\ Behind' /\ OneIsBegun' /\ InTurn
<1>1. Emptied'
  BY DEF Emptied
<1>2. Unfired'
  BY DEF EngineInv, Unfired
<1>3. Counts'
  BY CountsKept
<1>4. Behind'
  BY DEF EngineInv, Behind, Orderly
<1>5. OneIsBegun'
  BY DEF EngineInv, OneIsBegun, Begun
<1>6. InTurn
  BY NothingBegins
<1>7. QED
  BY <1>1, <1>2, <1>3, <1>4, <1>5, <1>6

LEMMA Typed ==
  ASSUME EngineInv, UNCHANGED <<mode, debug>>, graph' \in {"on", "off", "deleted"},
         rows' \in [Runs -> States], fired' \in 0 .. MaxRuns,
         walk' \in [Runs -> 0 .. Len(Document)],
         sweeps' \in [Slots -> [todo : SUBSET Items, on : 0 .. MaxRuns]],
         hits' \in 0 .. MaxPerHour, starts' \in 0 .. MaxStarts,
         engine' \in {"down", "starting", "pumping", "up"},
         furthest' \in [Runs -> 0 .. Len(Document)], repeated' \subseteq Runs,
         disorder' \subseteq {"overlapped", "jumped"}
  PROVE  EngineTyped'
<1>1. \E s \in Settings : mode' = s[1] /\ debug' = s[2]
  BY DEF EngineInv, EngineTyped, EngineTypeOK
<1>2. \A k \in Slots : sweeps'[k].on \in 0 .. MaxRuns
  OBVIOUS
<1>3. EngineTypeOK'
  BY <1>1, <1>2 DEF EngineTypeOK, States
<1>4. QED
  BY <1>3 DEF EngineTyped

\* The types, one by one.
LEMMA Types ==
  EngineInv =>
    /\ graph \in {"on", "off", "deleted"} /\ rows \in [Runs -> States] /\ fired \in 0 .. MaxRuns
    /\ walk \in [Runs -> 0 .. Len(Document)]
    /\ sweeps \in [Slots -> [todo : SUBSET Items, on : 0 .. MaxRuns]]
    /\ hits \in 0 .. MaxPerHour /\ starts \in 0 .. MaxStarts
    /\ engine \in {"down", "starting", "pumping", "up"}
    /\ furthest \in [Runs -> 0 .. Len(Document)] /\ repeated \subseteq Runs
    /\ disorder \subseteq {"overlapped", "jumped"}
    /\ mode \in {"drop", "parallel", "queue"}
<1> SUFFICES ASSUME EngineInv
             PROVE  Types!2
  OBVIOUS
<1>1. EngineTyped /\ EngineTypeOK
  BY DEF EngineInv, EngineTyped
<1>2. mode \in {"drop", "parallel", "queue"}
  BY <1>1, GraphAssumption DEF EngineTypeOK
<1>3. QED
  BY <1>1, <1>2 DEF EngineTyped, EngineTypeOK

LEMMA ListedIs ==
  ASSUME NEW rs \in [Runs -> States], NEW item \in Listed(rs)
  PROVE  /\ item \in Items /\ item.row = rs[item.id]
         /\ item.row.status = "waiting" /\ item.row.timer = "due"
<1>1. PICK r \in Due(rs) : item = [id |-> r, row |-> rs[r]]
  BY DEF Listed
<1>2. r \in Runs /\ rs[r] \in States /\ rs[r].status = "waiting" /\ rs[r].timer = "due"
  BY DEF Due, WithStatus
<1>3. QED
  BY <1>1, <1>2 DEF Items

LEMMA SetEnabledKeeps ==
  ASSUME EngineInv, NEW on \in BOOLEAN, SetEnabled(on)
  PROVE  EngineInv' /\ InTurn
<1>1. /\ graph' \in {"on", "off"} /\ graph \in {"on", "off"}
      /\ UNCHANGED <<mode, debug, rows, fired, walk, sweeps, hits, engine, starts,
                     furthest, repeated, disorder>>
  BY DEF SetEnabled, engineVars, history
<1>2. EngineTyped'
  BY <1>1, Types, Typed
<1>3. /\ Emptied' /\ Unfired' /\ Counts' /\ Behind' /\ OneIsBegun' /\ InTurn
  BY <1>1, Types, RowsAside
<1>4. Stopped' /\ OneSweep'
  BY <1>1 DEF EngineInv, Stopped, OneSweep, Orderly, UnderWay
<1>5. RunningIsWalked' /\ ListedStill'
  BY <1>1 DEF EngineInv, RunningIsWalked, ListedStill, Orderly
<1>6. QED
  BY <1>2, <1>3, <1>4, <1>5 DEF EngineInv

LEMMA DeleteGraphKeeps ==
  ASSUME EngineInv, DeleteGraph
  PROVE  EngineInv' /\ InTurn
<1>1. /\ graph' = "deleted" /\ hits' = 0
      /\ rows' = [r \in Runs |-> [NoRow EXCEPT !.stepping = (walk[r] # 0 /\ rows[r].stepping)]]
      /\ UNCHANGED <<mode, debug, fired, walk, sweeps, engine, starts, furthest, repeated, disorder>>
  BY DEF DeleteGraph, history
<1>2. rows' \in [Runs -> States] /\ \A r \in Runs : rows'[r].status = "none"
  <2>1. ASSUME NEW b \in BOOLEAN
        PROVE  [NoRow EXCEPT !.stepping = b] \in States /\ [NoRow EXCEPT !.stepping = b].status = "none"
    BY Constants DEF NoRow, States
  <2>2. \A r \in Runs : (walk[r] # 0 /\ rows[r].stepping) \in BOOLEAN
    OBVIOUS
  <2>3. QED
    BY <1>1, <2>1, <2>2
<1>3. EngineTyped'
  BY <1>1, <1>2, Types, Typed, Constants
<1>4. /\ Emptied' /\ Unfired' /\ Counts' /\ Behind' /\ OneIsBegun' /\ InTurn
  BY <1>1, <1>2, RowsAside
<1>5. Stopped' /\ OneSweep'
  BY <1>1 DEF EngineInv, Stopped, OneSweep, Orderly, UnderWay
<1>6. RunningIsWalked' /\ ListedStill'
  BY <1>1 DEF RunningIsWalked, ListedStill
<1>7. QED
  BY <1>3, <1>4, <1>5, <1>6 DEF EngineInv

LEMMA WaitIsDueKeeps ==
  ASSUME EngineInv, NEW r \in Runs, WaitIsDue(r)
  PROVE  EngineInv' /\ InTurn
<1>1. /\ rows[r].timer = "armed" /\ rows' = [rows EXCEPT ![r].timer = "due"]
      /\ UNCHANGED <<graph, mode, debug, fired, walk, sweeps, hits, engine, starts,
                     furthest, repeated, disorder>>
  BY DEF WaitIsDue, engineVars, history
<1>2. /\ rows' \in [Runs -> States]
      /\ \A q \in Runs : rows'[q].status = rows[q].status /\ rows'[q].pos = rows[q].pos
      /\ \A q \in Runs : rows[q].timer = "due" => rows'[q] = rows[q]
  BY <1>1, Types, ZenonT(60) DEF States
<1>3. EngineTyped'
  BY <1>1, <1>2, Types, Typed
<1>4. /\ Emptied' /\ Unfired' /\ Counts' /\ Behind' /\ OneIsBegun' /\ InTurn
  BY <1>1, <1>2, RowsAside DEF EngineInv, Emptied
<1>5. Stopped' /\ OneSweep'
  BY <1>1 DEF EngineInv, Stopped, OneSweep, Orderly, UnderWay
<1>6. RunningIsWalked'
  BY <1>1, <1>2 DEF EngineInv, RunningIsWalked
<1>7. ListedStill'
  <2>1. \A k \in Slots : \A item \in sweeps[k].todo : item.id \in Runs
    BY Types DEF Items
  <2>2. QED
    BY <1>1, <1>2, <2>1 DEF EngineInv, ListedStill, Orderly
<1>8. QED
  BY <1>3, <1>4, <1>5, <1>6, <1>7 DEF EngineInv

LEMMA SweepBeginsKeeps ==
  ASSUME EngineInv, NEW k \in Slots, SweepBegins(k)
  PROVE  EngineInv' /\ InTurn
<1>1. /\ engine = "up" /\ ~UnderWay(k)
      /\ sweeps' = [sweeps EXCEPT ![k].todo = Listed(rows)]
      /\ disorder' = IF \E j \in Slots : UnderWay(j) THEN disorder \cup {"overlapped"} ELSE disorder
      /\ UNCHANGED <<graph, mode, debug, rows, fired, walk, hits, engine, starts, furthest, repeated>>
  BY DEF SweepBegins, storeVars
<1>2. Listed(rows) \subseteq Items
  BY Types, ListedIs
<1>3. /\ sweeps' \in [Slots -> [todo : SUBSET Items, on : 0 .. MaxRuns]]
      /\ sweeps'[k].todo = Listed(rows)
      /\ \A j \in Slots : j # k => sweeps'[j] = sweeps[j]
  BY <1>1, <1>2, Types
<1>4. EngineTyped'
  BY <1>1, <1>3, Types, Typed
<1>5. /\ Emptied' /\ Unfired' /\ Counts' /\ Behind' /\ OneIsBegun' /\ InTurn
  BY <1>1, Types, RowsAside DEF EngineInv, Emptied
<1>6. Stopped' /\ RunningIsWalked'
  BY <1>1 DEF EngineInv, Stopped, RunningIsWalked
<1>7. \A j \in Slots : Orderly' /\ j # k => ~UnderWay(j)' /\ ~UnderWay(j)
  BY <1>1, <1>3 DEF Orderly, UnderWay
<1>8. OneSweep'
  BY <1>7 DEF OneSweep
<1>9. ListedStill'
  <2>1. \A j \in Slots : Orderly' /\ j # k => sweeps'[j].todo = {}
    BY <1>3, <1>7 DEF UnderWay, IdleSweep
  <2>2. \A item \in Listed(rows) :
          item.row = rows'[item.id] /\ item.row.status = "waiting" /\ item.row.timer = "due"
    BY <1>1, ListedIs, Types
  <2>3. QED
    BY <1>3, <2>1, <2>2 DEF ListedStill
<1>10. QED
  BY <1>4, <1>5, <1>6, <1>8, <1>9 DEF EngineInv

LEMMA EngineStartKeeps ==
  ASSUME EngineInv, EngineStart
  PROVE  EngineInv' /\ InTurn
<1>1. /\ engine = "down" /\ engine' = "starting" /\ starts < MaxStarts /\ starts' = starts + 1
      /\ rows' = Reclaimed /\ sweeps' = [sweeps EXCEPT ![1].todo = Listed(Reclaimed)]
      /\ UNCHANGED <<graph, mode, debug, fired, walk, hits, furthest, repeated, disorder>>
  BY DEF EngineStart, history
<1>2. /\ rows' \in [Runs -> States]
      /\ \A r \in Runs : /\ rows'[r].status # "running"
                         /\ rows'[r] = rows[r] \/ rows'[r].status = "none"
  BY <1>1, Types, NoRowIsState DEF Reclaimed
<1>3. \A item \in Listed(rows') : /\ item \in Items /\ item.row = rows'[item.id]
                                  /\ item.row.status = "waiting" /\ item.row.timer = "due"
  BY <1>2, ListedIs
<1>4. /\ sweeps' \in [Slots -> [todo : SUBSET Items, on : 0 .. MaxRuns]]
      /\ \A k \in Slots : IF k = 1 THEN sweeps'[k].todo = Listed(rows') ELSE sweeps'[k] = IdleSweep
  <2>1. \A k \in Slots : sweeps[k] = IdleSweep
    BY <1>1 DEF EngineInv, Stopped, UnderWay
  <2>2. Listed(rows') \subseteq Items
    BY <1>3
  <2>3. sweeps' = [sweeps EXCEPT ![1].todo = Listed(rows')]
    BY <1>1
  <2>4. QED
    BY <2>1, <2>2, <2>3, Types
<1>5. EngineTyped'
  <2>1. starts' \in 0 .. MaxStarts
    BY <1>1, Types, Constants
  <2>2. QED
    BY <1>1, <1>2, <1>4, <2>1, Types, Typed
<1>6. /\ Emptied' /\ Unfired' /\ Counts' /\ Behind' /\ OneIsBegun' /\ InTurn
  BY <1>1, <1>2, RowsAside DEF EngineInv, Emptied
<1>7. RunningIsWalked'
  BY <1>1, <1>2 DEF EngineInv, Stopped, RunningIsWalked
<1>8. Stopped' /\ OneSweep'
  BY <1>1, <1>4 DEF Stopped, OneSweep, UnderWay
<1>9. ListedStill'
  BY <1>3, <1>4 DEF ListedStill, IdleSweep
<1>10. QED
  BY <1>5, <1>6, <1>7, <1>8, <1>9 DEF EngineInv

LEMMA TimerStartsKeeps ==
  ASSUME EngineInv, TimerStarts
  PROVE  EngineInv' /\ InTurn
<1>1. /\ engine = "pumping" /\ ~UnderWay(1) /\ engine' = "up"
      /\ UNCHANGED <<graph, mode, debug, rows, fired, walk, sweeps, hits, starts,
                     furthest, repeated, disorder>>
  BY DEF TimerStarts, storeVars, history
<1>2. EngineTyped'
  BY <1>1, Types, Typed
<1>3. /\ Emptied' /\ Unfired' /\ Counts' /\ Behind' /\ OneIsBegun' /\ InTurn
  BY <1>1, Types, RowsAside DEF EngineInv, Emptied
<1>4. Stopped' /\ RunningIsWalked'
  BY <1>1 DEF EngineInv, Stopped, RunningIsWalked
<1>5. OneSweep' /\ ListedStill'
  BY <1>1 DEF EngineInv, OneSweep, ListedStill, Orderly, UnderWay
<1>6. QED
  BY <1>2, <1>3, <1>4, <1>5 DEF EngineInv

LEMMA DaemonEndsKeeps ==
  ASSUME EngineInv, DaemonEnds
  PROVE  EngineInv' /\ InTurn
<1>1. /\ engine' = "down" /\ hits' = 0
      /\ walk' = [r \in Runs |-> 0] /\ sweeps' = [k \in Slots |-> IdleSweep]
      /\ UNCHANGED <<graph, mode, debug, rows, fired, starts, furthest, repeated, disorder>>
  BY DEF DaemonEnds, storeVars, history
<1>2. IdleSweep \in [todo : SUBSET Items, on : 0 .. MaxRuns] /\ IdleSweep.todo = {}
  BY Constants DEF IdleSweep
<1>3. /\ sweeps' \in [Slots -> [todo : SUBSET Items, on : 0 .. MaxRuns]]
      /\ walk' \in [Runs -> 0 .. Len(Document)] /\ hits' \in 0 .. MaxPerHour
  BY <1>1, <1>2, Constants
<1>4. EngineTyped'
  BY <1>1, <1>3, Types, Typed
<1>5. /\ Emptied' /\ Unfired' /\ Counts' /\ Behind' /\ OneIsBegun' /\ InTurn
  BY <1>1, Types, RowsAside DEF EngineInv, Emptied
<1>6. /\ Stopped' /\ RunningIsWalked' /\ OneSweep' /\ ListedStill'
  BY <1>1, <1>2 DEF Stopped, RunningIsWalked, OneSweep, ListedStill, UnderWay
<1>7. QED
  BY <1>4, <1>5, <1>6 DEF EngineInv

\* The ceiling of the hour switches the graph off.
LEMMA SwitchedOff ==
  ASSUME EngineInv, graph = "on", graph' = "off", hits' = 0,
         UNCHANGED <<mode, debug, rows, fired, walk, sweeps, engine, starts,
                     furthest, repeated, disorder>>
  PROVE  EngineInv' /\ InTurn
<1>1. EngineTyped'
  BY Types, Typed, Constants
<1>2. /\ Emptied' /\ Unfired' /\ Counts' /\ Behind' /\ OneIsBegun' /\ InTurn
  BY Types, RowsAside
<1>3. Stopped' /\ OneSweep'
  BY DEF EngineInv, Stopped, OneSweep, Orderly, UnderWay
<1>4. RunningIsWalked' /\ ListedStill'
  BY DEF EngineInv, RunningIsWalked, ListedStill, Orderly
<1>5. QED
  BY <1>1, <1>2, <1>3, <1>4 DEF EngineInv

\* The next run is inserted: what is true of every other row stays so.
LEMMA InsertedAside ==
  ASSUME EngineInv, NEW r \in Runs, r = fired + 1, fired' = r, engine # "down",
         graph = "on", hits' \in 0 .. MaxPerHour,
         UNCHANGED <<graph, mode, debug, sweeps, engine, starts, disorder>>,
         NEW t \in Moments, SameBut(Now, t, r), Becomes(t), t.walk[r] \in {0, 1},
         t.rows[r].status \in {"queued", "waiting"} => t.walk[r] = 0
  PROVE  /\ EngineTyped' /\ Stopped' /\ Emptied' /\ Unfired' /\ OneSweep' /\ ListedStill' /\ Behind'
         /\ rows[r].status = "none" /\ \A q \in Runs : q # r => rows'[q] = rows[q] /\ walk'[q] = walk[q]
         /\ rows' = t.rows /\ walk' = t.walk
<1>1. /\ rows[r].status = "none" /\ walk[r] = 0 /\ furthest[r] = 0
  BY Types, Constants DEF EngineInv, Unfired
<1>2. /\ rows' = t.rows /\ walk' = t.walk
      /\ \A q \in Runs : q # r => rows'[q] = rows[q] /\ walk'[q] = walk[q]
  BY NowIs DEF Becomes, SameBut
<1>3. /\ rows' \in [Runs -> States] /\ walk' \in [Runs -> 0 .. Len(Document)]
      /\ furthest' \in [Runs -> 0 .. Len(Document)] /\ repeated' \subseteq Runs
      /\ \A q \in Runs : furthest'[q] = IF walk'[q] # 0 /\ walk'[q] # walk[q]
                                      THEN walk'[q] ELSE furthest[q]
      /\ (\A q \in Runs : walk'[q] # 0 /\ walk'[q] # walk[q] => furthest[q] < walk'[q])
         => repeated' = repeated
  BY BecomesIs
<1>4. repeated' = repeated
  BY <1>1, <1>2, <1>3
<1>5. EngineTyped'
  <2>1. fired' \in 0 .. MaxRuns
    BY Constants DEF Runs
  <2>2. QED
    BY <1>3, <2>1, Types, Typed
<1>6. Stopped' /\ OneSweep' /\ Emptied'
  BY DEF EngineInv, Stopped, OneSweep, Orderly, UnderWay, Emptied
<1>7. Unfired'
  <2> SUFFICES ASSUME NEW q \in Runs, q > fired + 1
               PROVE  rows'[q].status = "none" /\ walk'[q] = 0 /\ furthest'[q] = 0
    BY DEF Unfired
  <2>a. fired \in Nat /\ q \in Nat /\ r = fired + 1
    BY Types, Constants DEF Runs
  <2>1. q # r /\ q > fired
    BY <2>a
  <2>2. QED
    BY <1>2, <1>3, <2>1 DEF EngineInv, Unfired
<1>8. ListedStill'
  <2>1. \A k \in Slots : \A item \in sweeps[k].todo : item.id \in Runs
    BY Types DEF Items
  <2>2. QED
    BY <1>1, <1>2, <2>1 DEF EngineInv, ListedStill, Orderly
<1>9. Behind'
  <2> SUFFICES ASSUME Orderly
               PROVE  /\ repeated' = {}
                      /\ \A q \in Runs : /\ walk'[q] # 0 => furthest'[q] = walk'[q]
                                         /\ rows'[q].status = "queued" => furthest'[q] = 0
                                         /\ rows'[q].status = "waiting" => furthest'[q] <= rows'[q].pos
    BY DEF Behind, Orderly
  <2>1. /\ repeated = {}
        /\ \A q \in Runs : /\ walk[q] # 0 => furthest[q] = walk[q]
                           /\ rows[q].status = "queued" => furthest[q] = 0
                           /\ rows[q].status = "waiting" => furthest[q] <= rows[q].pos
    BY DEF EngineInv, Behind
  <2>2. ASSUME NEW q \in Runs, q # r
        PROVE  furthest'[q] = furthest[q] /\ rows'[q] = rows[q] /\ walk'[q] = walk[q]
    BY <1>2, <1>3, <2>2
  <2>3. rows'[r].status = "waiting" /\ walk'[r] = 0 => furthest'[r] <= rows'[r].pos
    <3>1. rows'[r].pos \in Nat
      BY <1>3, Constants DEF States
    <3>2. QED
      BY <1>1, <1>3, <3>1
  <2>4. rows'[r].status \in {"queued", "waiting"} => walk'[r] = 0
    BY <1>2
  <2>5. QED
    BY <1>1, <1>2, <1>3, <1>4, <2>1, <2>2, <2>3, <2>4
<1>10. QED
  BY <1>1, <1>2, <1>5, <1>6, <1>7, <1>8, <1>9

LEMMA Finite ==
  ASSUME NEW S, S \subseteq Runs
  PROVE  IsFiniteSet(S) /\ Cardinality(S) \in Nat
<1>1. IsFiniteSet(Runs)
  BY Constants, FS_Interval DEF Runs
<1>2. IsFiniteSet(S)
  BY <1>1, FS_Subset
<1>3. QED
  BY <1>2, FS_CardinalityType

\* One run more.
LEMMA OneMore ==
  ASSUME NEW S, NEW T, NEW r \in Runs, S \subseteq Runs, T \subseteq S \cup {r}
  PROVE  Cardinality(T) <= Cardinality(S) + 1
<1>1. S \cup {r} \subseteq Runs /\ T \subseteq Runs
  OBVIOUS
<1>2. Cardinality(T) <= Cardinality(S \cup {r})
  BY <1>1, Finite, FS_Subset
<1>3. Cardinality(S \cup {r}) <= Cardinality(S) + 1
  BY Finite, FS_AddElement
<1>4. QED
  BY <1>1, <1>2, <1>3, Finite

LEMMA LiveIs == EngineInv => Live(rows) = {r \in Runs : rows[r].status # "none"}
BY Types DEF Live, WithStatus, States

LEMMA QueuedKeeps ==
  ASSUME EngineInv, NEW r \in Runs, r = fired + 1, fired' = r, engine # "down",
         graph = "on", hits' \in 0 .. MaxPerHour,
         UNCHANGED <<graph, mode, debug, sweeps, engine, starts, disorder>>,
         mode = "queue", Cardinality(WithStatus(rows, {"queued"})) < MaxQueued,
         Becomes([Now EXCEPT !.rows[r] = [NoRow EXCEPT !.status = "queued"]])
  PROVE  EngineInv' /\ InTurn
<1> DEFINE row == [NoRow EXCEPT !.status = "queued"]
           t == [Now EXCEPT !.rows[r] = row]
<1>1. row \in States /\ row.status = "queued"
  BY NoRowIsState DEF States
<1> HIDE DEF row
<1>2. /\ t \in Moments /\ t.rows = [rows EXCEPT ![r] = row] /\ t.walk = walk
  BY <1>1, Types DEF Moments, Now
<1>3. walk[r] = 0
  BY Types, Constants DEF EngineInv, Unfired
<1>4. t.rows[r] = row /\ t.walk[r] = 0 /\ SameBut(Now, t, r) /\ Becomes(t)
  BY <1>2, <1>3, Types, NowIs DEF SameBut, row
<1> HIDE DEF t
<1>5. /\ EngineTyped' /\ Stopped' /\ Emptied' /\ Unfired' /\ OneSweep' /\ ListedStill' /\ Behind'
      /\ rows[r].status = "none" /\ \A q \in Runs : q # r => rows'[q] = rows[q] /\ walk'[q] = walk[q]
      /\ rows'[r].status = "queued" /\ walk'[r] = 0
  BY <1>1, <1>2, <1>4, InsertedAside
<1>6. RunningIsWalked'
  BY <1>5 DEF EngineInv, RunningIsWalked
<1>7. OneIsBegun' /\ InTurn
  BY <1>5 DEF EngineInv, OneIsBegun, Begun, InTurn
<1>8. Counts'
  <2>1. WithStatus(rows', {"queued"}) \subseteq WithStatus(rows, {"queued"}) \cup {r}
    BY <1>5 DEF WithStatus
  <2>2. Cardinality(WithStatus(rows', {"queued"})) <= Cardinality(WithStatus(rows, {"queued"})) + 1
    BY <2>1, OneMore DEF WithStatus
  <2>3. /\ Cardinality(WithStatus(rows', {"queued"})) \in Nat
        /\ Cardinality(WithStatus(rows, {"queued"})) \in Nat
    BY Finite DEF WithStatus
  <2>4. Cardinality(WithStatus(rows', {"queued"})) <= MaxQueued
    BY <2>2, <2>3, Constants
  <2>5. QED
    BY <2>4 DEF Counts
<1>9. QED
  BY <1>5, <1>6, <1>7, <1>8 DEF EngineInv

LEMMA StartedKeeps ==
  ASSUME EngineInv, NEW r \in Runs, r = fired + 1, fired' = r, engine # "down",
         graph = "on", hits' \in 0 .. MaxPerHour,
         UNCHANGED <<graph, mode, debug, sweeps, engine, starts, disorder>>,
         \/ Live(rows) = {}
         \/ mode = "parallel" /\ Cardinality(Live(rows)) < MaxParallel,
         Becomes(Advance([Now EXCEPT !.rows[r] = [NoRow EXCEPT !.status = "running"]], r,
                         [NoRow EXCEPT !.status = "running"], FALSE))
  PROVE  EngineInv' /\ InTurn
<1> DEFINE row == [NoRow EXCEPT !.status = "running"]
           s == [Now EXCEPT !.rows[r] = row]
           t == Advance(s, r, row, FALSE)
<1>1. row \in States /\ row.status = "running" /\ row.pos = 0
  BY NoRowIsState DEF States
<1>2. s \in Moments /\ s.rows = [rows EXCEPT ![r] = row] /\ s.walk = walk
  <2> HIDE DEF row
  <2>1. QED
    BY <1>1, Types DEF Moments, Now
<1>3. walk[r] = 0
  BY Types, Constants DEF EngineInv, Unfired
<1>4. s.rows[r] = row /\ SameBut(Now, s, r) /\ Becomes(t)
  BY <1>2, <1>3, Types, NowIs DEF SameBut
<1> HIDE DEF row, s
<1>5. t = Reach(s, r, row, 1, FALSE)
  BY <1>1, Constants DEF Advance
<1> HIDE DEF t
<1>6. Reached(s, t, r, 1)
  <2>1. 1 \in 1 .. Len(Document)
    BY Constants
  <2>2. QED
    BY <1>1, <1>2, <1>5, <2>1, ReachIs
<1>7. t \in Moments /\ SameBut(Now, t, r)
  BY <1>4, <1>6 DEF Reached, SameBut
<1>8. \/ t.rows[r].status = "running" /\ t.walk[r] = 1
      \/ t.rows[r].status = "waiting" /\ t.walk[r] = 0
  BY <1>1, <1>4, <1>6 DEF Reached
<1>9. /\ EngineTyped' /\ Stopped' /\ Emptied' /\ Unfired' /\ OneSweep' /\ ListedStill' /\ Behind'
      /\ rows[r].status = "none" /\ \A q \in Runs : q # r => rows'[q] = rows[q] /\ walk'[q] = walk[q]
      /\ rows' = t.rows /\ walk' = t.walk
  BY <1>4, <1>7, <1>8, InsertedAside
<1>10. RunningIsWalked'
  BY <1>8, <1>9 DEF EngineInv, RunningIsWalked
<1>11. Live(rows) = {} => \A q \in Runs : q # r => rows'[q].status = "none"
  BY <1>9, LiveIs
<1>12. OneIsBegun' /\ InTurn
  <2>1. CASE Live(rows) = {}
    <3>1. \A q \in 1 .. r - 1 : q \in Runs /\ q # r
      BY Constants DEF Runs
    <3>2. QED
      BY <1>11, <2>1, <3>1 DEF OneIsBegun, Begun, InTurn
  <2>2. CASE mode = "parallel"
    BY <2>2 DEF OneIsBegun, InTurn
  <2>3. QED
    BY <2>1, <2>2
<1>13. Counts'
  <2>1. rows' \in [Runs -> States] /\ Counts /\ mode' = mode
    BY <1>9 DEF EngineInv, EngineTyped
  <2>2. Live(rows') \subseteq Live(rows) \cup {r}
    BY <1>9 DEF Live, WithStatus
  <2>3. WithStatus(rows', {"queued"}) = WithStatus(rows, {"queued"})
    BY <1>8, <1>9 DEF WithStatus
  <2>4. /\ Cardinality(Live(rows')) <= Cardinality(Live(rows)) + 1
        /\ Cardinality(Live(rows')) \in Nat /\ Cardinality(Live(rows)) \in Nat
    BY <2>2, OneMore, Finite DEF Live, WithStatus
  <2>5. mode = "parallel" => Cardinality(Live(rows')) <= MaxParallel
    <3>1. CASE Live(rows) = {}
      BY <2>4, <3>1, FS_EmptySet, Constants
    <3>2. CASE Cardinality(Live(rows)) < MaxParallel
      BY <2>4, <3>2, Constants
    <3>3. QED
      BY <3>1, <3>2
  <2>6. mode = "drop" => Cardinality(Live(rows')) <= 1
    BY <2>4, FS_EmptySet
  <2>7. QED
    BY <2>1, <2>3, <2>5, <2>6 DEF Counts
<1>14. QED
  BY <1>9, <1>10, <1>12, <1>13 DEF EngineInv

LEMMA FireKeeps ==
  ASSUME EngineInv, Fire
  PROVE  EngineInv' /\ InTurn
<1>1. /\ engine # "down" /\ graph = "on" /\ Admitted /\ (hits = MaxPerHour \/ fired < MaxRuns)
      /\ UNCHANGED <<mode, debug, sweeps, engine, starts, disorder>>
  BY DEF Fire, Running, MayInsert
<1>2. CASE hits + 1 > MaxPerHour
  <2>1. graph' = "off" /\ hits' = 0 /\ UNCHANGED <<rows, fired, walk, furthest, repeated>>
    BY <1>2 DEF Fire
  <2>2. QED
    BY <1>1, <2>1, SwitchedOff
<1>3. CASE ~(hits + 1 > MaxPerHour)
  <2> DEFINE r == fired + 1
  <2>1. /\ r \in Runs /\ hits + 1 \in 0 .. MaxPerHour
    BY <1>1, <1>3, Types, Constants, SMTT(30) DEF Runs
  <2>2. /\ hits' = hits + 1 /\ fired' = r /\ UNCHANGED graph
        /\ IF mode = "queue" /\ Live(rows) # {}
           THEN Becomes([Now EXCEPT !.rows[r] = [NoRow EXCEPT !.status = "queued"]])
           ELSE Becomes(Advance([Now EXCEPT !.rows[r] = [NoRow EXCEPT !.status = "running"]], r,
                                [NoRow EXCEPT !.status = "running"], FALSE))
    BY <1>3 DEF Fire
  <2> HIDE DEF r
  <2>3. CASE mode = "queue" /\ Live(rows) # {}
    <3>1. Cardinality(WithStatus(rows, {"queued"})) < MaxQueued
      BY <1>1, <2>3 DEF Admitted
    <3>2. QED
      BY <1>1, <2>1, <2>2, <2>3, <3>1, QueuedKeeps DEF r
  <2>4. CASE ~(mode = "queue" /\ Live(rows) # {})
    <3>1. \/ Live(rows) = {}
          \/ mode = "parallel" /\ Cardinality(Live(rows)) < MaxParallel
      BY <1>1, <2>4, Types DEF Admitted
    <3>2. QED
      BY <1>1, <2>1, <2>2, <2>4, <3>1, StartedKeeps DEF r
  <2>5. QED
    BY <2>3, <2>4
<1>4. QED
  BY <1>2, <1>3
-----------------------------------------------------------------------------
LEMMA EngineInitHolds == EngineInit => EngineInv
<1> SUFFICES ASSUME EngineInit
             PROVE  EngineInv
  OBVIOUS
<1>1. /\ graph = "on" /\ \E s \in Settings : mode = s[1] /\ debug = s[2]
      /\ rows = [r \in Runs |-> NoRow] /\ fired = 0 /\ walk = [r \in Runs |-> 0]
      /\ sweeps = [k \in Slots |-> IdleSweep] /\ hits = 0 /\ engine = "down" /\ starts = 0
      /\ furthest = [r \in Runs |-> 0] /\ repeated = {} /\ disorder = {}
  BY DEF EngineInit
<1>2. IdleSweep \in [todo : SUBSET Items, on : 0 .. MaxRuns] /\ IdleSweep.todo = {}
  BY Constants DEF IdleSweep
<1>3. /\ rows \in [Runs -> States] /\ walk \in [Runs -> 0 .. Len(Document)]
      /\ furthest \in [Runs -> 0 .. Len(Document)]
      /\ sweeps \in [Slots -> [todo : SUBSET Items, on : 0 .. MaxRuns]]
      /\ \A r \in Runs : rows[r].status = "none"
  BY <1>1, <1>2, NoRowIsState, Constants
<1>4. EngineTypeOK
  <2>1. /\ fired \in 0 .. MaxRuns /\ hits \in 0 .. MaxPerHour /\ starts \in 0 .. MaxStarts
        /\ \A k \in Slots : sweeps[k].on \in 0 .. MaxRuns
    BY <1>1, <1>3, Constants
  <2>2. QED
    BY <1>1, <1>3, <2>1 DEF EngineTypeOK, States
<1>5. EngineTyped
  BY <1>3, <1>4 DEF EngineTyped
<1>6. Live(rows) = {} /\ WithStatus(rows, {"queued"}) = {}
  BY <1>3 DEF Live, WithStatus
<1>7. Counts
  <2>1. Cardinality(Live(rows)) = 0 /\ Cardinality(WithStatus(rows, {"queued"})) = 0
    BY <1>6, FS_EmptySet
  <2>2. QED
    BY <2>1, Constants DEF Counts
<1>8. Stopped /\ Emptied /\ Unfired /\ RunningIsWalked
  BY <1>1, <1>3 DEF Stopped, Emptied, Unfired, RunningIsWalked, UnderWay
<1>9. OneSweep /\ ListedStill
  BY <1>1, <1>2 DEF OneSweep, ListedStill, UnderWay
<1>10. Behind /\ OneIsBegun
  BY <1>1, <1>3 DEF Behind, OneIsBegun, Begun
<1>11. QED
  BY <1>5, <1>7, <1>8, <1>9, <1>10 DEF EngineInv

LEMMA EngineStepKeeps ==
  ASSUME EngineInv, [EngineNext]_graphVars
  PROVE  EngineInv' /\ InTurn
<1>1. CASE UNCHANGED graphVars
  <2>1. UNCHANGED <<graph, mode, debug, rows, fired, walk, sweeps, hits, engine, starts,
                    furthest, repeated, disorder>>
    BY <1>1 DEF graphVars
  <2>2. EngineTyped'
    BY <2>1, Types, Typed
  <2>3. /\ Emptied' /\ Unfired' /\ Counts' /\ Behind' /\ OneIsBegun' /\ InTurn
    BY <2>1, Types, RowsAside DEF EngineInv, Emptied
  <2>4. Stopped' /\ RunningIsWalked' /\ OneSweep' /\ ListedStill'
    BY <2>1 DEF EngineInv, Stopped, RunningIsWalked, OneSweep, ListedStill, Orderly, UnderWay
  <2>5. QED
    BY <2>2, <2>3, <2>4 DEF EngineInv
<1>2. CASE Fire
  BY <1>2, FireKeeps
<1>3. CASE DeleteGraph
  BY <1>3, DeleteGraphKeeps
<1>4. CASE \E on \in BOOLEAN : SetEnabled(on)
  BY <1>4, SetEnabledKeeps
<1>5. ASSUME NEW r \in Runs,
             \/ \E step \in BOOLEAN : ResumeRun(r, step)
             \/ StopRun(r)
             \/ \E ok \in BOOLEAN : NodeReturns(r, ok)
             \/ WaitIsDue(r)
      PROVE  EngineInv' /\ InTurn
  BY <1>5, ResumeRunKeeps, StopRunKeeps, NodeReturnsKeeps, WaitIsDueKeeps
<1>6. ASSUME NEW k \in Slots, SweepBegins(k) \/ SweepItem(k)
      PROVE  EngineInv' /\ InTurn
  BY <1>6, SweepBeginsKeeps, SweepItemKeeps
<1>7. CASE EngineStart \/ StartPumps \/ TimerStarts \/ DaemonEnds
  BY <1>7, EngineStartKeeps, StartPumpsKeeps, TimerStartsKeeps, DaemonEndsKeeps
<1>8. QED
  BY <1>1, <1>2, <1>3, <1>4, <1>5, <1>6, <1>7 DEF EngineNext

\* The rows, the walk, the sweeps and the history fit together in every state that can be reached.
THEOREM EngineInvariant == EngineSpec => []EngineInv
<1>1. EngineInit => EngineInv
  BY EngineInitHolds
<1>2. EngineInv /\ [EngineNext]_graphVars => EngineInv'
  BY EngineStepKeeps
<1>3. QED
  BY <1>1, <1>2, PTL DEF EngineSpec

\* A graph never holds more runs than its mode allows, parked ones counted: whatever fires,
\* sweeps, restarts and the debugger do, no path leads around the questions fire() asks.
THEOREM SlotsAlwaysRespected == EngineSpec => []SlotsRespected
<1>1. EngineInv => SlotsRespected
  BY DEF EngineInv, EngineTyped, Counts, SlotsRespected
<1>2. QED
  BY <1>1, EngineInvariant, PTL

\* A row says "running" exactly while this process is on the run (engine.ts:175-186).
THEOREM RunningIsAlwaysWalked == EngineSpec => []RunningIsWalked
<1>1. EngineInv => RunningIsWalked
  BY DEF EngineInv
<1>2. QED
  BY <1>1, EngineInvariant, PTL

\* Unless two sweeps overlap, no node of a run is executed twice, whatever is killed when.
THEOREM NodesAlwaysRunOnce == EngineSpec => []NodesRunOnce
<1>1. EngineInv => NodesRunOnce
  BY DEF EngineInv, Behind, Orderly, NodesRunOnce
<1>2. QED
  BY <1>1, EngineInvariant, PTL

\* Unless sweeps overlap or a start pumps past a parked run, a run of a graph in queue mode
\* begins only when the ones fired before it are over.
THEOREM AlwaysFirstInFirstDone == EngineSpec => FirstInFirstDone
<1>1. EngineInv /\ [EngineNext]_graphVars
      => [(mode = "queue" /\ disorder' = {}) =>
            \A r \in Runs :
              (rows[r].status \in {"none", "queued"} /\ rows'[r].status \in {"running", "waiting"}) =>
                \A q \in 1 .. r - 1 : rows'[q].status = "none"]_graphVars
  BY EngineStepKeeps DEF InTurn
<1>2. QED
  BY <1>1, EngineInvariant, PTL DEF EngineSpec, FirstInFirstDone
=============================================================================
