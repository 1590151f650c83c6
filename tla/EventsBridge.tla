---------------------------- MODULE EventsBridge ----------------------------
(***************************************************************************)
(* The road from the event bus to the process of one plugin: its           *)
(* subscriptions, their bounded queues, the credit they spend, the flush   *)
(* that one timer runs for all of them, and the grant that is read again at*)
(* every flush.  (plugins/events-bridge.ts; attachment as                  *)
(* wiring/plugin-host.ts does it.)                                         *)
(*                                                                         *)
(* A topic stands for what a grant admits or not (account, scope, pattern),*)
(* a key for what readKeyPath finds.  Sequence numbers and the reason of a *)
(* loss are left out: a loss is counted.                                   *)
(***************************************************************************)
EXTENDS Naturals, Sequences, FiniteSets, FiniteSetsExt

CONSTANTS
  Subs,       \* the ids of subscriptions
  Topics,     \* what grants are made of
  Keys,       \* coalesce keys; "none" is an event without one
  Frames,     \* subscribe frames the plugin may send: sub, policy (credits, maxBatch,
              \* overflow), wants, the topics its filter matches, and named: it names kinds
  Grants,     \* what liveGrant() may answer: the topics a grant admits, or NoGrant
  MaxEvents   \* bound: events that are ever emitted

NoGrant == {"no grant"}   \* null

ASSUME BridgeAssumption ==
  /\ Grants \subseteq (SUBSET Topics) \cup {NoGrant} /\ "no grant" \notin Topics
  /\ "none" \notin Keys
  /\ MaxEvents \in Nat
  /\ \A f \in Frames : /\ f.sub \in Subs /\ f.wants \subseteq Topics /\ f.named \in BOOLEAN
                       /\ f.policy.credits \in Nat \ {0} /\ f.policy.maxBatch \in Nat \ {0}
                       /\ f.policy.overflow \in {"coalesce", "drop-oldest", "drop-newest", "disconnect"}

VARIABLES
  grant,      \* what the store would answer now
  attached,   \* the plugin has a channel
  authority,  \* the grant the compiled predicate and its signature are of
  scheduled,  \* #flushScheduled
  subs,       \* the registrations
  wire,       \* what each subscription is sent in this step
  deaf,       \* the process is gone and the supervisor has not noticed: send() is false
  emitted,    \* how many events the bus has carried
  spared      \* history: queued events that a subscribe kept from being purged

bridgeVars == <<grant, attached, authority, scheduled, subs, wire, deaf, emitted, spared>>

Feed == INSTANCE PluginFeed WITH
  policy <- [s \in Subs |-> subs[s].policy],
  queue <- [s \in Subs |-> SubSeq(subs[s].items, subs[s].head + 1, Len(subs[s].items))],
  unsaid <- [s \in Subs |-> subs[s].lost],
  unacked <- [s \in Subs |-> subs[s].outstanding],
  Policies <- {f.policy : f \in Frames},
  Events <- [n : 1 .. MaxEvents, topic : Topics, key : Keys \cup {"none"}]

-----------------------------------------------------------------------------
(* PendingQueue: an array, how much of it is dead, and where each key is.  *)

NoSlots == [k \in Keys |-> 0]
Least(a, b) == IF a < b THEN a ELSE b

Pending(r) == SubSeq(r.items, r.head + 1, Len(r.items))
Size(r) == Len(r.items) - r.head
Coalesces(r) == \E p \in r.policy : p.overflow = "coalesce"
KeyOf(r, e) == IF Coalesces(r) THEN e.key ELSE "none"

\* #reindex: of several events with a key the last one counts.
SlotsIn(r, items) ==
  [k \in Keys |->
     LET at == {i \in 1 .. Len(items) : KeyOf(r, items[i]) = k}
     IN IF at = {} THEN 0 ELSE CHOOSE i \in at : \A j \in at : j <= i]
Anew(r, items) == [r EXCEPT !.items = items, !.head = 0, !.slots = SlotsIn(r, items)]

\* Mutant: the dead prefix goes and the index of keys stays.
CompactUnindexed(r) ==
  IF r.head = 0 \/ r.head * 2 < Len(r.items) THEN r
  ELSE [r EXCEPT !.items = Pending(r), !.head = 0]

\* #compact: the dead prefix goes when it is half of the array.
Compact(r) == IF r.head = 0 \/ r.head * 2 < Len(r.items) THEN r ELSE Anew(r, Pending(r))

\* A slot in the dead prefix is a miss.
Supersedes(r, e) == KeyOf(r, e) # "none" /\ r.slots[e.key] > r.head
Supersede(r, e) == [r EXCEPT !.items[r.slots[e.key]] = e]
Push(r, e) ==
  [r EXCEPT !.items = Append(@, e),
            !.slots = IF KeyOf(r, e) = "none" THEN @ ELSE [@ EXCEPT ![e.key] = Len(r.items) + 1]]
Commit(r, n) == Compact([r EXCEPT !.head = Least(Len(r.items), @ + n)])
DropOldest(r) == IF Size(r) = 0 THEN r ELSE Commit(r, 1)
Purge(r, granted) ==
  LET kept == Feed!Readable(Pending(r), granted)
  IN IF Len(kept) = Size(r) THEN r ELSE Anew(r, kept)

-----------------------------------------------------------------------------
(* Registrations.                                                          *)

Closed == [policy |-> {}, wants |-> {}, items |-> <<>>, head |-> 0, slots |-> NoSlots,
           outstanding |-> 0, lost |-> 0, closing |-> FALSE]
Opened(p, wants) == [Closed EXCEPT !.policy = {p}, !.wants = wants]
IsOpen(s) == subs[s].policy # {}
AllClosed == [s \in Subs |-> Closed]

Silence == [events |-> <<>>, lost |-> 0]
Quiet == wire' = [s \in Subs |-> Silence]
Admits(g) == g \cap Topics

Lose(r) == [r EXCEPT !.lost = @ + 1]

BridgeInit ==
  /\ grant \in Grants /\ authority = NoGrant
  /\ attached = FALSE /\ scheduled = FALSE /\ deaf = FALSE
  /\ subs = AllClosed /\ wire = [s \in Subs |-> Silence]
  /\ emitted = 0 /\ spared = {}

\* The supervisor's state became live: a fresh process has no subscription.
Attach ==
  /\ ~attached
  /\ attached' = TRUE /\ authority' = grant /\ deaf' = FALSE
  /\ Quiet
  /\ UNCHANGED <<grant, scheduled, subs, emitted, spared>>

\* It is live no longer.
Detach ==
  /\ attached
  /\ attached' = FALSE /\ subs' = AllClosed
  /\ Quiet
  /\ UNCHANGED <<grant, authority, scheduled, deaf, emitted, spared>>

PeerDies ==
  /\ attached /\ ~deaf
  /\ deaf' = TRUE
  /\ Quiet
  /\ UNCHANGED <<grant, attached, authority, scheduled, subs, emitted, spared>>

\* The plugin is installed again, with other permissions or another version, or the
\* consent to that is given: nobody tells the bridge.
Regrant ==
  /\ \E g \in Grants \ {grant} : grant' = g
  /\ Quiet
  /\ UNCHANGED <<attached, authority, scheduled, subs, deaf, emitted, spared>>

\* #subscribe: the authority is read again, whether or not the request is then
\* refused: the id is in use, or none of the kinds it names can be read.  A filter that
\* names none is never refused for what the grant admits.
Subscribe(s) ==
  /\ attached /\ ~deaf /\ grant # NoGrant
  /\ authority' = grant
  /\ spared' = IF authority = grant THEN spared
               ELSE spared \cup {e.n : e \in {e \in UNION {{Pending(subs[x])[i] : i \in 1 .. Size(subs[x])} :
                                                             x \in Subs} : e.topic \notin grant}}
  /\ \/ UNCHANGED subs
     \/ /\ ~IsOpen(s)
        /\ \E f \in Frames : /\ f.sub = s /\ (f.named => f.wants \cap grant # {})
                             /\ subs' = [subs EXCEPT ![s] = Opened(f.policy, f.wants)]
  /\ Quiet
  /\ UNCHANGED <<grant, attached, scheduled, deaf, emitted>>

Unsubscribe(s) ==
  /\ attached /\ ~deaf /\ IsOpen(s)
  /\ subs' = [subs EXCEPT ![s] = Closed]
  /\ Quiet
  /\ UNCHANGED <<grant, attached, authority, scheduled, deaf, emitted, spared>>

\* Mutant: credit is given back and nobody sends what waited for it.
CreditUnnoticed(s) ==
  /\ attached /\ ~deaf /\ IsOpen(s)
  /\ \E k \in 1 .. 2 : subs' = [subs EXCEPT ![s].outstanding = IF @ > k THEN @ - k ELSE 0]
  /\ Quiet
  /\ UNCHANGED <<grant, attached, authority, scheduled, deaf, emitted, spared>>

\* #credit: more than is outstanding is cut to it.
Credit(s) ==
  /\ attached /\ ~deaf /\ IsOpen(s)
  /\ \E k \in 1 .. 2 : subs' = [subs EXCEPT ![s].outstanding = IF @ > k THEN @ - k ELSE 0]
  /\ scheduled' = TRUE
  /\ Quiet
  /\ UNCHANGED <<grant, attached, authority, deaf, emitted, spared>>

-----------------------------------------------------------------------------
(* The emit path, inside EventBus.emit(): every open subscription at once. *)

Wanted(r, e) == e.topic \in r.wants /\ e.topic \in Admits(authority)

\* #deliver.  A subscription that is closing counts what comes, wanted or not.
Deliver(r, e) ==
  IF r.closing THEN Lose(r)
  ELSE IF ~Wanted(r, e) THEN r
  ELSE IF Supersedes(r, e) THEN Lose(Supersede(r, e))
  ELSE LET p == CHOOSE p \in r.policy : TRUE
       IN IF Size(r) < p.credits THEN Push(r, e)
          ELSE IF p.overflow = "drop-newest" THEN Lose(r)
          ELSE IF p.overflow = "disconnect" THEN [Lose(r) EXCEPT !.closing = TRUE]
          ELSE Lose(Push(DropOldest(r), e))

Emit ==
  /\ emitted < MaxEvents
  /\ emitted' = emitted + 1
  /\ \E t \in Topics, k \in Keys \cup {"none"} :
       LET e == [n |-> emitted + 1, topic |-> t, key |-> k]
           open == {s \in Subs : IsOpen(s)}
       IN /\ subs' = [s \in Subs |-> IF s \in open THEN Deliver(subs[s], e) ELSE subs[s]]
          /\ scheduled' = (scheduled \/ \E s \in open : ~subs[s].closing /\ Wanted(subs[s], e))
  /\ Quiet
  /\ UNCHANGED <<grant, attached, authority, deaf, spared>>

-----------------------------------------------------------------------------
(* The flush, on a later turn.                                             *)

\* The batch that gets through: n is halved until a frame of that size fits.
Halved(n, fits) ==
  Max({0} \cup {m \in 1 .. Least(n, fits) : \E k \in 0 .. n : m = n \div 2 ^ k})

\* #emitFor and #close: how much goes out, what is told, what is left of it.
Budget(r) ==
  LET p == CHOOSE p \in r.policy : TRUE
  IN Least(Least(p.credits - r.outstanding, p.maxBatch), Size(r))
Sent(r, fits) == Halved(Budget(r), fits)
Shed(r, fits) == IF Budget(r) > 0 /\ Sent(r, fits) = 0 THEN 1 ELSE 0
Emitted(r, fits) ==
  LET after == Commit([r EXCEPT !.outstanding = @ + Sent(r, fits), !.lost = 0],
                      Sent(r, fits) + Shed(r, fits))
  IN IF r.closing THEN Closed ELSE after
Told(r, fits) ==
  [events |-> SubSeq(Pending(r), 1, Sent(r, fits)),
   lost |-> r.lost + Shed(r, fits)
            + (IF r.closing THEN Size(r) - Sent(r, fits) - Shed(r, fits) ELSE 0)]

\* Something is left, and there is room for it.
Owes(r) == r.policy # {} /\ Size(r) > 0 /\ \E p \in r.policy : r.outstanding < p.credits

\* The grant is gone: everything is closed, and says so.
FlushRevoked ==
  /\ grant = NoGrant
  /\ subs' = AllClosed /\ scheduled' = FALSE
  /\ wire' = [s \in Subs |-> IF deaf THEN Silence
                             ELSE [events |-> <<>>, lost |-> Size(subs[s]) + subs[s].lost]]
  /\ UNCHANGED authority

\* Mutant: what is queued is not looked at again.
KeptUnpurged(r) == r

\* What the grant no longer admits is purged, if it is another one than at the last look.
Kept(r) ==
  IF authority = grant THEN r
  ELSE LET kept == Purge(r, grant) IN [kept EXCEPT !.lost = @ + Size(r) - Size(kept)]

FlushGranted ==
  /\ grant # NoGrant
  /\ authority' = grant
  /\ \E fits \in [Subs -> IF deaf THEN {0} ELSE 0 .. 2] :
       LET next == [s \in Subs |-> IF IsOpen(s) THEN Emitted(Kept(subs[s]), fits[s]) ELSE Closed]
       IN /\ subs' = next
          /\ scheduled' = \E s \in Subs : Owes(next[s])
          /\ wire' = [s \in Subs |-> IF deaf \/ ~IsOpen(s) THEN Silence
                                     ELSE Told(Kept(subs[s]), fits[s])]

Flush ==
  /\ scheduled
  /\ IF attached THEN FlushRevoked \/ FlushGranted
     ELSE scheduled' = FALSE /\ Quiet /\ UNCHANGED <<authority, subs>>
  /\ UNCHANGED <<grant, attached, deaf, emitted, spared>>

BridgeNext ==
  \/ Attach \/ Detach \/ PeerDies \/ Regrant \/ Emit \/ Flush
  \/ \E s \in Subs : Subscribe(s) \/ Unsubscribe(s) \/ Credit(s)

BridgeSpec == BridgeInit /\ [][BridgeNext]_bridgeVars

-----------------------------------------------------------------------------
(* Properties.                                                             *)

\* The queue with its array, dead prefix and index of keys does what the reference
\* semantics say, no batch exceeds the window, and nothing is lost without being told
\* in the same turn (events-bridge.ts:17, 247).
ImplementsPluginFeed == Feed!FeedSpec

\* What waits and has room, and what has been lost and not told, has a flush coming: no
\* interleaving of bursts, partial batches, credit and re-grants strands a queue
\* until the next event happens to arrive (events-bridge.ts:820).
NeverStranded ==
  \A s \in Subs : Owes(subs[s]) \/ subs[s].lost > 0 \/ subs[s].closing => scheduled

\* What is delivered is granted when it is delivered (events-bridge.ts:41-44), but for
\* what a subscribe has kept from the purge by reading the new grant first (:545).
DeliveredIsGranted ==
  \A s \in Subs : \A i \in 1 .. Len(wire[s].events) :
    LET e == wire[s].events[i] IN e.topic \in Admits(grant) \/ e.n \in spared
=============================================================================
