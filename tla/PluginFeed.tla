----------------------------- MODULE PluginFeed -----------------------------
(***************************************************************************)
(* What a subscription of a plugin is promised: the events it accepted, in *)
(* the order and with the losses that the protocol's reference semantics   *)
(* give (packages/plugin-api, applyOverflow), never more of them at once   *)
(* than it has room for, and the number of those it will not see, told in  *)
(* the turn in which they are given up.                                    *)
(***************************************************************************)
EXTENDS Naturals, Sequences

CONSTANTS Subs, Topics, Events, Policies

VARIABLES
  policy,   \* the delivery policy of each subscription that is open, a set of one; {} if closed
  queue,    \* the events it has accepted and neither been shown nor lost
  unsaid,   \* how many it has lost and not been told of
  unacked,  \* how many it has been shown and not given credit back for
  wire,     \* what it is sent in this step: events, and how many it has lost
  deaf      \* nothing that is sent arrives

feedVars == <<policy, queue, unsaid, unacked, wire, deaf>>

Silence == [events |-> <<>>, lost |-> 0]

\* applyOverflow: e is accepted under the policy p into q.
SlotsOf(q, e) == {i \in 1 .. Len(q) : q[i].key = e.key}
Superseded(q, e, p) == p.overflow = "coalesce" /\ e.key # "none" /\ SlotsOf(q, e) # {}
Full(q, p) == Len(q) >= p.credits
Overflow(q, e, p) ==
  IF Superseded(q, e, p) THEN [q EXCEPT ![CHOOSE i \in SlotsOf(q, e) : TRUE] = e]
  ELSE IF ~Full(q, p) THEN Append(q, e)
  ELSE IF p.overflow \in {"coalesce", "drop-oldest"} THEN Append(Tail(q), e)
  ELSE q
Loses(q, e, p) == IF Superseded(q, e, p) \/ Full(q, p) THEN 1 ELSE 0

\* The events of q on a topic of granted.
Readable(q, granted) ==
  LET upTo[i \in 0 .. Len(q)] ==
        IF i = 0 THEN <<>>
        ELSE IF q[i].topic \in granted THEN Append(upTo[i - 1], q[i]) ELSE upTo[i - 1]
  IN upTo[Len(q)]

FeedInit ==
  /\ policy = [s \in Subs |-> {}]
  /\ queue = [s \in Subs |-> <<>>]
  /\ unsaid = [s \in Subs |-> 0] /\ unacked = [s \in Subs |-> 0]
  /\ wire = [s \in Subs |-> Silence]
  /\ deaf = FALSE

Quiet(s) == wire'[s] = Silence
Same(s) == policy'[s] = policy[s] /\ unacked'[s] = unacked[s]
Closed(s) == policy'[s] = {} /\ queue'[s] = <<>> /\ unsaid'[s] = 0 /\ unacked'[s] = 0

Opens(s) ==
  /\ policy[s] = {}
  /\ \E p \in Policies : policy'[s] = {p}
  /\ queue'[s] = <<>> /\ unsaid'[s] = 0 /\ unacked'[s] = 0
  /\ Quiet(s)

\* It unsubscribes, or its process has ended.
Cancelled(s) == Closed(s) /\ Quiet(s)

Accepts(s) ==
  /\ \E e \in Events, p \in policy[s] :
       /\ queue'[s] = Overflow(queue[s], e, p)
       /\ unsaid'[s] = unsaid[s] + Loses(queue[s], e, p)
  /\ Same(s) /\ Quiet(s)

\* Between the overflow that ends a subscription and its end everything is lost.
Refuses(s) ==
  /\ \E p \in policy[s] : p.overflow = "disconnect" /\ Full(queue[s], p)
  /\ queue'[s] = queue[s] /\ unsaid'[s] = unsaid[s] + 1
  /\ Same(s) /\ Quiet(s)

Credited(s) ==
  /\ policy[s] # {} /\ unacked'[s] <= unacked[s]
  /\ queue'[s] = queue[s] /\ unsaid'[s] = unsaid[s] /\ policy'[s] = policy[s]
  /\ Quiet(s)

\* What is no longer granted is lost, then the n oldest events go out, or one of them is
\* given up because it cannot be sent; all that is lost is told, and it stays or ends.
TurnWith(s, p, granted, n, shed) ==
  LET kept == Readable(queue[s], granted)
      rest == SubSeq(kept, n + shed + 1, Len(kept))
      gone == unsaid[s] + (Len(queue[s]) - Len(kept)) + shed
      tells(lost) == wire'[s] = IF deaf THEN Silence
                                ELSE [events |-> SubSeq(kept, 1, n), lost |-> lost]
  IN /\ n <= p.credits - unacked[s] /\ n * shed = 0 /\ n + shed <= Len(kept)
     /\ \/ /\ policy'[s] = policy[s] /\ queue'[s] = rest /\ unacked'[s] = unacked[s] + n
           /\ unsaid'[s] = 0
           /\ tells(gone)
        \/ Closed(s) /\ tells(gone + Len(rest))

\* One turn, with as many events as there is room for.
Turn(s) ==
  \E p \in policy[s], granted \in SUBSET Topics, n \in 0 .. Len(queue[s]), shed \in {0, 1} :
    TurnWith(s, p, granted, n, shed)

Idles(s) == queue'[s] = queue[s] /\ unsaid'[s] = unsaid[s] /\ Same(s) /\ Quiet(s)

\* What a step does to each subscription.
FeedNext ==
  \A s \in Subs :
    \/ Idles(s) \/ Opens(s) \/ Cancelled(s) \/ Accepts(s) \/ Refuses(s) \/ Credited(s) \/ Turn(s)

FeedSpec == FeedInit /\ [][FeedNext]_feedVars
=============================================================================
