----------------------------- MODULE WebhookFeed -----------------------------
(***************************************************************************)
(* What the webhook subsystem promises each receiver: the events it        *)
(* subscribed to, in the order they happened, one at a time.  An event is  *)
(* owed until it is settled (received, given up or cancelled), only the    *)
(* oldest one owed is ever sent, and it may arrive more than once.         *)
(***************************************************************************)
EXTENDS Naturals

CONSTANTS Hooks, Events

VARIABLES
    owed,      \* the events each webhook is still owed
    last,      \* the event each receiver got last, 0 before the first
    open       \* the subscription has not been cancelled

vars == <<owed, last, open>>

Init ==
    /\ owed = [h \in Hooks |-> {}]
    /\ last = [h \in Hooks |-> 0]
    /\ open = [h \in Hooks |-> TRUE]

Oldest(S, e) == e \in S /\ \A x \in S : e <= x

(* An event is owed from now on; it is newer than all that are.            *)
Publish(h) ==
    /\ open[h]
    /\ \E e \in Events :
          /\ \A x \in owed[h] : x < e
          /\ owed'[h] = owed[h] \cup {e}
    /\ last'[h] = last[h] /\ open'[h] = open[h]

(* The oldest event arrives, perhaps not for the first time.               *)
Arrive(h) ==
    /\ Oldest(owed[h], last'[h])
    /\ owed'[h] = owed[h] /\ open'[h] = open[h]

(* The oldest event is settled.                                            *)
Settle(h) ==
    /\ \E e \in owed[h] : Oldest(owed[h], e) /\ owed'[h] = owed[h] \ {e}
    /\ last'[h] = last[h] /\ open'[h] = open[h]

(* The subscription is cancelled, and what was owed with it.               *)
Cancel(h) ==
    /\ owed'[h] = {}
    /\ ~open'[h]
    /\ last'[h] = last[h]

(* An attempt that was under way when it was cancelled arrives.            *)
ArriveLate(h) ==
    /\ ~open[h] /\ ~open'[h]
    /\ last'[h] \in Events /\ last'[h] >= last[h]
    /\ owed'[h] = owed[h]

Idle(h) == owed'[h] = owed[h] /\ last'[h] = last[h] /\ open'[h] = open[h]

(* What one step does to each of the webhooks.                             *)
Next ==
    \A h \in Hooks :
        \/ Publish(h) \/ Arrive(h) \/ Settle(h)
        \/ Cancel(h) \/ ArriveLate(h) \/ Idle(h)

Spec == Init /\ [][Next]_vars
=============================================================================
