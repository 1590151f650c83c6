------------------------------ MODULE Presence ------------------------------
(***************************************************************************)
(* What the daemon believes of one friend of one account: class            *)
(* PresenceService of accounts/presence.ts, with the profile read of       *)
(* wiring/control-deps.ts that feeds it.                                   *)
(*                                                                         *)
(* Three sources write one map, and each speaks of a moment of its own:    *)
(* the frames of the socket, in order but only while there is a socket; a  *)
(* refresh, which reads the online half of the friends list and then the   *)
(* offline half and replaces the map when it has both; and a live profile. *)
(* The map holds more people; none of them decides what becomes of this    *)
(* one, but for shifting the pages of the list under a refresh.  Of a      *)
(* record only its presence is kept.                                       *)
(***************************************************************************)
EXTENDS Naturals, Sequences

CONSTANT
  MaxEvents   \* what the world does: moves of the friend, faults of socket and session

ASSUME PresenceAssumption == MaxEvents \in Nat

VARIABLES
  truth,     \* VRChat: "none" (not a friend), "offline" or "online"
  feed,      \* the frames under way on the socket
  carried,   \* there is a socket
  account,   \* accounts.get(id)?.state is "online"
  polling,   \* #timers has the account
  disposed,  \* #disposed
  shown,     \* the record in #byAccount: "unknown" while there is no map, "absent"
  reading,   \* the reads under way: how far each is and what it has found
  events,    \* what the world has done
  overtaken, \* history: the reads under way that something has overtaken
  excused    \* history: the record may be wrong until the next refresh nothing overtakes

world == <<truth, feed, carried, account, events>>
service == <<polling, disposed, shown, reading>>
history == <<overtaken, excused>>
vars == <<truth, feed, carried, account, polling, disposed, shown, reading, events,
          overtaken, excused>>

\* The refresh of #startPolling, the one of the interval, and a profile.
Refreshes == {"first", "tick"}
Readers == Refreshes \cup {"profile"}

\* "online" and "offline" await that half, "served" the answer that is on its way.
NotReading == [stage |-> "idle", found |-> "absent"]
Begun == [stage |-> "online", found |-> "absent"]
HasRead == {r \in Readers : reading[r].stage \in {"offline", "served"}}

Record(t) == IF t = "none" THEN "absent" ELSE t

Init ==
  /\ truth \in {"none", "offline", "online"}
  /\ feed = <<>> /\ carried = FALSE /\ account = FALSE /\ events = 0
  /\ polling = FALSE /\ disposed = FALSE /\ shown = "unknown"
  /\ reading = [r \in Readers |-> NotReading]
  /\ overtaken = {} /\ excused = FALSE

-----------------------------------------------------------------------------
(* VRChat, the socket and the session.                                     *)

\* The world is not looked at after stop().
World == ~disposed /\ events < MaxEvents /\ events' = events + 1

\* Something VRChat would tell is told to nobody.
Lost ==
  /\ overtaken' = overtaken \cup HasRead
  /\ excused' = TRUE

Emit(frame) ==
  IF carried THEN feed' = Append(feed, frame) /\ UNCHANGED history
             ELSE Lost /\ UNCHANGED feed

\* A frame with a user may say what he is doing, or say nothing of it.
Says(t) == {t, "nothing"}

Befriended(t) ==
  /\ World /\ truth = "none" /\ truth' = t
  /\ \E says \in Says(t) : Emit([kind |-> "added", says |-> says])
  /\ UNCHANGED <<carried, account, service>>

Unfriended ==
  /\ World /\ truth # "none" /\ truth' = "none"
  /\ Emit([kind |-> "removed", says |-> "nothing"])
  /\ UNCHANGED <<carried, account, service>>

\* A friend who comes online between the two halves is on neither.
ComesOnline ==
  /\ World /\ truth = "offline" /\ truth' = "online"
  /\ IF carried
     THEN /\ feed' = Append(feed, [kind |-> "online", says |-> "online"])
          /\ overtaken' = overtaken \cup {r \in Refreshes : reading[r].stage = "offline"}
          /\ UNCHANGED excused
     ELSE Lost /\ UNCHANGED feed
  /\ UNCHANGED <<carried, account, service>>

GoesOffline ==
  /\ World /\ truth = "online" /\ truth' = "offline"
  /\ Emit([kind |-> "offline", says |-> "offline"])
  /\ UNCHANGED <<carried, account, service>>

\* A bio, an avatar, a status message, also of somebody who left yesterday.
ProfileChanges ==
  /\ World /\ truth # "none" /\ carried
  /\ \E says \in Says(truth) : Emit([kind |-> "updated", says |-> says])
  /\ UNCHANGED <<truth, carried, account, service>>

SocketDrops ==
  /\ World /\ carried
  /\ carried' = FALSE /\ feed' = <<>>
  /\ IF feed # <<>> THEN Lost ELSE UNCHANGED history
  /\ UNCHANGED <<truth, account, service>>

SocketOpens ==
  /\ ~carried
  /\ carried' = TRUE
  /\ UNCHANGED <<truth, feed, account, events, service, history>>

\* The session ends, or the account is removed: the map and the timer stay.
AccountGoes ==
  /\ World /\ account
  /\ account' = FALSE
  /\ UNCHANGED <<truth, feed, carried, service, history>>

-----------------------------------------------------------------------------
(* The service.                                                            *)

\* account.ready: polling starts once, with a refresh of its own.
AccountReady ==
  /\ ~account
  /\ account' = TRUE
  /\ IF polling \/ disposed THEN UNCHANGED <<polling, reading>>
     ELSE /\ polling' = TRUE
          /\ reading' = [reading EXCEPT !["first"] = Begun]
  /\ UNCHANGED <<truth, feed, carried, events, disposed, shown, history>>

\* The interval; it waits for its own refresh, not for the first.
Tick ==
  /\ polling /\ ~disposed /\ account
  /\ reading["tick"].stage = "idle"
  /\ reading' = [reading EXCEPT !["tick"] = Begun]
  /\ UNCHANGED <<world, polling, disposed, shown, history>>

\* The online half is read, and the offline half asked for.
OnlineHalf(k) ==
  /\ reading[k].stage = "online" /\ account
  /\ reading' = [reading EXCEPT ![k] =
       IF disposed THEN NotReading
       ELSE [stage |-> "offline", found |-> IF truth = "online" THEN "online" ELSE "absent"]]
  /\ UNCHANGED <<world, polling, disposed, shown, history>>

\* VRChat answers with the offline half; a friend on both is on the second.
OfflineHalf(k) ==
  /\ reading[k].stage = "offline" /\ account
  /\ reading' = [reading EXCEPT ![k] =
       [stage |-> "served", found |-> IF truth = "offline" THEN "offline" ELSE @.found]]
  /\ UNCHANGED <<world, polling, disposed, shown, history>>

\* Others come or go between two pages of a half, and the friend is on neither page.
PagesShift(k) ==
  /\ World /\ account
  /\ reading[k].stage = truth
  /\ reading' = [reading EXCEPT ![k].stage = IF @ = "online" THEN "offline" ELSE "served"]
  /\ overtaken' = overtaken \cup {k}
  /\ UNCHANGED <<truth, feed, carried, account, polling, disposed, shown, excused>>

\* The read is over.
Over(k) ==
  /\ reading' = [reading EXCEPT ![k] = NotReading]
  /\ overtaken' = overtaken \ {k}

\* A half is not answered: the refresh ends and changes nothing.
HalfFails(k) ==
  /\ reading[k].stage \in {"online", "offline"}
  /\ IF account THEN World ELSE UNCHANGED events
  /\ Over(k)
  /\ UNCHANGED <<truth, feed, carried, account, polling, disposed, shown, excused>>

\* Mutant: the new list is merged into the map instead of replacing it.
RefreshMerges(k) ==
  /\ reading[k].stage = "served"
  /\ IF disposed THEN UNCHANGED <<shown, excused>>
     ELSE /\ shown' = IF reading[k].found = "absent" /\ shown # "unknown" THEN shown ELSE reading[k].found
          /\ excused' = (k \in overtaken)
  /\ Over(k)
  /\ UNCHANGED <<world, polling, disposed>>

\* The map is replaced, unless the service has been stopped meanwhile.
RefreshEnds(k) ==
  /\ reading[k].stage = "served"
  /\ IF disposed THEN UNCHANGED <<shown, excused>>
     ELSE shown' = reading[k].found /\ excused' = (k \in overtaken)
  /\ Over(k)
  /\ UNCHANGED <<world, polling, disposed>>

\* Mutant: what is not the offline frame is evidence of being online.
ToldByAnyFrame(frame) ==
  IF frame.kind = "removed" \/ (shown = "absent" /\ frame.kind # "added") THEN "absent"
  ELSE IF frame.kind = "offline" THEN "offline" ELSE "online"

\* #onBusEvent: what a frame makes of the record.
Told(frame) ==
  IF frame.kind = "removed" \/ (shown = "absent" /\ frame.kind # "added") THEN "absent"
  ELSE IF frame.says # "nothing" THEN frame.says
  ELSE IF shown = "absent" THEN "offline" ELSE shown

FrameArrives ==
  /\ feed # <<>>
  /\ feed' = Tail(feed)
  /\ shown' = IF shown = "unknown" \/ disposed THEN shown ELSE Told(Head(feed))
  /\ overtaken' = overtaken \cup HasRead
  /\ excused' = (excused \/ (shown = "absent" /\ Head(feed) = [kind |-> "added", says |-> "nothing"]))
  /\ UNCHANGED <<truth, carried, account, events, polling, disposed, reading>>

\* getUser: VRChat answers; the profile may not say.
ProfileServed ==
  /\ account /\ truth # "none"
  /\ reading["profile"].stage = "idle"
  /\ \E says \in Says(truth) : reading' = [reading EXCEPT !["profile"] = [stage |-> "served", found |-> says]]
  /\ UNCHANGED <<world, polling, disposed, shown, history>>

\* observe(), when the rest of the profile has been fetched: a record that exists follows.
ProfileObserved ==
  /\ reading["profile"].stage = "served"
  /\ IF shown \in {"unknown", "absent"} \/ reading["profile"].found = "nothing"
     THEN UNCHANGED <<shown, excused>>
     ELSE /\ shown' = reading["profile"].found
          /\ excused' = (excused \/ "profile" \in overtaken)
  /\ Over("profile")
  /\ UNCHANGED <<world, polling, disposed>>

Stop ==
  /\ ~disposed
  /\ disposed' = TRUE
  /\ UNCHANGED <<world, polling, shown, reading, history>>

Next ==
  \/ \E t \in {"offline", "online"} : Befriended(t)
  \/ Unfriended \/ ComesOnline \/ GoesOffline \/ ProfileChanges
  \/ SocketDrops \/ SocketOpens \/ AccountGoes \/ AccountReady
  \/ Tick \/ FrameArrives \/ ProfileServed \/ ProfileObserved \/ Stop
  \/ \E k \in Refreshes : OnlineHalf(k) \/ OfflineHalf(k) \/ PagesShift(k) \/ HalfFails(k) \/ RefreshEnds(k)

\* The interval ticks and requests are answered.
Fairness ==
  /\ WF_vars(Tick)
  /\ \A k \in Refreshes : WF_vars(OnlineHalf(k)) /\ WF_vars(OfflineHalf(k)) /\ WF_vars(RefreshEnds(k))

Spec == Init /\ [][Next]_vars
FairSpec == Spec /\ Fairness
-----------------------------------------------------------------------------
(* Properties.                                                             *)

TypeOK ==
  /\ truth \in {"none", "offline", "online"} /\ shown \in {"unknown", "absent", "offline", "online"}
  /\ feed \in Seq([kind : {"added", "removed", "online", "offline", "updated"},
                   says : {"nothing", "offline", "online"}])
  /\ {carried, account, polling, disposed} \subseteq BOOLEAN /\ events \in 0 .. MaxEvents
  /\ reading \in [Readers -> [stage : {"idle", "online", "offline", "served"},
                              found : {"absent", "offline", "online", "nothing"}]]

\* Once the frames on the way have arrived the list says what VRChat would: no friend who is
\* missing, nobody who is not one, nobody online who has left.  What excuses it until the next
\* undisturbed refresh is a frame that was never sent, one that a slower read has overwritten,
\* a friend who came online between the two halves or slipped between two pages, and an
\* addition that did not say.
ShownIsTrue ==
  TypeOK /\ ((~excused /\ feed = <<>> /\ shown # "unknown" /\ ~disposed) => shown = Record(truth))

\* Whatever was missed, overwritten or unsaid, the poll puts it right ("a friend who went
\* offline during a reconnect would otherwise show as online forever").
ListSettles == <>[](account /\ polling /\ ~disposed) => <>[](shown = Record(truth))
=============================================================================
