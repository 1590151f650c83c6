------------------------- MODULE NotificationMirror -------------------------
(***************************************************************************)
(* The notifications of one account as the daemon keeps them: the rows     *)
(* that NotificationSink (wiring/notification-sink.ts) writes from the     *)
(* frames of the socket, NotificationService (accounts/notifications.ts)   *)
(* from the lists it polls, and the user from the screen.                  *)
(*                                                                         *)
(* VRChat has two generations of notifications, each with a list and with  *)
(* frames of its own: the list of the first comes in pages, that of the    *)
(* second in one answer.  A notification says a text and whether it has    *)
(* been seen.  The frames go through decode.ts and pipeline-bridge.ts,     *)
(* which decide under which name the payload carries the id.               *)
(***************************************************************************)
EXTENDS Naturals, Sequences, FiniteSets

CONSTANTS
  FirstGeneration,   \* the notifications in the order of their list, a sequence
  SecondGeneration,  \* the notifications, a set
  MaxHappenings      \* what VRChat, the network and the user do

ASSUME MirrorAssumption == MaxHappenings \in Nat

VARIABLES
  inbox,      \* VRChat: what each notification is there
  pushed,     \* the frames under way on the socket
  socket,     \* there is a socket
  session,    \* accounts.get(id)?.state is "online"
  interval,   \* #timers has the account
  stopped,    \* #disposed
  rows,       \* the table notifications
  fetching,   \* the refreshes under way
  happened

outside == <<inbox, pushed, socket, session, happened>>
mirrorVars == <<outside, interval, stopped, rows, fetching>>

Listable == {FirstGeneration[i] : i \in 1 .. Len(FirstGeneration)}
Notifications == Listable \cup SecondGeneration

\* The refresh of #startPolling, and the one of the interval.
Fetches == {"at start", "of interval"}
Resting == [stage |-> "resting", generation |-> 1, offset |-> 0, page |-> {}]
Asking(generation, offset) ==
  [stage |-> "asking", generation |-> generation, offset |-> offset, page |-> {}]

Unsent == [listed |-> FALSE, seen |-> FALSE, text |-> "none"]
NoRow == [type |-> "none", seen |-> FALSE, text |-> "none"]

MirrorInit ==
  /\ inbox = [n \in Notifications |-> Unsent]
  /\ pushed = <<>> /\ socket = FALSE /\ session = FALSE /\ happened = 0
  /\ interval = FALSE /\ stopped = FALSE
  /\ rows = [n \in Notifications |-> NoRow]
  /\ fetching = [f \in Fetches |-> Resting]

-----------------------------------------------------------------------------
(* VRChat, the socket and the session.                                     *)

Happens == ~stopped /\ happened < MaxHappenings /\ happened' = happened + 1

Push(kind, n) == pushed' = IF socket THEN Append(pushed, [kind |-> kind, id |-> n]) ELSE pushed

Arrives(n) ==
  /\ Happens /\ inbox[n] = Unsent
  /\ inbox' = [inbox EXCEPT ![n] = [listed |-> TRUE, seen |-> FALSE, text |-> "first"]]
  /\ Push("received", n)
  /\ UNCHANGED <<socket, session, interval, stopped, rows, fetching>>

\* It is seen in the game, or revised, which the second generation says in one kind of frame.
SeenElsewhere(n) ==
  /\ Happens /\ inbox[n].listed /\ ~inbox[n].seen
  /\ inbox' = [inbox EXCEPT ![n].seen = TRUE]
  /\ Push(IF n \in SecondGeneration THEN "updated" ELSE "seen", n)
  /\ UNCHANGED <<socket, session, interval, stopped, rows, fetching>>

Revised(n) ==
  /\ Happens /\ inbox[n].listed /\ n \in SecondGeneration /\ inbox[n].text = "first"
  /\ inbox' = [inbox EXCEPT ![n].text = "second"]
  /\ Push("updated", n)
  /\ UNCHANGED <<socket, session, interval, stopped, rows, fetching>>

HiddenElsewhere(n) ==
  /\ Happens /\ inbox[n].listed
  /\ inbox' = [inbox EXCEPT ![n].listed = FALSE]
  /\ Push(IF n \in SecondGeneration THEN "deleted" ELSE "hidden", n)
  /\ UNCHANGED <<socket, session, interval, stopped, rows, fetching>>

ConnectionLost ==
  /\ Happens /\ socket
  /\ socket' = FALSE /\ pushed' = <<>>
  /\ UNCHANGED <<inbox, session, interval, stopped, rows, fetching>>

Connected ==
  /\ ~socket
  /\ socket' = TRUE
  /\ UNCHANGED <<inbox, pushed, session, happened, interval, stopped, rows, fetching>>

\* The account is signed out or removed; its timer stays.
SessionEnds ==
  /\ Happens /\ session
  /\ session' = FALSE
  /\ UNCHANGED <<inbox, pushed, socket, interval, stopped, rows, fetching>>

\* account.ready: polling starts once, with a refresh of its own.
SessionReady ==
  /\ ~session
  /\ session' = TRUE
  /\ interval' = (interval \/ ~stopped)
  /\ fetching' = IF interval \/ stopped THEN fetching
                 ELSE [fetching EXCEPT !["at start"] = Asking(1, 0)]
  /\ UNCHANGED <<inbox, pushed, socket, happened, stopped, rows>>

-----------------------------------------------------------------------------
(* The rows.                                                               *)

\* toNotificationRow of what VRChat lists and of a frame: a frame of an update holds the
\* changes in an object of its own, which nothing reads.
ListedItem(n) == [type |-> "known", seen |-> inbox[n].seen, text |-> inbox[n].text]
\* (A frame carries the notification as it was sent.)
ReceivedItem == [type |-> "known", seen |-> FALSE, text |-> "first"]
UpdateItem == [type |-> "unknown", seen |-> FALSE, text |-> "none"]

\* Mutant: a row that is there is left as it is.
PutOnce(row, item) == IF row = NoRow THEN item ELSE row

\* putNotification: what may change of a row that is there is its text and whether it is seen.
PutNotification(row, item) ==
  IF row = NoRow THEN item ELSE [row EXCEPT !.seen = item.seen, !.text = item.text]

\* decode.ts and toBusEvent: the name under which the payload of a lifecycle frame has its id.
CarriedAs(kind) == IF kind = "deleted" THEN "ids" ELSE "notificationId"

\* idFromPayload finds a bare id and the field id.
MarkSeen(frame) ==
  rows' = IF CarriedAs(frame.kind) \in {"bare", "id"} /\ rows[frame.id] # NoRow
          THEN [rows EXCEPT ![frame.id].seen = TRUE] ELSE rows

\* #handle of the sink.
FrameHandled ==
  /\ pushed # <<>>
  /\ pushed' = Tail(pushed)
  /\ LET frame == Head(pushed)
         put(item) == rows' = [rows EXCEPT ![frame.id] = PutNotification(@, item)]
     IN \/ frame.kind = "received" /\ put(ReceivedItem)
        \/ frame.kind = "updated" /\ put(UpdateItem)
        \/ frame.kind \in {"seen", "hidden", "deleted"} /\ MarkSeen(frame)
  /\ UNCHANGED <<inbox, socket, session, happened, interval, stopped, fetching>>

\* The user opens a notification: only the row hears of it.
UserMarksSeen(n) ==
  /\ Happens /\ rows[n] # NoRow /\ ~rows[n].seen
  /\ rows' = [rows EXCEPT ![n].seen = TRUE]
  /\ UNCHANGED <<inbox, pushed, socket, session, interval, stopped, fetching>>

-----------------------------------------------------------------------------
(* The refreshes.                                                          *)

\* The interval: it waits for its own refresh, not for the other.
IntervalTicks ==
  /\ interval /\ ~stopped /\ session /\ fetching["of interval"] = Resting
  /\ fetching' = [fetching EXCEPT !["of interval"] = Asking(1, 0)]
  /\ UNCHANGED <<outside, interval, stopped, rows>>

\* The page of one notification at an offset into what is listed now; the whole of the second.
Page(generation, offset) ==
  IF generation = 2 THEN {n \in SecondGeneration : inbox[n].listed}
  ELSE LET before(i) == {j \in 1 .. i - 1 : inbox[FirstGeneration[j]].listed}
       IN {FirstGeneration[i] : i \in {i \in 1 .. Len(FirstGeneration) :
             inbox[FirstGeneration[i]].listed /\ Cardinality(before(i)) = offset}}

\* VRChat answers; the answer is on its way.
PageServed(f) ==
  /\ fetching[f].stage = "asking" /\ session
  /\ fetching' = [fetching EXCEPT ![f].stage = "served",
       ![f].page = {[id |-> n, item |-> ListedItem(n)] : n \in Page(fetching[f].generation, fetching[f].offset)}]
  /\ UNCHANGED <<outside, interval, stopped, rows>>

\* The rows of the page are put, and the next page or generation is asked for, unless the
\* service has been stopped meanwhile.
PageWritten(f) ==
  /\ fetching[f].stage = "served"
  /\ LET page == fetching[f].page
         of(n) == {x \in page : x.id = n}
     IN /\ rows' = IF stopped THEN rows
                   ELSE [n \in Notifications |->
                           IF of(n) = {} THEN rows[n]
                           ELSE PutNotification(rows[n], (CHOOSE x \in of(n) : TRUE).item)]
        /\ fetching' = [fetching EXCEPT ![f] =
             IF stopped \/ @.generation = 2 THEN Resting
             ELSE IF page = {} THEN Asking(2, 0) ELSE Asking(1, @.offset + 1)]
  /\ UNCHANGED <<outside, interval, stopped>>

\* An error of one generation leaves the other; a request that throws ends the refresh.
PageFails(f) ==
  /\ fetching[f].stage = "asking"
  /\ IF session THEN Happens ELSE UNCHANGED happened
  /\ \/ fetching' = [fetching EXCEPT ![f] = Resting]
     \/ /\ fetching[f].generation = 1 /\ ~stopped
        /\ fetching' = [fetching EXCEPT ![f] = Asking(2, 0)]
  /\ UNCHANGED <<inbox, pushed, socket, session, interval, stopped, rows>>

Shutdown ==
  /\ ~stopped
  /\ stopped' = TRUE
  /\ UNCHANGED <<outside, interval, rows, fetching>>

MirrorNext ==
  \/ \E n \in Notifications :
       Arrives(n) \/ SeenElsewhere(n) \/ Revised(n) \/ HiddenElsewhere(n) \/ UserMarksSeen(n)
  \/ ConnectionLost \/ Connected \/ SessionEnds \/ SessionReady
  \/ FrameHandled \/ IntervalTicks \/ Shutdown
  \/ \E f \in Fetches : PageServed(f) \/ PageWritten(f) \/ PageFails(f)

\* Frames are handled, the interval ticks, and requests are answered.
MirrorFairness ==
  /\ WF_mirrorVars(FrameHandled) /\ WF_mirrorVars(IntervalTicks)
  /\ \A f \in Fetches : WF_mirrorVars(PageServed(f)) /\ WF_mirrorVars(PageWritten(f))

MirrorSpec == MirrorInit /\ [][MirrorNext]_mirrorVars
FairMirrorSpec == MirrorSpec /\ MirrorFairness
-----------------------------------------------------------------------------
(* Properties.                                                             *)

\* Whatever the socket missed or wrote over, two refreshes at once, pages that shift and the
\* screen have made of a row, the poll makes it say again what VRChat lists ("a slow jittered
\* poll reconciles what the socket missed", notifications.ts:33-35).
RowAgrees(n) == rows[n].seen = inbox[n].seen /\ rows[n].text = inbox[n].text
MirrorSettles ==
  <>[](session /\ interval /\ ~stopped) =>
    <>[](\A n \in Notifications : inbox[n].listed => rows[n] # NoRow /\ RowAgrees(n))

\* A row is of a notification that VRChat has sent, and its text is one that VRChat has come
\* to; what an update empties, or files under no type, is of the second generation only
\* (notification-sink.ts:101).
FitsInbox(n, item) ==
  /\ inbox[n] # Unsent
  /\ item.text = "second" => inbox[n].text = "second"
  /\ item.type = "unknown" \/ item.text = "none" => n \in SecondGeneration
NothingInvented == \A n \in Notifications : rows[n] # NoRow => FitsInbox(n, rows[n])

\* A notification that was seen or hidden elsewhere is seen here once its frame has been
\* handled ("Marking seen is the recoverable interpretation", notification-sink.ts:94).
HandledIsSeen ==
  [][\A n \in Notifications :
       (/\ pushed # <<>> /\ Head(pushed) \in [kind : {"seen", "hidden"}, id : {n}]
        /\ pushed' = Tail(pushed) /\ socket' /\ rows[n] # NoRow)
       => rows'[n].seen]_mirrorVars
=============================================================================
