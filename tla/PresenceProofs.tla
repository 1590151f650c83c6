---------------------------- MODULE PresenceProofs ----------------------------
(***************************************************************************)
(* The safety of what the daemon mirrors of VRChat: a friend, and the      *)
(* notifications of an account.                                            *)
(***************************************************************************)
EXTENDS Presence, NotificationMirror, TLAPS

(***************************************************************************)
(* What the daemon believes of a friend: for every number of events, what  *)
(* is shown becomes what is true when the frames on the way have arrived.  *)
(***************************************************************************)

Truths == {"none", "offline", "online"}
Records == {"absent", "offline", "online"}
PresenceFrames == [kind : {"added", "removed", "online", "offline", "updated"}, says : {"nothing", "offline", "online"}]
Unsaid == [kind |-> "added", says |-> "nothing"]

\* The frames on the way lead to what is true now: nobody is removed last who is a friend, and
\* who was said to be something else is then said to be what he is, or removed and added with
\* no word of it.
FeedFits ==
  /\ ~carried => feed = <<>>
  /\ \A i \in 1 .. Len(feed) : /\ feed[i].kind \in {"online", "offline"} => feed[i].says = feed[i].kind
                               /\ feed[i].kind = "removed" => feed[i].says = "nothing"
  /\ truth = "none" => feed = <<>> \/ feed[Len(feed)].kind = "removed"
  /\ truth # "none" => \A i \in 1 .. Len(feed) :
       /\ feed[i].kind = "removed" => \E j \in 1 .. Len(feed) : i < j /\ feed[j].kind = "added"
       /\ feed[i].says \notin {"nothing", truth} =>
            \/ \E j \in 1 .. Len(feed) : i < j /\ feed[j].says = truth
            \/ \E j, l \in 1 .. Len(feed) : i < j /\ j < l /\ feed[j].kind = "removed" /\ feed[l] = Unsaid

\* A record that these frames will make true, or excuse.
Leads(rec) ==
  IF truth = "none" THEN rec = "absent" \/ feed # <<>>
  ELSE \/ rec = truth
       \/ rec = "absent" /\ \E i \in 1 .. Len(feed) : feed[i].kind = "added"
       \/ rec # "absent" /\ \E i \in 1 .. Len(feed) : feed[i].says = truth
       \/ \E j, l \in 1 .. Len(feed) : j < l /\ feed[j].kind = "removed" /\ feed[l] = Unsaid

\* What is shown, and what a read that nothing has overtaken is going to show.
ReadsLead ==
  \A k \in Readers \ overtaken :
    /\ reading[k].stage = "offline" /\ truth # "offline" => Leads(reading[k].found)
    /\ reading[k].stage = "served" => reading[k].found = "nothing" \/ Leads(reading[k].found)

PresenceInv ==
  /\ TypeOK /\ FeedFits /\ ReadsLead
  /\ \A k \in Refreshes : reading[k].found # "nothing"
  /\ reading["profile"].stage \in {"idle", "served"} /\ (reading["profile"].stage = "served" => reading["profile"].found # "absent")
  /\ ~excused /\ shown # "unknown" /\ ~disposed => Leads(shown)
-----------------------------------------------------------------------------
LEMMA FrameAppended ==
  ASSUME NEW S, NEW s \in Seq(S), NEW e \in S
  PROVE  /\ Append(s, e) \in Seq(S) /\ Len(s) \in Nat /\ Len(Append(s, e)) = Len(s) + 1
         /\ Append(s, e)[Len(s) + 1] = e
         /\ \A i \in 1 .. Len(s) : i \in 1 .. Len(Append(s, e)) /\ i < Len(s) + 1 /\ Append(s, e)[i] = s[i]
         /\ \A i \in 1 .. Len(Append(s, e)) : i \in 1 .. Len(s) \/ i = Len(s) + 1
         /\ Len(s) + 1 \in 1 .. Len(Append(s, e))
OBVIOUS

LEMMA HeadTaken ==
  ASSUME NEW S, NEW s \in Seq(S), s # <<>>
  PROVE  /\ Tail(s) \in Seq(S) /\ Head(s) = s[1] /\ Head(s) \in S /\ 1 \in 1 .. Len(s)
         /\ Len(s) \in Nat \ {0} /\ Len(Tail(s)) = Len(s) - 1
         /\ \A i \in 1 .. Len(Tail(s)) : i + 1 \in 1 .. Len(s) /\ Tail(s)[i] = s[i + 1]
         /\ \A i \in 1 .. Len(s) : i # 1 => i - 1 \in 1 .. Len(Tail(s)) /\ Tail(s)[i - 1] = s[i]
OBVIOUS

LEMMA LastFrame ==
  ASSUME NEW S, NEW s \in Seq(S), s # <<>>
  PROVE  Len(s) \in 1 .. Len(s)
OBVIOUS

\* A frame that VRChat sends tells of a step of the truth.
Tells(f) ==
  \/ f.kind = "added" /\ truth = "none" /\ truth' # "none" /\ f.says \in {"nothing", truth'}
  \/ f.kind = "removed" /\ truth # "none" /\ truth' = "none" /\ f.says = "nothing"
  \/ f.kind = "online" /\ truth # "none" /\ truth' = "online" /\ f.says = "online"
  \/ f.kind = "offline" /\ truth # "none" /\ truth' = "offline" /\ f.says = "offline"
  \/ f.kind = "updated" /\ truth # "none" /\ truth' = truth /\ f.says \in {"nothing", truth}

LEMMA FrameSent ==
  ASSUME TypeOK, FeedFits, carried, carried' = carried, NEW f \in PresenceFrames, Tells(f),
         truth' \in Truths, feed' = Append(feed, f)
  PROVE  /\ FeedFits' /\ feed' \in Seq(PresenceFrames)
         /\ \A rec \in Records : Leads(rec) => Leads(rec)'
         /\ truth' = "none" => \A rec \in Records : Leads(rec)'
<1>1. feed \in Seq(PresenceFrames) /\ truth \in Truths
  BY DEF TypeOK, PresenceFrames, Truths
<1>2. PICK n \in Nat : n = Len(feed) + 1
  BY <1>1
<1>3. /\ feed' \in Seq(PresenceFrames) /\ feed' # <<>> /\ Len(feed') = n /\ feed'[n] = f /\ n \in 1 .. Len(feed')
      /\ \A i \in 1 .. Len(feed) : i \in 1 .. Len(feed') /\ i < n /\ feed'[i] = feed[i]
      /\ \A i \in 1 .. Len(feed') : i \in 1 .. Len(feed) \/ i = n
  <2>1. /\ feed' \in Seq(PresenceFrames) /\ Len(feed') = n /\ feed'[n] = f /\ n \in 1 .. Len(feed') /\ n # 0
        /\ \A i \in 1 .. Len(feed) : i \in 1 .. Len(feed') /\ i < n /\ feed'[i] = feed[i]
        /\ \A i \in 1 .. Len(feed') : i \in 1 .. Len(feed) \/ i = n
    BY <1>1, <1>2, FrameAppended
  <2>2. QED
    BY <2>1
<1>4. feed # <<>> => Len(feed) \in 1 .. Len(feed)
  BY <1>1, LastFrame
\* After the last frame, what was removed has been added.
<1>5. ASSUME truth = "none", feed # <<>>, f.kind = "added", f.says = "nothing"
      PROVE  \E j, l \in 1 .. Len(feed') : j < l /\ feed'[j].kind = "removed" /\ feed'[l] = Unsaid /\ j = Len(feed) /\ l = n
  BY <1>3, <1>4, <1>5 DEF FeedFits, PresenceFrames, Unsaid
<1>6. \A i \in 1 .. Len(feed') : /\ feed'[i].kind \in {"online", "offline"} => feed'[i].says = feed'[i].kind
                                 /\ feed'[i].kind = "removed" => feed'[i].says = "nothing"
  BY <1>3 DEF FeedFits, Tells
<1>7. truth' = "none" => feed'[Len(feed')].kind = "removed"
  BY <1>3 DEF Tells
<1>8. ASSUME truth' # "none", NEW i \in 1 .. Len(feed'), feed'[i].kind = "removed"
      PROVE  \E j \in 1 .. Len(feed') : i < j /\ feed'[j].kind = "added"
  <2>1. i \in 1 .. Len(feed) /\ feed[i].kind = "removed" /\ i < n
    BY <1>3, <1>8 DEF Tells
  <2>2. CASE truth = "none"
    BY <1>3, <1>8, <2>1, <2>2 DEF Tells
  <2>3. CASE truth # "none"
    BY <1>3, <2>1, <2>3 DEF FeedFits
  <2>4. QED
    BY <2>2, <2>3
<1>9. ASSUME truth' # "none", NEW i \in 1 .. Len(feed'), feed'[i].says \notin {"nothing", truth'}
      PROVE  \/ \E j \in 1 .. Len(feed') : i < j /\ feed'[j].says = truth'
             \/ \E j, l \in 1 .. Len(feed') : i < j /\ j < l /\ feed'[j].kind = "removed" /\ feed'[l] = Unsaid
  <2>1. i \in 1 .. Len(feed) /\ feed[i].says \notin {"nothing", truth'} /\ i < n
    BY <1>3, <1>9 DEF Tells
  <2>2. CASE f.says = truth'
    BY <1>3, <2>1, <2>2
  <2>3. CASE f.kind = "added" /\ f.says = "nothing"
    <3>1. truth = "none" /\ feed # <<>>
      BY <1>1, <2>1, <2>3 DEF Tells
    <3>2. PICK j, l \in 1 .. Len(feed') : j < l /\ feed'[j].kind = "removed" /\ feed'[l] = Unsaid /\ j = Len(feed) /\ l = n
      BY <1>5, <2>3, <3>1
    <3>3. i # j
      BY <1>6, <1>9, <3>2
    <3>4. i < j
      BY <1>1, <2>1, <3>2, <3>3
    <3>5. QED
      BY <3>2, <3>4
  <2>4. CASE f.kind = "updated" /\ f.says = "nothing"
    <3>1. truth # "none" /\ truth' = truth
      BY <2>4 DEF Tells
    <3>2. \/ \E j \in 1 .. Len(feed) : i < j /\ feed[j].says = truth
          \/ \E j, l \in 1 .. Len(feed) : i < j /\ j < l /\ feed[j].kind = "removed" /\ feed[l] = Unsaid
      BY <2>1, <3>1 DEF FeedFits
    <3>3. QED
      BY <1>3, <3>1, <3>2
  <2>5. QED
    BY <1>9, <2>2, <2>3, <2>4 DEF Tells
<1>10. FeedFits'
  BY <1>6, <1>7, <1>8, <1>9 DEF FeedFits
<1>11. ASSUME NEW rec \in Records, Leads(rec), truth' # "none" PROVE Leads(rec)'
  <2>1. CASE truth = "none" /\ rec = "absent"
    BY <1>3, <1>11, <2>1 DEF Leads, Tells
  <2>2. CASE truth = "none" /\ rec # "absent"
    <3>1. feed # <<>> /\ f.kind = "added" /\ f.says \in {"nothing", truth'}
      BY <1>11, <2>2 DEF Leads, Tells
    <3>2. QED
      BY <1>3, <1>5, <1>11, <2>2, <3>1 DEF Leads
  <2>3. CASE truth # "none"
    <3>1. f.says = truth' \/ truth' = truth
      BY <1>11, <2>3 DEF Tells
    <3>2. CASE rec = "absent"
      <4>1. rec # truth
        BY <1>1, <3>2 DEF Truths
      <4>2. \/ \E i \in 1 .. Len(feed) : feed[i].kind = "added"
            \/ \E j, l \in 1 .. Len(feed) : j < l /\ feed[j].kind = "removed" /\ feed[l] = Unsaid
        BY <1>11, <2>3, <3>2, <4>1 DEF Leads
      <4>3. QED
        BY <1>3, <1>11, <3>2, <4>2 DEF Leads
    <3>3. CASE rec # "absent" /\ f.says = truth'
      BY <1>3, <1>11, <3>3 DEF Leads
    <3>4. CASE rec # "absent" /\ truth' = truth
      <4>1. \/ rec = truth
            \/ \E i \in 1 .. Len(feed) : feed[i].says = truth
            \/ \E j, l \in 1 .. Len(feed) : j < l /\ feed[j].kind = "removed" /\ feed[l] = Unsaid
        BY <1>11, <2>3, <3>4 DEF Leads
      <4>2. QED
        BY <1>3, <1>11, <3>4, <4>1 DEF Leads
    <3>5. QED
      BY <3>1, <3>2, <3>3, <3>4
  <2>4. QED
    BY <2>1, <2>2, <2>3
<1>12. truth' = "none" => \A rec \in Records : Leads(rec)'
  BY <1>3 DEF Leads
<1>13. QED
  BY <1>3, <1>10, <1>11, <1>12

\* Taking a frame leads on, or is excused.
LEMMA FrameTaken ==
  ASSUME TypeOK, FeedFits, feed # <<>>, UNCHANGED <<truth, carried>>, feed' = Tail(feed)
  PROVE  /\ FeedFits' /\ feed' \in Seq(PresenceFrames)
         /\ \A rec \in Records : Leads(shown) /\ shown # "unknown" /\ rec = Told(Head(feed)) =>
              Leads(rec)' \/ (shown = "absent" /\ Head(feed) = Unsaid)
         /\ shown # "unknown" => Told(Head(feed)) \in Records
<1>1. feed \in Seq(PresenceFrames) /\ truth \in Truths /\ shown \in Records \cup {"unknown"}
  BY DEF TypeOK, PresenceFrames, Truths, Records
<1>2. /\ feed' \in Seq(PresenceFrames) /\ Head(feed) = feed[1] /\ Head(feed) \in PresenceFrames /\ 1 \in 1 .. Len(feed)
      /\ Len(feed) \in Nat \ {0} /\ Len(feed') = Len(feed) - 1
      /\ \A i \in 1 .. Len(feed') : i + 1 \in 1 .. Len(feed) /\ feed'[i] = feed[i + 1]
      /\ \A i \in 1 .. Len(feed) : i # 1 => i - 1 \in 1 .. Len(feed') /\ feed'[i - 1] = feed[i]
  BY <1>1, HeadTaken
<1>3. \A i \in 1 .. Len(feed') : /\ feed'[i].kind \in {"online", "offline"} => feed'[i].says = feed'[i].kind
                                 /\ feed'[i].kind = "removed" => feed'[i].says = "nothing"
  BY <1>2 DEF FeedFits
<1>4. ASSUME truth' = "none", feed' # <<>> PROVE feed'[Len(feed')].kind = "removed"
  <2>1. Len(feed') \in 1 .. Len(feed') /\ Len(feed') + 1 = Len(feed)
    BY <1>2, <1>4, LastFrame
  <2>2. QED
    BY <1>2, <1>4, <2>1 DEF FeedFits
\* What comes after a frame comes after it when the first is gone.
<1>5. \A i \in 1 .. Len(feed'), j \in 1 .. Len(feed) :
        i + 1 < j => j - 1 \in 1 .. Len(feed') /\ i < j - 1 /\ feed'[j - 1] = feed[j]
  BY <1>2
<1>5a. \A j, l \in 1 .. Len(feed) : j < l => l - 1 \in 1 .. Len(feed') /\ feed'[l - 1] = feed[l]
         /\ (j # 1 => j - 1 < l - 1 /\ j - 1 \in 1 .. Len(feed') /\ feed'[j - 1] = feed[j])
  BY <1>2
<1>6. ASSUME truth' # "none", NEW i \in 1 .. Len(feed'), feed'[i].kind = "removed"
      PROVE  \E j \in 1 .. Len(feed') : i < j /\ feed'[j].kind = "added"
  <2>1. PICK j \in 1 .. Len(feed) : i + 1 < j /\ feed[j].kind = "added"
    BY <1>2, <1>6 DEF FeedFits
  <2>2. QED
    BY <1>5, <2>1
<1>7. ASSUME truth' # "none", NEW i \in 1 .. Len(feed'), feed'[i].says \notin {"nothing", truth'}
      PROVE  \/ \E j \in 1 .. Len(feed') : i < j /\ feed'[j].says = truth'
             \/ \E j, l \in 1 .. Len(feed') : i < j /\ j < l /\ feed'[j].kind = "removed" /\ feed'[l] = Unsaid
  <2>1. \/ \E j \in 1 .. Len(feed) : i + 1 < j /\ feed[j].says = truth
        \/ \E j, l \in 1 .. Len(feed) : i + 1 < j /\ j < l /\ feed[j].kind = "removed" /\ feed[l] = Unsaid
    BY <1>2, <1>7 DEF FeedFits
  <2>2. CASE \E j \in 1 .. Len(feed) : i + 1 < j /\ feed[j].says = truth
    BY <1>5, <2>2
  <2>3. CASE \E j, l \in 1 .. Len(feed) : i + 1 < j /\ j < l /\ feed[j].kind = "removed" /\ feed[l] = Unsaid
    <3>1. PICK j, l \in 1 .. Len(feed) : i + 1 < j /\ j < l /\ feed[j].kind = "removed" /\ feed[l] = Unsaid
      BY <2>3
    <3>2. j # 1
      BY <3>1
    <3>3. /\ j - 1 \in 1 .. Len(feed') /\ l - 1 \in 1 .. Len(feed') /\ i < j - 1 /\ j - 1 < l - 1
          /\ feed'[j - 1] = feed[j] /\ feed'[l - 1] = feed[l]
      BY <1>5, <1>5a, <3>1, <3>2
    <3>4. QED
      BY <3>1, <3>3
  <2>4. QED
    BY <2>1, <2>2, <2>3
<1>8. FeedFits'
  <2>1. carried' \/ feed' = <<>>
    BY DEF FeedFits
  <2>2. ~carried' => feed' = <<>>
    BY <2>1
  <2>3. truth' = "none" => feed' = <<>> \/ feed'[Len(feed')].kind = "removed"
    BY <1>4
  <2>4. truth' # "none" => \A i \in 1 .. Len(feed') :
          /\ feed'[i].kind = "removed" => \E j \in 1 .. Len(feed') : i < j /\ feed'[j].kind = "added"
          /\ feed'[i].says \notin {"nothing", truth'} =>
               \/ \E j \in 1 .. Len(feed') : i < j /\ feed'[j].says = truth'
               \/ \E j, l \in 1 .. Len(feed') : i < j /\ j < l /\ feed'[j].kind = "removed" /\ feed'[l] = Unsaid
    BY <1>6, <1>7
  <2>5. QED
    BY <1>3, <2>2, <2>3, <2>4, Zenon DEF FeedFits
<1>10. shown # "unknown" => Told(Head(feed)) \in Records
  BY <1>1, <1>2 DEF Told, Records, PresenceFrames, FeedFits
<1>11. ASSUME NEW rec \in Records, Leads(shown), shown # "unknown", rec = Told(Head(feed)),
              ~(shown = "absent" /\ Head(feed) = Unsaid)
       PROVE  Leads(rec)'
  <2>1. CASE truth = "none"
    <3>1. CASE feed' = <<>>
      <4>1. Head(feed).kind = "removed"
        <5>1. Len(feed) = 1
          BY <1>2, <3>1
        <5>2. QED
          BY <1>2, <2>1, <5>1 DEF FeedFits
      <4>2. rec = "absent"
        BY <1>11, <4>1 DEF Told
      <4>3. QED
        BY <2>1, <4>2 DEF Leads
    <3>2. CASE feed' # <<>>
      BY <2>1, <3>2 DEF Leads
    <3>3. QED
      BY <3>1, <3>2
  <2>2. CASE truth # "none" /\ Head(feed).kind = "removed"
    <3>1. rec = "absent"
      BY <1>11, <2>2 DEF Told
    <3>2. PICK j \in 1 .. Len(feed) : 1 < j /\ feed[j].kind = "added"
      BY <1>2, <2>2 DEF FeedFits
    <3>3. j - 1 \in 1 .. Len(feed') /\ feed'[j - 1].kind = "added"
      BY <1>5a, <1>2, <3>2
    <3>4. QED
      BY <2>2, <3>1, <3>3 DEF Leads
  \* What is removed and added in silence is so in what is left.
  <2>3. CASE /\ truth # "none" /\ Head(feed).kind # "removed"
             /\ \E j, l \in 1 .. Len(feed) : j < l /\ feed[j].kind = "removed" /\ feed[l] = Unsaid
    <3>1. PICK j, l \in 1 .. Len(feed) : j < l /\ feed[j].kind = "removed" /\ feed[l] = Unsaid
      BY <2>3
    <3>2. j # 1
      BY <1>2, <2>3, <3>1
    <3>3. /\ j - 1 \in 1 .. Len(feed') /\ l - 1 \in 1 .. Len(feed') /\ j - 1 < l - 1
          /\ feed'[j - 1] = feed[j] /\ feed'[l - 1] = feed[l]
      BY <1>5a, <3>1, <3>2
    <3>4. QED
      BY <2>3, <3>1, <3>3 DEF Leads
  <2>4. CASE /\ truth # "none" /\ Head(feed).kind # "removed"
             /\ ~\E j, l \in 1 .. Len(feed) : j < l /\ feed[j].kind = "removed" /\ feed[l] = Unsaid
    <3>1. CASE shown = "absent" /\ Head(feed).kind # "added"
      <4>1. rec = "absent"
        BY <1>11, <2>4, <3>1 DEF Told
      <4>2. PICK j \in 1 .. Len(feed) : feed[j].kind = "added"
        BY <1>1, <1>11, <2>4, <3>1 DEF Leads, Truths
      <4>3. j - 1 \in 1 .. Len(feed') /\ feed'[j - 1].kind = "added"
        BY <1>2, <3>1, <4>2
      <4>4. QED
        BY <2>4, <4>1, <4>3 DEF Leads
    <3>2. CASE ~(shown = "absent" /\ Head(feed).kind # "added") /\ Head(feed).says # "nothing"
      <4>1. rec = Head(feed).says /\ rec # "absent"
        BY <1>2, <1>11, <2>4, <3>2 DEF Told, PresenceFrames
      <4>2. CASE rec = truth
        BY <2>4, <4>2 DEF Leads
      <4>3. CASE rec # truth
        <5>1. PICK j \in 1 .. Len(feed) : 1 < j /\ feed[j].says = truth
          BY <1>2, <2>4, <3>2, <4>1, <4>3 DEF FeedFits
        <5>2. j - 1 \in 1 .. Len(feed') /\ feed'[j - 1].says = truth
          BY <1>2, <5>1
        <5>3. QED
          BY <2>4, <4>1, <5>2 DEF Leads
      <4>4. QED
        BY <4>2, <4>3
    <3>3. CASE shown # "absent" /\ Head(feed).says = "nothing"
      <4>1. Head(feed).kind \in {"added", "updated"}
        BY <1>2, <2>4, <3>3 DEF PresenceFrames, FeedFits
      <4>2. rec = shown
        BY <1>11, <3>3, <4>1 DEF Told
      <4>3. CASE shown = truth
        BY <2>4, <4>2, <4>3 DEF Leads
      <4>4. CASE shown # truth
        <5>1. PICK j \in 1 .. Len(feed) : feed[j].says = truth
          BY <1>11, <2>4, <3>3, <4>4 DEF Leads
        <5>2. j # 1
          BY <1>1, <1>2, <3>3, <5>1 DEF Truths
        <5>3. j - 1 \in 1 .. Len(feed') /\ feed'[j - 1].says = truth
          BY <1>2, <5>1, <5>2
        <5>4. QED
          BY <2>4, <3>3, <4>2, <5>3 DEF Leads
      <4>5. QED
        BY <4>3, <4>4
    <3>4. CASE shown = "absent" /\ Head(feed).kind = "added" /\ Head(feed).says = "nothing"
      <4>1. Head(feed) = Unsaid
        BY <1>2, <3>4 DEF PresenceFrames, Unsaid
      <4>2. QED
        BY <1>11, <3>4, <4>1
    <3>5. QED
      BY <3>1, <3>2, <3>3, <3>4
  <2>5. QED
    BY <2>1, <2>2, <2>3, <2>4
<1>12. QED
  BY <1>2, <1>8, <1>10, <1>11
-----------------------------------------------------------------------------
LEMMA PresenceStarts == Init => PresenceInv
<1> SUFFICES ASSUME Init PROVE PresenceInv
  OBVIOUS
<1>1. TypeOK
  <2>1. reading \in [Readers -> [stage : {"idle", "online", "offline", "served"},
                                found : {"absent", "offline", "online", "nothing"}]]
    BY DEF Init, NotReading
  <2>2. events \in 0 .. MaxEvents
    BY PresenceAssumption DEF Init
  <2>3. carried \in BOOLEAN /\ account \in BOOLEAN /\ polling \in BOOLEAN /\ disposed \in BOOLEAN
    BY Zenon DEF Init
  <2>4. {carried, account, polling, disposed} \subseteq BOOLEAN
    BY <2>3
  <2>5. QED
    BY <2>1, <2>2, <2>4 DEF Init, TypeOK
<1>2. FeedFits /\ ReadsLead
  BY DEF Init, FeedFits, ReadsLead, NotReading
<1>3. QED
  BY <1>1, <1>2 DEF Init, PresenceInv, NotReading, Readers, Refreshes

\* What a step does to the reads: it leaves them, or begins, advances or ends one of them, or
\* overtakes those that have found something.
LEMMA PresenceStep == PresenceInv /\ [Next]_vars => PresenceInv'
<1> SUFFICES ASSUME PresenceInv, [Next]_vars PROVE PresenceInv'
  OBVIOUS
<1>0. /\ TypeOK /\ FeedFits /\ ReadsLead /\ \A k \in Refreshes : reading[k].found # "nothing"
      /\ reading["profile"].stage \in {"idle", "served"}
      /\ (reading["profile"].stage = "served" => reading["profile"].found # "absent")
      /\ (~excused /\ shown # "unknown" /\ ~disposed => Leads(shown))
  BY DEF PresenceInv
<1>0a. /\ truth \in Truths /\ shown \in Records \cup {"unknown"} /\ feed \in Seq(PresenceFrames)
       /\ events \in 0 .. MaxEvents
       /\ reading \in [Readers -> [stage : {"idle", "online", "offline", "served"},
                                   found : {"absent", "offline", "online", "nothing"}]]
  BY <1>0 DEF TypeOK, Truths, Records, PresenceFrames
<1>0b. "profile" \in Readers \ Refreshes /\ Refreshes \subseteq Readers
  BY DEF Readers, Refreshes
<1>0c. \A k \in Refreshes : reading[k].found \in Records
  BY <1>0, <1>0a, <1>0b DEF Records
<1>0d. World => events' \in 0 .. MaxEvents
  BY <1>0a, PresenceAssumption DEF World
\* The steps of the world that tell: FrameSent says what becomes of all that leads.
<1>1. ASSUME carried, carried' = carried, NEW f \in PresenceFrames, Tells(f), feed' = Append(feed, f),
             truth' \in Truths, events' \in 0 .. MaxEvents, UNCHANGED <<account, service, excused>>,
             overtaken \subseteq overtaken',
             truth = "offline" /\ truth' = "online" =>
               \A k \in Readers : reading[k].stage = "offline" => k \in overtaken'
      PROVE  PresenceInv'
  <2>1. /\ FeedFits' /\ feed' \in Seq(PresenceFrames)
        /\ \A rec \in Records : Leads(rec) => Leads(rec)'
        /\ truth' = "none" => \A rec \in Records : Leads(rec)'
    BY <1>0, <1>1, FrameSent
  <2>2. UNCHANGED <<account, polling, disposed, shown, reading, excused>>
    BY <1>1 DEF service
  <2>3. TypeOK'
    BY <1>0, <1>1, <2>1, <2>2 DEF TypeOK, PresenceFrames, Truths
  <2>4. ASSUME NEW k \in Readers \ overtaken', reading[k].stage = "offline", truth' # "offline"
        PROVE  Leads(reading[k].found)'
    <3>1. k \in Refreshes /\ reading[k].found \in Records /\ k \in Readers \ overtaken
      BY <1>0, <1>0c, <1>1, <2>4 DEF Readers
    <3>2. CASE truth = "offline"
      BY <1>1, <2>1, <2>2, <2>4, <3>1, <3>2 DEF Truths
    <3>3. CASE truth # "offline"
      BY <1>0, <2>1, <2>2, <2>4, <3>1, <3>3 DEF ReadsLead
    <3>4. QED
      BY <3>2, <3>3
  <2>5. ASSUME NEW k \in Readers \ overtaken', reading[k].stage = "served", reading[k].found # "nothing"
        PROVE  Leads(reading[k].found)'
    <3>1. reading[k].found \in Records
      BY <1>0a, <2>5 DEF Records
    <3>2. QED
      BY <1>0, <1>1, <2>1, <2>2, <2>5, <3>1 DEF ReadsLead
  <2>6. ReadsLead'
    BY <2>2, <2>4, <2>5 DEF ReadsLead
  <2>7. ~excused' /\ shown' # "unknown" /\ ~disposed' => Leads(shown)'
    <3>1. \A rec \in Records : rec = shown /\ Leads(rec) => Leads(rec)'
      BY <2>1
    <3>2. QED
      BY <1>0, <1>0a, <2>2, <3>1
  <2>8. QED
    BY <1>0, <2>1, <2>2, <2>3, <2>6, <2>7 DEF PresenceInv
\* What is told to nobody overtakes every read that has found something, and excuses.
<1>2. ASSUME Lost, FeedFits', feed' \in Seq(PresenceFrames), truth' \in Truths, carried' \in BOOLEAN,
             events' \in 0 .. MaxEvents, UNCHANGED <<account, service>>
      PROVE  PresenceInv'
  <2>1. UNCHANGED <<account, polling, disposed, shown, reading>> /\ excused'
    BY <1>2 DEF service, Lost
  <2>2. \A k \in Readers \ overtaken' : reading[k].stage \notin {"offline", "served"}
    BY <1>2 DEF Lost, HasRead
  <2>3. TypeOK'
    BY <1>0, <1>2, <2>1 DEF TypeOK, PresenceFrames, Truths
  <2>4. ReadsLead'
    BY <2>1, <2>2 DEF ReadsLead
  <2>5. QED
    BY <1>0, <1>2, <2>1, <2>3, <2>4 DEF PresenceInv
<1>3. ASSUME ~carried, Lost, truth' \in Truths, UNCHANGED <<feed, carried, account, service>>, World PROVE PresenceInv'
  <2>1. feed' = <<>> /\ FeedFits'
    BY <1>0, <1>3 DEF FeedFits
  <2>2. carried' \in BOOLEAN /\ feed' \in Seq(PresenceFrames)
    BY <1>0, <1>0a, <1>3 DEF TypeOK
  <2>3. QED
    BY <1>0d, <1>2, <1>3, <2>1, <2>2
<1>4. ASSUME NEW f \in PresenceFrames, Tells(f), Emit(f), World, truth' \in Truths,
             UNCHANGED <<carried, account, service>>, ~(truth = "offline" /\ truth' = "online")
      PROVE  PresenceInv'
  <2>1. CASE carried
    <3>1. feed' = Append(feed, f) /\ UNCHANGED <<overtaken, excused>>
      BY <1>4, <2>1 DEF Emit, history
    <3>2. QED
      BY <1>0d, <1>1, <1>4, <2>1, <3>1
  <2>2. CASE ~carried
    BY <1>3, <1>4, <2>2 DEF Emit
  <2>3. QED
    BY <2>1, <2>2
<1>5. ASSUME NEW t \in {"offline", "online"}, Befriended(t) PROVE PresenceInv'
  <2>1. PICK says \in Says(t) : Emit([kind |-> "added", says |-> says])
    BY <1>5 DEF Befriended
  <2>2. truth = "none" /\ truth' = t /\ World /\ UNCHANGED <<carried, account, service>>
    BY <1>5 DEF Befriended
  <2>3. [kind |-> "added", says |-> says] \in PresenceFrames /\ Tells([kind |-> "added", says |-> says])
    BY <2>1, <2>2 DEF Says, PresenceFrames, Tells
  <2>4. QED
    BY <1>4, <2>1, <2>2, <2>3 DEF Truths
<1>6. CASE Unfriended
  <2>1. LET f == [kind |-> "removed", says |-> "nothing"] IN f \in PresenceFrames /\ Tells(f)
    BY <1>6 DEF Unfriended, PresenceFrames, Tells
  <2>2. QED
    BY <1>4, <1>6, <2>1 DEF Unfriended, Truths
<1>7. CASE GoesOffline
  <2>1. LET f == [kind |-> "offline", says |-> "offline"] IN f \in PresenceFrames /\ Tells(f)
    BY <1>7 DEF GoesOffline, PresenceFrames, Tells
  <2>2. QED
    BY <1>4, <1>7, <2>1 DEF GoesOffline, Truths
<1>8. CASE ProfileChanges
  <2>1. PICK says \in Says(truth) : Emit([kind |-> "updated", says |-> says])
    BY <1>8 DEF ProfileChanges
  <2>2. truth # "none" /\ truth' = truth /\ World /\ UNCHANGED <<carried, account, service>>
    BY <1>8 DEF ProfileChanges
  <2>3. [kind |-> "updated", says |-> says] \in PresenceFrames /\ Tells([kind |-> "updated", says |-> says])
    BY <1>0a, <2>1, <2>2 DEF Says, PresenceFrames, Tells, Truths
  <2>4. QED
    BY <1>0a, <1>4, <2>1, <2>2, <2>3
<1>9. CASE ComesOnline
  <2>1. truth = "offline" /\ truth' = "online" /\ truth' \in Truths /\ World /\ UNCHANGED <<carried, account, service>>
    BY <1>9 DEF ComesOnline, Truths
  <2>2. CASE carried
    <3> DEFINE f == [kind |-> "online", says |-> "online"]
    <3>1. f \in PresenceFrames /\ Tells(f)
      BY <2>1 DEF PresenceFrames, Tells
    <3>2. /\ feed' = Append(feed, f) /\ UNCHANGED excused
          /\ overtaken' = overtaken \cup {r \in Refreshes : reading[r].stage = "offline"}
      BY <1>9, <2>2 DEF ComesOnline
    <3>3. \A k \in Readers : reading[k].stage = "offline" => k \in overtaken'
      BY <1>0, <3>2 DEF Readers
    <3> HIDE DEF f
    <3>4. QED
      BY <1>0d, <1>1, <2>1, <2>2, <3>1, <3>2, <3>3
  <2>3. CASE ~carried
    BY <1>3, <1>9, <2>1, <2>3 DEF ComesOnline
  <2>4. QED
    BY <2>2, <2>3
<1>10. CASE SocketDrops
  <2>1. carried' = FALSE /\ feed' = <<>> /\ World /\ UNCHANGED <<truth, account, service>>
    BY <1>10 DEF SocketDrops
  <2>2. FeedFits' /\ feed' \in Seq(PresenceFrames)
    BY <2>1 DEF FeedFits
  <2>3. CASE feed # <<>>
    BY <1>0a, <1>0d, <1>2, <1>10, <2>1, <2>2, <2>3 DEF SocketDrops
  <2>4. CASE feed = <<>>
    <3>1. UNCHANGED <<truth, feed, account, polling, disposed, shown, reading, overtaken, excused>>
      BY <1>10, <2>1, <2>4 DEF SocketDrops, service, history
    <3>2. TypeOK'
      BY <1>0, <1>0d, <2>1, <3>1 DEF TypeOK
    <3>3. ReadsLead' /\ (Leads(shown) => Leads(shown)')
      BY <1>0, <3>1 DEF ReadsLead, Leads
    <3>4. QED
      BY <1>0, <2>2, <3>1, <3>2, <3>3 DEF PresenceInv
  <2>5. QED
    BY <2>3, <2>4
\* Steps that change nothing the invariant speaks of.
<1>11. ASSUME UNCHANGED <<truth, feed, shown, excused, overtaken, reading>>, TypeOK', FeedFits', disposed' = disposed \/ disposed'
       PROVE  PresenceInv'
  <2>1. ReadsLead' /\ (Leads(shown) => Leads(shown)')
    BY <1>0, <1>11 DEF ReadsLead, Leads
  <2>2. QED
    BY <1>0, <1>11, <2>1 DEF PresenceInv
<1>12. CASE SocketOpens
  <2>1. UNCHANGED <<truth, feed, account, events, polling, disposed, shown, reading, overtaken, excused>> /\ carried' = TRUE
    BY <1>12 DEF SocketOpens, service, history
  <2>2. TypeOK'
    BY <1>0, <2>1 DEF TypeOK
  <2>2a. FeedFits'
    BY <1>0, <2>1 DEF FeedFits
  <2>3. QED
    BY <1>11, <2>1, <2>2, <2>2a
<1>13. CASE AccountGoes
  <2>1. /\ UNCHANGED <<truth, feed, carried, polling, disposed, shown, reading, overtaken, excused>>
        /\ account' = FALSE /\ events' \in 0 .. MaxEvents
    BY <1>0d, <1>13 DEF AccountGoes, service, history
  <2>2. TypeOK'
    BY <1>0, <2>1 DEF TypeOK
  <2>2a. FeedFits'
    BY <1>0, <2>1 DEF FeedFits
  <2>3. QED
    BY <1>11, <2>1, <2>2, <2>2a
<1>14. CASE Stop
  <2>1. UNCHANGED <<truth, feed, carried, account, events, polling, shown, reading, overtaken, excused>> /\ disposed' = TRUE
    BY <1>14 DEF Stop, world, history
  <2>2. TypeOK' /\ FeedFits'
    BY <1>0, <2>1 DEF TypeOK, FeedFits
  <2>3. QED
    BY <1>11, <2>1, <2>2
<1>15. CASE UNCHANGED vars
  <2>1. UNCHANGED <<truth, feed, carried, account, events, polling, disposed, shown, reading, overtaken, excused>>
    BY <1>15 DEF vars
  <2>2. TypeOK' /\ FeedFits'
    BY <1>0, <2>1 DEF TypeOK, FeedFits
  <2>3. QED
    BY <1>11, <2>1, <2>2
<1>16. CASE FrameArrives
  <2>1. /\ feed # <<>> /\ feed' = Tail(feed)
        /\ shown' = IF shown = "unknown" \/ disposed THEN shown ELSE Told(Head(feed))
        /\ overtaken' = overtaken \cup HasRead
        /\ excused' = (excused \/ (shown = "absent" /\ Head(feed) = Unsaid))
        /\ UNCHANGED <<truth, carried, account, events, polling, disposed, reading>>
    BY <1>16 DEF FrameArrives, Unsaid
  <2>2. /\ FeedFits' /\ feed' \in Seq(PresenceFrames)
        /\ \A rec \in Records : Leads(shown) /\ shown # "unknown" /\ rec = Told(Head(feed)) =>
             Leads(rec)' \/ (shown = "absent" /\ Head(feed) = Unsaid)
        /\ shown # "unknown" => Told(Head(feed)) \in Records
    BY <1>0, <2>1, FrameTaken
  <2>3. shown' \in Records \cup {"unknown"}
    BY <1>0a, <2>1, <2>2
  <2>4. TypeOK'
    BY <1>0, <2>1, <2>2, <2>3 DEF TypeOK, PresenceFrames, Records
  <2>5. ReadsLead'
    BY <2>1 DEF ReadsLead, HasRead
  <2>6. ASSUME ~excused', shown' # "unknown", ~disposed' PROVE Leads(shown)'
    <3>1. ~excused /\ shown # "unknown" /\ ~disposed /\ Leads(shown) /\ ~(shown = "absent" /\ Head(feed) = Unsaid)
      BY <1>0, <2>1, <2>6
    <3>2. PICK rec \in Records : rec = Told(Head(feed))
      BY <2>2, <3>1
    <3>3. Leads(rec)' /\ shown' = rec
      BY <2>1, <2>2, <3>1, <3>2
    <3>4. QED
      BY <3>3
  <2>7. QED
    BY <1>0, <2>1, <2>2, <2>4, <2>5, <2>6 DEF PresenceInv
\* The reads: the frames, the truth and the world stay, and one read changes.
<1>17. ASSUME UNCHANGED <<truth, feed, carried>>
       PROVE  FeedFits' /\ \A rec \in Records \cup {"unknown", "nothing"} : Leads(rec)' = Leads(rec)
  BY <1>0, <1>17 DEF FeedFits, Leads
<1>18. ASSUME UNCHANGED <<truth, feed, carried, shown, excused, disposed>>, NEW k \in Readers,
              events' \in 0 .. MaxEvents, account' \in BOOLEAN, polling' \in BOOLEAN,
              NEW row \in [stage : {"idle", "online", "offline", "served"}, found : {"absent", "offline", "online", "nothing"}],
              reading' = [reading EXCEPT ![k] = row],
              overtaken \ {k} \subseteq overtaken',
              \/ row.stage \in {"idle", "online"}
              \/ k \in overtaken'
              \/ row.stage = "offline" /\ (truth # "offline" => Leads(row.found))
              \/ row.stage = "served" /\ (row.found = "nothing" \/ Leads(row.found)),
              k \in Refreshes => row.found # "nothing",
              k \notin Refreshes => row.stage \in {"idle", "served"} /\ (row.stage = "served" => row.found # "absent")
       PROVE  PresenceInv'
  <2>1. FeedFits' /\ \A rec \in Records \cup {"unknown", "nothing"} : Leads(rec)' = Leads(rec)
    BY <1>17, <1>18
  <2>2. /\ reading' \in [Readers -> [stage : {"idle", "online", "offline", "served"},
                                     found : {"absent", "offline", "online", "nothing"}]]
        /\ reading'[k] = row /\ \A x \in Readers : x # k => reading'[x] = reading[x]
    BY <1>0a, <1>18
  <2>3. TypeOK'
    BY <1>0, <1>18, <2>2 DEF TypeOK
  <2>4. ASSUME NEW x \in Readers \ overtaken'
        PROVE  /\ reading'[x].stage = "offline" /\ truth' # "offline" => Leads(reading[x].found)'
               /\ reading'[x].stage = "served" => reading'[x].found = "nothing" \/ Leads(reading[x].found)'
    <3>1. PICK rec \in Records \cup {"nothing"} : rec = reading'[x].found
      BY <2>2, <2>4 DEF Records
    <3>2. /\ reading'[x].stage = "offline" /\ truth' # "offline" => Leads(rec)
          /\ reading'[x].stage = "served" => rec = "nothing" \/ Leads(rec)
      <4>1. CASE x = k
        BY <1>18, <2>2, <2>4, <3>1, <4>1
      <4>2. CASE x # k
        BY <1>0, <1>18, <2>2, <2>4, <3>1, <4>2 DEF ReadsLead
      <4>3. QED
        BY <4>1, <4>2
    <3>3. Leads(rec)' = Leads(rec)
      BY <2>1, <3>1
    <3>4. QED
      BY <3>1, <3>2, <3>3
  <2>5. ReadsLead'
    BY <2>4 DEF ReadsLead
  <2>6. ~excused' /\ shown' # "unknown" /\ ~disposed' => Leads(shown)'
    <3>1. PICK rec \in Records \cup {"unknown"} : rec = shown
      BY <1>0a
    <3>2. QED
      BY <1>0, <1>18, <2>1, <3>1
  <2>7. QED
    BY <1>0, <1>0b, <1>18, <2>1, <2>2, <2>3, <2>5, <2>6 DEF PresenceInv
<1>18a. /\ Begun.stage = "online" /\ Begun.found = "absent" /\ NotReading.stage = "idle" /\ NotReading.found = "absent"
        /\ {Begun, NotReading} \subseteq [stage : {"idle", "online", "offline", "served"},
                                          found : {"absent", "offline", "online", "nothing"}]
  BY DEF Begun, NotReading
<1>19. CASE AccountReady
  <2>1. UNCHANGED <<truth, feed, carried, events, disposed, shown, excused, overtaken>> /\ account' = TRUE
    BY <1>19 DEF AccountReady, history
  <2>2. CASE UNCHANGED <<polling, reading>>
    <3>1. TypeOK' /\ FeedFits'
      BY <1>0, <2>1, <2>2 DEF TypeOK, FeedFits
    <3>2. QED
      BY <1>11, <2>1, <2>2, <3>1
  <2>3. CASE polling' = TRUE /\ reading' = [reading EXCEPT !["first"] = Begun]
    <3>1. "first" \in Refreshes /\ "first" \in Readers
      BY DEF Refreshes, Readers
    <3>2. QED
      BY <1>0a, <1>18, <1>18a, <2>1, <2>3, <3>1
  <2>4. QED
    BY <1>19, <2>2, <2>3 DEF AccountReady
<1>20. CASE Tick
  <2>1. /\ UNCHANGED <<truth, feed, carried, account, events, polling, disposed, shown, excused, overtaken>>
        /\ reading' = [reading EXCEPT !["tick"] = Begun]
    BY <1>20 DEF Tick, world, history
  <2>2. "tick" \in Refreshes /\ "tick" \in Readers /\ account \in BOOLEAN /\ polling \in BOOLEAN
    BY <1>0 DEF Refreshes, Readers, TypeOK
  <2>3. QED
    BY <1>0a, <1>18, <1>18a, <2>1, <2>2
<1>21. ASSUME NEW k \in Refreshes, OnlineHalf(k) PROVE PresenceInv'
  <2> DEFINE row == IF disposed THEN NotReading
                    ELSE [stage |-> "offline", found |-> IF truth = "online" THEN "online" ELSE "absent"]
  <2>1. /\ UNCHANGED <<truth, feed, carried, account, events, polling, disposed, shown, excused, overtaken>>
        /\ reading' = [reading EXCEPT ![k] = row]
    BY <1>21 DEF OnlineHalf, world, history
  <2>2. /\ row \in [stage : {"idle", "online", "offline", "served"}, found : {"absent", "offline", "online", "nothing"}]
        /\ row.found # "nothing" /\ row.stage \in {"idle", "offline"}
    BY <1>18a
  <2>3. row.stage = "offline" /\ truth # "offline" => Leads(row.found)
    BY <1>0a, <1>18a DEF Leads, Truths
  <2>4. account \in BOOLEAN /\ polling \in BOOLEAN /\ k \in Readers
    BY <1>0, <1>0b DEF TypeOK
  <2> HIDE DEF row
  <2>5. QED
    BY <1>0a, <1>18, <2>1, <2>2, <2>3, <2>4
<1>22. ASSUME NEW k \in Refreshes, OfflineHalf(k) PROVE PresenceInv'
  <2> DEFINE row == [stage |-> "served", found |-> IF truth = "offline" THEN "offline" ELSE reading[k].found]
  <2>1. /\ UNCHANGED <<truth, feed, carried, account, events, polling, disposed, shown, excused, overtaken>>
        /\ reading[k].stage = "offline"
    BY <1>22 DEF OfflineHalf, world, history
  <2>1a. reading' = [reading EXCEPT ![k] = row]
    BY <1>22, <1>0a, <1>0b DEF OfflineHalf
  <2>2. /\ row \in [stage : {"idle", "online", "offline", "served"}, found : {"absent", "offline", "online", "nothing"}]
        /\ row.found # "nothing" /\ row.stage = "served"
    BY <1>0, <1>0a, <1>0b
  <2>3. k \in overtaken \/ Leads(row.found)
    <3>1. CASE truth = "offline"
      BY <3>1 DEF Leads
    <3>2. CASE truth # "offline"
      BY <1>0, <1>0b, <2>1, <3>2 DEF ReadsLead
    <3>3. QED
      BY <3>1, <3>2
  <2>4. account \in BOOLEAN /\ polling \in BOOLEAN /\ k \in Readers
    BY <1>0, <1>0b DEF TypeOK
  <2> HIDE DEF row
  <2>5. QED
    BY <1>0a, <1>18, <2>1, <2>1a, <2>2, <2>3, <2>4
<1>23. ASSUME NEW k \in Refreshes, PagesShift(k) PROVE PresenceInv'
  <2> DEFINE row == [reading[k] EXCEPT !.stage = IF @ = "online" THEN "offline" ELSE "served"]
  <2>1. /\ UNCHANGED <<truth, feed, carried, account, polling, disposed, shown, excused>>
        /\ overtaken' = overtaken \cup {k} /\ events' \in 0 .. MaxEvents
        /\ reading' = [reading EXCEPT ![k] = row]
    BY <1>0a, <1>0b, <1>0d, <1>23 DEF PagesShift
  <2>2. /\ row \in [stage : {"idle", "online", "offline", "served"}, found : {"absent", "offline", "online", "nothing"}]
        /\ row.found # "nothing"
    BY <1>0, <1>0a, <1>0b
  <2>4. account \in BOOLEAN /\ polling \in BOOLEAN /\ k \in Readers
    BY <1>0, <1>0b DEF TypeOK
  <2> HIDE DEF row
  <2>5. QED
    BY <1>18, <2>1, <2>2, <2>4
<1>24. ASSUME NEW k \in Refreshes, HalfFails(k) PROVE PresenceInv'
  <2>1. /\ UNCHANGED <<truth, feed, carried, account, polling, disposed, shown, excused>>
        /\ overtaken' = overtaken \ {k} /\ events' \in 0 .. MaxEvents
        /\ reading' = [reading EXCEPT ![k] = NotReading]
    BY <1>0a, <1>0d, <1>24 DEF HalfFails, Over
  <2>2. account \in BOOLEAN /\ polling \in BOOLEAN /\ k \in Readers
    BY <1>0, <1>0b DEF TypeOK
  <2>3. QED
    BY <1>18, <1>18a, <2>1, <2>2
\* A read ends, and what it shows is what it has found.
<1>25. ASSUME UNCHANGED <<truth, feed, carried, account, events, polling, disposed>>, NEW k \in Readers, Over(k),
              shown' \in Records \cup {"unknown"},
              ~excused' /\ shown' # "unknown" /\ ~disposed' => Leads(shown)'
       PROVE  PresenceInv'
  <2>1. FeedFits' /\ \A rec \in Records \cup {"unknown", "nothing"} : Leads(rec)' = Leads(rec)
    BY <1>17, <1>25
  <2>2. /\ reading' \in [Readers -> [stage : {"idle", "online", "offline", "served"},
                                     found : {"absent", "offline", "online", "nothing"}]]
        /\ reading'[k] = NotReading /\ (\A x \in Readers : x # k => reading'[x] = reading[x])
        /\ overtaken' = overtaken \ {k}
    BY <1>0a, <1>18a, <1>25 DEF Over
  <2>3. TypeOK'
    BY <1>0, <1>25, <2>2 DEF TypeOK, Records
  <2>4. ASSUME NEW x \in Readers \ overtaken'
        PROVE  /\ reading'[x].stage = "offline" /\ truth' # "offline" => Leads(reading[x].found)'
               /\ reading'[x].stage = "served" => reading'[x].found = "nothing" \/ Leads(reading[x].found)'
    <3>1. CASE x = k
      BY <1>18a, <2>2, <3>1
    <3>2. CASE x # k
      <4>1. PICK rec \in Records \cup {"nothing"} : rec = reading'[x].found
        BY <2>2, <2>4 DEF Records
      <4>2. x \in Readers \ overtaken /\ reading'[x] = reading[x]
        BY <2>2, <2>4, <3>2
      <4>3. /\ reading'[x].stage = "offline" /\ truth' # "offline" => Leads(rec)
            /\ reading'[x].stage = "served" => rec = "nothing" \/ Leads(rec)
        BY <1>0, <1>25, <4>1, <4>2 DEF ReadsLead
      <4>4. Leads(rec)' = Leads(rec)
        BY <2>1, <4>1
      <4>5. QED
        BY <4>1, <4>3, <4>4
    <3>3. QED
      BY <3>1, <3>2
  <2>5. ReadsLead'
    BY <2>4 DEF ReadsLead
  <2>6. /\ \A x \in Refreshes : reading'[x].found # "nothing"
        /\ reading'["profile"].stage \in {"idle", "served"}
        /\ (reading'["profile"].stage = "served" => reading'["profile"].found # "absent")
    BY <1>0, <1>0b, <1>18a, <2>2
  <2>7. QED
    BY <1>25, <2>1, <2>3, <2>5, <2>6 DEF PresenceInv
<1>26. ASSUME NEW k \in Refreshes, RefreshEnds(k) PROVE PresenceInv'
  <2>1. /\ UNCHANGED <<truth, feed, carried, account, events, polling, disposed>> /\ Over(k)
        /\ reading[k].stage = "served" /\ k \in Readers
        /\ IF disposed THEN UNCHANGED <<shown, excused>>
           ELSE shown' = reading[k].found /\ excused' = (k \in overtaken)
    BY <1>0b, <1>26 DEF RefreshEnds, world
  <2>2. CASE disposed
    BY <1>0a, <1>25, <2>1, <2>2
  <2>3. CASE ~disposed
    <3>1. PICK rec \in Records : rec = reading[k].found
      BY <1>0c
    <3>2. k \notin overtaken => Leads(rec)
      BY <1>0, <2>1, <3>1 DEF ReadsLead
    <3>3. Leads(rec)' = Leads(rec)
      BY <1>17, <2>1
    <3>4. ~excused' => Leads(shown)'
      BY <2>1, <2>3, <3>1, <3>2, <3>3
    <3>5. QED
      BY <1>25, <2>1, <2>3, <3>1, <3>4
  <2>4. QED
    BY <2>2, <2>3
<1>27. CASE ProfileObserved
  <2>1. /\ UNCHANGED <<truth, feed, carried, account, events, polling, disposed>> /\ Over("profile")
        /\ reading["profile"].stage = "served" /\ "profile" \in Readers
        /\ IF shown \in {"unknown", "absent"} \/ reading["profile"].found = "nothing"
           THEN UNCHANGED <<shown, excused>>
           ELSE /\ shown' = reading["profile"].found
                /\ excused' = (excused \/ "profile" \in overtaken)
    BY <1>0b, <1>27 DEF ProfileObserved, world
  <2>2. CASE UNCHANGED <<shown, excused>>
    <3>1. PICK rec \in Records \cup {"unknown"} : rec = shown
      BY <1>0a
    <3>2. Leads(rec)' = Leads(rec)
      BY <1>17, <2>1
    <3>3. ~excused' /\ shown' # "unknown" /\ ~disposed' => Leads(shown)'
      BY <1>0, <2>1, <2>2, <3>1, <3>2
    <3>4. QED
      BY <1>0a, <1>25, <2>1, <2>2, <3>3
  <2>3. CASE ~(shown \in {"unknown", "absent"} \/ reading["profile"].found = "nothing")
    <3>1. PICK rec \in Records : rec = reading["profile"].found
      BY <1>0a, <2>1, <2>3 DEF Records
    <3>2. "profile" \notin overtaken => Leads(rec)
      BY <1>0, <2>1, <2>3, <3>1 DEF ReadsLead
    <3>3. Leads(rec)' = Leads(rec)
      BY <1>17, <2>1
    <3>4. ~excused' => Leads(shown)'
      BY <2>1, <2>3, <3>1, <3>2, <3>3
    <3>5. QED
      BY <1>25, <2>1, <2>3, <3>1, <3>4
  <2>4. QED
    BY <2>1, <2>2, <2>3
<1>28. CASE ProfileServed
  <2>1. PICK says \in Says(truth) : reading' = [reading EXCEPT !["profile"] = [stage |-> "served", found |-> says]]
    BY <1>28 DEF ProfileServed
  <2>2. /\ UNCHANGED <<truth, feed, carried, account, events, polling, disposed, shown, excused, overtaken>>
        /\ truth # "none"
    BY <1>28 DEF ProfileServed, world, history
  <2>3. /\ [stage |-> "served", found |-> says] \in
              [stage : {"idle", "online", "offline", "served"}, found : {"absent", "offline", "online", "nothing"}]
        /\ says # "absent" /\ (says = "nothing" \/ Leads(says))
    BY <1>0a, <2>1, <2>2 DEF Says, Truths, Leads
  <2>4. account \in BOOLEAN /\ polling \in BOOLEAN /\ "profile" \in Readers /\ "profile" \notin Refreshes
    BY <1>0, <1>0b DEF TypeOK
  <2>5. PICK row \in [stage : {"idle", "online", "offline", "served"}, found : {"absent", "offline", "online", "nothing"}] :
          row = [stage |-> "served", found |-> says]
    BY <2>3
  <2>6. row.stage = "served" /\ row.found = says
    BY <2>5
  <2>7. QED
    BY <1>0a, <1>18, <2>1, <2>2, <2>3, <2>4, <2>5, <2>6
<1>29. QED
  BY <1>5, <1>6, <1>7, <1>8, <1>9, <1>10, <1>12, <1>13, <1>14, <1>15, <1>16, <1>19, <1>20, <1>21, <1>22,
     <1>23, <1>24, <1>26, <1>27, <1>28 DEF Next

-----------------------------------------------------------------------------
\* What is shown, and what every read that nothing has overtaken will show, leads to the truth.
THEOREM PresenceInvariant == Spec => []PresenceInv
BY PresenceStarts, PresenceStep, PTL DEF Spec

\* Once the frames on the way have arrived the list says what VRChat would, but for what excuses
\* it, for every number of events (accounts/presence.ts).
THEOREM ShownIsAlwaysTrue == Spec => []ShownIsTrue
<1>1. PresenceInv => ShownIsTrue
  <2> SUFFICES ASSUME PresenceInv PROVE ShownIsTrue
    OBVIOUS
  <2>1. TypeOK /\ (~excused /\ shown # "unknown" /\ ~disposed => Leads(shown))
    BY DEF PresenceInv
  <2>2. ASSUME feed = <<>>, Leads(shown), shown # "unknown" PROVE shown = Record(truth)
    <3>1. Len(feed) = 0 /\ truth \in Truths
      BY <2>1, <2>2 DEF TypeOK, Truths
    <3>2. QED
      BY <2>2, <3>1 DEF Leads, Record
  <2>3. QED
    BY <2>1, <2>2 DEF ShownIsTrue
<1>2. QED
  BY PresenceInvariant, <1>1, PTL
-----------------------------------------------------------------------------
(***************************************************************************)
(* The mirror of notifications: its rows, the frames and the pages under   *)
(* way are all of notifications that VRChat has sent.                      *)
(***************************************************************************)
Inboxes == {Unsent} \cup [listed : BOOLEAN, seen : BOOLEAN, text : {"first", "second"}]
Items == [type : {"known", "unknown"}, seen : BOOLEAN, text : {"none", "first", "second"}]
MirrorFrames == [kind : {"received", "updated", "seen", "hidden", "deleted"}, id : Notifications]

MirrorTyped ==
  /\ inbox \in [Notifications -> Inboxes]
  /\ pushed \in Seq(MirrorFrames)
  /\ rows \in [Notifications -> Items \cup {NoRow}]
  /\ DOMAIN fetching = Fetches

FramesFit ==
  \A i \in 1 .. Len(pushed) :
     /\ inbox[pushed[i].id] # Unsent
     /\ pushed[i].kind = "updated" => pushed[i].id \in SecondGeneration

PagesFit ==
  \A f \in Fetches : \A x \in fetching[f].page :
     x.id \in Notifications /\ x.item \in Items /\ FitsInbox(x.id, x.item)

MirrorInv == MirrorTyped /\ FramesFit /\ PagesFit /\ NothingInvented

LEMMA ItemsAre ==
  /\ ReceivedItem \in Items /\ UpdateItem \in Items /\ NoRow \notin Items
  /\ ReceivedItem.text = "first" /\ ReceivedItem.type = "known"
  /\ UpdateItem.text = "none"
  /\ \A item \in Items : item # NoRow
BY DEF ReceivedItem, UpdateItem, NoRow, Items

LEMMA InboxIs ==
  ASSUME MirrorTyped, NEW n \in Notifications, inbox[n] # Unsent
  PROVE  inbox[n].listed \in BOOLEAN /\ inbox[n].seen \in BOOLEAN /\ inbox[n].text \in {"first", "second"}
BY DEF MirrorTyped, Inboxes

(* A notification that is listed has been sent, and says a text.           *)
LEMMA ListedFits ==
  ASSUME MirrorTyped, NEW n \in Notifications, inbox[n].listed
  PROVE  ListedItem(n) \in Items /\ FitsInbox(n, ListedItem(n))
<1>1. inbox[n] # Unsent
  BY DEF Unsent
<1>2. inbox[n].seen \in BOOLEAN /\ inbox[n].text \in {"first", "second"}
  BY <1>1, InboxIs
<1>3. QED
  BY <1>1, <1>2 DEF ListedItem, Items, FitsInbox

(* What is put over a row fits as the row and the item did.                *)
LEMMA PutFits ==
  ASSUME NEW n \in Notifications, NEW row \in Items \cup {NoRow}, NEW item \in Items,
         FitsInbox(n, item), row # NoRow => FitsInbox(n, row)
  PROVE  PutNotification(row, item) \in Items /\ FitsInbox(n, PutNotification(row, item))
<1>1. CASE row = NoRow
  BY <1>1 DEF PutNotification
<1>2. CASE row # NoRow
  <2>1. row \in Items /\ FitsInbox(n, row)
    BY <1>2
  <2>2. PutNotification(row, item) = [row EXCEPT !.seen = item.seen, !.text = item.text]
    BY <1>2 DEF PutNotification
  <2>3. QED
    BY <2>1, <2>2 DEF Items, FitsInbox
<1>3. QED
  BY <1>1, <1>2

(* VRChat takes nothing back: what has been sent stays sent, and a text    *)
(* that has been revised stays revised.                                    *)
Grows ==
  \A n \in Notifications : inbox[n] # Unsent =>
     inbox'[n] # Unsent /\ (inbox[n].text = "second" => inbox'[n].text = "second")

LEMMA FrameIs == \A s \in Seq(MirrorFrames) : \A i \in 1 .. Len(s) : s[i] \in MirrorFrames /\ s[i].id \in Notifications
<1>1. \A fr \in MirrorFrames : fr.id \in Notifications
  BY DEF MirrorFrames
<1>2. QED
  BY <1>1

(* A frame of a notification that has been sent is appended, or none is.   *)
LEMMA PushFits ==
  ASSUME MirrorTyped, FramesFit, Grows, inbox' \in [Notifications -> Inboxes],
         NEW n \in Notifications, inbox'[n] # Unsent,
         NEW kind \in {"received", "updated", "seen", "hidden", "deleted"},
         kind = "updated" => n \in SecondGeneration, Push(kind, n)
  PROVE  pushed' \in Seq(MirrorFrames) /\ FramesFit'
<1> DEFINE frame == [kind |-> kind, id |-> n]
<1>1. frame \in MirrorFrames /\ frame.id = n /\ frame.kind = kind /\ pushed \in Seq(MirrorFrames)
  BY DEF MirrorFrames, MirrorTyped
<1>2. CASE pushed' = pushed
  <2>1. \A i \in 1 .. Len(pushed) : pushed[i].id \in Notifications
    BY <1>1, FrameIs
  <2>2. QED
    BY <1>1, <1>2, <2>1 DEF FramesFit, Grows
<1>3. CASE pushed' = Append(pushed, frame)
  <2> HIDE DEF frame
  <2>1. pushed' \in Seq(MirrorFrames)
    BY <1>1, <1>3
  <2>2. ASSUME NEW i \in 1 .. Len(pushed') PROVE (i \in 1 .. Len(pushed) /\ pushed'[i] = pushed[i]) \/ pushed'[i] = frame
    BY <1>1, <1>3
  <2>3. \A i \in 1 .. Len(pushed) : pushed[i].id \in Notifications
    BY <1>1, FrameIs
  <2>4. QED
    BY <1>1, <2>1, <2>2, <2>3 DEF FramesFit, Grows
<1>4. QED
  BY <1>2, <1>3 DEF Push

(* When only VRChat and the socket move, rows and pages fit as they did.   *)
LEMMA OutsideKeeps ==
  ASSUME MirrorInv, Grows, inbox' \in [Notifications -> Inboxes],
         pushed' \in Seq(MirrorFrames) /\ FramesFit', UNCHANGED <<rows, fetching>>
  PROVE  MirrorInv'
<1>1. MirrorTyped'
  BY DEF MirrorInv, MirrorTyped
<1>2. PagesFit'
  <2> SUFFICES ASSUME NEW f \in Fetches, NEW x \in fetching[f].page
               PROVE  x.id \in Notifications /\ x.item \in Items /\ FitsInbox(x.id, x.item)'
    BY DEF PagesFit
  <2>1. x.id \in Notifications /\ x.item \in Items /\ FitsInbox(x.id, x.item)
    BY DEF MirrorInv, PagesFit
  <2>2. QED
    BY <2>1 DEF FitsInbox, Grows
<1>3. NothingInvented'
  BY DEF MirrorInv, NothingInvented, FitsInbox, Grows
<1>4. QED
  BY <1>1, <1>2, <1>3 DEF MirrorInv

(* When the daemon writes rows that fit, or asks for pages, the rest does. *)
LEMMA InsideKeeps ==
  ASSUME MirrorInv, UNCHANGED inbox, pushed' \in Seq(MirrorFrames) /\ FramesFit', DOMAIN fetching' = Fetches, PagesFit',
         rows' \in [Notifications -> Items \cup {NoRow}],
         \A n \in Notifications : rows'[n] # NoRow => FitsInbox(n, rows'[n])
  PROVE  MirrorInv'
<1>1. MirrorTyped'
  BY DEF MirrorInv, MirrorTyped
<1>2. NothingInvented'
  BY DEF NothingInvented, FitsInbox
<1>3. QED
  BY <1>1, <1>2 DEF MirrorInv

LEMMA FrameHandledKeeps ==
  ASSUME MirrorInv, FrameHandled PROVE MirrorInv'
<1>1. /\ pushed \in Seq(MirrorFrames) /\ pushed # <<>> /\ pushed' = Tail(pushed) /\ UNCHANGED <<inbox, fetching>>
      /\ rows \in [Notifications -> Items \cup {NoRow}] /\ inbox \in [Notifications -> Inboxes]
  BY DEF MirrorInv, MirrorTyped, FrameHandled
<1>2. PICK n \in Notifications, kind \in {"received", "updated", "seen", "hidden", "deleted"} :
        Head(pushed) = [kind |-> kind, id |-> n]
  <2>1. \A fr \in MirrorFrames : \E n \in Notifications, kind \in {"received", "updated", "seen", "hidden", "deleted"} :
          fr = [kind |-> kind, id |-> n]
    BY DEF MirrorFrames
  <2>2. Head(pushed) \in MirrorFrames
    BY <1>1, HeadTaken
  <2>3. QED
    BY <2>1, <2>2
<1>3. inbox[n] # Unsent /\ (kind = "updated" => n \in SecondGeneration)
  BY <1>1, <1>2, HeadTaken DEF MirrorInv, FramesFit
<1>4. pushed' \in Seq(MirrorFrames) /\ FramesFit'
  BY <1>1, HeadTaken DEF MirrorInv, FramesFit
<1>5. PagesFit' /\ DOMAIN fetching' = Fetches
  BY <1>1 DEF MirrorInv, MirrorTyped, PagesFit, FitsInbox
<1>6. \A m \in Notifications : rows[m] # NoRow => FitsInbox(m, rows[m])
  BY DEF MirrorInv, NothingInvented
<1>7. ASSUME NEW item \in Items, FitsInbox(n, item), rows' = [rows EXCEPT ![n] = PutNotification(@, item)]
      PROVE  MirrorInv'
  <2>1. PutNotification(rows[n], item) \in Items /\ FitsInbox(n, PutNotification(rows[n], item))
    BY <1>1, <1>6, <1>7, PutFits
  <2>2. /\ rows' \in [Notifications -> Items \cup {NoRow}]
        /\ \A m \in Notifications : rows'[m] # NoRow => FitsInbox(m, rows'[m])
    BY <1>1, <1>6, <1>7, <2>1
  <2>3. QED
    BY <1>1, <1>4, <1>5, <2>2, InsideKeeps
<1>8. CASE kind = "received"
  <2>1. FitsInbox(n, ReceivedItem)
    BY <1>3, ItemsAre DEF FitsInbox
  <2>2. rows' = [rows EXCEPT ![n] = PutNotification(@, ReceivedItem)]
    BY <1>2, <1>8 DEF FrameHandled
  <2>3. QED
    BY <1>7, <2>1, <2>2, ItemsAre
<1>9. CASE kind = "updated"
  <2>1. FitsInbox(n, UpdateItem)
    BY <1>3, <1>9, ItemsAre DEF FitsInbox
  <2>2. rows' = [rows EXCEPT ![n] = PutNotification(@, UpdateItem)]
    BY <1>2, <1>9 DEF FrameHandled
  <2>3. QED
    BY <1>7, <2>1, <2>2, ItemsAre
<1>10. CASE kind \in {"seen", "hidden", "deleted"}
  <2>1. rows' = rows
    BY <1>2, <1>10 DEF FrameHandled, MarkSeen, CarriedAs
  <2>2. QED
    BY <1>1, <1>4, <1>5, <1>6, <2>1, InsideKeeps
<1>11. QED
  BY <1>8, <1>9, <1>10

LEMMA UserMarksSeenKeeps ==
  ASSUME MirrorInv, NEW n \in Notifications, UserMarksSeen(n) PROVE MirrorInv'
<1>1. /\ rows \in [Notifications -> Items \cup {NoRow}] /\ rows[n] \in Items /\ FitsInbox(n, rows[n])
      /\ rows' = [rows EXCEPT ![n] = [rows[n] EXCEPT !.seen = TRUE]]
  BY DEF MirrorInv, MirrorTyped, NothingInvented, UserMarksSeen
<1> DEFINE item == [rows[n] EXCEPT !.seen = TRUE]
<1>2. item \in Items /\ item.type = rows[n].type /\ item.text = rows[n].text
  BY <1>1 DEF Items
<1>3. FitsInbox(n, item)
  BY <1>1, <1>2 DEF FitsInbox
<1>4. rows' = [rows EXCEPT ![n] = item]
  BY <1>1
<1> HIDE DEF item
<1>5. /\ rows' \in [Notifications -> Items \cup {NoRow}]
      /\ \A m \in Notifications : rows'[m] # NoRow => FitsInbox(m, rows'[m])
  BY <1>1, <1>2, <1>3, <1>4 DEF MirrorInv, NothingInvented
<1>6. UNCHANGED <<inbox, pushed, fetching>>
  BY DEF UserMarksSeen
<1>7. pushed' \in Seq(MirrorFrames) /\ FramesFit' /\ PagesFit' /\ DOMAIN fetching' = Fetches
  BY <1>6 DEF MirrorInv, MirrorTyped, FramesFit, PagesFit, FitsInbox
<1>8. QED
  BY <1>5, <1>6, <1>7, InsideKeeps

(* A page holds listed notifications, each as it is at that moment.        *)
LEMMA PageIs ==
  ASSUME NEW generation, NEW offset, NEW n \in Page(generation, offset)
  PROVE  n \in Notifications /\ inbox[n].listed
BY DEF Page, Notifications, Listable

LEMMA PageServedKeeps ==
  ASSUME MirrorInv, NEW f \in Fetches, PageServed(f) PROVE MirrorInv'
<1>1. /\ MirrorTyped /\ UNCHANGED <<inbox, pushed, rows>>
      /\ fetching' = [fetching EXCEPT ![f].stage = "served",
            ![f].page = {[id |-> n, item |-> ListedItem(n)] : n \in Page(fetching[f].generation, fetching[f].offset)}]
  BY DEF MirrorInv, PageServed, outside
<1>2. PICK page : page = {[id |-> n, item |-> ListedItem(n)] : n \in Page(fetching[f].generation, fetching[f].offset)}
  OBVIOUS
<1>3. ASSUME NEW x \in page PROVE x.id \in Notifications /\ x.item \in Items /\ FitsInbox(x.id, x.item)
  <2>1. PICK n \in Page(fetching[f].generation, fetching[f].offset) : x = [id |-> n, item |-> ListedItem(n)]
    BY <1>2
  <2>2. n \in Notifications /\ inbox[n].listed
    BY PageIs
  <2>3. QED
    BY <1>1, <2>1, <2>2, ListedFits
<1>4. DOMAIN fetching' = Fetches /\ \A g \in Fetches : fetching'[g].page = IF g = f THEN page ELSE fetching[g].page
  BY <1>1, <1>2 DEF MirrorTyped
<1>5. PagesFit'
  <2> SUFFICES ASSUME NEW g \in Fetches, NEW x \in fetching'[g].page
               PROVE  x.id \in Notifications /\ x.item \in Items /\ FitsInbox(x.id, x.item)'
    BY DEF PagesFit
  <2>1. x.id \in Notifications /\ x.item \in Items /\ FitsInbox(x.id, x.item)
    BY <1>3, <1>4 DEF MirrorInv, PagesFit
  <2>2. QED
    BY <1>1, <2>1 DEF FitsInbox
<1>6. pushed' \in Seq(MirrorFrames) /\ FramesFit'
  BY <1>1 DEF MirrorInv, MirrorTyped, FramesFit
<1>7. QED
  BY <1>1, <1>4, <1>5, <1>6, InsideKeeps DEF MirrorInv, MirrorTyped, NothingInvented

(* A refresh that asks for a page, or that rests, has none.                *)
LEMMA AskedKeeps ==
  ASSUME MirrorInv, UNCHANGED <<inbox, pushed>>, rows' \in [Notifications -> Items \cup {NoRow}],
         \A n \in Notifications : rows'[n] # NoRow => FitsInbox(n, rows'[n]),
         DOMAIN fetching' = Fetches, \A f \in Fetches : fetching'[f].page \in {{}, fetching[f].page}
  PROVE  MirrorInv'
<1>1. PagesFit'
  <2> SUFFICES ASSUME NEW f \in Fetches, NEW x \in fetching'[f].page
               PROVE  x.id \in Notifications /\ x.item \in Items /\ FitsInbox(x.id, x.item)'
    BY DEF PagesFit
  <2>1. x.id \in Notifications /\ x.item \in Items /\ FitsInbox(x.id, x.item)
    BY DEF MirrorInv, PagesFit
  <2>2. QED
    BY <2>1 DEF FitsInbox
<1>2. pushed' \in Seq(MirrorFrames) /\ FramesFit'
  BY DEF MirrorInv, MirrorTyped, FramesFit
<1>3. QED
  BY <1>1, <1>2, InsideKeeps

LEMMA PageWrittenKeeps ==
  ASSUME MirrorInv, NEW f \in Fetches, PageWritten(f) PROVE MirrorInv'
<1>1. /\ DOMAIN fetching = Fetches /\ UNCHANGED <<inbox, pushed>>
      /\ rows \in [Notifications -> Items \cup {NoRow}]
      /\ \A n \in Notifications : rows[n] # NoRow => FitsInbox(n, rows[n])
  BY DEF MirrorInv, MirrorTyped, NothingInvented, PageWritten, outside
<1> DEFINE of(n) == {x \in fetching[f].page : x.id = n}
           chosen(n) == CHOOSE x \in of(n) : TRUE
<1>2. \/ rows' = rows
      \/ rows' = [n \in Notifications |-> IF of(n) = {} THEN rows[n] ELSE PutNotification(rows[n], chosen(n).item)]
  BY DEF PageWritten
<1>3. ASSUME NEW n \in Notifications, of(n) # {}
      PROVE  chosen(n).item \in Items /\ FitsInbox(n, chosen(n).item)
  <2>1. chosen(n) \in of(n)
    BY <1>3
  <2>2. QED
    BY <2>1 DEF MirrorInv, PagesFit
<1>4. ASSUME NEW n \in Notifications, of(n) # {}
      PROVE  /\ PutNotification(rows[n], chosen(n).item) \in Items
             /\ FitsInbox(n, PutNotification(rows[n], chosen(n).item))
  <2>1. PICK item \in Items : item = chosen(n).item /\ FitsInbox(n, item)
    BY <1>3, <1>4
  <2>2. PICK row \in Items \cup {NoRow} : row = rows[n] /\ (row # NoRow => FitsInbox(n, row))
    BY <1>1
  <2>3. QED
    BY <2>1, <2>2, PutFits
<1> HIDE DEF of, chosen
<1>5. /\ rows' \in [Notifications -> Items \cup {NoRow}]
      /\ \A n \in Notifications : rows'[n] # NoRow => FitsInbox(n, rows'[n])
  <2>1. CASE rows' = rows
    BY <1>1, <2>1
  <2>2. CASE rows' = [n \in Notifications |-> IF of(n) = {} THEN rows[n] ELSE PutNotification(rows[n], chosen(n).item)]
    <3>1. ASSUME NEW n \in Notifications
          PROVE  rows'[n] \in Items \cup {NoRow} /\ (rows'[n] # NoRow => FitsInbox(n, rows'[n]))
      <4>1. CASE of(n) = {}
        BY <1>1, <2>2, <4>1
      <4>2. CASE of(n) # {}
        <5>1. rows'[n] = PutNotification(rows[n], chosen(n).item)
          BY <2>2, <4>2
        <5>2. QED
          BY <1>4, <4>2, <5>1
      <4>3. QED
        BY <4>1, <4>2
    <3>2. QED
      BY <2>2, <3>1
  <2>3. QED
    BY <1>2, <2>1, <2>2
<1>6. \E r \in {Resting, Asking(2, 0), Asking(1, fetching[f].offset + 1)} :
        r.page = {} /\ fetching' = [fetching EXCEPT ![f] = r]
  <2>1. \/ fetching' = [fetching EXCEPT ![f] = Resting]
        \/ fetching' = [fetching EXCEPT ![f] = Asking(2, 0)]
        \/ fetching' = [fetching EXCEPT ![f] = Asking(1, fetching[f].offset + 1)]
    BY DEF PageWritten
  <2>2. \A r \in {Resting, Asking(2, 0), Asking(1, fetching[f].offset + 1)} : r.page = {}
    BY DEF Resting, Asking
  <2>3. QED
    BY <2>1, <2>2
<1>7. DOMAIN fetching' = Fetches /\ \A g \in Fetches : fetching'[g].page \in {{}, fetching[g].page}
  BY <1>1, <1>6
<1>8. QED
  BY <1>1, <1>5, <1>7, AskedKeeps

LEMMA RefreshKeeps ==
  ASSUME MirrorInv, IntervalTicks \/ SessionReady \/ \E f \in Fetches : PageFails(f) PROVE MirrorInv'
<1>1. UNCHANGED <<inbox, pushed, rows>>
  BY DEF IntervalTicks, SessionReady, PageFails, outside
<1>2. fetching' = fetching \/ \E f \in Fetches, r \in {Resting, Asking(1, 0), Asking(2, 0)} : fetching' = [fetching EXCEPT ![f] = r]
  BY DEF IntervalTicks, SessionReady, PageFails, Fetches
<1>3. \A r \in {Resting, Asking(1, 0), Asking(2, 0)} : r.page = {}
  BY DEF Resting, Asking
<1>4. DOMAIN fetching' = Fetches /\ \A g \in Fetches : fetching'[g].page \in {{}, fetching[g].page}
  BY <1>2, <1>3 DEF MirrorInv, MirrorTyped
<1>5. QED
  BY <1>1, <1>4, AskedKeeps DEF MirrorInv, MirrorTyped, NothingInvented

(* What VRChat does: the notification of the step, and the frame it sends. *)
LEMMA VRChatKeeps ==
  ASSUME MirrorInv, NEW n \in Notifications,
         Arrives(n) \/ SeenElsewhere(n) \/ Revised(n) \/ HiddenElsewhere(n)
  PROVE  MirrorInv'
<1>1. inbox \in [Notifications -> Inboxes] /\ UNCHANGED <<rows, fetching>> /\ MirrorTyped /\ FramesFit
  BY DEF MirrorInv, MirrorTyped, Arrives, SeenElsewhere, Revised, HiddenElsewhere
<1>2. inbox[n] # Unsent => inbox[n] \in [listed : BOOLEAN, seen : BOOLEAN, text : {"first", "second"}]
  BY <1>1 DEF Inboxes
<1>3. inbox[n].listed => inbox[n] # Unsent
  BY DEF Unsent
<1>4. PICK box \in [listed : BOOLEAN, seen : BOOLEAN, text : {"first", "second"}] :
        inbox' = [inbox EXCEPT ![n] = box] /\ (inbox[n] # Unsent /\ inbox[n].text = "second" => box.text = "second")
  <2>1. CASE Arrives(n)
    BY <2>1 DEF Arrives
  <2>2. CASE SeenElsewhere(n)
    <3>1. inbox' = [inbox EXCEPT ![n] = [inbox[n] EXCEPT !.seen = TRUE]]
      BY <2>2 DEF SeenElsewhere
    <3>2. QED
      BY <1>2, <1>3, <2>2, <3>1 DEF SeenElsewhere
  <2>3. CASE Revised(n)
    <3>1. inbox' = [inbox EXCEPT ![n] = [inbox[n] EXCEPT !.text = "second"]]
      BY <2>3 DEF Revised
    <3>2. QED
      BY <1>2, <1>3, <2>3, <3>1 DEF Revised
  <2>4. CASE HiddenElsewhere(n)
    <3>1. inbox' = [inbox EXCEPT ![n] = [inbox[n] EXCEPT !.listed = FALSE]]
      BY <2>4 DEF HiddenElsewhere
    <3>2. QED
      BY <1>2, <1>3, <2>4, <3>1 DEF HiddenElsewhere
  <2>5. QED
    BY <2>1, <2>2, <2>3, <2>4
<1>5. box # Unsent /\ box \in Inboxes
  <2>1. box.text # Unsent.text
    BY DEF Unsent
  <2>2. QED
    BY <2>1 DEF Inboxes
<1>6. Grows /\ inbox' \in [Notifications -> Inboxes] /\ inbox'[n] # Unsent
  BY <1>1, <1>4, <1>5 DEF Grows
<1>7. \E kind \in {"received", "updated", "seen", "hidden", "deleted"} :
        Push(kind, n) /\ (kind = "updated" => n \in SecondGeneration)
  BY DEF Arrives, SeenElsewhere, Revised, HiddenElsewhere
<1>8. pushed' \in Seq(MirrorFrames) /\ FramesFit'
  BY <1>1, <1>6, <1>7, PushFits
<1>9. QED
  BY <1>1, <1>6, <1>8, OutsideKeeps

LEMMA NetworkKeeps ==
  ASSUME MirrorInv, ConnectionLost \/ Connected \/ SessionEnds \/ Shutdown PROVE MirrorInv'
<1>1. UNCHANGED <<inbox, rows, fetching>> /\ (pushed' = pushed \/ pushed' = <<>>)
  BY DEF ConnectionLost, Connected, SessionEnds, Shutdown, outside
<1>2. Grows /\ inbox' \in [Notifications -> Inboxes]
  BY <1>1 DEF Grows, MirrorInv, MirrorTyped
<1>3. pushed' \in Seq(MirrorFrames) /\ FramesFit'
  <2>1. CASE pushed' = <<>>
    BY <2>1 DEF FramesFit
  <2>2. CASE pushed' = pushed
    BY <1>1, <2>2 DEF MirrorInv, MirrorTyped, FramesFit
  <2>3. QED
    BY <1>1, <2>1, <2>2
<1>4. QED
  BY <1>1, <1>2, <1>3, OutsideKeeps

LEMMA MirrorStep == MirrorInv /\ [MirrorNext]_mirrorVars => MirrorInv'
<1> SUFFICES ASSUME MirrorInv, [MirrorNext]_mirrorVars PROVE MirrorInv'
  OBVIOUS
<1>1. CASE UNCHANGED mirrorVars
  <2>1. UNCHANGED <<inbox, pushed, rows, fetching>>
    BY <1>1 DEF mirrorVars, outside
  <2>2. rows \in [Notifications -> Items \cup {NoRow}] /\ DOMAIN fetching = Fetches
        /\ \A n \in Notifications : rows[n] # NoRow => FitsInbox(n, rows[n])
    BY DEF MirrorInv, MirrorTyped, NothingInvented
  <2>3. QED
    BY <2>1, <2>2, AskedKeeps
<1>2. CASE MirrorNext
  BY <1>2, VRChatKeeps, NetworkKeeps, RefreshKeeps, FrameHandledKeeps, UserMarksSeenKeeps,
     PageServedKeeps, PageWrittenKeeps DEF MirrorNext
<1>3. QED
  BY <1>1, <1>2

LEMMA MirrorStart == MirrorInit => MirrorInv
<1> SUFFICES ASSUME MirrorInit PROVE MirrorInv
  OBVIOUS
<1>1. MirrorTyped
  BY DEF MirrorInit, MirrorTyped, Inboxes
<1>2. FramesFit
  BY DEF MirrorInit, FramesFit
<1>3. PagesFit
  BY DEF MirrorInit, PagesFit, Resting
<1>4. NothingInvented
  BY DEF MirrorInit, NothingInvented
<1>5. QED
  BY <1>1, <1>2, <1>3, <1>4 DEF MirrorInv

(* However frames, two refreshes and the user's marks are interleaved, a   *)
(* row is of a notification that VRChat has sent and never ahead of it;    *)
(* only a notification of the second generation is ever shown with no text *)
(* or no type (notification-sink.ts:101).                                  *)
THEOREM NothingIsInvented == MirrorSpec => []NothingInvented
<1>1. MirrorInv => NothingInvented
  BY DEF MirrorInv
<1>2. QED
  BY <1>1, MirrorStart, MirrorStep, PTL DEF MirrorSpec
=============================================================================
