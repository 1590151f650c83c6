----------------------------- MODULE MCPresence -----------------------------
(***************************************************************************)
(* What the daemon mirrors of VRChat, for TLC: a friend of the friends     *)
(* list and the notifications.  A behaviour is about one of the two.       *)
(***************************************************************************)
EXTENDS Presence, NotificationMirror

CONSTANTS n1, n2, n3

VARIABLE part

mcVars == <<vars, mirrorVars, part>>

\* Two pages of the first generation, and one notification of the second.
MCFirst == <<n1, n2>>

Friends(action) == part = "friends" /\ action /\ UNCHANGED <<mirrorVars, part>>
Mirror(action) == part = "notifications" /\ action /\ UNCHANGED <<vars, part>>

MCInit ==
  /\ part \in {"friends", "notifications"} /\ Init /\ MirrorInit
  /\ part = "friends" \/ truth = "none"

MCSpec ==
  /\ MCInit /\ [][Friends(Next) \/ Mirror(MirrorNext)]_mcVars
  /\ WF_mcVars(Friends(Tick))
  /\ \A k \in Refreshes :
       /\ WF_mcVars(Friends(OnlineHalf(k))) /\ WF_mcVars(Friends(OfflineHalf(k)))
       /\ WF_mcVars(Friends(RefreshEnds(k)))
  /\ WF_mcVars(Mirror(FrameHandled)) /\ WF_mcVars(Mirror(IntervalTicks))
  /\ \A f \in Fetches : WF_mcVars(Mirror(PageServed(f))) /\ WF_mcVars(Mirror(PageWritten(f)))
=============================================================================
