------------------------- MODULE RateLimiterHistory -------------------------
(***************************************************************************)
(* RateLimiter with two histories its code does not keep: how long the     *)
(* server has asked for silence, as far as the limiter means to keep it,   *)
(* and how much of what left each bucket lately was low-priority.          *)
(***************************************************************************)
EXTENDS RateLimiter

VARIABLES
    silence,       \* milliseconds until the last honoured Retry-After has run out
    bulk           \* per bucket, a meter of the low-priority departures

historyVars == <<vars, silence, bulk>>

HistoryInit ==
    /\ Init
    /\ silence = 0
    /\ bulk = [b \in Buckets |-> 0]

(* As in RateContract, but only low-priority requests are metered.         *)
HistoryDepart(c) ==
    /\ Depart(c)
    /\ bulk' = [b \in Buckets |->
                   IF /\ b \in Drawn(call[c].job)
                      /\ call[c].job.priority = "low"
                   THEN bulk[b] + One ELSE bulk[b]]
    /\ UNCHANGED silence

(* How much of a Retry-After the limiter keeps: a header may ask for any   *)
(* time, and one above the ceiling of the backoff is cut to it.            *)
Honoured(retryAfter) ==
    IF retryAfter > MaxBackoff THEN MaxBackoff ELSE retryAfter

HistoryTooMany(c, retryAfter) ==
    /\ TooMany(c, retryAfter)
    /\ silence' = IF Honoured(retryAfter) > silence
                  THEN Honoured(retryAfter) ELSE silence
    /\ UNCHANGED bulk

HistoryTick ==
    /\ Tick
    /\ silence' = IF silence > 0 THEN silence - 1 ELSE 0
    /\ bulk' = [b \in Buckets |->
                   IF bulk[b] > Rate(b) THEN bulk[b] - Rate(b) ELSE 0]

HistoryNext ==
    \/ \E c \in Calls : HistoryDepart(c)
    \/ \E c \in Calls, r \in RetryAfters : HistoryTooMany(c, r)
    \/ HistoryTick
    \/ /\ \/ \E c \in Calls, j \in Jobs : Request(c, j)
          \/ \E c \in Calls : \/ WaitForBreaker(c) \/ WaitForTokens(c)
                              \/ Answered(c) \/ Failed(c) \/ Reauthenticated(c)
          \/ Snapshot
       /\ UNCHANGED <<silence, bulk>>

HistorySpec == HistoryInit /\ [][HistoryNext]_historyVars

FairHistorySpec == HistorySpec /\ Fairness

-----------------------------------------------------------------------------
(* Properties                                                              *)

(* After a 429 nothing leaves, on any account or tier, until every         *)
(* Retry-After received, or maxBackoffMs for one that asks for more, has   *)
(* run out, however the calls that were asleep or in flight at the time    *)
(* interleave.                                                             *)
NothingLeavesInSilence ==
    [][(\E c \in Calls : call[c].stage /= "sent" /\ call'[c].stage = "sent")
          => silence = 0]_historyVars

(* What the reserve is for: in no window do low-priority calls alone take  *)
(* the last Reserve tokens of a bucket, so a normal call that finds it     *)
(* empty has normal calls before it to blame.  (With the type invariant.)  *)
BulkLeavesReserve ==
    /\ TypeOK
    /\ \A b \in Buckets : bulk[b] = 0 \/ bulk[b] + One * Reserve <= Cap(b)
=============================================================================
