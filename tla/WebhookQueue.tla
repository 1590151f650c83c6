---------------------------- MODULE WebhookQueue ----------------------------
(***************************************************************************)
(* Outbound webhooks: webhooks/manager.ts (WebhookManager), delivery.ts    *)
(* and the tables behind them (store/queries.ts, store/retention.ts).      *)
(*                                                                         *)
(* A bus event that matches a webhook becomes a row of a durable queue.  A *)
(* scanner sends, for each webhook, the oldest row that is still pending;  *)
(* the answer arrives later, by when the webhook may have been disabled or *)
(* removed and the process may have died.                                  *)
(*                                                                         *)
(* Simplifications:                                                        *)
(*  - events are numbered in the order the bus emits them, and a row is    *)
(*    known by its webhook and its event; rowids grow in the same order;   *)
(*  - the body, the signature and the statuses are left out: an answer is  *)
(*    good, worth a retry, or final (410, a redirect, the last attempt);   *)
(*  - time is one bit per row, next_attempt_at <= now; attempts of a row   *)
(*    that is settled are forgotten, nothing reads them;                   *)
(*  - attempts is read with the answer and not with the row: no other      *)
(*    attempt of that row can be under way (OneAttemptPerWebhook);         *)
(*  - a request that is aborted does not arrive afterwards.                *)
(***************************************************************************)
EXTENDS Naturals, FiniteSets

CONSTANTS
    Hooks,                 \* webhook ids; each is registered at most once
    MaxEvents,             \* bound: events emitted
    MaxAttempts,           \* maxAttempts
    MaxDeadBeforeDisable,  \* maxDeadBeforeDisable
    BatchSize,             \* batchSize
    MaxCrashes             \* bound: crashes and stops

ASSUME EventBound == MaxEvents \in Nat
ASSUME AttemptsPositive == MaxAttempts \in Nat \ {0}
ASSUME ThresholdPositive == MaxDeadBeforeDisable \in Nat \ {0}
ASSUME BatchPositive == BatchSize \in Nat \ {0}
ASSUME CrashBound == MaxCrashes \in Nat

VARIABLES
    hook,        \* the webhooks row: new, live, disabled, or removed
    dead,        \* its consecutive_dead
    status,      \* each delivery row: none, pending, delivered, dead
    attempts,    \* its attempts
    due,         \* its next_attempt_at <= now
    live,        \* #live, the cached dispatch set
    sending,     \* the event an attempt is under way for, 0 if none
    arrived,     \* the receiver has processed that attempt
    last,        \* the event each receiver processed last
    published,   \* events emitted so far
    up,          \* the process runs
    scanning,    \* #started
    crashes      \* crashes and stops so far

store == <<hook, dead, status, attempts, due>>
memory == <<live, sending, arrived, up, scanning>>
vars == <<store, memory, last, published, crashes>>

Events == 1..MaxEvents
HookStates == {"new", "live", "disabled", "removed"}
RowStates == {"none", "pending", "delivered", "dead"}

Pending(h) == {e \in Events : status[h][e] = "pending"}
Exists(h) == hook[h] \in {"live", "disabled"}

(* Mutant: the oldest row that is due, past one that is backing off.       *)
IsHeadOfTheDue(h, e) ==
    /\ e \in Pending(h) /\ due[h][e]
    /\ \A x \in Pending(h) : due[h][x] => e <= x

(* The head of line: the oldest row that is still pending.                 *)
IsHead(h, e) == e \in Pending(h) /\ \A x \in Pending(h) : e <= x

InFlight == {h \in Hooks : sending[h] /= 0}

Init ==
    /\ hook = [h \in Hooks |-> "new"]
    /\ dead = [h \in Hooks |-> 0]
    /\ status = [h \in Hooks |-> [e \in Events |-> "none"]]
    /\ attempts = [h \in Hooks |-> [e \in Events |-> 0]]
    /\ due = [h \in Hooks |-> [e \in Events |-> FALSE]]
    /\ live = {}
    /\ sending = [h \in Hooks |-> 0]
    /\ arrived = [h \in Hooks |-> FALSE]
    /\ last = [h \in Hooks |-> 0]
    /\ published = 0
    /\ up = TRUE
    /\ scanning = TRUE
    /\ crashes = 0

-----------------------------------------------------------------------------
(* Registrations.                                                          *)

(* reload(): the dispatch set is read back from the store.                 *)
Reload == live' = {h \in Hooks : hook'[h] = "live"}

Register(h) ==
    /\ up
    /\ hook[h] = "new"
    /\ hook' = [hook EXCEPT ![h] = "live"]
    /\ Reload
    /\ UNCHANGED <<dead, status, attempts, due, sending, arrived, up, scanning,
                   last, published, crashes>>

Disable(h) ==
    /\ up
    /\ hook[h] = "live"
    /\ hook' = [hook EXCEPT ![h] = "disabled"]
    /\ Reload
    /\ UNCHANGED <<dead, status, attempts, due, sending, arrived, up, scanning,
                   last, published, crashes>>

(* The row goes, and by cascade everything still queued for it.            *)
DeleteRow(h) ==
    /\ up
    /\ Exists(h)
    /\ hook' = [hook EXCEPT ![h] = "removed"]
    /\ status' = [status EXCEPT ![h] = [e \in Events |-> "none"]]
    /\ due' = [due EXCEPT ![h] = [e \in Events |-> FALSE]]
    /\ attempts' = [attempts EXCEPT ![h] = [e \in Events |-> 0]]
    /\ UNCHANGED <<dead, sending, arrived, up, scanning, last, published,
                   crashes>>

Remove(h) == DeleteRow(h) /\ Reload

(* The account the webhook belonged to is deleted from the store, which    *)
(* the manager is not told of.                                             *)
CascadeFromAccount(h) == DeleteRow(h) /\ UNCHANGED live

-----------------------------------------------------------------------------
(* onEvent: a row for every cached webhook that matches.  A webhook that   *)
(* is in the cache and no longer in the store violates the foreign key;    *)
(* that enqueue is reported, and the others are not affected.              *)
OnEvent ==
    /\ up /\ scanning
    /\ published < MaxEvents
    /\ published' = published + 1
    /\ \E matching \in (SUBSET live) \ {{}} :
          LET enqueued == {h \in matching : Exists(h)}
          IN  /\ status' = [h \in Hooks |->
                     IF h \in enqueued
                     THEN [status[h] EXCEPT ![published + 1] = "pending"]
                     ELSE status[h]]
              /\ due' = [h \in Hooks |->
                     IF h \in enqueued
                     THEN [due[h] EXCEPT ![published + 1] = TRUE]
                     ELSE due[h]]
    /\ UNCHANGED <<hook, dead, attempts, memory, last, crashes>>

(* Mutant: disabled webhooks are left out of the scan.                     *)
DueLiveHooks ==
    {h \in Hooks : hook[h] = "live" /\ \E e \in Events : IsHead(h, e) /\ due[h][e]}

(* The due scan: every webhook whose head of line is due.                  *)
DueHooks == {h \in Hooks : \E e \in Events : IsHead(h, e) /\ due[h][e]}

HeadOf(h) == CHOOSE e \in Events : IsHead(h, e)

(* Those of the webhooks taken that were disabled or removed since.        *)
Refused(taken) == {h \in taken : hook[h] /= "live"}

(* tick(): up to BatchSize due heads, except of webhooks that an attempt   *)
(* is under way for.  The head of a disabled webhook is dead-lettered on   *)
(* the spot; for the others a request goes out.                            *)
Tick ==
    /\ up /\ scanning
    /\ \E batch \in SUBSET DueHooks :
          LET taken == batch \ InFlight
              refused == Refused(taken)
          IN  /\ Cardinality(batch) <= BatchSize
              /\ Cardinality(batch) = BatchSize \/ batch = DueHooks
              /\ taken /= {}
              /\ status' = [h \in Hooks |->
                     IF h \in refused
                     THEN [status[h] EXCEPT ![HeadOf(h)] = "dead"]
                     ELSE status[h]]
              /\ attempts' = [h \in Hooks |->
                     IF h \in refused
                     THEN [attempts[h] EXCEPT ![HeadOf(h)] = 0]
                     ELSE attempts[h]]
              /\ due' = [h \in Hooks |->
                     IF h \in refused
                     THEN [due[h] EXCEPT ![HeadOf(h)] = FALSE]
                     ELSE due[h]]
              /\ sending' = [h \in Hooks |->
                     IF h \in taken \ refused THEN HeadOf(h) ELSE sending[h]]
              /\ arrived' = [h \in Hooks |->
                     IF h \in taken \ refused THEN FALSE ELSE arrived[h]]
    /\ UNCHANGED <<hook, dead, live, up, scanning, last, published, crashes>>

-----------------------------------------------------------------------------
(* An attempt under way.                                                   *)

(* The receiver processes the request.                                     *)
Arrives(h) ==
    /\ sending[h] /= 0
    /\ ~arrived[h]
    /\ arrived' = [arrived EXCEPT ![h] = TRUE]
    /\ last' = [last EXCEPT ![h] = sending[h]]
    /\ UNCHANGED <<store, live, sending, up, scanning, published, crashes>>

EndAttempt(h) ==
    /\ sending' = [sending EXCEPT ![h] = 0]
    /\ arrived' = [arrived EXCEPT ![h] = FALSE]

(* Mutant: the updates are not guarded.                                    *)
StillPendingAssumed(h) == TRUE

(* The terminal updates carry "AND delivered_at IS NULL AND dead_at IS     *)
(* NULL": they do nothing to a row that is settled already or gone.        *)
StillPending(h) == status[h][sending[h]] = "pending"

SettleRow(h, outcome) ==
    /\ status' = [status EXCEPT ![h][sending[h]] = outcome]
    /\ attempts' = [attempts EXCEPT ![h][sending[h]] = 0]
    /\ due' = [due EXCEPT ![h][sending[h]] = FALSE]

(* A 2xx.                                                                  *)
Delivered(h) ==
    /\ sending[h] /= 0
    /\ arrived[h]
    /\ IF StillPending(h)
       THEN /\ SettleRow(h, "delivered")
            /\ dead' = [dead EXCEPT ![h] = 0]
       ELSE UNCHANGED <<status, attempts, due, dead>>
    /\ EndAttempt(h)
    /\ UNCHANGED <<hook, live, up, scanning, last, published, crashes>>

(* A timeout, a refused connection or an error status, with attempts left. *)
RetriesLater(h) ==
    /\ sending[h] /= 0
    /\ attempts[h][sending[h]] + 1 < MaxAttempts
    /\ IF StillPending(h)
       THEN /\ attempts' = [attempts EXCEPT ![h][sending[h]] = @ + 1]
            /\ due' = [due EXCEPT ![h][sending[h]] = FALSE]
       ELSE UNCHANGED <<attempts, due>>
    /\ EndAttempt(h)
    /\ UNCHANGED <<hook, dead, status, live, up, scanning, last, published,
                   crashes>>

(* A webhook that has dead-lettered too many in a row is disabled.         *)
AutoDisable(h) ==
    IF dead'[h] >= MaxDeadBeforeDisable
    THEN hook' = [hook EXCEPT ![h] = IF @ = "live" THEN "disabled" ELSE @] /\ Reload
    ELSE UNCHANGED <<hook, live>>

(* The last attempt failed, or the answer is final.                        *)
GivesUp(h) ==
    /\ sending[h] /= 0
    /\ IF StillPending(h)
       THEN /\ SettleRow(h, "dead")
            /\ dead' = [dead EXCEPT ![h] = @ + 1]
            /\ AutoDisable(h)
       ELSE UNCHANGED <<hook, dead, status, attempts, due, live>>
    /\ EndAttempt(h)
    /\ UNCHANGED <<up, scanning, last, published, crashes>>

(* The backoff of a row is over.                                           *)
BackoffElapses(h) ==
    /\ \E e \in Pending(h) :
          /\ ~due[h][e]
          /\ due' = [due EXCEPT ![h][e] = TRUE]
    /\ UNCHANGED <<hook, dead, status, attempts, memory, last, published,
                   crashes>>

(* Mutant: rows are pruned by their age alone.                             *)
PruneEverything ==
    /\ up
    /\ status' = [h \in Hooks |-> [e \in Events |-> "none"]]
    /\ status' /= status
    /\ UNCHANGED <<hook, dead, attempts, due, memory, last, published, crashes>>

(* Retention: rows that settled long enough ago are deleted.               *)
Prune ==
    /\ up
    /\ status' = [h \in Hooks |-> [e \in Events |->
           IF status[h][e] \in {"delivered", "dead"} THEN "none"
                                                     ELSE status[h][e]]]
    /\ status' /= status
    /\ UNCHANGED <<hook, dead, attempts, due, memory, last, published, crashes>>

-----------------------------------------------------------------------------
(* stop(): the bridge is detached and the loop ends; attempts under way    *)
(* are left to finish.                                                     *)
Stop ==
    /\ up /\ scanning
    /\ crashes < MaxCrashes
    /\ crashes' = crashes + 1
    /\ scanning' = FALSE
    /\ UNCHANGED <<store, live, sending, arrived, up, last, published>>

(* The process exits or dies: memory goes, the tables stay.                *)
Exit ==
    /\ up
    /\ ~scanning \/ crashes < MaxCrashes
    /\ crashes' = (IF scanning THEN crashes + 1 ELSE crashes)
    /\ up' = FALSE
    /\ scanning' = FALSE
    /\ live' = {}
    /\ sending' = [h \in Hooks |-> 0]
    /\ arrived' = [h \in Hooks |-> FALSE]
    /\ UNCHANGED <<store, last, published>>

(* The constructor and start().                                            *)
Restart ==
    /\ ~up
    /\ up' = TRUE
    /\ scanning' = TRUE
    /\ live' = {h \in Hooks : hook[h] = "live"}
    /\ UNCHANGED <<store, sending, arrived, last, published, crashes>>

AttemptEnds(h) == Delivered(h) \/ RetriesLater(h) \/ GivesUp(h)

Next ==
    \/ \E h \in Hooks :
          \/ Register(h) \/ Disable(h) \/ Remove(h) \/ CascadeFromAccount(h)
          \/ Arrives(h) \/ AttemptEnds(h) \/ BackoffElapses(h)
    \/ OnEvent
    \/ Tick
    \/ Prune
    \/ Stop
    \/ Exit
    \/ Restart

Spec == Init /\ [][Next]_vars

(* The scan loop runs and a tick awaits its attempts, an attempt times out,*)
(* a backoff elapses, and a daemon that went down is started again.        *)
Fairness ==
    /\ WF_vars(Tick)
    /\ WF_vars(~scanning /\ Exit)
    /\ WF_vars(Restart)
    /\ \A h \in Hooks : WF_vars(AttemptEnds(h)) /\ WF_vars(BackoffElapses(h))

FairSpec == Spec /\ Fairness

-----------------------------------------------------------------------------
(* Every variable has its type, and only a running process has memory.     *)
TypeOK ==
    /\ hook \in [Hooks -> HookStates]
    /\ dead \in [Hooks -> Nat]
    /\ status \in [Hooks -> [Events -> RowStates]]
    /\ attempts \in [Hooks -> [Events -> 0..(MaxAttempts - 1)]]
    /\ due \in [Hooks -> [Events -> BOOLEAN]]
    /\ live \subseteq Hooks
    /\ sending \in [Hooks -> 0..MaxEvents]
    /\ arrived \in [Hooks -> BOOLEAN]
    /\ last \in [Hooks -> 0..MaxEvents]
    /\ published \in 0..MaxEvents
    /\ up \in BOOLEAN /\ scanning \in BOOLEAN
    /\ crashes \in 0..MaxCrashes
    /\ ~up => live = {} /\ InFlight = {}

(* While an attempt is under way its row is the head of line, unless the   *)
(* webhook was removed meanwhile: nothing newer is sent, and nothing else  *)
(* settles the row.  (With the type invariant.)                            *)
OneAttemptPerWebhook ==
    /\ TypeOK
    /\ \A h \in InFlight :
           \/ hook[h] = "removed"
           \/ sending[h] \in Pending(h) /\ \A x \in Pending(h) : sending[h] <= x

(* "a restart mid-backoff must not silently drop it": whatever happens -   *)
(* crash, stop, prune, a webhook disabled - a row that is owed stays owed  *)
(* until it is delivered, dead-lettered or cancelled with its webhook.     *)
OwedIsNotLost ==
    [][\A h \in Hooks : \A e \in Pending(h) :
           status'[h][e] \in {"pending", "delivered", "dead"}
           \/ hook'[h] = "removed"]_vars

(* A webhook that stays enabled has not reached the threshold, whatever    *)
(* interleaving of answers, and however often the daemon was restarted.    *)
BrokenEndpointIsDisabled ==
    \A h \in Hooks : hook[h] = "live" => dead[h] < MaxDeadBeforeDisable

(* "the health counters are only touched when the delivery row actually    *)
(* transitioned".                                                          *)
HealthFollowsRows ==
    [][\A h \in Hooks : dead'[h] /= dead[h] =>
           \E e \in Pending(h) : status'[h][e] \in {"delivered", "dead"}]_vars

(* The queue gives every receiver the feed it was promised.                *)
Feed == INSTANCE WebhookFeed
        WITH owed <- [h \in Hooks |-> Pending(h)],
             open <- [h \in Hooks |-> hook[h] /= "removed"]
ImplementsFeed == Feed!Spec

(* A promise made is kept: what is owed is settled in the end, also if the *)
(* endpoint is dead, disabled or the daemon restarts.                      *)
EveryRowSettles ==
    \A h \in Hooks : \A e \in Events :
        (status[h][e] = "pending") ~> (status[h][e] /= "pending")
=============================================================================
