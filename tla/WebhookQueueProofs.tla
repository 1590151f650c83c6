-------------------------- MODULE WebhookQueueProofs --------------------------
(***************************************************************************)
(* What is true of the webhook queue for any webhooks, events and limits:  *)
(* the safety invariants that the run checks, the two properties of its    *)
(* steps, and that it implements WebhookFeed.  Liveness stays with TLC.    *)
(***************************************************************************)
EXTENDS WebhookQueue, TLAPS

\* A webhook that is not registered, or not any more, has no rows.
GoneIsEmpty == \A h \in Hooks : ~Exists(h) => \A e \in Events : status[h][e] = "none"

\* Every row is of an event that has been emitted: a new row is newer than all others.
RowsAreOld == \A h \in Hooks : \A e \in Events : status[h][e] # "none" => e <= published

\* The threshold, also of the webhook that is about to be registered.
BelowThreshold ==
  \A h \in Hooks : hook[h] \in {"new", "live"} => dead[h] < MaxDeadBeforeDisable

\* The row of an attempt is the head of line.
HeadsAreSent ==
  \A h \in Hooks : sending[h] # 0 =>
    \/ hook[h] = "removed"
    \/ status[h][sending[h]] = "pending"
       /\ \A x \in Events : status[h][x] = "pending" => sending[h] <= x

\* What a receiver has processed is no newer than what may still be sent to it.
NothingOldIsOwed ==
  \A h \in Hooks : /\ last[h] <= published /\ sending[h] <= published
                   /\ \A e \in Events : status[h][e] = "pending" => last[h] <= e
                   /\ sending[h] # 0 => last[h] <= sending[h]

IInv == TypeOK /\ GoneIsEmpty /\ RowsAreOld /\ BelowThreshold /\ HeadsAreSent /\ NothingOldIsOwed

USE EventBound, AttemptsPositive, ThresholdPositive, BatchPositive, CrashBound

\* The scan takes a row that is pending, and nothing pending is older.
LEMMA HeadOfIsHead ==
  ASSUME NEW h \in DueHooks
  PROVE  /\ HeadOf(h) \in Events /\ status[h][HeadOf(h)] = "pending"
         /\ \A x \in Events : status[h][x] = "pending" => HeadOf(h) <= x
  <1>1. \E e \in Events : IsHead(h, e)
    BY DEF DueHooks
  <1>2. IsHead(h, HeadOf(h)) /\ HeadOf(h) \in Events
    BY <1>1 DEF HeadOf
  <1> QED
    BY <1>2 DEF IsHead, Pending

LEMMA InitIsIInv == Init => IInv
  BY DEF Init, IInv, TypeOK, GoneIsEmpty, RowsAreOld, BelowThreshold, HeadsAreSent, NothingOldIsOwed, HookStates,
         RowStates, Events, InFlight

LEMMA RegisterStep == ASSUME IInv, NEW h \in Hooks, Register(h) PROVE IInv'
  <1>1. TypeOK'
    BY DEF IInv, TypeOK, Register, Reload, HookStates, InFlight
  <1>2. GoneIsEmpty' /\ RowsAreOld' /\ BelowThreshold' /\ HeadsAreSent' /\ NothingOldIsOwed'
    BY DEF IInv, TypeOK, GoneIsEmpty, Exists, RowsAreOld, BelowThreshold, HeadsAreSent, NothingOldIsOwed, Register
  <1> QED
    BY <1>1, <1>2 DEF IInv

LEMMA DisableStep == ASSUME IInv, NEW h \in Hooks, Disable(h) PROVE IInv'
  <1>1. TypeOK'
    BY DEF IInv, TypeOK, Disable, Reload, HookStates, InFlight
  <1>2. GoneIsEmpty' /\ RowsAreOld' /\ BelowThreshold' /\ HeadsAreSent' /\ NothingOldIsOwed'
    BY DEF IInv, TypeOK, GoneIsEmpty, Exists, RowsAreOld, BelowThreshold, HeadsAreSent, NothingOldIsOwed, Disable
  <1> QED
    BY <1>1, <1>2 DEF IInv

LEMMA DeleteRowStep ==
  ASSUME IInv, NEW h \in Hooks, DeleteRow(h), live' \subseteq Hooks PROVE IInv'
  <1>1. TypeOK'
    BY DEF IInv, TypeOK, DeleteRow, HookStates, RowStates, InFlight
  <1>2. GoneIsEmpty' /\ RowsAreOld' /\ BelowThreshold' /\ HeadsAreSent' /\ NothingOldIsOwed'
    BY DEF IInv, TypeOK, GoneIsEmpty, Exists, RowsAreOld, BelowThreshold, HeadsAreSent, NothingOldIsOwed, DeleteRow, Exists
  <1> QED
    BY <1>1, <1>2 DEF IInv

LEMMA OnEventStep == ASSUME IInv, OnEvent PROVE IInv'
  <1>1. PICK enqueued \in SUBSET Hooks :
          /\ \A h \in enqueued : Exists(h)
          /\ status' = [h \in Hooks |-> IF h \in enqueued
                                        THEN [status[h] EXCEPT ![published + 1] = "pending"]
                                        ELSE status[h]]
          /\ due' = [h \in Hooks |-> IF h \in enqueued
                                     THEN [due[h] EXCEPT ![published + 1] = TRUE]
                                     ELSE due[h]]
    BY DEF OnEvent, IInv, TypeOK
  <1>2. published + 1 \in Events /\ published' = published + 1
    BY DEF OnEvent, IInv, TypeOK, Events
  <1>3. status' \in [Hooks -> [Events -> RowStates]]
    BY <1>1, <1>2 DEF IInv, TypeOK, RowStates
  <1>4. due' \in [Hooks -> [Events -> BOOLEAN]]
    BY <1>1, <1>2 DEF IInv, TypeOK
  <1>5. TypeOK'
    BY <1>2, <1>3, <1>4 DEF IInv, TypeOK, OnEvent, memory, Events, InFlight
  <1>6. GoneIsEmpty'
    BY <1>1, <1>2 DEF IInv, TypeOK, GoneIsEmpty, OnEvent, Exists
  <1>7. RowsAreOld'
    BY <1>1, <1>2 DEF IInv, TypeOK, RowsAreOld, Events
  <1>8. BelowThreshold'
    BY DEF IInv, BelowThreshold, OnEvent
  <1>9. HeadsAreSent'
    BY <1>1, <1>2, SMTT(30) DEF IInv, TypeOK, HeadsAreSent, RowsAreOld, OnEvent, memory, Events
  <1>10. NothingOldIsOwed'
    <2>1. UNCHANGED <<last, sending>> /\ published \in Nat
      BY DEF OnEvent, memory, IInv, TypeOK
    <2>2. \A h \in Hooks : last[h] \in Nat /\ sending[h] \in Nat
      BY DEF IInv, TypeOK
    <2>3. \A h \in Hooks : \A e \in Events :
            status'[h][e] = "pending" => e = published + 1 \/ status[h][e] = "pending"
      BY <1>1, <1>2 DEF IInv, TypeOK
    <2> QED
      BY <1>2, <2>1, <2>2, <2>3 DEF IInv, NothingOldIsOwed
  <1> QED
    BY <1>5, <1>6, <1>7, <1>8, <1>9, <1>10 DEF IInv

\* The rows that a scan takes: those it refuses are settled, the others are sent.
LEMMA TickStep == ASSUME IInv, Tick PROVE IInv'
  <1>1. PICK taken \in SUBSET (DueHooks \ InFlight) :
          LET refused == Refused(taken)
          IN  /\ status' = [h \in Hooks |-> IF h \in refused
                                            THEN [status[h] EXCEPT ![HeadOf(h)] = "dead"]
                                            ELSE status[h]]
              /\ attempts' = [h \in Hooks |-> IF h \in refused
                                              THEN [attempts[h] EXCEPT ![HeadOf(h)] = 0]
                                              ELSE attempts[h]]
              /\ due' = [h \in Hooks |-> IF h \in refused
                                         THEN [due[h] EXCEPT ![HeadOf(h)] = FALSE]
                                         ELSE due[h]]
              /\ sending' = [h \in Hooks |-> IF h \in taken \ refused THEN HeadOf(h) ELSE sending[h]]
              /\ arrived' = [h \in Hooks |-> IF h \in taken \ refused THEN FALSE ELSE arrived[h]]
    BY DEF Tick
  <1> DEFINE refused == Refused(taken)
  <1>2. /\ refused \subseteq taken
        /\ \A h \in taken : /\ h \in Hooks /\ sending[h] = 0
                            /\ HeadOf(h) \in Events /\ status[h][HeadOf(h)] = "pending"
                            /\ \A x \in Events : status[h][x] = "pending" => HeadOf(h) <= x
    BY HeadOfIsHead DEF Refused, DueHooks, InFlight
  <1> HIDE DEF refused
  <1>3. /\ status' \in [Hooks -> [Events -> RowStates]]
        /\ attempts' \in [Hooks -> [Events -> 0 .. (MaxAttempts - 1)]]
    BY <1>1, <1>2 DEF IInv, TypeOK, RowStates, refused
  <1>4. /\ due' \in [Hooks -> [Events -> BOOLEAN]]
        /\ arrived' \in [Hooks -> BOOLEAN]
    BY <1>1, <1>2 DEF IInv, TypeOK, refused
  <1>5. sending' \in [Hooks -> 0 .. MaxEvents]
    BY <1>1, <1>2 DEF IInv, TypeOK, refused, Events
  <1>6. TypeOK'
    BY <1>3, <1>4, <1>5 DEF IInv, TypeOK, Tick
  <1>7. /\ UNCHANGED <<hook, dead, published>>
        /\ \A h \in Hooks : \A e \in Events :
             status'[h][e] = status[h][e] \/ (status[h][e] = "pending" /\ status'[h][e] = "dead")
    <2>1. UNCHANGED <<hook, dead, published>>
      BY DEF Tick
    <2>2. status \in [Hooks -> [Events -> RowStates]]
      BY DEF IInv, TypeOK
    <2>3. \A h \in refused : h \in taken
      BY <1>2
    <2> QED
      BY <1>1, <1>2, <2>1, <2>2, <2>3 DEF refused
  <1>8. GoneIsEmpty' /\ RowsAreOld' /\ BelowThreshold'
    BY <1>7 DEF IInv, GoneIsEmpty, Exists, RowsAreOld, BelowThreshold
  <1>9. HeadsAreSent'
    BY <1>1, <1>2, <1>7 DEF IInv, TypeOK, HeadsAreSent, Events, refused
  <1>10. NothingOldIsOwed'
    <2>1. last' = last
      BY DEF Tick
    <2> QED
      BY <2>1, <1>1, <1>2, <1>7 DEF IInv, TypeOK, NothingOldIsOwed, RowsAreOld, Events, refused
  <1> QED
    BY <1>6, <1>8, <1>9, <1>10 DEF IInv

LEMMA ArrivesStep == ASSUME IInv, NEW h \in Hooks, Arrives(h) PROVE IInv'
  <1>1. TypeOK'
    BY DEF IInv, TypeOK, Arrives, store, InFlight
  <1>2. GoneIsEmpty' /\ RowsAreOld' /\ BelowThreshold' /\ HeadsAreSent'
    BY DEF IInv, TypeOK, GoneIsEmpty, Exists, RowsAreOld, BelowThreshold, HeadsAreSent, Arrives, store, InFlight
  <1>3. /\ UNCHANGED <<hook, status, sending, published>>
        /\ sending[h] # 0 /\ last' = [last EXCEPT ![h] = sending[h]]
    BY DEF Arrives, store
  <1>4. sending[h] <= published /\ \A e \in Events : status[h][e] = "pending" => sending[h] <= e
    BY <1>3 DEF IInv, TypeOK, HeadsAreSent, GoneIsEmpty, Exists, NothingOldIsOwed, Events
  <1>5. NothingOldIsOwed'
    BY <1>3, <1>4 DEF IInv, TypeOK, NothingOldIsOwed
  <1> QED
    BY <1>1, <1>2, <1>5 DEF IInv

\* An attempt of h ends, its row with an outcome or as it was.
LEMMA AttemptEndsStep ==
  ASSUME IInv, NEW h \in Hooks, sending[h] # 0,
         status' \in [Hooks -> [Events -> RowStates]],
         \A g \in Hooks : \A e \in Events :
           status'[g][e] # status[g][e] => g = h /\ status[g][e] = "pending" /\ status'[g][e] # "none",
         attempts' \in [Hooks -> [Events -> 0 .. (MaxAttempts - 1)]],
         due' \in [Hooks -> [Events -> BOOLEAN]],
         hook' \in [Hooks -> HookStates], live' \subseteq Hooks,
         \A g \in Hooks : hook'[g] # hook[g] => hook[g] = "live" /\ hook'[g] = "disabled",
         dead' \in [Hooks -> Nat], BelowThreshold',
         EndAttempt(h), UNCHANGED <<up, scanning, last, published, crashes>>
  PROVE  IInv'
  <1>1. up
    BY DEF IInv, TypeOK, InFlight
  <1>2. sending' \in [Hooks -> 0 .. MaxEvents]
    BY DEF IInv, TypeOK, EndAttempt
  <1>3. arrived' \in [Hooks -> BOOLEAN]
    BY DEF IInv, TypeOK, EndAttempt
  <1>4. TypeOK'
    BY <1>1, <1>2, <1>3 DEF IInv, TypeOK
  <1>5. GoneIsEmpty'
    <2> SUFFICES ASSUME NEW g \in Hooks, ~Exists(g)', NEW e \in Events
                 PROVE  status'[g][e] = "none"
      BY DEF GoneIsEmpty
    <2>1. ~Exists(g)
      BY DEF Exists
    <2>2. status[g][e] = "none"
      BY <2>1 DEF IInv, GoneIsEmpty
    <2> QED
      BY <2>2
  <1>6. RowsAreOld'
    <2> SUFFICES ASSUME NEW g \in Hooks, NEW e \in Events, status'[g][e] # "none"
                 PROVE  e <= published'
      BY DEF RowsAreOld
    <2>1. status[g][e] # "none"
      OBVIOUS
    <2> QED
      BY <2>1 DEF IInv, RowsAreOld
  <1>7. HeadsAreSent'
    <2> SUFFICES ASSUME NEW g \in Hooks, sending'[g] # 0, hook'[g] # "removed"
                 PROVE  /\ status'[g][sending'[g]] = "pending"
                        /\ \A x \in Events : status'[g][x] = "pending" => sending'[g] <= x
      BY DEF HeadsAreSent
    <2>1. g # h /\ sending'[g] = sending[g] /\ sending[g] \in Events
      BY DEF IInv, TypeOK, EndAttempt, Events
    <2>2. hook[g] # "removed"
      OBVIOUS
    <2>3. \A e \in Events : status'[g][e] = status[g][e]
      BY <2>1
    <2>4. /\ status[g][sending[g]] = "pending"
          /\ \A x \in Events : status[g][x] = "pending" => sending[g] <= x
      BY <2>1, <2>2 DEF IInv, HeadsAreSent
    <2> QED
      BY <2>1, <2>3, <2>4
  <1>8. NothingOldIsOwed'
    <2> SUFFICES ASSUME NEW g \in Hooks
                 PROVE  /\ last'[g] <= published' /\ sending'[g] <= published'
                        /\ \A e \in Events : status'[g][e] = "pending" => last'[g] <= e
                        /\ sending'[g] # 0 => last'[g] <= sending'[g]
      BY DEF NothingOldIsOwed
    <2>1. /\ last[g] <= published /\ sending[g] <= published
          /\ \A e \in Events : status[g][e] = "pending" => last[g] <= e
          /\ sending[g] # 0 => last[g] <= sending[g]
      BY DEF IInv, NothingOldIsOwed
    <2>2. \A e \in Events : status'[g][e] = "pending" => status[g][e] = "pending"
      OBVIOUS
    <2>3. last'[g] = last[g] /\ published' = published /\ sending'[g] \in {0, sending[g]}
      BY DEF IInv, TypeOK, EndAttempt
    <2>4. published \in Nat
      BY DEF IInv, TypeOK
    <2> QED
      BY <2>1, <2>2, <2>3, <2>4
  <1> QED
    BY <1>4, <1>5, <1>6, <1>7, <1>8 DEF IInv

\* What settling a row changes.
LEMMA SettleRowEffect ==
  ASSUME TypeOK, NEW h \in Hooks, NEW outcome \in {"delivered", "dead"},
         sending[h] # 0, StillPending(h), SettleRow(h, outcome)
  PROVE  /\ status' \in [Hooks -> [Events -> RowStates]]
         /\ \A g \in Hooks : \A e \in Events :
              status'[g][e] # status[g][e] => g = h /\ status[g][e] = "pending" /\ status'[g][e] = outcome
         /\ status[h][sending[h]] = "pending" /\ status'[h][sending[h]] = outcome
         /\ attempts' \in [Hooks -> [Events -> 0 .. (MaxAttempts - 1)]]
         /\ due' \in [Hooks -> [Events -> BOOLEAN]]
         /\ sending[h] \in Events
  <1>1. sending[h] \in Events
    BY DEF TypeOK, Events
  <1> QED
    BY <1>1 DEF TypeOK, SettleRow, StillPending, RowStates

LEMMA DeliveredStep == ASSUME IInv, NEW h \in Hooks, Delivered(h) PROVE IInv'
  <1>0. TypeOK /\ sending[h] # 0
    BY DEF IInv, Delivered
  <1>1. CASE StillPending(h)
    <2>1. SettleRow(h, "delivered") /\ dead' = [dead EXCEPT ![h] = 0] /\ UNCHANGED <<hook, live>>
      BY <1>1 DEF Delivered
    <2>2. dead' \in [Hooks -> Nat] /\ BelowThreshold'
      BY <2>1 DEF IInv, TypeOK, BelowThreshold
    <2>3. /\ hook' \in [Hooks -> HookStates] /\ live' \subseteq Hooks
          /\ EndAttempt(h) /\ UNCHANGED <<up, scanning, last, published, crashes>>
      BY <2>1 DEF Delivered, IInv, TypeOK
    <2>4. /\ status' \in [Hooks -> [Events -> RowStates]]
          /\ \A g \in Hooks : \A e \in Events :
               status'[g][e] # status[g][e] => g = h /\ status[g][e] = "pending" /\ status'[g][e] = "delivered"
          /\ attempts' \in [Hooks -> [Events -> 0 .. (MaxAttempts - 1)]]
          /\ due' \in [Hooks -> [Events -> BOOLEAN]]
      BY <1>0, <1>1, <2>1, SettleRowEffect
    <2> QED
      BY <1>0, <2>1, <2>2, <2>3, <2>4, AttemptEndsStep
  <1>2. CASE ~StillPending(h)
    <2>1. BelowThreshold'
      BY <1>2 DEF IInv, BelowThreshold, Delivered
    <2> QED
      BY <1>0, <1>2, <2>1, AttemptEndsStep DEF Delivered, TypeOK
  <1> QED
    BY <1>1, <1>2

LEMMA RetriesLaterStep == ASSUME IInv, NEW h \in Hooks, RetriesLater(h) PROVE IInv'
  <1>0. TypeOK /\ sending[h] # 0 /\ sending[h] \in Events
    BY SMTT(30) DEF IInv, RetriesLater, TypeOK, Events
  <1>1. attempts' \in [Hooks -> [Events -> 0 .. (MaxAttempts - 1)]]
    <2>1. /\ attempts \in [Hooks -> [Events -> 0 .. (MaxAttempts - 1)]]
          /\ attempts[h][sending[h]] + 1 \in 0 .. (MaxAttempts - 1)
      BY <1>0 DEF RetriesLater, TypeOK
    <2> QED
      BY <1>0, <2>1 DEF RetriesLater
  <1>2. due' \in [Hooks -> [Events -> BOOLEAN]]
    <2>1. due \in [Hooks -> [Events -> BOOLEAN]]
      BY <1>0 DEF TypeOK
    <2>2. CASE UNCHANGED due
      BY <2>1, <2>2
    <2>3. CASE due' = [due EXCEPT ![h][sending[h]] = FALSE]
      <3>1. [due[h] EXCEPT ![sending[h]] = FALSE] \in [Events -> BOOLEAN]
        BY <2>1, <1>0
      <3>2. due' = [due EXCEPT ![h] = [due[h] EXCEPT ![sending[h]] = FALSE]]
        BY <2>3
      <3> QED
        BY <2>1, <3>1, <3>2
    <2> QED
      BY <2>2, <2>3 DEF RetriesLater
  <1>3. BelowThreshold'
    BY DEF IInv, BelowThreshold, RetriesLater
  <1> QED
    BY <1>0, <1>1, <1>2, <1>3, AttemptEndsStep DEF RetriesLater, TypeOK

\* The row that reaches the threshold takes the webhook out of service with it.
LEMMA GivesUpStep == ASSUME IInv, NEW h \in Hooks, GivesUp(h) PROVE IInv'
  <1>0. TypeOK /\ sending[h] # 0
    BY DEF IInv, GivesUp
  <1>1. CASE StillPending(h)
    <2>1. SettleRow(h, "dead") /\ dead' = [dead EXCEPT ![h] = @ + 1] /\ AutoDisable(h)
      BY <1>1 DEF GivesUp
    <2>2. Exists(h)
      BY <1>0, <1>1, <2>1, SettleRowEffect DEF IInv, GoneIsEmpty
    <2>3. /\ hook' \in [Hooks -> HookStates] /\ live' \subseteq Hooks
          /\ \A g \in Hooks : hook'[g] # hook[g] => hook[g] = "live" /\ hook'[g] = "disabled"
      BY <2>1 DEF IInv, TypeOK, AutoDisable, Reload, HookStates
    <2>4. dead' \in [Hooks -> Nat] /\ BelowThreshold'
      BY <2>1, <2>2 DEF IInv, TypeOK, BelowThreshold, AutoDisable, Exists
    <2> QED
      BY <1>0, <1>1, <2>1, <2>3, <2>4, SettleRowEffect, AttemptEndsStep DEF GivesUp
  <1>2. CASE ~StillPending(h)
    <2>1. BelowThreshold'
      BY <1>2 DEF IInv, BelowThreshold, GivesUp
    <2> QED
      BY <1>0, <1>2, <2>1, AttemptEndsStep DEF GivesUp, TypeOK
  <1> QED
    BY <1>1, <1>2

LEMMA BackoffElapsesStep == ASSUME IInv, NEW h \in Hooks, BackoffElapses(h) PROVE IInv'
  <1>1. TypeOK'
    BY DEF IInv, TypeOK, BackoffElapses, memory, Pending, InFlight
  <1>2. GoneIsEmpty' /\ RowsAreOld' /\ BelowThreshold' /\ HeadsAreSent' /\ NothingOldIsOwed'
    BY DEF IInv, TypeOK, GoneIsEmpty, Exists, RowsAreOld, BelowThreshold, HeadsAreSent, NothingOldIsOwed, BackoffElapses, memory, Pending, InFlight
  <1> QED
    BY <1>1, <1>2 DEF IInv

LEMMA PruneStep == ASSUME IInv, Prune PROVE IInv'
  <1>1. /\ status' \in [Hooks -> [Events -> RowStates]]
        /\ \A h \in Hooks : \A e \in Events : status'[h][e] \in {"none", status[h][e]}
        /\ \A h \in Hooks : \A e \in Events : status[h][e] = "pending" => status'[h][e] = "pending"
        /\ \A h \in Hooks : \A e \in Events : status'[h][e] = "pending" => status[h][e] = "pending"
    BY DEF IInv, TypeOK, Prune, RowStates
  <1>2. UNCHANGED <<hook, dead, attempts, due, live, sending, arrived, up, scanning, last, published, crashes>>
    BY DEF Prune, memory
  <1>3. TypeOK'
    BY <1>1, <1>2 DEF IInv, TypeOK, InFlight
  <1>4. GoneIsEmpty' /\ RowsAreOld' /\ BelowThreshold' /\ NothingOldIsOwed'
    BY <1>1, <1>2 DEF IInv, GoneIsEmpty, Exists, RowsAreOld, BelowThreshold, NothingOldIsOwed
  <1>5. HeadsAreSent'
    BY <1>1, <1>2 DEF IInv, TypeOK, HeadsAreSent, Events
  <1> QED
    BY <1>3, <1>4, <1>5 DEF IInv

LEMMA StopStep == ASSUME IInv, Stop PROVE IInv'
  <1>1. TypeOK'
    <2>1. scanning' \in BOOLEAN
      BY DEF Stop
    <2>2. crashes' \in 0 .. MaxCrashes
      BY DEF IInv, TypeOK, Stop
    <2> QED
      BY <2>1, <2>2 DEF IInv, TypeOK, Stop, store, InFlight
  <1>2. GoneIsEmpty' /\ RowsAreOld' /\ BelowThreshold' /\ HeadsAreSent' /\ NothingOldIsOwed'
    BY DEF IInv, TypeOK, GoneIsEmpty, Exists, RowsAreOld, BelowThreshold, HeadsAreSent, NothingOldIsOwed, Stop, store
  <1> QED
    BY <1>1, <1>2 DEF IInv

LEMMA ExitStep == ASSUME IInv, Exit PROVE IInv'
  <1>1. TypeOK'
    <2>1. scanning' \in BOOLEAN /\ up' \in BOOLEAN /\ arrived' \in [Hooks -> BOOLEAN]
      BY DEF Exit
    <2>2. crashes' \in 0 .. MaxCrashes
      BY DEF IInv, TypeOK, Exit
    <2>3. sending' \in [Hooks -> 0 .. MaxEvents] /\ live' = {} /\ InFlight' = {}
      BY DEF Exit, InFlight
    <2> QED
      BY <2>1, <2>2, <2>3 DEF IInv, TypeOK, Exit, store
  <1>2. GoneIsEmpty' /\ RowsAreOld' /\ BelowThreshold' /\ HeadsAreSent' /\ NothingOldIsOwed'
    BY DEF IInv, TypeOK, GoneIsEmpty, Exists, RowsAreOld, BelowThreshold, HeadsAreSent, NothingOldIsOwed, Exit, store
  <1> QED
    BY <1>1, <1>2 DEF IInv

LEMMA RestartStep == ASSUME IInv, Restart PROVE IInv'
  <1>1. TypeOK'
    BY DEF IInv, TypeOK, Restart, store, InFlight
  <1>2. GoneIsEmpty' /\ RowsAreOld' /\ BelowThreshold' /\ HeadsAreSent' /\ NothingOldIsOwed'
    BY DEF IInv, TypeOK, GoneIsEmpty, Exists, RowsAreOld, BelowThreshold, HeadsAreSent, NothingOldIsOwed, Restart, store, InFlight
  <1> QED
    BY <1>1, <1>2 DEF IInv

LEMMA StepKeepsIInv == IInv /\ [Next]_vars => IInv'
  <1> SUFFICES ASSUME IInv, [Next]_vars PROVE IInv'
    OBVIOUS
  <1>1. ASSUME NEW h \in Hooks, Register(h) PROVE IInv'
    BY <1>1, RegisterStep
  <1>2. ASSUME NEW h \in Hooks, Disable(h) PROVE IInv'
    BY <1>2, DisableStep
  <1>3. ASSUME NEW h \in Hooks, Remove(h) \/ CascadeFromAccount(h) PROVE IInv'
    BY <1>3, DeleteRowStep DEF Remove, CascadeFromAccount, Reload, IInv, TypeOK
  <1>4. ASSUME NEW h \in Hooks, Arrives(h) PROVE IInv'
    BY <1>4, ArrivesStep
  <1>5. ASSUME NEW h \in Hooks, AttemptEnds(h) PROVE IInv'
    BY <1>5, DeliveredStep, RetriesLaterStep, GivesUpStep DEF AttemptEnds
  <1>6. ASSUME NEW h \in Hooks, BackoffElapses(h) PROVE IInv'
    BY <1>6, BackoffElapsesStep
  <1>7. CASE UNCHANGED vars
    BY <1>7 DEF IInv, TypeOK, GoneIsEmpty, RowsAreOld, BelowThreshold, HeadsAreSent, NothingOldIsOwed, Exists, InFlight,
                vars, store, memory
  <1> QED
    BY <1>1, <1>2, <1>3, <1>4, <1>5, <1>6, <1>7, OnEventStep, TickStep, PruneStep, StopStep,
       ExitStep, RestartStep DEF Next

-----------------------------------------------------------------------------
(* Each step of the queue is, for each webhook, a step of its feed.        *)

FeedStep(h) ==
  \/ Feed!Publish(h) \/ Feed!Arrive(h) \/ Feed!Settle(h)
  \/ Feed!Cancel(h) \/ Feed!ArriveLate(h) \/ Feed!Idle(h)

\* What is owed to h, received by it and promised to it stays as it is.
Untouched(h) ==
  /\ \A e \in Events : status'[h][e] = "pending" <=> status[h][e] = "pending"
  /\ last'[h] = last[h]
  /\ hook'[h] = "removed" <=> hook[h] = "removed"

LEMMA UntouchedIsIdle == ASSUME NEW h \in Hooks, Untouched(h) PROVE FeedStep(h)
  <1>1. Feed!Idle(h)
    BY DEF Untouched, Feed!Idle, Pending
  <1> QED
    BY <1>1 DEF FeedStep

\* The head of line, settled, leaves the rest as it was.
LEMMA HeadSettled ==
  ASSUME NEW h \in Hooks, NEW e \in Events, status[h][e] = "pending",
         \A x \in Events : status[h][x] = "pending" => e <= x,
         \A x \in Events : status'[h][x] = "pending" <=> status[h][x] = "pending" /\ x # e,
         last'[h] = last[h], hook'[h] = "removed" <=> hook[h] = "removed"
  PROVE  FeedStep(h)
  <1>1. Feed!Settle(h)
    BY DEF Feed!Settle, Feed!Oldest, Pending
  <1> QED
    BY <1>1 DEF FeedStep

LEMMA DeleteRowFeeds ==
  ASSUME TypeOK, NEW h \in Hooks, DeleteRow(h), NEW g \in Hooks PROVE FeedStep(g)
  <1>1. CASE g = h
    <2>1. Feed!Cancel(g)
      BY <1>1 DEF DeleteRow, TypeOK, Feed!Cancel, Pending
    <2> QED
      BY <2>1 DEF FeedStep
  <1>2. CASE g # h
    BY <1>2, UntouchedIsIdle DEF DeleteRow, TypeOK, Untouched
  <1> QED
    BY <1>1, <1>2

LEMMA OnEventFeeds == ASSUME IInv, OnEvent, NEW g \in Hooks PROVE FeedStep(g)
  <1>1. PICK enqueued \in SUBSET Hooks :
          /\ \A h \in enqueued : Exists(h)
          /\ status' = [h \in Hooks |-> IF h \in enqueued
                                        THEN [status[h] EXCEPT ![published + 1] = "pending"]
                                        ELSE status[h]]
    BY DEF OnEvent, IInv, TypeOK
  <1>2. published + 1 \in Events /\ UNCHANGED <<hook, last>>
    BY DEF OnEvent, IInv, TypeOK, Events
  <1>3. CASE g \in enqueued
    <2>1. \A x \in Pending(g) : x < published + 1
      BY <1>2 DEF IInv, TypeOK, RowsAreOld, Pending, Events
    <2>2. Pending(g)' = Pending(g) \cup {published + 1}
      BY <1>1, <1>2, <1>3 DEF Pending, IInv, TypeOK
    <2>3. Feed!Publish(g)
      BY <1>1, <1>2, <1>3, <2>1, <2>2 DEF Feed!Publish, Exists
    <2> QED
      BY <2>3 DEF FeedStep
  <1>4. CASE g \notin enqueued
    BY <1>1, <1>2, <1>4, UntouchedIsIdle DEF Untouched
  <1> QED
    BY <1>3, <1>4

LEMMA TickFeeds == ASSUME TypeOK, Tick, NEW g \in Hooks PROVE FeedStep(g)
  <1>1. PICK taken \in SUBSET DueHooks :
          status' = [h \in Hooks |-> IF h \in Refused(taken)
                                     THEN [status[h] EXCEPT ![HeadOf(h)] = "dead"]
                                     ELSE status[h]]
    BY DEF Tick
  <1>2. UNCHANGED <<hook, last>>
    BY DEF Tick
  <1>3. CASE g \in Refused(taken)
    <2>1. g \in DueHooks
      BY <1>3 DEF Refused
    <2>2. /\ HeadOf(g) \in Events /\ status[g][HeadOf(g)] = "pending"
          /\ \A x \in Events : status[g][x] = "pending" => HeadOf(g) <= x
      BY <2>1, HeadOfIsHead
    <2>3. \A x \in Events :
            status'[g][x] = "pending" <=> status[g][x] = "pending" /\ x # HeadOf(g)
      BY <1>1, <1>3, <2>2 DEF TypeOK
    <2> QED
      BY <1>2, <2>2, <2>3, HeadSettled
  <1>4. CASE g \notin Refused(taken)
    BY <1>1, <1>2, <1>4, UntouchedIsIdle DEF Untouched
  <1> QED
    BY <1>3, <1>4

\* A request that arrives carries the oldest event owed, unless the webhook is gone.
LEMMA ArrivesFeeds ==
  ASSUME IInv, NEW h \in Hooks, Arrives(h), NEW g \in Hooks PROVE FeedStep(g)
  <1>1. /\ UNCHANGED <<hook, status>> /\ last' = [last EXCEPT ![h] = sending[h]]
        /\ sending[h] # 0 /\ sending[h] \in Events
    BY DEF Arrives, store, IInv, TypeOK, Events
  <1>2. last \in [Hooks -> 0 .. MaxEvents]
    BY DEF IInv, TypeOK
  <1>3. CASE g = h /\ hook[h] = "removed"
    <2>1. Feed!ArriveLate(g)
      BY <1>1, <1>2, <1>3 DEF Feed!ArriveLate, IInv, NothingOldIsOwed, Pending
    <2> QED
      BY <2>1 DEF FeedStep
  <1>4. CASE g = h /\ hook[h] # "removed"
    <2>1. sending[h] \in Pending(h) /\ \A x \in Pending(h) : sending[h] <= x
      BY <1>1, <1>4 DEF IInv, HeadsAreSent, Pending
    <2>2. Feed!Arrive(g)
      BY <1>1, <1>2, <1>4, <2>1 DEF Feed!Arrive, Feed!Oldest, Pending
    <2> QED
      BY <2>2 DEF FeedStep
  <1>5. CASE g # h
    BY <1>1, <1>2, <1>5, UntouchedIsIdle DEF Untouched
  <1> QED
    BY <1>3, <1>4, <1>5

\* An attempt that settles its row settles the head of line.
LEMMA SettleRowFeeds ==
  ASSUME IInv, NEW h \in Hooks, NEW outcome \in {"delivered", "dead"}, sending[h] # 0,
         StillPending(h), SettleRow(h, outcome), last' = last,
         \A f \in Hooks : hook'[f] = "removed" <=> hook[f] = "removed",
         NEW g \in Hooks
  PROVE  FeedStep(g)
  <1>1. /\ sending[h] \in Events /\ status[h][sending[h]] = "pending"
        /\ status'[h][sending[h]] = outcome
        /\ \A f \in Hooks : \A e \in Events :
             status'[f][e] # status[f][e] => f = h /\ status[f][e] = "pending" /\ status'[f][e] = outcome
    BY SettleRowEffect DEF IInv
  <1>2. CASE g = h
    <2>1. \A x \in Events : status[h][x] = "pending" => sending[h] <= x
      BY <1>1 DEF IInv, GoneIsEmpty, HeadsAreSent, Exists
    <2>2. \A x \in Events :
            status'[h][x] = "pending" <=> status[h][x] = "pending" /\ x # sending[h]
      BY <1>1 DEF IInv, TypeOK, SettleRow
    <2> QED
      BY <1>1, <1>2, <2>1, <2>2, HeadSettled
  <1>3. CASE g # h
    BY <1>1, <1>3, UntouchedIsIdle DEF Untouched
  <1> QED
    BY <1>2, <1>3

LEMMA AttemptEndsFeeds ==
  ASSUME IInv, NEW h \in Hooks, AttemptEnds(h), NEW g \in Hooks PROVE FeedStep(g)
  <1>1. CASE Delivered(h)
    BY <1>1, SettleRowFeeds, UntouchedIsIdle DEF Delivered, Untouched
  <1>2. CASE RetriesLater(h)
    BY <1>2, UntouchedIsIdle DEF RetriesLater, Untouched
  <1>3. CASE GivesUp(h)
    <2>1. \A f \in Hooks : hook'[f] = "removed" <=> hook[f] = "removed"
      BY <1>3 DEF GivesUp, AutoDisable, IInv, TypeOK
    <2> QED
      BY <1>3, <2>1, SettleRowFeeds, UntouchedIsIdle DEF GivesUp, Untouched
  <1> QED
    BY <1>1, <1>2, <1>3 DEF AttemptEnds

LEMMA StepFeeds == IInv /\ [Next]_vars => [Feed!Next]_(Feed!vars)
  <1> SUFFICES ASSUME IInv, [Next]_vars, NEW g \in Hooks PROVE FeedStep(g)
    BY DEF FeedStep, Feed!Next
  <1>0. TypeOK
    BY DEF IInv
  <1>1. ASSUME NEW h \in Hooks, Register(h) \/ Disable(h) PROVE FeedStep(g)
    BY <1>0, <1>1, UntouchedIsIdle DEF Register, Disable, Untouched, TypeOK
  <1>2. ASSUME NEW h \in Hooks, Remove(h) \/ CascadeFromAccount(h) PROVE FeedStep(g)
    BY <1>0, <1>2, DeleteRowFeeds DEF Remove, CascadeFromAccount
  <1>3. ASSUME NEW h \in Hooks, BackoffElapses(h) PROVE FeedStep(g)
    BY <1>3, UntouchedIsIdle DEF BackoffElapses, Untouched
  <1>4. ASSUME Prune PROVE FeedStep(g)
    BY <1>0, <1>4, UntouchedIsIdle DEF Prune, Untouched, TypeOK
  <1>5. ASSUME Stop \/ Exit \/ Restart \/ UNCHANGED vars PROVE FeedStep(g)
    BY <1>5, UntouchedIsIdle DEF Stop, Exit, Restart, vars, store, Untouched
  <1> QED
    BY <1>1, <1>2, <1>3, <1>4, <1>5, TickFeeds, <1>0, OnEventFeeds, ArrivesFeeds, AttemptEndsFeeds DEF Next

LEMMA InitFeeds == Init => Feed!Init
  <1> SUFFICES ASSUME Init PROVE Feed!Init
    OBVIOUS
  <1>1. [h \in Hooks |-> Pending(h)] = [h \in Hooks |-> {}] /\ last = [h \in Hooks |-> 0]
    BY DEF Init, Pending
  <1>2. [h \in Hooks |-> hook[h] # "removed"] = [h \in Hooks |-> TRUE]
    <2>1. \A h \in Hooks : (hook[h] # "removed") = TRUE
      BY DEF Init
    <2> QED
      BY <2>1, Zenon
  <1> QED
    BY <1>1, <1>2 DEF Feed!Init

-----------------------------------------------------------------------------
(* What a step does to the rows that are owed and to the health counters.  *)

\* Every way for a row that is owed to stop being owed, and what counts it.
RowsAndHealth ==
  \A h \in Hooks :
    /\ \A e \in Events : status[h][e] = "pending" =>
         status'[h][e] \in {"pending", "delivered", "dead"} \/ hook'[h] = "removed"
    /\ dead'[h] # dead[h] => \E e \in Events :
         status[h][e] = "pending" /\ status'[h][e] \in {"delivered", "dead"}

LEMMA SettlingCounts ==
  ASSUME TypeOK, NEW h \in Hooks, NEW outcome \in {"delivered", "dead"}, sending[h] # 0,
         StillPending(h), SettleRow(h, outcome),
         \A g \in Hooks : g # h => dead'[g] = dead[g]
  PROVE  RowsAndHealth
  <1>1. /\ sending[h] \in Events /\ status[h][sending[h]] = "pending"
        /\ status'[h][sending[h]] = outcome
        /\ \A g \in Hooks : \A e \in Events :
             status'[g][e] # status[g][e] => g = h /\ status[g][e] = "pending" /\ status'[g][e] = outcome
    BY SettleRowEffect
  <1> QED
    BY <1>1 DEF RowsAndHealth

LEMMA StepCounts == IInv /\ [Next]_vars => RowsAndHealth
  <1> SUFFICES ASSUME IInv, [Next]_vars PROVE RowsAndHealth
    OBVIOUS
  <1>0. TypeOK
    BY DEF IInv
  <1>1. ASSUME UNCHANGED <<status, dead>> PROVE RowsAndHealth
    BY <1>1 DEF RowsAndHealth
  <1>2. ASSUME NEW h \in Hooks, DeleteRow(h) PROVE RowsAndHealth
    BY <1>0, <1>2 DEF DeleteRow, RowsAndHealth, TypeOK
  <1>3. ASSUME NEW h \in Hooks, AttemptEnds(h) PROVE RowsAndHealth
    <2>1. CASE Delivered(h)
      BY <1>0, <1>1, <2>1, SettlingCounts DEF Delivered, TypeOK
    <2>2. CASE RetriesLater(h)
      BY <1>1, <2>2 DEF RetriesLater
    <2>3. CASE GivesUp(h)
      BY <1>0, <1>1, <2>3, SettlingCounts DEF GivesUp, TypeOK
    <2> QED
      BY <1>3, <2>1, <2>2, <2>3 DEF AttemptEnds
  <1>4. ASSUME OnEvent \/ Tick PROVE RowsAndHealth
    <2>1. dead' = dead
      BY <1>4 DEF OnEvent, Tick
    <2>2. \A h \in Hooks : \A e \in Events :
            status[h][e] = "pending" => status'[h][e] \in {"pending", "dead"}
      <3>1. CASE OnEvent
        BY <1>0, <3>1 DEF OnEvent, TypeOK
      <3>2. CASE Tick
        BY <1>0, <3>2 DEF Tick, TypeOK
      <3> QED
        BY <1>4, <3>1, <3>2
    <2> QED
      BY <2>1, <2>2 DEF RowsAndHealth
  <1>5. ASSUME Prune PROVE RowsAndHealth
    BY <1>0, <1>5 DEF Prune, RowsAndHealth, TypeOK
  <1> QED
    BY <1>1, <1>2, <1>3, <1>4, <1>5 DEF Next, Register, Disable, Remove, CascadeFromAccount, Arrives,
       BackoffElapses, Stop, Exit, Restart, vars, store

-----------------------------------------------------------------------------
(* The theorems.                                                           *)

\* IInv holds throughout.
THEOREM QueueInvariant == Spec => []IInv
  BY InitIsIInv, StepKeepsIInv, PTL DEF Spec

\* The row of an attempt is the head of line for as long as the attempt lasts, for any
\* number of webhooks, events, attempts and crashes.
THEOREM OneAttempt == Spec => []OneAttemptPerWebhook
  <1>1. IInv => OneAttemptPerWebhook
    BY DEF IInv, HeadsAreSent, OneAttemptPerWebhook, TypeOK, InFlight, Pending, Events
  <1> QED
    BY <1>1, QueueInvariant, PTL

\* No interleaving of answers leaves a webhook enabled at the threshold.
THEOREM ThresholdDisables == Spec => []BrokenEndpointIsDisabled
  <1>1. IInv => BrokenEndpointIsDisabled
    BY DEF IInv, BelowThreshold, BrokenEndpointIsDisabled
  <1> QED
    BY <1>1, QueueInvariant, PTL

\* Every receiver gets its events in order, one at a time, and nothing that is owed is
\* skipped: the queue implements WebhookFeed, crashes and deletions included.
THEOREM FeedIsKept == Spec => ImplementsFeed
  BY InitFeeds, StepFeeds, QueueInvariant, PTL DEF Spec, ImplementsFeed, Feed!Spec

\* A row that is owed stays owed until it is settled or cancelled with its webhook.
THEOREM OwedIsKept == Spec => OwedIsNotLost
  <1>1. RowsAndHealth => \A h \in Hooks : \A e \in Pending(h) :
          status'[h][e] \in {"pending", "delivered", "dead"} \/ hook'[h] = "removed"
    BY DEF RowsAndHealth, Pending
  <1> QED
    BY <1>1, StepCounts, QueueInvariant, PTL DEF Spec, OwedIsNotLost

\* The health counter of a webhook changes only with a row of it that is settled.
THEOREM HealthIsEarned == Spec => HealthFollowsRows
  <1>1. RowsAndHealth => \A h \in Hooks : dead'[h] # dead[h] =>
          \E e \in Pending(h) : status'[h][e] \in {"delivered", "dead"}
    BY DEF RowsAndHealth, Pending
  <1> QED
    BY <1>1, StepCounts, QueueInvariant, PTL DEF Spec, HealthFollowsRows
=============================================================================
