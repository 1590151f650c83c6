------------------------- MODULE RateLimiterProofs --------------------------
(***************************************************************************)
(* Proofs about the limiter, for any number of accounts and calls, any     *)
(* rates, bursts, reserve and delays: the buckets are never overdrawn, the *)
(* limiter keeps the rate of every ceiling over every window, low-priority *)
(* calls leave the reserve alone, and nothing leaves before the server's   *)
(* Retry-After has run out.                                                *)
(***************************************************************************)
EXTENDS RateLimiterHistory, FiniteSetTheorems, TLAPS

(***************************************************************************)
(* Rates. What a bucket would hold if it were refilled now is the one      *)
(* thing that matters of it. Refilling it leaves that as it is, a          *)
(* millisecond adds the rate up to the capacity, and a departure takes one *)
(* token. Its distance from the capacity therefore moves exactly as the    *)
(* meter of RateContract. The ages saturate where the bucket is full.      *)
(***************************************************************************)
(* The inductive invariant.                                                *)
BucketsOK ==
    /\ bucket \in [Buckets -> [tokens : Int, age : Int]]
    /\ \A b \in Buckets : /\ 0 <= bucket[b].tokens
                          /\ bucket[b].tokens <= Cap(b)
                          /\ 0 <= bucket[b].age
                          /\ bucket[b].age <= FullAfter(b)

CallRecords ==
    [stage : Stages, job : Jobs \cup {NoJob}, attempt : Int,
     retriedAuth : BOOLEAN, counted : BOOLEAN, left : Int]

JobsOK ==
    /\ call \in [Calls -> CallRecords]
    /\ \A c \in Calls : call[c].stage /= "idle" => call[c].job \in Jobs

IInv == BucketsOK /\ JobsOK /\ breaker \in Int

(* What a bucket holds that had t tokens a milliseconds ago.               *)
Filled(t, a, b) ==
    IF t + a * Rate(b) > Cap(b) THEN Cap(b) ELSE t + a * Rate(b)

-----------------------------------------------------------------------------
(* Arithmetic                                                              *)

LEMMA CapNat ==
    ASSUME NEW b \in Buckets
    PROVE  Cap(b) \in Nat /\ Rate(b) \in Nat \ {0}
<1>1. Burst(b) \in Nat
  BY BurstsAreNaturals DEF Burst
<1>2. Cap(b) \in Nat
  BY <1>1, UnitIsPositive DEF Cap
<1>. QED
  BY <1>2, RatesArePositive DEF Rate

LEMMA CeilDivCovers ==
    ASSUME NEW c \in Nat, NEW r \in Nat \ {0}
    PROVE  CeilDiv(c, r) \in Nat /\ CeilDiv(c, r) * r >= c
BY DEF CeilDiv

LEMMA FilledBounds ==
    ASSUME NEW b \in Buckets, NEW t \in Int, NEW a \in Int,
           0 <= t, t <= Cap(b), 0 <= a
    PROVE  Filled(t, a, b) \in 0..Cap(b)
<1>1. a * Rate(b) \in Nat
  BY CapNat
<1>. QED
  BY <1>1, CapNat DEF Filled

(* A millisecond more adds the rate, up to the capacity.                   *)
LEMMA FilledLater ==
    ASSUME NEW b \in Buckets, NEW t \in Int, NEW a \in Int
    PROVE  Filled(t, a + 1, b) =
             IF Filled(t, a, b) + Rate(b) > Cap(b)
             THEN Cap(b) ELSE Filled(t, a, b) + Rate(b)
<1>1. (a + 1) * Rate(b) = a * Rate(b) + Rate(b)
  BY CapNat
<1>2. a * Rate(b) \in Int
  BY CapNat
<1>. QED
  BY <1>1, <1>2, CapNat DEF Filled

LEMMA FilledInTime ==
    ASSUME NEW b \in Buckets, NEW t \in Int, 0 <= t
    PROVE  Filled(t, FullAfter(b), b) = Cap(b)
<1>1. FullAfter(b) \in Nat /\ FullAfter(b) * Rate(b) >= Cap(b)
  BY CapNat, CeilDivCovers DEF FullAfter
<1>2. FullAfter(b) * Rate(b) \in Int
  BY <1>1, CapNat
<1>. QED
  BY <1>1, <1>2, CapNat DEF Filled

LEMMA FilledNow ==
    ASSUME NEW b \in Buckets, NEW t \in Int, t <= Cap(b)
    PROVE  Filled(t, 0, b) = t
BY CapNat DEF Filled

-----------------------------------------------------------------------------
(* Buckets                                                                 *)

LEMMA AvailableIsFilled ==
    ASSUME BucketsOK, NEW b \in Buckets
    PROVE  /\ Available(b) = Filled(bucket[b].tokens, bucket[b].age, b)
           /\ Available(b) \in 0..Cap(b)
<1>1. Available(b) = Filled(bucket[b].tokens, bucket[b].age, b)
  BY DEF Available, Filled
<1>2. Filled(bucket[b].tokens, bucket[b].age, b) \in 0..Cap(b)
  BY FilledBounds DEF BucketsOK
<1>. QED
  BY <1>1, <1>2

LEMMA FullAfterNat ==
    ASSUME NEW b \in Buckets
    PROVE  FullAfter(b) \in Nat
BY CapNat, CeilDivCovers DEF FullAfter

(* Refilling some of the buckets leaves what each would hold as it is.     *)
LEMMA RefillKeeps ==
    ASSUME BucketsOK, NEW B, bucket' = Refilled(B)
    PROVE  BucketsOK' /\ \A b \in Buckets : Available(b)' = Available(b)
<1>1. \A b \in Buckets : /\ Available(b) \in 0..Cap(b)
                         /\ Cap(b) \in Nat
                         /\ FullAfter(b) \in Nat
  BY AvailableIsFilled, CapNat, FullAfterNat
<1>2. \A b \in Buckets :
        bucket'[b] = IF b \in B THEN [tokens |-> Available(b), age |-> 0]
                                ELSE bucket[b]
  BY DEF Refilled
<1>3. BucketsOK'
  <2>1. bucket' \in [Buckets -> [tokens : Int, age : Int]]
    BY <1>1 DEF BucketsOK, Refilled
  <2>. QED
    BY <1>1, <1>2, <2>1 DEF BucketsOK
<1>4. ASSUME NEW b \in Buckets
      PROVE  Available(b)' = Available(b)
  <2>1. Available(b)' = Filled(bucket'[b].tokens, bucket'[b].age, b)
    BY DEF Available, Filled
  <2>2. CASE b \in B
    <3>0. bucket'[b] = [tokens |-> Available(b), age |-> 0]
      BY <1>2, <2>2
    <3>1. bucket'[b].tokens = Available(b) /\ bucket'[b].age = 0
      BY <3>0
    <3>2. Available(b) \in Int /\ Available(b) <= Cap(b)
      BY <1>1
    <3>3. Filled(Available(b), 0, b) = Available(b)
      BY <3>2, FilledNow
    <3>. QED
      BY <2>1, <3>1, <3>3
  <2>3. CASE b \notin B
    BY <1>2, <2>1, <2>3, AvailableIsFilled
  <2>. QED
    BY <2>2, <2>3
<1>. QED
  BY <1>3, <1>4

(* A departure takes one token of each bucket it is charged to.            *)
LEMMA DepartTakesOne ==
    ASSUME BucketsOK, NEW c \in Calls, Depart(c), call[c].job \in Jobs
    PROVE  /\ BucketsOK'
           /\ \A b \in Buckets :
                Available(b)' = IF b \in Drawn(call[c].job)
                                THEN Available(b) - One ELSE Available(b)
           /\ \A b \in Drawn(call[c].job) : Available(b) >= One
           /\ Drawn(call[c].job) \subseteq Buckets
<1>. DEFINE job == call[c].job
<1>1. Drawn(job) \subseteq Buckets
  BY JobsAreRequests DEF Drawn, Buckets
<1>2. Needed(job) \in Nat /\ Needed(job) >= One
  BY UnitIsPositive, BackoffsAreNaturals DEF Needed
<1>3. \A b \in Buckets : /\ Available(b) \in 0..Cap(b)
                         /\ Cap(b) \in Nat
                         /\ FullAfter(b) \in Nat
  BY AvailableIsFilled, CapNat, FullAfterNat
<1>4. \A b \in Drawn(job) : Available(b) >= One
  BY <1>1, <1>2, <1>3, UnitIsPositive DEF Depart, CanTake
<1>5. \A b \in Buckets :
        bucket'[b] = IF b \in Drawn(job)
                     THEN [tokens |-> Available(b) - One, age |-> 0]
                     ELSE bucket[b]
  BY DEF Depart
<1>6. BucketsOK'
  <2>1. bucket' \in [Buckets -> [tokens : Int, age : Int]]
    BY <1>3, UnitIsPositive DEF BucketsOK, Depart
  <2>. QED
    BY <1>1, <1>3, <1>4, <1>5, <2>1, UnitIsPositive DEF BucketsOK
<1>7. ASSUME NEW b \in Buckets
      PROVE  Available(b)' = IF b \in Drawn(job)
                             THEN Available(b) - One ELSE Available(b)
  <2>1. Available(b)' = Filled(bucket'[b].tokens, bucket'[b].age, b)
    BY DEF Available, Filled
  <2>2. CASE b \in Drawn(job)
    <3>1. Available(b) - One \in Int /\ Available(b) - One <= Cap(b)
      BY <1>3, UnitIsPositive
    <3>0. bucket'[b] = [tokens |-> Available(b) - One, age |-> 0]
      BY <1>5, <2>2
    <3>2. /\ bucket'[b].tokens = Available(b) - One
          /\ bucket'[b].age = 0
      BY <3>0
    <3>3. Filled(Available(b) - One, 0, b) = Available(b) - One
      BY <3>1, FilledNow
    <3>. QED
      BY <2>1, <2>2, <3>2, <3>3
  <2>3. CASE b \notin Drawn(job)
    BY <1>5, <2>1, <2>3, AvailableIsFilled
  <2>. QED
    BY <2>2, <2>3
<1>. QED
  BY <1>1, <1>4, <1>6, <1>7

(* A millisecond fills every bucket by its rate, up to its capacity.       *)
LEMMA TickFills ==
    ASSUME BucketsOK, Tick
    PROVE  /\ BucketsOK'
           /\ \A b \in Buckets :
                Available(b)' = IF Available(b) + Rate(b) > Cap(b)
                                THEN Cap(b) ELSE Available(b) + Rate(b)
<1>1. \A b \in Buckets :
        bucket'[b] = IF bucket[b].age < FullAfter(b)
                     THEN [bucket[b] EXCEPT !.age = bucket[b].age + 1]
                     ELSE bucket[b]
  BY DEF Tick
<1>2. BucketsOK'
  <2>1. bucket' \in [Buckets -> [tokens : Int, age : Int]]
    BY DEF BucketsOK, Tick
  <2>. QED
    BY <1>1, <2>1, FullAfterNat DEF BucketsOK
<1>3. ASSUME NEW b \in Buckets
      PROVE  Available(b)' = IF Available(b) + Rate(b) > Cap(b)
                             THEN Cap(b) ELSE Available(b) + Rate(b)
  <2>. DEFINE t == bucket[b].tokens
              a == bucket[b].age
  <2>1. Available(b)' = Filled(bucket'[b].tokens, bucket'[b].age, b)
    BY DEF Available, Filled
  <2>2. Available(b) = Filled(t, a, b)
    BY AvailableIsFilled
  <2>3. t \in Int /\ a \in Int /\ 0 <= t /\ a <= FullAfter(b)
    BY DEF BucketsOK
  <2>4. CASE a < FullAfter(b)
    <3>1. bucket'[b].tokens = t /\ bucket'[b].age = a + 1
      BY <1>1, <2>4 DEF BucketsOK
    <3>. QED
      BY <2>1, <2>2, <2>3, <3>1, FilledLater
  <2>5. CASE ~(a < FullAfter(b))
    <3>1. a = FullAfter(b)
      BY <2>3, <2>5, FullAfterNat
    <3>2. Filled(t, a, b) = Cap(b)
      BY <2>3, <3>1, FilledInTime
    <3>3. bucket'[b] = bucket[b]
      BY <1>1, <2>5
    <3>. QED
      BY <2>1, <2>2, <3>2, <3>3, CapNat
  <2>. QED
    BY <2>4, <2>5
<1>. QED
  BY <1>2, <1>3

LEMMA SameBuckets ==
    ASSUME BucketsOK, UNCHANGED bucket
    PROVE  BucketsOK' /\ \A b \in Buckets : Available(b)' = Available(b)
BY DEF BucketsOK, Available

-----------------------------------------------------------------------------
(* Calls                                                                   *)

LEMMA OneCallMoves ==
    ASSUME JobsOK, NEW c \in Calls, NEW r \in CallRecords,
           call' = [call EXCEPT ![c] = r],
           r.stage /= "idle" => r.job \in Jobs
    PROVE  JobsOK'
<1>1. call' \in [Calls -> CallRecords]
  BY DEF JobsOK
<1>2. \A d \in Calls : call'[d] = IF d = c THEN r ELSE call[d]
  BY DEF JobsOK
<1>. QED
  BY <1>1, <1>2 DEF JobsOK

(* One field of a call at a time.                                          *)
LEMMA SetStage ==
    ASSUME NEW r \in CallRecords, NEW v \in Stages
    PROVE  /\ [r EXCEPT !.stage = v] \in CallRecords
           /\ [r EXCEPT !.stage = v].job = r.job
BY DEF CallRecords

LEMMA SetAttempt ==
    ASSUME NEW r \in CallRecords, NEW v \in Int
    PROVE  [r EXCEPT !.attempt = v] \in CallRecords
           /\ [r EXCEPT !.attempt = v].job = r.job
BY DEF CallRecords

LEMMA SetLeft ==
    ASSUME NEW r \in CallRecords, NEW v \in Int
    PROVE  [r EXCEPT !.left = v] \in CallRecords
           /\ [r EXCEPT !.left = v].job = r.job
BY DEF CallRecords

LEMMA SetFlags ==
    ASSUME NEW r \in CallRecords, NEW v \in BOOLEAN
    PROVE  /\ [r EXCEPT !.counted = v] \in CallRecords
           /\ [r EXCEPT !.counted = v].job = r.job
           /\ [r EXCEPT !.retriedAuth = v] \in CallRecords
           /\ [r EXCEPT !.retriedAuth = v].job = r.job
BY DEF CallRecords

LEMMA RequestKeepsJobs ==
    ASSUME JobsOK, NEW c \in Calls, NEW j \in Jobs, Request(c, j)
    PROVE  JobsOK'
<1>. DEFINE r == [call[c] EXCEPT !.stage = "turn", !.job = j]
<1>1. r \in CallRecords /\ r.job = j
  BY DEF JobsOK, CallRecords, Stages
<1>2. call' = [call EXCEPT ![c] = r]
  BY DEF Request
<1>. QED
  BY <1>1, <1>2, OneCallMoves

LEMMA EndsKeepsJobs ==
    ASSUME JobsOK, NEW c \in Calls, call' = Ends(c)
    PROVE  JobsOK'
<1>1. Idle \in CallRecords /\ Idle.stage = "idle"
  BY DEF Idle, CallRecords, Stages
<1>2. call' = [call EXCEPT ![c] = Idle]
  BY DEF Ends
<1>. QED
  BY <1>1, <1>2, OneCallMoves

LEMMA AsleepKeepsJobs ==
    ASSUME JobsOK, NEW c \in Calls, NEW ms \in Int, Asleep(c, ms), Eligible(c)
    PROVE  JobsOK'
<1>. DEFINE r == call[c]
            r1 == [r EXCEPT !.stage = "asleep"]
            r2 == [r1 EXCEPT !.left = ms]
            r3 == [r2 EXCEPT !.counted = TRUE]
<1>1. r \in CallRecords /\ r.job \in Jobs
  BY DEF JobsOK, Asleep, Eligible
<1>3. call' = [call EXCEPT ![c] = r3]
  BY DEF Asleep, Eligible
<1>. HIDE DEF r1, r2, r3
<1>4. r1 \in CallRecords /\ r1.job = r.job
  BY <1>1, SetStage DEF r1, Stages
<1>5. r2 \in CallRecords /\ r2.job = r.job
  BY <1>4, SetLeft DEF r2
<1>6. r3 \in CallRecords /\ r3.job = r.job
  BY <1>5, SetFlags DEF r3
<1>. QED
  BY <1>1, <1>3, <1>6, OneCallMoves

LEMMA DepartKeepsJobs ==
    ASSUME JobsOK, NEW c \in Calls, Depart(c)
    PROVE  JobsOK'
<1>. DEFINE r == call[c]
            r1 == [r EXCEPT !.stage = "sent"]
            r2 == [r1 EXCEPT !.left = 0]
            r3 == [r2 EXCEPT !.counted = FALSE]
<1>1. r \in CallRecords /\ r.job \in Jobs
  BY DEF JobsOK, Depart, Eligible
<1>3. call' = [call EXCEPT ![c] = r3]
  BY DEF Depart, Eligible
<1>. HIDE DEF r1, r2, r3
<1>4. r1 \in CallRecords /\ r1.job = r.job
  BY <1>1, SetStage DEF r1, Stages
<1>5. r2 \in CallRecords /\ r2.job = r.job
  BY <1>4, SetLeft DEF r2
<1>6. r3 \in CallRecords /\ r3.job = r.job
  BY <1>5, SetFlags DEF r3
<1>. QED
  BY <1>1, <1>3, <1>6, OneCallMoves

LEMMA ReauthenticatedKeepsJobs ==
    ASSUME JobsOK, NEW c \in Calls, Reauthenticated(c)
    PROVE  JobsOK'
<1>. DEFINE r == call[c]
            r1 == [r EXCEPT !.stage = "turn"]
            r2 == [r1 EXCEPT !.retriedAuth = TRUE]
            r3 == [r2 EXCEPT !.attempt = r.attempt + 1]
<1>1. r \in CallRecords /\ r.job \in Jobs
  BY DEF JobsOK, Reauthenticated
<1>2. r.attempt + 1 \in Int
  BY <1>1 DEF CallRecords
<1>3. call' = [call EXCEPT ![c] = r3]
  BY DEF Reauthenticated
<1>. HIDE DEF r1, r2, r3
<1>4. r1 \in CallRecords /\ r1.job = r.job
  BY <1>1, SetStage DEF r1, Stages
<1>5. r2 \in CallRecords /\ r2.job = r.job
  BY <1>4, SetFlags DEF r2
<1>6. r3 \in CallRecords /\ r3.job = r.job
  BY <1>5, <1>2, SetAttempt DEF r3
<1>. QED
  BY <1>1, <1>3, <1>6, OneCallMoves

LEMMA TooManyKeepsJobs ==
    ASSUME JobsOK, NEW c \in Calls, NEW ra \in RetryAfters, TooMany(c, ra)
    PROVE  JobsOK'
<1>1. CASE ~(call[c].attempt < Max429Retries)
  <2>1. call' = Ends(c)
    BY <1>1 DEF TooMany
  <2>. QED
    BY <2>1, EndsKeepsJobs
<1>2. CASE call[c].attempt < Max429Retries
  <2>. DEFINE r == call[c]
              r1 == [r EXCEPT !.stage = "turn"]
              r2 == [r1 EXCEPT !.attempt = r.attempt + 1]
  <2>1. r \in CallRecords /\ r.job \in Jobs
    BY DEF JobsOK, TooMany
  <2>2. r.attempt + 1 \in Int
    BY <2>1 DEF CallRecords
  <2>3. call' = [call EXCEPT ![c] = r2]
    BY <1>2 DEF TooMany
  <2>. HIDE DEF r1, r2
  <2>4. r1 \in CallRecords /\ r1.job = r.job
    BY <2>1, SetStage DEF r1, Stages
  <2>5. r2 \in CallRecords /\ r2.job = r.job
    BY <2>2, <2>4, SetAttempt DEF r2
  <2>. QED
    BY <2>1, <2>3, <2>5, OneCallMoves
<1>. QED
  BY <1>1, <1>2

LEMMA TickKeepsJobs ==
    ASSUME JobsOK, Tick
    PROVE  JobsOK'
<1>1. \A c \in Calls :
        call'[c] = IF call[c].left > 0
                   THEN [call[c] EXCEPT !.left = call[c].left - 1]
                   ELSE call[c]
  BY DEF Tick
<1>2. call' \in [Calls -> CallRecords]
  BY DEF JobsOK, Tick, CallRecords
<1>3. \A c \in Calls : /\ call'[c].stage = call[c].stage
                       /\ call'[c].job = call[c].job
  BY <1>1 DEF JobsOK, CallRecords
<1>. QED
  BY <1>2, <1>3 DEF JobsOK

-----------------------------------------------------------------------------
(* The inductive invariant                                                 *)

LEMMA WaitIsInt ==
    ASSUME BucketsOK, NEW job \in Jobs
    PROVE  Wait(job) \in Int
<1>1. Needed(job) \in Int
  BY UnitIsPositive, BackoffsAreNaturals DEF Needed
<1>2. ASSUME NEW b \in Buckets
      PROVE  WaitFor(b, Needed(job)) \in Int
  <2>1. Available(b) \in Int /\ Rate(b) \in Nat \ {0}
    BY AvailableIsFilled, CapNat
  <2>. QED
    BY <1>1, <2>1 DEF WaitFor, CeilDiv
<1>3. job.account \in Buckets /\ File \in Buckets /\ Ip \in Buckets
  BY JobsAreRequests DEF Buckets
<1>. QED
  BY <1>2, <1>3 DEF Wait

LEMMA BreakerIsInt ==
    ASSUME breaker \in Int, [Next]_vars
    PROVE  breaker' \in Int
<1>1. ASSUME NEW c \in Calls, NEW r \in RetryAfters, TooMany(c, r)
      PROVE  breaker' \in Int
  <2>1. PICK delay \in Delays(r) : breaker' = BreakerAfter(delay)
    BY <1>1 DEF TooMany
  <2>2. delay \in Int
    BY BackoffsAreNaturals DEF Delays
  <2>. QED
    BY <2>1, <2>2 DEF BreakerAfter
<1>2. CASE Tick
  BY <1>2 DEF Tick
<1>3. CASE UNCHANGED breaker
  BY <1>3
<1>. QED
  BY <1>1, <1>2, <1>3
     DEF Next, vars, Turn, Response, Request, WaitForBreaker, WaitForTokens,
         Depart, Answered, Failed, Reauthenticated, Snapshot

LEMMA InitEstablishes ==
    ASSUME Init
    PROVE  IInv
<1>1. BucketsOK
  BY CapNat, FullAfterNat DEF Init, BucketsOK
<1>2. JobsOK
  <2>1. Idle \in CallRecords /\ Idle.stage = "idle"
    BY DEF Idle, CallRecords, Stages
  <2>. QED
    BY <2>1 DEF Init, JobsOK
<1>3. breaker \in Int
  BY DEF Init
<1>. QED
  BY <1>1, <1>2, <1>3 DEF IInv

(* Each step keeps the invariant, and moves the meter as RateContract does.*)
LEMMA StepKeepsAndMaps ==
    ASSUME IInv, [Next]_vars
    PROVE  IInv' /\ [Contract!Next]_Load
<1>. USE DEF IInv
<1>0. breaker' \in Int
  BY BreakerIsInt
<1>1. ASSUME JobsOK', BucketsOK',
             \A b \in Buckets : Available(b)' = Available(b)
      PROVE  IInv' /\ [Contract!Next]_Load
  <2>1. Load' = Load
    BY <1>1 DEF Load
  <2>. QED
    BY <1>0, <1>1, <2>1
<1>2. ASSUME NEW c \in Calls, NEW j \in Jobs, Request(c, j)
      PROVE  IInv' /\ [Contract!Next]_Load
  <2>1. UNCHANGED bucket
    BY <1>2 DEF Request
  <2>. QED
    BY <1>1, <1>2, <2>1, RequestKeepsJobs, SameBuckets
<1>3. ASSUME NEW c \in Calls, WaitForBreaker(c)
      PROVE  IInv' /\ [Contract!Next]_Load
  <2>1. UNCHANGED bucket /\ Eligible(c) /\ Asleep(c, breaker)
    BY <1>3 DEF WaitForBreaker
  <2>. QED
    BY <1>1, <2>1, AsleepKeepsJobs, SameBuckets
<1>4. ASSUME NEW c \in Calls, WaitForTokens(c)
      PROVE  IInv' /\ [Contract!Next]_Load
  <2>. DEFINE job == call[c].job
  <2>1. /\ bucket' = Refilled(Drawn(job))
        /\ Eligible(c)
        /\ Asleep(c, Wait(job))
    BY <1>4 DEF WaitForTokens
  <2>2. job \in Jobs
    BY <2>1 DEF JobsOK, Eligible
  <2>3. Wait(job) \in Int
    BY <2>2, WaitIsInt
  <2>4. JobsOK'
    BY <2>1, <2>3, AsleepKeepsJobs
  <2>. QED
    BY <1>1, <2>1, <2>4, RefillKeeps
<1>5. ASSUME NEW c \in Calls, Depart(c)
      PROVE  IInv' /\ [Contract!Next]_Load
  <2>. DEFINE job == call[c].job
  <2>1. job \in Jobs
    BY <1>5 DEF JobsOK, Depart, Eligible
  <2>2. JobsOK'
    BY <1>5, DepartKeepsJobs
  <2>3. /\ BucketsOK'
        /\ \A b \in Buckets :
             Available(b)' = IF b \in Drawn(job)
                             THEN Available(b) - One ELSE Available(b)
        /\ \A b \in Drawn(job) : Available(b) >= One
        /\ Drawn(job) \subseteq Buckets
    BY <1>5, <2>1, DepartTakesOne
  <2>4. \A b \in Buckets : Available(b) \in Int /\ Cap(b) \in Int
    BY AvailableIsFilled, CapNat
  <2>5. \A b \in Drawn(job) : Load[b] + One <= Cap(b)
    BY <2>3, <2>4, UnitIsPositive DEF Load
  <2>6. Load' = [b \in Buckets |-> IF b \in Drawn(job)
                                  THEN Load[b] + One ELSE Load[b]]
    BY <2>3, <2>4, UnitIsPositive DEF Load
  <2>7. Contract!Depart(Drawn(job))
    BY <2>3, <2>5, <2>6 DEF Contract!Depart
  <2>. QED
    BY <1>0, <2>1, <2>2, <2>3, <2>7 DEF Contract!Next
<1>6. ASSUME NEW c \in Calls, Response(c)
      PROVE  IInv' /\ [Contract!Next]_Load
  <2>1. UNCHANGED bucket
    BY <1>6 DEF Response, Answered, Failed, Reauthenticated, TooMany
  <2>2. JobsOK'
    <3>1. CASE Answered(c) \/ Failed(c)
      BY <3>1, EndsKeepsJobs DEF Answered, Failed
    <3>2. CASE Reauthenticated(c)
      BY <3>2, ReauthenticatedKeepsJobs
    <3>3. CASE \E r \in RetryAfters : TooMany(c, r)
      BY <3>3, TooManyKeepsJobs
    <3>. QED
      BY <1>6, <3>1, <3>2, <3>3 DEF Response
  <2>. QED
    BY <1>1, <2>1, <2>2, SameBuckets
<1>7. ASSUME Snapshot
      PROVE  IInv' /\ [Contract!Next]_Load
  <2>1. JobsOK'
    BY <1>7 DEF Snapshot, JobsOK
  <2>. QED
    BY <1>1, <1>7, <2>1, RefillKeeps DEF Snapshot
<1>8. ASSUME Tick
      PROVE  IInv' /\ [Contract!Next]_Load
  <2>1. /\ BucketsOK'
        /\ \A b \in Buckets :
             Available(b)' = IF Available(b) + Rate(b) > Cap(b)
                             THEN Cap(b) ELSE Available(b) + Rate(b)
    BY <1>8, TickFills
  <2>2. \A b \in Buckets : /\ Available(b) \in Int /\ Cap(b) \in Int
                           /\ Rate(b) \in Int
    BY AvailableIsFilled, CapNat
  <2>3. Load' = [b \in Buckets |-> IF Load[b] > Rate(b)
                                  THEN Load[b] - Rate(b) ELSE 0]
    BY <2>1, <2>2 DEF Load
  <2>4. Contract!Drain
    BY <2>3 DEF Contract!Drain
  <2>. QED
    BY <1>0, <1>8, <2>1, <2>4, TickKeepsJobs DEF Contract!Next
<1>9. ASSUME UNCHANGED vars
      PROVE  IInv' /\ [Contract!Next]_Load
  <2>1. UNCHANGED bucket /\ JobsOK'
    BY <1>9 DEF vars, JobsOK
  <2>. QED
    BY <1>1, <2>1, SameBuckets
<1>. QED
  BY <1>2, <1>3, <1>4, <1>5, <1>6, <1>7, <1>8, <1>9 DEF Next, Turn

LEMMA Invariance == Spec => []IInv
<1>1. Init => IInv
  BY InitEstablishes
<1>2. IInv /\ [Next]_vars => IInv'
  BY StepKeepsAndMaps
<1>. QED
  BY <1>1, <1>2, PTL DEF Spec

-----------------------------------------------------------------------------
(* Theorems                                                                *)

(* No bucket is ever overdrawn or holds more than its capacity, whatever   *)
(* the interleaving of reserve, snapshot and the clock.                    *)
THEOREM NeverOverdrawn == Spec => []BucketsOK
BY Invariance, PTL DEF IInv

(* In every window of t milliseconds each ceiling lets through at most its *)
(* burst plus t times its rate, for any number of accounts and calls: the  *)
(* limiter implements RateContract.                                        *)
THEOREM RateIsKept == Spec => ImplementsRateContract
<1>1. Init => Contract!Init
  <2>1. ASSUME Init
        PROVE  Load = [b \in Buckets |-> 0]
    <3>1. BucketsOK
      BY <2>1, InitEstablishes DEF IInv
    <3>2. ASSUME NEW b \in Buckets
          PROVE  Available(b) = Cap(b) /\ Cap(b) \in Int
      BY <2>1, FilledNow, CapNat DEF Init, Available
    <3>. QED
      BY <3>2 DEF Load
  <2>. QED
    BY <2>1 DEF Contract!Init
<1>2. IInv /\ [Next]_vars => [Contract!Next]_Load
  BY StepKeepsAndMaps
<1>. QED
  BY <1>1, <1>2, Invariance, PTL DEF Spec, ImplementsRateContract, Contract!Spec

-----------------------------------------------------------------------------
(***************************************************************************)
(* The history. What a bucket holds and what low-priority calls took of it *)
(* lately never exceed its capacity together, and the breaker is never     *)
(* shorter than the silence that was asked for.                            *)
(***************************************************************************)
(* What a call carries along.                                              *)
CallOK(r) ==
    /\ r.attempt \in Nat
    /\ r.attempt <= Max429Retries + 1
    /\ ~r.retriedAuth => r.attempt <= Max429Retries
    /\ r.left \in Nat
    /\ r.counted => r.stage = "asleep"
CallsOK == \A c \in Calls : CallOK(call[c])

(* The gauge of a bucket is the number of the calls that wait for it.      *)
Waiting(b) == {c \in Calls : call[c].counted /\ b \in Drawn(call[c].job)}
GaugeOK ==
    /\ queued \in [Buckets -> Nat]
    /\ \A b \in Buckets : queued[b] = Cardinality(Waiting(b))

(* What low-priority calls took lately is missing from the bucket.         *)
BulkOK ==
    /\ bulk \in [Buckets -> Int]
    /\ \A b \in Buckets :
         /\ 0 <= bulk[b]
         /\ bulk[b] + Available(b) <= Cap(b)
         /\ bulk[b] = 0 \/ bulk[b] + One * Reserve <= Cap(b)

ClocksOK == breaker \in 0..MaxBackoff /\ consecutive \in Nat

HInv == IInv /\ CallsOK /\ GaugeOK /\ BulkOK /\ ClocksOK

-----------------------------------------------------------------------------
(* Records and sets                                                        *)

(* A call that goes to sleep or leaves.                                    *)
LEMMA FieldsOfTurn ==
    ASSUME NEW r \in CallRecords, NEW st, NEW l, NEW k
    PROVE  LET n == [r EXCEPT !.stage = st, !.left = l, !.counted = k]
           IN  /\ n.stage = st /\ n.left = l /\ n.counted = k
               /\ n.attempt = r.attempt /\ n.retriedAuth = r.retriedAuth
               /\ n.job = r.job
BY DEF CallRecords

LEMMA IdleIsOK == CallOK(Idle) /\ ~Idle.counted
BY BackoffsAreNaturals DEF CallOK, Idle

LEMMA PowerIsInt == ASSUME NEW n \in Nat PROVE 2 ^ n \in Int
OBVIOUS

LEMMA WaitingIsFinite ==
    ASSUME NEW b
    PROVE  IsFiniteSet(Waiting(b)) /\ Cardinality(Waiting(b)) \in 0..Cardinality(Calls)
<1>1. Waiting(b) \subseteq Calls
  BY DEF Waiting
<1>. QED
  BY <1>1, CallsAreFinite, FS_Subset, FS_CardinalityType

(* Whoever waits, waits for the same: the gauge stays.                     *)
LEMMA SameWaiters ==
    ASSUME GaugeOK, queued' = queued,
           \A d \in Calls : \/ ~call[d].counted /\ ~call'[d].counted
                            \/ call'[d].counted = call[d].counted /\ call'[d].job = call[d].job
    PROVE  GaugeOK'
<1>1. ASSUME NEW b PROVE Waiting(b)' = Waiting(b)
  BY DEF Waiting
<1>. QED
  BY <1>1 DEF GaugeOK

(* A call is counted once, at its first sleep.                             *)
LEMMA EnteringCounts ==
    ASSUME GaugeOK, NEW c \in Calls, EnterQueue(c), call'[c].counted, call[c].counted \in BOOLEAN,
           call'[c].job = call[c].job, \A d \in Calls \ {c} : call'[d] = call[d]
    PROVE  GaugeOK'
<1>1. CASE call[c].counted
  <2>1. queued' = queued
    BY <1>1 DEF EnterQueue, GaugeOK
  <2>2. \A d \in Calls : call'[d].counted = call[d].counted /\ call'[d].job = call[d].job
    BY <1>1
  <2>. QED
    BY <2>1, <2>2, SameWaiters
<1>2. CASE ~call[c].counted
  <2>1. ASSUME NEW b \in Buckets
        PROVE  queued'[b] = Cardinality(Waiting(b)') /\ queued'[b] \in Nat
    <3>1. CASE b \in Drawn(call[c].job)
      <4>1. Waiting(b)' = Waiting(b) \cup {c} /\ c \notin Waiting(b)
        BY <1>2, <3>1 DEF Waiting
      <4>2. Cardinality(Waiting(b)') = Cardinality(Waiting(b)) + 1
        BY <4>1, WaitingIsFinite, FS_AddElement
      <4>3. queued'[b] = queued[b] + 1
        BY <1>2, <3>1 DEF EnterQueue
      <4>. QED
        BY <4>2, <4>3 DEF GaugeOK
    <3>2. CASE b \notin Drawn(call[c].job)
      <4>1. Waiting(b)' = Waiting(b)
        BY <3>2 DEF Waiting
      <4>2. queued'[b] = queued[b]
        BY <3>2 DEF EnterQueue
      <4>. QED
        BY <4>1, <4>2 DEF GaugeOK
    <3>. QED
      BY <3>1, <3>2
  <2>2. queued' \in [Buckets -> Nat]
    BY <2>1 DEF EnterQueue
  <2>. QED
    BY <2>1, <2>2 DEF GaugeOK
<1>. QED
  BY <1>1, <1>2

(* And uncounted once, when it leaves.                                     *)
LEMMA LeavingUncounts ==
    ASSUME GaugeOK, NEW c \in Calls, LeaveQueue(c), call'[c].counted = FALSE, call[c].counted \in BOOLEAN,
           \A d \in Calls \ {c} : call'[d] = call[d]
    PROVE  GaugeOK'
<1>1. CASE ~call[c].counted
  <2>1. queued' = queued
    BY <1>1 DEF LeaveQueue, GaugeOK
  <2>2. \A d \in Calls : \/ ~call[d].counted /\ ~call'[d].counted
                         \/ call'[d].counted = call[d].counted /\ call'[d].job = call[d].job
    BY <1>1
  <2>. QED
    BY <2>1, <2>2, SameWaiters
<1>2. CASE call[c].counted
  <2>1. ASSUME NEW b \in Buckets
        PROVE  queued'[b] = Cardinality(Waiting(b)') /\ queued'[b] \in Nat
    <3>1. CASE b \in Drawn(call[c].job)
      <4>1. Waiting(b)' = Waiting(b) \ {c} /\ c \in Waiting(b)
        BY <1>2, <3>1 DEF Waiting
      <4>2. Cardinality(Waiting(b)') = Cardinality(Waiting(b)) - 1
        BY <4>1, WaitingIsFinite, FS_RemoveElement
      <4>3. Cardinality(Waiting(b)') \in Nat
        BY <4>1, WaitingIsFinite, FS_RemoveElement, FS_CardinalityType
      <4>4. queued[b] = Cardinality(Waiting(b)) /\ queued[b] \in Nat
        BY DEF GaugeOK
      <4>5. queued[b] > 0
        BY <4>2, <4>3, <4>4
      <4>6. queued'[b] = queued[b] - 1
        BY <1>2, <3>1, <4>5 DEF LeaveQueue
      <4>. QED
        BY <4>2, <4>3, <4>4, <4>6
    <3>2. CASE b \notin Drawn(call[c].job)
      <4>1. Waiting(b)' = Waiting(b)
        BY <3>2 DEF Waiting
      <4>2. queued'[b] = queued[b]
        BY <3>2 DEF LeaveQueue
      <4>. QED
        BY <4>1, <4>2 DEF GaugeOK
    <3>. QED
      BY <3>1, <3>2
  <2>2. queued' \in [Buckets -> Nat]
    BY <2>1 DEF LeaveQueue
  <2>. QED
    BY <2>1, <2>2 DEF GaugeOK
<1>. QED
  BY <1>1, <1>2

-----------------------------------------------------------------------------
(* Calls and the gauge, action by action                                   *)

LEMMA OthersStay ==
    ASSUME JobsOK, NEW c \in Calls, NEW r, call' = [call EXCEPT ![c] = r]
    PROVE  call'[c] = r /\ \A d \in Calls \ {c} : call'[d] = call[d]
BY DEF JobsOK

LEMMA WaitIsNat ==
    ASSUME BucketsOK, NEW job \in Jobs
    PROVE  Wait(job) \in Nat
<1>1. Needed(job) \in Nat
  BY UnitIsPositive, BackoffsAreNaturals DEF Needed
<1>2. ASSUME NEW b \in Buckets
      PROVE  WaitFor(b, Needed(job)) \in Nat
  <2>1. Available(b) \in Nat /\ Rate(b) \in Nat \ {0}
    BY AvailableIsFilled, CapNat
  <2>. QED
    BY <1>1, <2>1 DEF WaitFor, CeilDiv
<1>3. job.account \in Buckets /\ File \in Buckets /\ Ip \in Buckets
  BY JobsAreRequests DEF Buckets
<1>. QED
  BY <1>2, <1>3 DEF Wait

LEMMA SleepKeepsCalls ==
    ASSUME JobsOK, CallsOK, GaugeOK, NEW c \in Calls, NEW ms \in Nat,
           Eligible(c), EnterQueue(c), Asleep(c, ms)
    PROVE  CallsOK' /\ GaugeOK'
<1>. DEFINE r == [call[c] EXCEPT !.stage = "asleep", !.left = ms, !.counted = TRUE]
<1>1. call[c] \in CallRecords
  BY DEF JobsOK
<1>2. call' = [call EXCEPT ![c] = r]
  BY DEF Asleep
<1>3. /\ r.stage = "asleep" /\ r.left = ms /\ r.counted = TRUE
      /\ r.attempt = call[c].attempt /\ r.retriedAuth = call[c].retriedAuth
      /\ r.job = call[c].job
  BY <1>1, FieldsOfTurn
<1>. HIDE DEF r
<1>4. call'[c] = r /\ \A d \in Calls \ {c} : call'[d] = call[d]
  BY <1>2, OthersStay
<1>5. CallsOK'
  BY <1>3, <1>4 DEF CallsOK, CallOK
<1>6. call[c].counted \in BOOLEAN
  BY <1>1 DEF CallRecords
<1>. QED
  BY <1>3, <1>4, <1>5, <1>6, EnteringCounts

LEMMA DepartKeepsCalls ==
    ASSUME JobsOK, CallsOK, GaugeOK, NEW c \in Calls, Depart(c)
    PROVE  CallsOK' /\ GaugeOK'
<1>. DEFINE r == [call[c] EXCEPT !.stage = "sent", !.left = 0, !.counted = FALSE]
<1>1. call[c] \in CallRecords
  BY DEF JobsOK
<1>2. call' = [call EXCEPT ![c] = r]
  BY DEF Depart
<1>3. /\ r.stage = "sent" /\ r.left = 0 /\ r.counted = FALSE
      /\ r.attempt = call[c].attempt /\ r.retriedAuth = call[c].retriedAuth
  BY <1>1, FieldsOfTurn
<1>. HIDE DEF r
<1>4. call'[c] = r /\ \A d \in Calls \ {c} : call'[d] = call[d]
  BY <1>2, OthersStay
<1>5. CallsOK'
  BY <1>3, <1>4 DEF CallsOK, CallOK
<1>6. call[c].counted \in BOOLEAN
  BY <1>1 DEF CallRecords
<1>. QED
  BY <1>3, <1>4, <1>5, <1>6, LeavingUncounts DEF Depart

(* A call that was not asleep is not counted, before or after.             *)
LEMMA UncountedKeeps ==
    ASSUME JobsOK, CallsOK, GaugeOK, NEW c \in Calls, NEW r, call' = [call EXCEPT ![c] = r],
           queued' = queued, call[c].stage # "asleep", ~r.counted, CallOK(r)
    PROVE  CallsOK' /\ GaugeOK'
<1>1. call'[c] = r /\ \A d \in Calls \ {c} : call'[d] = call[d]
  BY OthersStay
<1>2. CallsOK'
  BY <1>1 DEF CallsOK, CallOK
<1>3. ~call[c].counted
  BY DEF CallsOK, CallOK
<1>. QED
  BY <1>1, <1>2, <1>3, SameWaiters

LEMMA RequestKeepsCalls ==
    ASSUME JobsOK, CallsOK, GaugeOK, NEW c \in Calls, NEW j \in Jobs, Request(c, j)
    PROVE  CallsOK' /\ GaugeOK'
<1>. DEFINE r == [call[c] EXCEPT !.stage = "turn", !.job = j]
<1>1. CallOK(call[c]) /\ ~call[c].counted /\ call[c] \in CallRecords
  BY DEF Request, JobsOK, CallsOK, CallOK
<1>2. CallOK(r) /\ ~r.counted
  BY <1>1 DEF CallRecords, CallOK
<1>3. call' = [call EXCEPT ![c] = r]
  BY DEF Request
<1>. QED
  BY <1>2, <1>3, UncountedKeeps DEF Request

LEMMA EndsKeepsCalls ==
    ASSUME JobsOK, CallsOK, GaugeOK, NEW c \in Calls, call[c].stage = "sent",
           call' = Ends(c), queued' = queued
    PROVE  CallsOK' /\ GaugeOK'
BY IdleIsOK, UncountedKeeps DEF Ends

LEMMA ReauthenticatedKeepsCalls ==
    ASSUME JobsOK, CallsOK, GaugeOK, NEW c \in Calls, Reauthenticated(c)
    PROVE  CallsOK' /\ GaugeOK'
<1>. DEFINE r == [call[c] EXCEPT !.stage = "turn", !.retriedAuth = TRUE, !.attempt = call[c].attempt + 1]
<1>1. CallOK(call[c]) /\ ~call[c].counted /\ call[c] \in CallRecords
  BY DEF Reauthenticated, JobsOK, CallsOK, CallOK
<1>2. CallOK(r) /\ ~r.counted
  BY <1>1, BackoffsAreNaturals DEF Reauthenticated, CallRecords, CallOK
<1>3. call' = [call EXCEPT ![c] = r]
  BY DEF Reauthenticated
<1>. QED
  BY <1>2, <1>3, UncountedKeeps DEF Reauthenticated

LEMMA TooManyKeepsCalls ==
    ASSUME JobsOK, CallsOK, GaugeOK, NEW c \in Calls, NEW ra \in RetryAfters, TooMany(c, ra)
    PROVE  CallsOK' /\ GaugeOK'
<1>1. CASE ~(call[c].attempt < Max429Retries)
  BY <1>1, EndsKeepsCalls DEF TooMany
<1>2. CASE call[c].attempt < Max429Retries
  <2>. DEFINE r == [call[c] EXCEPT !.stage = "turn", !.attempt = call[c].attempt + 1]
  <2>1. CallOK(call[c]) /\ ~call[c].counted /\ call[c] \in CallRecords
    BY DEF TooMany, JobsOK, CallsOK, CallOK
  <2>2. CallOK(r) /\ ~r.counted
    BY <1>2, <2>1, BackoffsAreNaturals DEF CallRecords, CallOK
  <2>3. call' = [call EXCEPT ![c] = r]
    BY <1>2 DEF TooMany
  <2>. QED
    BY <2>2, <2>3, UncountedKeeps DEF TooMany
<1>. QED
  BY <1>1, <1>2

LEMMA TickKeepsCalls ==
    ASSUME JobsOK, CallsOK, GaugeOK, Tick
    PROVE  CallsOK' /\ GaugeOK'
<1>1. ASSUME NEW d \in Calls
      PROVE  /\ CallOK(call'[d])
             /\ call'[d].counted = call[d].counted /\ call'[d].job = call[d].job
  <2>1. call'[d] = IF call[d].left > 0 THEN [call[d] EXCEPT !.left = call[d].left - 1] ELSE call[d]
    BY DEF Tick
  <2>2. call[d] \in CallRecords /\ CallOK(call[d])
    BY DEF JobsOK, CallsOK
  <2>. QED
    BY <2>1, <2>2 DEF CallRecords, CallOK
<1>. QED
  BY <1>1, SameWaiters DEF Tick, CallsOK

(* Only a departure sends a call.                                          *)
LEMMA OnlyDepartSends ==
    ASSUME JobsOK, HistoryNext, NEW c \in Calls, call[c].stage /= "sent", call'[c].stage = "sent"
    PROVE  \E d \in Calls : Depart(d)
<1>. SUFFICES ASSUME \A d \in Calls : ~Depart(d) PROVE FALSE
  OBVIOUS
<1>1. ASSUME NEW d \in Calls, NEW r, r.stage # "sent", call' = [call EXCEPT ![d] = r] PROVE FALSE
  BY <1>1, OthersStay
<1>2. \A d \in Calls : call[d] \in CallRecords
  BY DEF JobsOK
<1>3. ASSUME NEW d \in Calls, NEW j, call' = [call EXCEPT ![d] = [@ EXCEPT !.stage = "turn", !.job = j]]
      PROVE  FALSE
  BY <1>1, <1>2, <1>3 DEF CallRecords
<1>4. ASSUME NEW d \in Calls, NEW ms, Asleep(d, ms) PROVE FALSE
  BY <1>1, <1>2, <1>4 DEF CallRecords, Asleep
<1>5. ASSUME NEW d \in Calls, call' = Ends(d) PROVE FALSE
  BY <1>1, <1>5 DEF Ends, Idle
<1>6. ASSUME NEW d \in Calls, Reauthenticated(d) PROVE FALSE
  BY <1>1, <1>2, <1>6 DEF CallRecords, Reauthenticated
<1>7. ASSUME NEW d \in Calls, NEW r \in RetryAfters, TooMany(d, r) PROVE FALSE
  <2>1. CASE ~(call[d].attempt < Max429Retries)
    BY <1>5, <1>7, <2>1 DEF TooMany
  <2>2. CASE call[d].attempt < Max429Retries
    BY <1>1, <1>2, <1>7, <2>2 DEF CallRecords, TooMany
  <2>. QED
    BY <2>1, <2>2
<1>8. CASE Tick
  <2>1. call'[c] = IF call[c].left > 0 THEN [call[c] EXCEPT !.left = call[c].left - 1] ELSE call[c]
    BY <1>8 DEF Tick
  <2>. QED
    BY <1>2, <2>1 DEF CallRecords
<1>9. CASE Snapshot
  BY <1>9 DEF Snapshot
<1>. QED
  BY <1>3, <1>4, <1>5, <1>6, <1>7, <1>8, <1>9
     DEF HistoryNext, HistoryDepart, HistoryTooMany, HistoryTick, Request, WaitForBreaker,
         WaitForTokens, Answered, Failed

-----------------------------------------------------------------------------
(* The breaker and the meter                                               *)

LEMMA BreakerIsBounded ==
    ASSUME ClocksOK, NEW c \in Calls, NEW r \in RetryAfters, TooMany(c, r)
    PROVE  ClocksOK' /\ breaker' >= breaker
<1>1. PICK delay \in Delays(r) : breaker' = BreakerAfter(delay)
  BY DEF TooMany
<1>2. delay \in Int /\ delay <= MaxBackoff
  BY BackoffsAreNaturals DEF Delays
<1>3. consecutive' \in Nat
  BY DEF TooMany, Counted429, ClocksOK
<1>. QED
  BY <1>1, <1>2, <1>3, BackoffsAreNaturals DEF BreakerAfter, ClocksOK

LEMMA SameBulk ==
    ASSUME BulkOK, bulk' = bulk, \A b \in Buckets : Available(b)' = Available(b)
    PROVE  BulkOK'
BY DEF BulkOK

(* Low-priority calls leave with the reserve still in the bucket.          *)
LEMMA DepartKeepsBulk ==
    ASSUME BucketsOK, BulkOK, NEW c \in Calls, HistoryDepart(c), call[c].job \in Jobs
    PROVE  BulkOK'
<1>. DEFINE job == call[c].job
<1>1. Depart(c) /\ CanTake(job)
  BY DEF HistoryDepart, Depart
<1>2. \A b \in Buckets : Available(b)' = IF b \in Drawn(job) THEN Available(b) - One ELSE Available(b)
  BY <1>1, DepartTakesOne
<1>3. \A b \in Buckets : Available(b) \in Int /\ Cap(b) \in Int
  BY AvailableIsFilled, CapNat
<1>4. One \in Nat \ {0} /\ One * Reserve \in Nat
  BY UnitIsPositive, BackoffsAreNaturals
<1>5. ASSUME NEW b \in Buckets, b \in Drawn(job), job.priority = "low"
      PROVE  Available(b) >= One + One * Reserve
  <2>1. Needed(job) = One + One * Reserve
    BY <1>5, UnitIsPositive, BackoffsAreNaturals DEF Needed
  <2>. QED
    BY <1>1, <1>5, <2>1 DEF CanTake
<1>6. bulk' = [b \in Buckets |-> IF b \in Drawn(job) /\ job.priority = "low"
                                 THEN bulk[b] + One ELSE bulk[b]]
  BY DEF HistoryDepart
<1>7. ASSUME NEW b \in Buckets
      PROVE  /\ bulk'[b] \in Int /\ 0 <= bulk'[b]
             /\ bulk'[b] + Available(b)' <= Cap(b)
             /\ bulk'[b] = 0 \/ bulk'[b] + One * Reserve <= Cap(b)
  <2>1. bulk[b] \in Int /\ 0 <= bulk[b] /\ bulk[b] + Available(b) <= Cap(b)
        /\ (bulk[b] = 0 \/ bulk[b] + One * Reserve <= Cap(b))
    BY DEF BulkOK
  <2>2. CASE b \in Drawn(job) /\ job.priority = "low"
    BY <1>2, <1>3, <1>4, <1>5, <1>6, <2>1, <2>2
  <2>3. CASE ~(b \in Drawn(job) /\ job.priority = "low")
    BY <1>2, <1>3, <1>4, <1>6, <2>1, <2>3
  <2>. QED
    BY <2>2, <2>3
<1>. QED
  BY <1>6, <1>7 DEF BulkOK

LEMMA TickKeepsBulk ==
    ASSUME BucketsOK, BulkOK, HistoryTick
    PROVE  BulkOK'
<1>1. \A b \in Buckets : Available(b)' = IF Available(b) + Rate(b) > Cap(b)
                                         THEN Cap(b) ELSE Available(b) + Rate(b)
  BY TickFills DEF HistoryTick
<1>2. \A b \in Buckets : Available(b) \in 0..Cap(b) /\ Cap(b) \in Nat /\ Rate(b) \in Nat
  BY AvailableIsFilled, CapNat
<1>3. bulk' = [b \in Buckets |-> IF bulk[b] > Rate(b) THEN bulk[b] - Rate(b) ELSE 0]
  BY DEF HistoryTick
<1>4. One * Reserve \in Nat
  BY UnitIsPositive, BackoffsAreNaturals
<1>5. ASSUME NEW b \in Buckets
      PROVE  /\ bulk'[b] \in Int /\ 0 <= bulk'[b]
             /\ bulk'[b] + Available(b)' <= Cap(b)
             /\ bulk'[b] = 0 \/ bulk'[b] + One * Reserve <= Cap(b)
  <2>1. bulk[b] \in Int /\ 0 <= bulk[b] /\ bulk[b] + Available(b) <= Cap(b)
        /\ (bulk[b] = 0 \/ bulk[b] + One * Reserve <= Cap(b))
    BY DEF BulkOK
  <2>. QED
    BY <1>1, <1>2, <1>3, <1>4, <2>1
<1>. QED
  BY <1>3, <1>5 DEF BulkOK

-----------------------------------------------------------------------------
(* The inductive invariant                                                 *)

LEMMA HistoryStepsAreSteps ==
    [HistoryNext]_historyVars => [Next]_vars
BY DEF HistoryNext, historyVars, vars, Next, HistoryDepart, HistoryTooMany, HistoryTick, Turn, Response

LEMMA HistoryInitHolds == HistoryInit => HInv
<1>. SUFFICES ASSUME HistoryInit PROVE HInv
  OBVIOUS
<1>1. IInv
  BY InitEstablishes DEF HistoryInit
<1>2. CallsOK /\ \A c \in Calls : ~call[c].counted
  BY IdleIsOK DEF HistoryInit, Init, CallsOK
<1>3. GaugeOK
  <2>1. \A b \in Buckets : Waiting(b) = {}
    BY <1>2 DEF Waiting
  <2>. QED
    BY <2>1, FS_EmptySet DEF GaugeOK, HistoryInit, Init
<1>4. BulkOK
  <2>1. \A b \in Buckets : Available(b) \in 0..Cap(b) /\ Cap(b) \in Nat
    BY <1>1, AvailableIsFilled, CapNat DEF IInv
  <2>. QED
    BY <2>1 DEF BulkOK, HistoryInit
<1>5. ClocksOK
  BY BackoffsAreNaturals DEF ClocksOK, HistoryInit, Init
<1>. QED
  BY <1>1, <1>2, <1>3, <1>4, <1>5 DEF HInv

LEMMA HistoryStepKeeps == HInv /\ [HistoryNext]_historyVars => HInv'
<1>. SUFFICES ASSUME HInv, [HistoryNext]_historyVars PROVE HInv'
  OBVIOUS
<1>. USE DEF HInv, IInv
<1>1. IInv'
  BY HistoryStepsAreSteps, StepKeepsAndMaps
<1>2. ASSUME NEW c \in Calls, HistoryDepart(c) PROVE HInv'
  <2>1. Depart(c) /\ call[c].job \in Jobs
    BY <1>2 DEF HistoryDepart, Depart, Eligible, JobsOK
  <2>2. CallsOK' /\ GaugeOK' /\ BulkOK'
    BY <1>2, <2>1, DepartKeepsCalls, DepartKeepsBulk
  <2>. QED
    BY <1>1, <2>1, <2>2 DEF Depart, ClocksOK
<1>3. ASSUME NEW c \in Calls, NEW r \in RetryAfters, HistoryTooMany(c, r) PROVE HInv'
  <2>1. TooMany(c, r) /\ bulk' = bulk /\ bucket' = bucket
    BY <1>3 DEF HistoryTooMany, TooMany
  <2>. QED
    BY <1>1, <2>1, TooManyKeepsCalls, BreakerIsBounded, SameBulk, SameBuckets
<1>4. CASE HistoryTick
  <2>1. ClocksOK'
    BY <1>4, BackoffsAreNaturals DEF HistoryTick, Tick, ClocksOK
  <2>. QED
    BY <1>1, <1>4, <2>1, TickKeepsCalls, TickKeepsBulk DEF HistoryTick
<1>5. ASSUME bulk' = bulk, UNCHANGED <<breaker, consecutive>>, CallsOK', GaugeOK',
             \A b \in Buckets : Available(b)' = Available(b)
      PROVE  HInv'
  BY <1>1, <1>5, SameBulk DEF ClocksOK
<1>6. ASSUME NEW c \in Calls, NEW j \in Jobs, Request(c, j), bulk' = bulk PROVE HInv'
  BY <1>5, <1>6, RequestKeepsCalls, SameBuckets DEF Request
<1>7. ASSUME NEW c \in Calls, WaitForBreaker(c), bulk' = bulk PROVE HInv'
  <2>1. breaker \in Nat
    BY DEF ClocksOK
  <2>. QED
    BY <1>5, <1>7, <2>1, SleepKeepsCalls, SameBuckets DEF WaitForBreaker
<1>8. ASSUME NEW c \in Calls, WaitForTokens(c), bulk' = bulk PROVE HInv'
  <2>. DEFINE job == call[c].job
  <2>1. /\ bucket' = Refilled(Drawn(job)) /\ Eligible(c) /\ EnterQueue(c) /\ Asleep(c, Wait(job))
        /\ UNCHANGED <<breaker, consecutive>>
    BY <1>8 DEF WaitForTokens
  <2>2. Wait(job) \in Nat
    BY <2>1, WaitIsNat DEF JobsOK, Eligible
  <2>3. CallsOK' /\ GaugeOK'
    BY <2>1, <2>2, SleepKeepsCalls
  <2>. QED
    BY <1>5, <1>8, <2>1, <2>3, RefillKeeps
<1>9. ASSUME NEW c \in Calls, Answered(c) \/ Failed(c), bulk' = bulk PROVE HInv'
  <2>1. ClocksOK' /\ bucket' = bucket /\ CallsOK' /\ GaugeOK'
    BY <1>9, EndsKeepsCalls DEF Answered, Failed, ClocksOK
  <2>. QED
    BY <1>1, <1>9, <2>1, SameBulk, SameBuckets
<1>10. ASSUME NEW c \in Calls, Reauthenticated(c), bulk' = bulk PROVE HInv'
  BY <1>5, <1>10, ReauthenticatedKeepsCalls, SameBuckets DEF Reauthenticated
<1>11. ASSUME Snapshot, bulk' = bulk PROVE HInv'
  <2>1. CallsOK' /\ GaugeOK'
    BY <1>11, SameWaiters DEF Snapshot, CallsOK
  <2>. QED
    BY <1>5, <1>11, <2>1, RefillKeeps DEF Snapshot
<1>12. CASE UNCHANGED historyVars
  <2>1. CallsOK' /\ GaugeOK' /\ bucket' = bucket /\ bulk' = bulk
    BY <1>12, SameWaiters DEF historyVars, vars, CallsOK
  <2>. QED
    BY <1>5, <1>12, <2>1, SameBuckets DEF historyVars, vars
<1>. QED
  BY <1>2, <1>3, <1>4, <1>6, <1>7, <1>8, <1>9, <1>10, <1>11, <1>12 DEF HistoryNext

-----------------------------------------------------------------------------
(* Theorems                                                                *)

(* The limiter's types and meters, for every value of the constants.       *)
THEOREM HistoryInvariant == HistorySpec => []HInv
<1>. QED
  BY HistoryInitHolds, HistoryStepKeeps, PTL DEF HistorySpec

(* In no window do low-priority calls alone take the last Reserve tokens of*)
(* a bucket (rate-limiter.ts:116, LOW_PRIORITY_RESERVE_FRACTION), and every*)
(* variable keeps its type: no gauge counts more calls than there are.     *)
THEOREM ReserveIsLeft == HistorySpec => []BulkLeavesReserve
<1>1. HInv => BulkLeavesReserve
  <2>. SUFFICES ASSUME HInv PROVE BulkLeavesReserve
    OBVIOUS
  <2>1. bucket \in [Buckets -> [tokens : Nat, age : Nat]]
    BY DEF HInv, IInv, BucketsOK
  <2>2. queued \in [Buckets -> 0..Cardinality(Calls)]
    BY WaitingIsFinite DEF HInv, GaugeOK
  <2>3. call \in [Calls -> [stage : Stages, job : Jobs \cup {NoJob}, attempt : 0..(Max429Retries + 1),
                            retriedAuth : BOOLEAN, counted : BOOLEAN, left : Nat]]
    <3>1. ASSUME NEW c \in Calls
          PROVE  call[c] \in [stage : Stages, job : Jobs \cup {NoJob}, attempt : 0..(Max429Retries + 1),
                              retriedAuth : BOOLEAN, counted : BOOLEAN, left : Nat]
      <4>1. call[c] \in CallRecords /\ CallOK(call[c])
        BY DEF HInv, IInv, JobsOK, CallsOK
      <4>. QED
        BY <4>1, BackoffsAreNaturals DEF CallRecords, CallOK
    <3>. QED
      BY <3>1 DEF HInv, IInv, JobsOK
  <2>4. TypeOK
    BY <2>1, <2>2, <2>3 DEF TypeOK, HInv, IInv, BucketsOK, ClocksOK
  <2>. QED
    BY <2>4 DEF BulkLeavesReserve, HInv, BulkOK
<1>. QED
  BY <1>1, HistoryInvariant, PTL

(* Whatever the server answers, nothing leaves on any account or tier      *)
(* before every Retry-After, cut to maxBackoffMs, has run out: neither the *)
(* calls of another tier nor a later, shorter header shortens the silence  *)
(* (rate-limiter.ts:470-489).                                              *)
SilenceOK == silence \in Nat /\ silence <= breaker

THEOREM SilenceIsKept == HistorySpec => NothingLeavesInSilence
<1>1. HistoryInit => SilenceOK
  BY DEF HistoryInit, Init, SilenceOK
<1>2. HInv /\ SilenceOK /\ [HistoryNext]_historyVars => SilenceOK'
  <2>. SUFFICES ASSUME HInv, SilenceOK, [HistoryNext]_historyVars PROVE SilenceOK'
    OBVIOUS
  <2>1. ASSUME NEW c \in Calls, NEW r \in RetryAfters, HistoryTooMany(c, r) PROVE SilenceOK'
    <3>1. PICK delay \in Delays(r) : breaker' = BreakerAfter(delay)
      BY <2>1 DEF HistoryTooMany, TooMany
    <3>2. Counted429 \in Nat \ {0}
      BY DEF Counted429, HInv, ClocksOK
    <3>3. Exponential(Counted429) \in Int
      BY <3>2, PowerIsInt, BackoffsAreNaturals DEF Exponential
    <3>4. r \in Nat /\ Honoured(r) \in Nat
      BY BackoffsAreNaturals DEF Honoured
    <3>5. delay \in Int /\ delay >= Honoured(r)
      BY <3>3, <3>4, BackoffsAreNaturals DEF Delays, Honoured
    <3>6. silence' = IF Honoured(r) > silence THEN Honoured(r) ELSE silence
      BY <2>1 DEF HistoryTooMany
    <3>. QED
      BY <3>1, <3>4, <3>5, <3>6, BackoffsAreNaturals DEF BreakerAfter, SilenceOK, HInv, ClocksOK
  <2>2. CASE HistoryTick
    BY <2>2 DEF HistoryTick, Tick, SilenceOK, HInv, ClocksOK
  <2>3. CASE UNCHANGED <<silence, breaker>>
    BY <2>3 DEF SilenceOK
  <2>. QED
    BY <2>1, <2>2, <2>3
       DEF HistoryNext, historyVars, vars, HistoryDepart, Depart, Request, WaitForBreaker, WaitForTokens,
           Answered, Failed, Reauthenticated, Snapshot
<1>3. HInv /\ SilenceOK /\ [HistoryNext]_historyVars
        => [(\E c \in Calls : call[c].stage /= "sent" /\ call'[c].stage = "sent") => silence = 0]_historyVars
  <2>. SUFFICES ASSUME HInv, SilenceOK, HistoryNext,
                       NEW c \in Calls, call[c].stage /= "sent", call'[c].stage = "sent"
                PROVE  silence = 0
    OBVIOUS
  <2>1. \E d \in Calls : Depart(d)
    BY OnlyDepartSends DEF HInv, IInv
  <2>. QED
    BY <2>1 DEF Depart, SilenceOK, HInv, ClocksOK
<1>. QED
  BY <1>1, <1>2, <1>3, HistoryInvariant, PTL DEF HistorySpec, NothingLeavesInSilence
=============================================================================
