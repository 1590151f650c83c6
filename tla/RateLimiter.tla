---------------------------- MODULE RateLimiter -----------------------------
(***************************************************************************)
(* Rate limiting and 429 backoff: net/rate-limiter.ts, class RateLimiter,  *)
(* with its only caller, the loop of vrcFetch in net/request.ts.           *)
(*                                                                         *)
(* There is no queue.  Every request loops on its own: it waits while the  *)
(* breaker is open, tries to take a token from each bucket it is charged   *)
(* to, and sleeps for as long as the missing tokens will take to appear.   *)
(* By then the others may have taken them, or a 429 opened the breaker.    *)
(*                                                                         *)
(* Simplifications:                                                        *)
(*  - the clock moves in milliseconds, its resolution in the code, and is  *)
(*    kept as what is left of each wait and as the age of each bucket's    *)
(*    last refill; it is not set back;                                     *)
(*  - tokens are counted in units, One to the token, so that a millisecond *)
(*    refills a whole number of them;                                      *)
(*  - reset() is left out: nothing in the daemon calls it;                 *)
(*  - a request of class "file" or "low" is as a caller of vrcFetch asks.  *)
(***************************************************************************)
EXTENDS Integers, FiniteSets

CONSTANTS
    Accounts,
    Calls,           \* calls of vrcFetch under way at a time
    Jobs,            \* the requests made: [account, class, priority]
    One,             \* units to a token
    AccountRate, IpRate, FileRate,       \* units refilled in a millisecond
    AccountBurst, IpBurst, FileBurst,    \* capacities, in tokens
    Reserve,         \* lowPriorityReserve, in tokens
    BaseBackoff, MaxBackoff,             \* milliseconds
    RetryAfters,     \* values of Retry-After; 0 is a 429 without one
    Max429Retries,   \* MAX_429_RETRIES
    NoJob            \* the job of a call that is not made

Ip == "ip"
File == "file"
Buckets == Accounts \cup {Ip, File}

Rate(b) == IF b = Ip THEN IpRate ELSE IF b = File THEN FileRate ELSE AccountRate
Burst(b) ==
    IF b = Ip THEN IpBurst ELSE IF b = File THEN FileBurst ELSE AccountBurst
Cap(b) == One * Burst(b)

ASSUME AccountsAreNotBuckets == Ip \notin Accounts /\ File \notin Accounts
ASSUME JobsAreRequests ==
    Jobs \subseteq [account : Accounts, class : {"api", "file"},
                    priority : {"normal", "low"}]
ASSUME NoJobIsNoJob == NoJob \notin Jobs
ASSUME CallsAreFinite == IsFiniteSet(Calls)
ASSUME UnitIsPositive == One \in Nat \ {0}
ASSUME RatesArePositive ==
    /\ AccountRate \in Nat \ {0}
    /\ IpRate \in Nat \ {0}
    /\ FileRate \in Nat \ {0}
ASSUME BurstsAreNaturals ==
    AccountBurst \in Nat /\ IpBurst \in Nat /\ FileBurst \in Nat
ASSUME BackoffsAreNaturals ==
    /\ Reserve \in Nat
    /\ BaseBackoff \in Nat \ {0}
    /\ MaxBackoff \in Nat \ {0}
    /\ Max429Retries \in Nat
    /\ RetryAfters \subseteq Nat

CeilDiv(a, n) == (a + n - 1) \div n

(* An age past which a bucket is full whatever it held.                    *)
FullAfter(b) == CeilDiv(Cap(b), Rate(b))

VARIABLES
    bucket,          \* #buckets, #global, #files
    breaker,         \* what is left until #blockedUntil
    consecutive,     \* #consecutive429
    queued,          \* #queuedByAccount, #queuedGlobalApi, #queuedFiles
    call             \* the calls of vrcFetch

vars == <<bucket, breaker, consecutive, queued, call>>

Stages == {"idle", "turn", "asleep", "sent"}

Idle == [stage |-> "idle", job |-> NoJob, attempt |-> 0,
         retriedAuth |-> FALSE, counted |-> FALSE, left |-> 0]

(* A bucket that does not exist yet is created full.                       *)
Init ==
    /\ bucket = [b \in Buckets |-> [tokens |-> Cap(b), age |-> 0]]
    /\ breaker = 0
    /\ consecutive = 0
    /\ queued = [b \in Buckets |-> 0]
    /\ call = [c \in Calls |-> Idle]

-----------------------------------------------------------------------------
(* Buckets                                                                 *)

(* The buckets a request draws on: files are not charged to an account.    *)
Drawn(job) == IF job.class = "file" THEN {File} ELSE {job.account, Ip}

(* Mutant: the reserve is that of the largest bucket.                      *)
NeededOfTheLargest(job) ==
    One * (1 + (IF job.priority = "low" THEN IpBurst ELSE 0))

(* Low-priority requests leave the reserve behind in every bucket.         *)
Needed(job) == One * (1 + (IF job.priority = "low" THEN Reserve ELSE 0))

Available(b) ==
    LET t == bucket[b].tokens + bucket[b].age * Rate(b)
    IN  IF t > Cap(b) THEN Cap(b) ELSE t

(* Mutant: the moment of the refill is not stored, and counts again.       *)
RefilledTwice(B) ==
    [b \in Buckets |->
        IF b \in B THEN [tokens |-> Available(b), age |-> bucket[b].age]
                   ELSE bucket[b]]

(* The buckets once those in B are refilled to the present.                *)
Refilled(B) ==
    [b \in Buckets |->
        IF b \in B THEN [tokens |-> Available(b), age |-> 0] ELSE bucket[b]]

(* Mutant: the check forgets what the wait is computed for.                *)
CanTakeTheLast(job) == \A b \in Drawn(job) : Available(b) >= One

(* Every bucket must have a token before any is spent.                     *)
CanTake(job) == \A b \in Drawn(job) : Available(b) >= Needed(job)

(* How long until a bucket has what is needed.                             *)
WaitFor(b, needed) ==
    IF Available(b) >= needed THEN 0
    ELSE CeilDiv(needed - Available(b), Rate(b))

(* The wait for the bucket that is furthest away.                          *)
Wait(job) ==
    LET file == WaitFor(File, Needed(job))
        account == WaitFor(job.account, Needed(job))
        ip == WaitFor(Ip, Needed(job))
    IN  IF job.class = "file" THEN file
        ELSE IF account > ip THEN account ELSE ip

-----------------------------------------------------------------------------
(* acquire                                                                 *)

Eligible(c) == \/ call[c].stage = "turn"
               \/ call[c].stage = "asleep" /\ call[c].left = 0

Asleep(c, ms) ==
    call' = [call EXCEPT ![c] = [@ EXCEPT !.stage = "asleep", !.left = ms,
                                          !.counted = TRUE]]

(* A waiter is counted at its first sleep, until acquire returns.          *)
EnterQueue(c) ==
    queued' = [b \in Buckets |->
                  IF b \in Drawn(call[c].job) /\ ~call[c].counted
                  THEN queued[b] + 1 ELSE queued[b]]

LeaveQueue(c) ==
    queued' = [b \in Buckets |->
                  IF b \in Drawn(call[c].job) /\ call[c].counted /\ queued[b] > 0
                  THEN queued[b] - 1 ELSE queued[b]]

(* A turn of the loop with the breaker open.                               *)
WaitForBreaker(c) ==
    /\ Eligible(c)
    /\ breaker > 0
    /\ EnterQueue(c)
    /\ Asleep(c, breaker)
    /\ UNCHANGED <<bucket, breaker, consecutive>>

(* A turn that finds a token missing.                                      *)
WaitForTokens(c) ==
    LET job == call[c].job IN
    /\ Eligible(c)
    /\ breaker = 0
    /\ ~CanTake(job)
    /\ bucket' = Refilled(Drawn(job))
    /\ EnterQueue(c)
    /\ Asleep(c, Wait(job))
    /\ UNCHANGED <<breaker, consecutive>>

(* Mutant: a call that slept for its tokens forgets the breaker.           *)
DepartUnlessTurnBlocked(c) ==
    LET job == call[c].job IN
    /\ Eligible(c)
    /\ breaker = 0 \/ call[c].stage = "asleep"
    /\ CanTake(job)
    /\ bucket' = [b \in Buckets |->
                     IF b \in Drawn(job)
                     THEN [tokens |-> Available(b) - One, age |-> 0]
                     ELSE bucket[b]]
    /\ LeaveQueue(c)
    /\ call' = [call EXCEPT ![c] = [@ EXCEPT !.stage = "sent", !.left = 0,
                                             !.counted = FALSE]]
    /\ UNCHANGED <<breaker, consecutive>>

(* A turn that takes its tokens: acquire returns and the request leaves.   *)
Depart(c) ==
    LET job == call[c].job IN
    /\ Eligible(c)
    /\ breaker = 0
    /\ CanTake(job)
    /\ bucket' = [b \in Buckets |->
                     IF b \in Drawn(job)
                     THEN [tokens |-> Available(b) - One, age |-> 0]
                     ELSE bucket[b]]
    /\ LeaveQueue(c)
    /\ call' = [call EXCEPT ![c] = [@ EXCEPT !.stage = "sent", !.left = 0,
                                             !.counted = FALSE]]
    /\ UNCHANGED <<breaker, consecutive>>

-----------------------------------------------------------------------------
(* vrcFetch                                                                *)

Request(c, job) ==
    /\ call[c].stage = "idle"
    /\ call' = [call EXCEPT ![c] = [@ EXCEPT !.stage = "turn", !.job = job]]
    /\ UNCHANGED <<bucket, breaker, consecutive, queued>>

Ends(c) == [call EXCEPT ![c] = Idle]

(* A response that is neither a 429 nor a 401 to act on.                   *)
Answered(c) ==
    /\ call[c].stage = "sent"
    /\ consecutive' = 0
    /\ call' = Ends(c)
    /\ UNCHANGED <<bucket, breaker, queued>>

(* fetch throws, or a 401 is not followed by a new session: recordSuccess  *)
(* is not reached.                                                         *)
Failed(c) ==
    /\ call[c].stage = "sent"
    /\ call' = Ends(c)
    /\ UNCHANGED <<bucket, breaker, consecutive, queued>>

(* A 401 followed by a new session: sent again, once, and it counts as an  *)
(* attempt like any turn of the loop.                                      *)
Reauthenticated(c) ==
    /\ call[c].stage = "sent"
    /\ ~call[c].retriedAuth
    /\ call' = [call EXCEPT ![c] = [@ EXCEPT !.stage = "turn",
                                             !.retriedAuth = TRUE,
                                             !.attempt = call[c].attempt + 1]]
    /\ UNCHANGED <<bucket, breaker, consecutive, queued>>

Exponential(n) ==
    LET step == BaseBackoff * 2 ^ (n - 1)
    IN  IF step > MaxBackoff THEN MaxBackoff ELSE step

(* The count matters only until the exponential reaches its ceiling.       *)
Counted429 ==
    IF consecutive > 0 /\ Exponential(consecutive) = MaxBackoff
    THEN consecutive ELSE consecutive + 1

(* record429's delay: at least the server's Retry-After and the backoff,   *)
(* up to a quarter more at random, and never above the ceiling.            *)
Delays(retryAfter) ==
    LET own == Exponential(Counted429)
        base == IF retryAfter > own THEN retryAfter ELSE own
    IN  {IF d > MaxBackoff THEN MaxBackoff ELSE d :
            d \in base..(base + (base + 2) \div 4)}

(* Mutant: the latest 429 decides, even if an earlier one asked for more.  *)
BreakerOfTheLatest(delay) == delay

BreakerAfter(delay) == IF delay > breaker THEN delay ELSE breaker

(* record429; the request is sent again until its retries are spent.       *)
TooMany(c, retryAfter) ==
    /\ call[c].stage = "sent"
    /\ consecutive' = Counted429
    /\ \E delay \in Delays(retryAfter) : breaker' = BreakerAfter(delay)
    /\ call' = IF call[c].attempt < Max429Retries
               THEN [call EXCEPT ![c] = [@ EXCEPT !.stage = "turn",
                                                  !.attempt = call[c].attempt + 1]]
               ELSE Ends(c)
    /\ UNCHANGED <<bucket, queued>>

(* The gauge refills the buckets it reads.                                 *)
Snapshot ==
    /\ bucket' = Refilled(Buckets)
    /\ UNCHANGED <<breaker, consecutive, queued, call>>

Tick ==
    /\ bucket' = [b \in Buckets |->
                     IF bucket[b].age < FullAfter(b)
                     THEN [bucket[b] EXCEPT !.age = bucket[b].age + 1]
                     ELSE bucket[b]]
    /\ breaker' = IF breaker > 0 THEN breaker - 1 ELSE 0
    /\ call' = [c \in Calls |->
                   IF call[c].left > 0
                   THEN [call[c] EXCEPT !.left = call[c].left - 1]
                   ELSE call[c]]
    /\ UNCHANGED <<consecutive, queued>>

-----------------------------------------------------------------------------
Turn(c) == WaitForBreaker(c) \/ WaitForTokens(c) \/ Depart(c)

Response(c) ==
    \/ Answered(c)
    \/ Failed(c)
    \/ Reauthenticated(c)
    \/ \E r \in RetryAfters : TooMany(c, r)

Next ==
    \/ \E c \in Calls, j \in Jobs : Request(c, j)
    \/ \E c \in Calls : Turn(c) \/ Response(c)
    \/ Snapshot
    \/ Tick

Spec == Init /\ [][Next]_vars

(* The clock runs and timers that are due fire.  Nothing is assumed of the *)
(* server, nor of which of the waiting calls comes first.                  *)
Fairness == WF_vars(Tick) /\ \A c \in Calls : WF_vars(Turn(c))

FairSpec == Spec /\ Fairness

-----------------------------------------------------------------------------
(* Properties                                                              *)

(* Types: no bucket is ever overdrawn, none holds more than its capacity.  *)
TypeOK ==
    /\ bucket \in [Buckets -> [tokens : Nat, age : Nat]]
    /\ \A b \in Buckets : /\ bucket[b].tokens <= Cap(b)
                          /\ bucket[b].age <= FullAfter(b)
    /\ breaker \in 0..MaxBackoff
    /\ consecutive \in Nat
    /\ queued \in [Buckets -> 0..Cardinality(Calls)]
    /\ call \in [Calls -> [stage : Stages, job : Jobs \cup {NoJob},
                           attempt : 0..(Max429Retries + 1),
                           retriedAuth : BOOLEAN, counted : BOOLEAN,
                           left : Nat]]

(* How far each bucket is below its capacity, were it refilled now.        *)
Load == [b \in Buckets |-> Cap(b) - Available(b)]

Contract == INSTANCE RateContract WITH
    Ceilings <- Buckets,
    Charges <- {Drawn(j) : j \in Jobs},
    Rates <- [b \in Buckets |-> Rate(b)],
    Caps <- [b \in Buckets |-> Cap(b)],
    load <- Load

(* The rate is kept over every window, by every interleaving of the calls: *)
(* the buckets, refilled only when someone looks at them, meter what a     *)
(* meter that runs all the time would.                                     *)
ImplementsRateContract == Contract!Spec

(* Waiting is never for good: a call that waits is admitted, or others are *)
(* admitted in its place over and over, or the server answers 429 over and *)
(* over.  In particular a sleep is never for what a bucket cannot hold.    *)
SomeoneDeparts ==
    \A c \in Calls :
        \/ []<>(call[c].stage \notin {"turn", "asleep"})
        \/ []<><<\E d \in Calls : Depart(d)>>_vars
        \/ []<><<\E d \in Calls, r \in RetryAfters : TooMany(d, r)>>_vars
=============================================================================
