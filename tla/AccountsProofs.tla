---------------------------- MODULE AccountsProofs ----------------------------
(***************************************************************************)
(* The safety of the accounts, of the pipeline client, and of the client   *)
(* as the daemon wires it to an account.                                   *)
(***************************************************************************)
EXTENDS Accounts, AccountPipeline, TLAPS

(***************************************************************************)
(* Accounts: what is true of them whatever is under way at once.           *)
(***************************************************************************)
Insts ==
  [id : Ids \cup {None}, name : Names \cup {None}, password : BOOLEAN, cookie : Cookies,
   alive : BOOLEAN, trust : BOOLEAN, unsaved : BOOLEAN, online : BOOLEAN, asks : BOOLEAN,
   cost : Nat, reauth : {"none", "probing", "login", "saved", "asked"}]

Steps ==
  {"done", "login", "code", "profile", "resume", "saving", "rekeying", "announce", "logout", "sent", "waiting"}
Calls ==
  [kind : {"idle", "add", "again", "verify", "load", "remove", "call"}, of : Instances \cup {None},
   key : Ids \cup {None}, step : Steps, valid : BOOLEAN, retried : BOOLEAN]

AccountsTyped ==
  /\ inst \in [Instances -> Insts]
  /\ accounts \in [Ids -> Instances \cup {None}]
  /\ secrets \in [Ids -> Rows \cup {None}]
  /\ flow \in [Flows -> Calls]
  /\ protected \in BOOLEAN
  /\ crashes \in 0 .. MaxCrashes

\* A call is at a step of its kind, and knows what it is about.
CallFits(c) ==
  /\ c.kind = "idle" <=> c = Idle
  /\ c.kind # "idle" <=> c.of \in Instances
  /\ c.kind \in {"add", "verify", "load", "remove"} <=> c.key \in Ids
  /\ c.kind = "add" => c.key \in Pending
  /\ c.step = "done" <=> c.kind = "idle"
  /\ c.step = "login" => c.kind \in {"add", "again"}
  /\ c.step \in {"code", "profile"} => c.kind = "verify"
  /\ c.step = "resume" => c.kind = "load"
  /\ c.step \in {"saving", "announce"} => c.kind \in {"add", "again", "verify", "load"}
  /\ c.step = "rekeying" => c.kind \in {"add", "verify", "load"}
  /\ c.step = "logout" <=> c.kind = "remove"
  /\ c.step \in {"sent", "waiting"} <=> c.kind = "call"

CallsFit == \A f \in Flows : CallFits(flow[f])

\* Somebody refers to the instance, or its re-authentication does.
Held(i) == Referred(i, accounts, flow) \/ inst[i].reauth # "none"

HeldAreNamed == \A i \in Instances : Held(i) => inst[i].id \in Ids /\ inst[i].name \in Names

WaitersAreHeard == \A f \in Flows : flow[f].step = "waiting" => inst[flow[f].of].reauth # "none"

\* Without a second factor: a login leaves a session that lives, and is not repeated as long
\* as it does, or until the credentials are gone.
LoginsAreEarned ==
  ~protected => \A i \in Instances :
     /\ inst[i].cost <= 1
     /\ inst[i].reauth = "login" => inst[i].cost = 0
     /\ inst[i].cost > 0 => inst[i].alive \/ ~inst[i].password

AccountsInv == AccountsTyped /\ CallsFit /\ HeldAreNamed /\ WaitersAreHeard /\ LoginsAreEarned

-----------------------------------------------------------------------------
LEMMA NoneIsNot ==
  /\ None \notin Instances /\ None \notin Ids /\ None \notin Names /\ None \notin Rows
  /\ Real \in Ids /\ Real \notin Pending /\ Pending \subseteq Ids /\ MaxCrashes \in Nat
  /\ Ids = {Real} \cup Pending
BY AccountsAssumption DEF Ids

LEMMA NoInstanceIs == NoInstance \in Insts /\ NoInstance.id = None /\ NoInstance.reauth = "none" /\ NoInstance.cost = 0
BY DEF NoInstance, Insts, Cookies

LEMMA IdleIs == Idle \in Calls /\ CallFits(Idle) /\ Idle.of = None /\ Idle.step = "done" /\ Idle.kind = "idle" /\ Idle.key = None
BY NoneIsNot DEF Idle, Calls, Steps, CallFits

LEMMA AdoptedIs ==
  ASSUME NEW a \in Insts
  PROVE  /\ Adopted(a) \in Insts /\ Adopted(a).id = Real /\ ~Adopted(a).asks /\ Adopted(a).online
         /\ Adopted(a).name = a.name /\ Adopted(a).password = a.password /\ Adopted(a).cookie = a.cookie
         /\ Adopted(a).alive = a.alive /\ Adopted(a).trust = a.trust /\ Adopted(a).cost = a.cost
         /\ Adopted(a).reauth = a.reauth /\ ~Adopted(a).unsaved
BY NoneIsNot DEF Adopted, Insts

LEMMA LoggedInIs ==
  ASSUME NEW a \in Insts
  PROVE  /\ LoggedIn(a) \in Insts /\ LoggedIn(a).id = Real /\ ~LoggedIn(a).asks /\ LoggedIn(a).online
         /\ LoggedIn(a).name = a.name /\ LoggedIn(a).password /\ LoggedIn(a).cookie = "auth"
         /\ LoggedIn(a).alive /\ LoggedIn(a).trust = a.trust /\ LoggedIn(a).cost = a.cost
         /\ LoggedIn(a).reauth = a.reauth /\ ~LoggedIn(a).unsaved
<1> DEFINE b == Adopted(a)
<1>1. /\ b \in Insts /\ b.id = Real /\ ~b.asks /\ b.online /\ b.name = a.name
      /\ b.trust = a.trust /\ b.cost = a.cost /\ b.reauth = a.reauth /\ ~b.unsaved
  BY AdoptedIs
<1>2. LoggedIn(a) = [b EXCEPT !.cookie = "auth", !.alive = TRUE, !.password = TRUE]
  BY DEF LoggedIn
<1> DEFINE c == [b EXCEPT !.cookie = "auth", !.alive = TRUE, !.password = TRUE]
<1> HIDE DEF b
<1>3. c \in Insts
  BY <1>1 DEF Insts, Cookies
<1>4. /\ c.id = b.id /\ c.asks = b.asks /\ c.online = b.online /\ c.name = b.name /\ c.password
      /\ c.cookie = "auth" /\ c.alive /\ c.trust = b.trust /\ c.cost = b.cost /\ c.reauth = b.reauth
      /\ c.unsaved = b.unsaved
  BY <1>1 DEF Insts
<1> HIDE DEF c
<1>5. QED
  BY <1>1, <1>2, <1>3, <1>4 DEF c

LEMMA AskedForCodeIs ==
  ASSUME NEW a \in Insts
  PROVE  /\ AskedForCode(a) \in Insts /\ AskedForCode(a).id = a.id /\ AskedForCode(a).asks /\ ~AskedForCode(a).online
         /\ AskedForCode(a).name = a.name /\ AskedForCode(a).password /\ AskedForCode(a).cookie = "pre"
         /\ ~AskedForCode(a).alive /\ AskedForCode(a).trust = a.trust /\ AskedForCode(a).cost = 0
         /\ AskedForCode(a).reauth = a.reauth /\ ~AskedForCode(a).unsaved
BY DEF AskedForCode, Insts, Cookies

LEMMA BecomesIs ==
  ASSUME AccountsTyped, NEW i \in Instances, NEW a \in Insts, Becomes(i, a)
  PROVE  /\ inst' \in [Instances -> Insts] /\ inst'[i] = a
         /\ \A j \in Instances : j # i => inst'[j] = inst[j]
BY DEF Becomes, AccountsTyped

LEMMA GoesIs ==
  ASSUME AccountsTyped, NEW f \in Flows, NEW s \in Steps, Goes(f, s)
  PROVE  /\ flow' \in [Flows -> Calls]
         /\ flow'[f].kind = flow[f].kind /\ flow'[f].of = flow[f].of /\ flow'[f].key = flow[f].key
         /\ flow'[f].step = s /\ flow'[f].valid = flow[f].valid /\ flow'[f].retried = flow[f].retried
         /\ \A g \in Flows : g # f => flow'[g] = flow[g]
         /\ \A g \in Flows : flow'[g].of = flow[g].of /\ flow'[g].kind = flow[g].kind /\ flow'[g].key = flow[g].key
<1>1. flow' = [flow EXCEPT ![f] = [flow[f] EXCEPT !.step = s]]
  BY DEF Goes
<1>2. [flow[f] EXCEPT !.step = s] \in Calls
  BY DEF AccountsTyped, Calls
<1>3. QED
  BY <1>1, <1>2 DEF AccountsTyped, Calls

LEMMA BeginsIs ==
  ASSUME AccountsTyped, NEW f \in Flows, NEW i \in Instances, NEW kind \in {"add", "again", "verify", "remove"},
         NEW key \in Ids \cup {None}, NEW s \in Steps, Begins(f, i, kind, key, s)
  PROVE  /\ flow' \in [Flows -> Calls]
         /\ flow'[f].kind = kind /\ flow'[f].of = i /\ flow'[f].key = key /\ flow'[f].step = s
         /\ \A g \in Flows : g # f => flow'[g] = flow[g]
BY DEF Begins, AccountsTyped, Calls, Idle

LEMMA PersistIs ==
  ASSUME AccountsTyped, NEW a \in Insts, a.id \in Ids, a.name \in Names, Persist(a)
  PROVE  /\ secrets' \in [Ids -> Rows \cup {None}] /\ secrets'[a.id] = ToSecret(a) /\ ToSecret(a) \in Rows
         /\ \A k \in Ids : k # a.id => secrets'[k] = secrets[k]
<1>1. ToSecret(a) \in Rows
  BY DEF ToSecret, Rows, Insts
<1>2. QED
  BY <1>1 DEF Persist, AccountsTyped

\* A call has returned, and its instance is a, unless nobody refers to it any more.
Over(f, a, at) ==
  /\ flow' \in [Flows -> Calls] /\ flow'[f] = Idle /\ \A g \in Flows : g # f => flow'[g] = flow[g]
  /\ inst' \in [Instances -> Insts] /\ a \in Insts
  /\ \A j \in Instances : j # flow[f].of => inst'[j] = inst[j]
  /\ Referred(flow[f].of, at, flow') \/ a.reauth # "none" => inst'[flow[f].of] = a
  /\ ~(Referred(flow[f].of, at, flow') \/ a.reauth # "none") => inst'[flow[f].of] = NoInstance

LEMMA EndsIs ==
  ASSUME AccountsTyped, NEW f \in Flows, NEW a \in Insts, NEW at, Ends(f, a, at), flow[f].of \in Instances
  PROVE  Over(f, a, at)
BY IdleIs, NoInstanceIs DEF Ends, AccountsTyped, Over

\* An attempt is over: whoever waited sends again, or is told.
Settled(i, a) ==
  /\ flow' \in [Flows -> Calls] /\ UNCHANGED <<accounts, secrets>>
  /\ \A g \in Flows : flow[g].of # i \/ flow[g].step # "waiting" => flow'[g] = flow[g]
  /\ \A g \in Flows : flow[g].of = i /\ flow[g].step = "waiting" =>
       \/ flow'[g] = Idle
       \/ flow'[g].kind = "call" /\ flow'[g].of = i /\ flow'[g].step = "sent" /\ flow'[g].key = flow[g].key
  /\ inst' \in [Instances -> Insts] /\ a \in Insts
  /\ \A j \in Instances : j # i => inst'[j] = inst[j]
  /\ Referred(i, accounts, flow') => inst'[i] = [a EXCEPT !.reauth = "none"]
  /\ ~Referred(i, accounts, flow') => inst'[i] = NoInstance

LEMMA SettlesIs ==
  ASSUME AccountsTyped, CallsFit, NEW i \in Instances, NEW a \in Insts, NEW ok \in BOOLEAN, Settles(i, a, ok)
  PROVE  Settled(i, a)
<1> DEFINE sent(g) == [flow[g] EXCEPT !.step = "sent", !.retried = TRUE, !.valid = a.alive]
<1>1. \A g \in Flows : flow[g] \in Calls /\ flow[g].of = i /\ flow[g].step = "waiting" =>
        /\ sent(g) \in Calls /\ sent(g).kind = "call" /\ sent(g).of = i /\ sent(g).step = "sent" /\ sent(g).key = flow[g].key
  BY DEF Calls, Steps, CallsFit, CallFits, Insts
<1> HIDE DEF sent
<1>2. flow' = [g \in Flows |-> IF flow[g].of /= i \/ flow[g].step /= "waiting" THEN flow[g]
                               ELSE IF ok THEN sent(g) ELSE Idle]
  BY DEF Settles, sent
<1>3. \A g \in Flows : flow[g] \in Calls
  BY DEF AccountsTyped
<1>4. [a EXCEPT !.reauth = "none"] \in Insts
  BY DEF Insts
<1>5. /\ inst' = [inst EXCEPT ![i] = IF Referred(i, accounts, flow') THEN [a EXCEPT !.reauth = "none"] ELSE NoInstance]
      /\ UNCHANGED <<accounts, secrets>>
  BY DEF Settles
<1>6. flow' \in [Flows -> Calls]
  BY <1>1, <1>2, <1>3, IdleIs
<1>7. inst' \in [Instances -> Insts]
  BY <1>4, <1>5, NoInstanceIs DEF AccountsTyped
<1>8. QED
  BY <1>1, <1>2, <1>3, <1>5, <1>6, <1>7 DEF AccountsTyped, Settled

-----------------------------------------------------------------------------
(***************************************************************************)
(* The steps, as what they leave and what they change.                     *)
(***************************************************************************)
\* What a step of call f with instance i does to the instance: it lives on as a.
At(i, a) == inst'[i] = a /\ a \in Insts /\ \A j \in Instances : j # i => inst'[j] = inst[j]

\* The account is still who it was, or is who it turned out to be.
SameOwner(a, b) == b.name = a.name /\ b.id \in {a.id, Real} /\ b.reauth = a.reauth /\ b.cost \in {a.cost, 0}

LEMMA CallIs ==
  ASSUME AccountsInv, NEW f \in Flows, flow[f].kind # "idle"
  PROVE  /\ flow[f].of \in Instances /\ Held(flow[f].of) /\ inst[flow[f].of] \in Insts
         /\ inst[flow[f].of].id \in Ids /\ inst[flow[f].of].name \in Names
         /\ flow[f] \in Calls
<1>1. flow[f].of \in Instances /\ flow[f] \in Calls
  BY DEF AccountsInv, AccountsTyped, CallsFit, CallFits
<1>2. Held(flow[f].of)
  BY <1>1 DEF Held, Referred
<1>3. QED
  BY <1>1, <1>2 DEF AccountsInv, AccountsTyped, HeldAreNamed

LEMMA LoginAnsweredIs ==
  ASSUME AccountsInv, NEW f \in Flows, LoginAnswered(f)
  PROVE  LET i == flow[f].of IN
         /\ flow[f].step = "login" /\ flow[f].kind \in {"add", "again"} /\ i \in Instances
         /\ \/ At(i, LoggedIn(inst[i])) /\ Persist(LoggedIn(inst[i]))
            \/ protected /\ At(i, AskedForCode(inst[i])) /\ Persist(AskedForCode(inst[i]))
         /\ SameOwner(inst[i], inst'[i])
         /\ inst' \in [Instances -> Insts] /\ secrets' \in [Ids -> Rows \cup {None}]
         /\ Goes(f, "saving") /\ flow' \in [Flows -> Calls]
         /\ UNCHANGED <<accounts, protected, crashes>>
<1> DEFINE i == flow[f].of
<1>1. flow[f].step = "login" /\ flow[f].kind \in {"add", "again"}
  BY DEF LoginAnswered, AccountsInv, CallsFit, CallFits
<1>2. i \in Instances /\ inst[i] \in Insts /\ inst[i].id \in Ids /\ inst[i].name \in Names
  BY <1>1, CallIs
<1> HIDE DEF i
<1>3. PICK a \in LoginAnswers(inst[i]) : Becomes(i, a) /\ Persist(a)
  BY DEF LoginAnswered, i
<1>a. a = LoggedIn(inst[i]) \/ (protected /\ a = AskedForCode(inst[i]))
  BY <1>3 DEF LoginAnswers
<1>4. /\ a \in Insts /\ SameOwner(inst[i], a) /\ a.id \in Ids /\ a.name \in Names
  <2>1. CASE a = LoggedIn(inst[i])
    BY <1>2, <2>1, LoggedInIs, NoneIsNot DEF SameOwner
  <2>2. CASE a = AskedForCode(inst[i])
    BY <1>2, <2>2, AskedForCodeIs DEF SameOwner
  <2>3. QED
    BY <1>a, <2>1, <2>2
<1>5. Goes(f, "saving") /\ UNCHANGED <<accounts, protected, crashes>>
  BY DEF LoginAnswered
<1>6. AccountsTyped
  BY DEF AccountsInv
<1>7. At(i, a) /\ inst' \in [Instances -> Insts]
  BY <1>2, <1>3, <1>4, <1>6, BecomesIs DEF At
<1>8. flow' \in [Flows -> Calls] /\ secrets' \in [Ids -> Rows \cup {None}]
  BY <1>3, <1>4, <1>5, <1>6, GoesIs, PersistIs DEF Steps
<1>9. QED
  BY <1>1, <1>2, <1>3, <1>a, <1>4, <1>5, <1>7, <1>8 DEF i, At

LEMMA CodeAcceptedIs ==
  ASSUME AccountsInv, NEW f \in Flows, CodeAccepted(f)
  PROVE  LET i == flow[f].of
             a == inst'[i]
         IN
         /\ flow[f].step = "code" /\ flow[f].kind = "verify" /\ i \in Instances
         /\ At(i, a) /\ SameOwner(inst[i], a) /\ a.id = inst[i].id
         /\ a.trust /\ a.unsaved /\ a.asks = inst[i].asks /\ (a.alive \/ a.alive = inst[i].alive)
         /\ a.password = inst[i].password
         /\ inst' \in [Instances -> Insts]
         /\ Goes(f, "profile") /\ flow' \in [Flows -> Calls]
         /\ UNCHANGED <<accounts, secrets, protected, crashes, excuses>>
<1> DEFINE i == flow[f].of
           b == [inst[i] EXCEPT !.trust = TRUE, !.unsaved = TRUE]
           c == [b EXCEPT !.cookie = "auth", !.alive = TRUE]
<1>1. flow[f].step = "code" /\ flow[f].kind = "verify" /\ AccountsTyped
  BY DEF CodeAccepted, AccountsInv, CallsFit, CallFits
<1>2. i \in Instances /\ inst[i] \in Insts
  BY <1>1, CallIs
<1>3. /\ Becomes(i, c) \/ Becomes(i, b)
      /\ Goes(f, "profile") /\ UNCHANGED <<accounts, secrets, protected, crashes, excuses>>
  BY DEF CodeAccepted
<1> HIDE DEF i
<1>4. /\ b \in Insts /\ SameOwner(inst[i], b) /\ b.id = inst[i].id /\ b.trust /\ b.unsaved
      /\ b.asks = inst[i].asks /\ b.alive = inst[i].alive /\ b.password = inst[i].password
  BY <1>2 DEF Insts, SameOwner
<1> HIDE DEF b
<1>5. /\ c \in Insts /\ c.id = b.id /\ c.name = b.name /\ c.reauth = b.reauth /\ c.cost = b.cost
      /\ c.trust = b.trust /\ c.unsaved = b.unsaved /\ c.asks = b.asks /\ c.alive /\ c.password = b.password
  BY <1>4 DEF Insts, Cookies
<1> HIDE DEF c
<1>6. PICK a \in {b, c} : Becomes(i, a)
  BY <1>3
<1>7. /\ a \in Insts /\ SameOwner(inst[i], a) /\ a.id = inst[i].id /\ a.trust /\ a.unsaved
      /\ a.asks = inst[i].asks /\ (a.alive \/ a.alive = inst[i].alive) /\ a.password = inst[i].password
  BY <1>4, <1>5 DEF SameOwner
<1>8. At(i, a) /\ inst' \in [Instances -> Insts] /\ inst'[i] = a
  BY <1>1, <1>2, <1>6, <1>7, BecomesIs DEF At
<1>9. flow' \in [Flows -> Calls]
  BY <1>1, <1>3, GoesIs DEF Steps
<1>10. QED
  BY <1>1, <1>2, <1>3, <1>7, <1>8, <1>9 DEF i

LEMMA ProfileLoadedIs ==
  ASSUME AccountsInv, NEW f \in Flows, ProfileLoaded(f)
  PROVE  LET i == flow[f].of IN
         /\ flow[f].step = "profile" /\ flow[f].kind = "verify" /\ i \in Instances
         /\ inst[i].cookie = "auth" /\ inst[i].alive /\ inst[i].id \in Ids /\ inst[i].name \in Names
         /\ At(i, Adopted(inst[i])) /\ Persist(Adopted(inst[i])) /\ SameOwner(inst[i], inst'[i])
         /\ inst' \in [Instances -> Insts] /\ secrets' \in [Ids -> Rows \cup {None}]
         /\ Goes(f, "saving") /\ flow' \in [Flows -> Calls]
         /\ UNCHANGED <<accounts, protected, crashes, excuses>>
<1> DEFINE i == flow[f].of
           a == Adopted(inst[i])
<1>1. flow[f].step = "profile" /\ flow[f].kind = "verify" /\ inst[i].cookie = "auth" /\ inst[i].alive
  BY DEF ProfileLoaded, AccountsInv, CallsFit, CallFits
<1>2. i \in Instances /\ inst[i] \in Insts /\ inst[i].id \in Ids /\ inst[i].name \in Names
  BY <1>1, CallIs
<1>3. Becomes(i, a) /\ Persist(a) /\ Goes(f, "saving") /\ UNCHANGED <<accounts, protected, crashes, excuses>>
  BY DEF ProfileLoaded
<1> HIDE DEF i
<1>4. a \in Insts /\ a.id = Real /\ a.name = inst[i].name /\ SameOwner(inst[i], a)
  BY <1>2, AdoptedIs DEF SameOwner
<1> HIDE DEF a
<1>5. AccountsTyped
  BY DEF AccountsInv
<1>6. At(i, a) /\ inst' \in [Instances -> Insts] /\ inst'[i] = a
  BY <1>2, <1>3, <1>4, <1>5, BecomesIs DEF At
<1>7. flow' \in [Flows -> Calls] /\ secrets' \in [Ids -> Rows \cup {None}]
  BY <1>2, <1>3, <1>4, <1>5, GoesIs, PersistIs, NoneIsNot DEF Steps
<1>8. QED
  BY <1>1, <1>2, <1>3, <1>4, <1>6, <1>7 DEF i, a

LEMMA ResumeLiveIs ==
  ASSUME AccountsInv, NEW f \in Flows, ResumeLive(f)
  PROVE  LET i == flow[f].of IN
         /\ flow[f].step = "resume" /\ flow[f].kind = "load" /\ i \in Instances
         /\ inst[i].cookie = "auth" /\ inst[i].alive /\ inst[i].id \in Ids /\ inst[i].name \in Names
         /\ At(i, Adopted(inst[i])) /\ Persist(Adopted(inst[i])) /\ SameOwner(inst[i], inst'[i])
         /\ inst' \in [Instances -> Insts] /\ secrets' \in [Ids -> Rows \cup {None}]
         /\ Goes(f, "saving") /\ flow' \in [Flows -> Calls]
         /\ UNCHANGED <<accounts, protected, crashes, excuses>>
<1> DEFINE i == flow[f].of
           a == Adopted(inst[i])
<1>1. flow[f].step = "resume" /\ flow[f].kind = "load" /\ inst[i].cookie = "auth" /\ inst[i].alive
  BY DEF ResumeLive, AccountsInv, CallsFit, CallFits
<1>2. i \in Instances /\ inst[i] \in Insts /\ inst[i].id \in Ids /\ inst[i].name \in Names
  BY <1>1, CallIs
<1>3. Becomes(i, a) /\ Persist(a) /\ Goes(f, "saving") /\ UNCHANGED <<accounts, protected, crashes, excuses>>
  BY DEF ResumeLive
<1> HIDE DEF i
<1>4. a \in Insts /\ a.id = Real /\ a.name = inst[i].name /\ SameOwner(inst[i], a)
  BY <1>2, AdoptedIs DEF SameOwner
<1> HIDE DEF a
<1>5. AccountsTyped
  BY DEF AccountsInv
<1>6. At(i, a) /\ inst' \in [Instances -> Insts] /\ inst'[i] = a
  BY <1>2, <1>3, <1>4, <1>5, BecomesIs DEF At
<1>7. flow' \in [Flows -> Calls] /\ secrets' \in [Ids -> Rows \cup {None}]
  BY <1>2, <1>3, <1>4, <1>5, GoesIs, PersistIs, NoneIsNot DEF Steps
<1>8. QED
  BY <1>1, <1>2, <1>3, <1>4, <1>6, <1>7 DEF i, a

\* An instance that is only told that it is not online, or is not in re-authentication.
LEMMA FieldIs ==
  ASSUME NEW a \in Insts, NEW x \in {"none", "probing", "login", "saved", "asked"}, NEW n \in Nat
  PROVE  /\ LET b == [a EXCEPT !.online = FALSE] IN
            /\ b \in Insts /\ SameOwner(a, b) /\ b.id = a.id /\ b.cookie = a.cookie /\ b.alive = a.alive
            /\ b.trust = a.trust /\ b.unsaved = a.unsaved /\ ~b.online /\ b.asks = a.asks /\ b.password = a.password
         /\ LET b == [a EXCEPT !.reauth = x] IN
            /\ b \in Insts /\ b.id = a.id /\ b.name = a.name /\ b.cookie = a.cookie /\ b.alive = a.alive
            /\ b.trust = a.trust /\ b.unsaved = a.unsaved /\ b.online = a.online /\ b.asks = a.asks /\ b.password = a.password
            /\ b.cost = a.cost /\ b.reauth = x
         /\ LET b == [a EXCEPT !.cost = n] IN
            /\ b \in Insts /\ b.id = a.id /\ b.name = a.name /\ b.cookie = a.cookie /\ b.alive = a.alive
            /\ b.trust = a.trust /\ b.unsaved = a.unsaved /\ b.online = a.online /\ b.asks = a.asks /\ b.password = a.password
            /\ b.cost = n /\ b.reauth = a.reauth
<1>1. LET b == [a EXCEPT !.online = FALSE] IN
            /\ b \in Insts /\ SameOwner(a, b) /\ b.id = a.id /\ b.cookie = a.cookie /\ b.alive = a.alive
            /\ b.trust = a.trust /\ b.unsaved = a.unsaved /\ ~b.online /\ b.asks = a.asks /\ b.password = a.password
  BY DEF Insts, SameOwner
<1>2. LET b == [a EXCEPT !.reauth = x] IN
            /\ b \in Insts /\ b.id = a.id /\ b.name = a.name /\ b.cookie = a.cookie /\ b.alive = a.alive
            /\ b.trust = a.trust /\ b.unsaved = a.unsaved /\ b.online = a.online /\ b.asks = a.asks /\ b.password = a.password
            /\ b.cost = a.cost /\ b.reauth = x
  BY DEF Insts
<1>3. LET b == [a EXCEPT !.cost = n] IN
            /\ b \in Insts /\ b.id = a.id /\ b.name = a.name /\ b.cookie = a.cookie /\ b.alive = a.alive
            /\ b.trust = a.trust /\ b.unsaved = a.unsaved /\ b.online = a.online /\ b.asks = a.asks /\ b.password = a.password
            /\ b.cost = n /\ b.reauth = a.reauth
  BY DEF Insts
<1>4. QED
  BY <1>1, <1>2, <1>3

LEMMA ResumeFailsIs ==
  ASSUME AccountsInv, NEW f \in Flows, ResumeFails(f)
  PROVE  LET i == flow[f].of IN
         /\ flow[f].step = "resume" /\ flow[f].kind = "load" /\ i \in Instances
         /\ At(i, [inst[i] EXCEPT !.online = FALSE]) /\ SameOwner(inst[i], inst'[i])
         /\ inst' \in [Instances -> Insts]
         /\ Goes(f, "saving") /\ flow' \in [Flows -> Calls]
         /\ UNCHANGED <<accounts, secrets, protected, crashes, excuses>>
<1> DEFINE i == flow[f].of
           a == [inst[i] EXCEPT !.online = FALSE]
<1>1. flow[f].step = "resume" /\ flow[f].kind = "load"
  BY DEF ResumeFails, AccountsInv, CallsFit, CallFits
<1>2. i \in Instances /\ inst[i] \in Insts
  BY <1>1, CallIs
<1>3. Becomes(i, a) /\ Goes(f, "saving") /\ UNCHANGED <<accounts, secrets, protected, crashes, excuses>>
  BY DEF ResumeFails
<1> HIDE DEF i
<1>4. a \in Insts /\ SameOwner(inst[i], a)
  BY <1>2, FieldIs
<1> HIDE DEF a
<1>5. AccountsTyped
  BY DEF AccountsInv
<1>6. At(i, a) /\ inst' \in [Instances -> Insts] /\ inst'[i] = a
  BY <1>2, <1>3, <1>4, <1>5, BecomesIs DEF At
<1>7. flow' \in [Flows -> Calls]
  BY <1>3, <1>5, GoesIs DEF Steps
<1>8. QED
  BY <1>1, <1>2, <1>3, <1>4, <1>6, <1>7 DEF i, a

LEMMA LoginFailsIs ==
  ASSUME AccountsInv, NEW f \in Flows, LoginFails(f)
  PROVE  /\ flow[f].step = "login" /\ flow[f].kind \in {"add", "again"} /\ flow[f].of \in Instances
         /\ Over(f, [inst[flow[f].of] EXCEPT !.online = FALSE], accounts')
         /\ flow[f].kind = "add" => /\ accounts' = [accounts EXCEPT ![flow[f].key] = None]
                                    /\ secrets' = [secrets EXCEPT ![flow[f].key] = None]
         /\ flow[f].kind = "again" => UNCHANGED <<accounts, secrets>>
         /\ UNCHANGED <<protected, crashes>>
<1> DEFINE i == flow[f].of
           a == [inst[i] EXCEPT !.online = FALSE]
<1>1. flow[f].step = "login" /\ flow[f].kind \in {"add", "again"} /\ AccountsTyped
  BY DEF LoginFails, AccountsInv, CallsFit, CallFits
<1>2. i \in Instances /\ inst[i] \in Insts
  BY <1>1, CallIs
<1>3. a \in Insts
  BY <1>2, FieldIs
<1>4. Ends(f, a, accounts')
  BY DEF LoginFails
<1> HIDE DEF a
<1>5. Over(f, a, accounts')
  BY <1>1, <1>2, <1>3, <1>4, EndsIs
<1>6. QED
  BY <1>1, <1>2, <1>5 DEF LoginFails, a

\* A call that only returns.
LEMMA ReturnsIs ==
  ASSUME AccountsInv, NEW f \in Flows, flow[f].kind # "idle", Ends(f, inst[flow[f].of], accounts)
  PROVE  flow[f].of \in Instances /\ Over(f, inst[flow[f].of], accounts)
<1>1. flow[f].of \in Instances /\ inst[flow[f].of] \in Insts
  BY CallIs
<1>2. QED
  BY <1>1, EndsIs DEF AccountsInv

Returns(f) ==
  /\ flow[f].kind # "idle" /\ flow[f].of \in Instances /\ Over(f, inst[flow[f].of], accounts)
  /\ UNCHANGED <<accounts, secrets, protected, crashes, excuses>>

LEMMA CodeRefusedIs ==
  ASSUME AccountsInv, NEW f \in Flows, CodeRefused(f)
  PROVE  flow[f].kind = "verify" /\ Returns(f)
<1>1. flow[f].kind = "verify"
  BY DEF AccountsInv, CallsFit, CallFits, CodeRefused
<1>2. QED
  BY <1>1, ReturnsIs DEF CodeRefused, Returns

LEMMA ProfileFailsIs ==
  ASSUME AccountsInv, NEW f \in Flows, ProfileFails(f)
  PROVE  flow[f].kind = "verify" /\ Returns(f)
<1>1. flow[f].kind = "verify"
  BY DEF AccountsInv, CallsFit, CallFits, ProfileFails
<1>2. QED
  BY <1>1, ReturnsIs DEF ProfileFails, Returns

LEMMA AnnounceIs ==
  ASSUME AccountsInv, NEW f \in Flows, Announce(f)
  PROVE  flow[f].step = "announce" /\ Returns(f)
<1>1. flow[f].kind # "idle"
  BY DEF AccountsInv, CallsFit, CallFits, Announce
<1>2. QED
  BY <1>1, ReturnsIs DEF Announce, Returns

LEMMA CallOkIs ==
  ASSUME AccountsInv, NEW f \in Flows, CallOk(f)
  PROVE  flow[f].kind = "call" /\ Returns(f)
<1>1. flow[f].kind = "call"
  BY DEF AccountsInv, CallsFit, CallFits, CallOk
<1>2. QED
  BY <1>1, ReturnsIs DEF CallOk, Returns

LEMMA Call401Is ==
  ASSUME AccountsInv, NEW f \in Flows, Call401(f)
  PROVE  /\ flow[f].kind = "call" /\ flow[f].step = "sent" /\ flow[f].of \in Instances
         /\ \/ Returns(f)
            \/ /\ Goes(f, "waiting") /\ flow' \in [Flows -> Calls]
               /\ inst' \in [Instances -> Insts]
               /\ \/ inst[flow[f].of].reauth # "none" /\ UNCHANGED inst
                  \/ /\ inst[flow[f].of].reauth = "none"
                     /\ At(flow[f].of, [inst[flow[f].of] EXCEPT !.reauth = "probing"])
               /\ UNCHANGED <<accounts, secrets, protected, crashes, excuses>>
<1> DEFINE i == flow[f].of
           a == [inst[i] EXCEPT !.reauth = "probing"]
<1>1. flow[f].kind = "call" /\ flow[f].step = "sent"
  BY DEF AccountsInv, CallsFit, CallFits, Call401
<1>2. i \in Instances /\ inst[i] \in Insts /\ AccountsTyped
  BY <1>1, CallIs DEF AccountsInv
<1>3. CASE Ends(f, inst[i], accounts)
  <2>1. Returns(f)
    BY <1>1, <1>3, ReturnsIs DEF Call401, Returns
  <2>2. QED
    BY <1>1, <1>2, <2>1
<1>4. CASE /\ Goes(f, "waiting")
           /\ inst' = IF inst[i].reauth /= "none" THEN inst ELSE [inst EXCEPT ![i].reauth = "probing"]
  <2>1. flow' \in [Flows -> Calls]
    BY <1>2, <1>4, GoesIs DEF Steps
  <2>2. a \in Insts
    BY <1>2, FieldIs
  <2>3. CASE inst[i].reauth # "none"
    BY <1>1, <1>2, <1>4, <2>1, <2>3 DEF Call401, AccountsTyped
  <2>4. CASE inst[i].reauth = "none"
    <3>1. Becomes(i, a)
      BY <1>4, <2>4 DEF Becomes
    <3> HIDE DEF a, i
    <3>2. At(i, a) /\ inst' \in [Instances -> Insts]
      BY <1>2, <2>2, <3>1, BecomesIs DEF At
    <3>3. QED
      BY <1>1, <1>2, <1>4, <2>1, <2>4, <3>2 DEF Call401, a, i
  <2>5. QED
    BY <2>3, <2>4
<1>5. QED
  BY <1>3, <1>4 DEF Call401

LEMMA LoggedOutIs ==
  ASSUME AccountsInv, NEW f \in Flows, LoggedOut(f)
  PROVE  /\ flow[f].kind = "remove" /\ flow[f].of \in Instances /\ flow[f].key \in Ids
         /\ \E a \in Insts : /\ Over(f, a, accounts')
                             /\ SameOwner(inst[flow[f].of], a) /\ a.id = inst[flow[f].of].id /\ ~a.password
                             /\ a.cookie = "none" /\ ~a.trust /\ a.asks = inst[flow[f].of].asks
         /\ accounts' = [accounts EXCEPT ![flow[f].key] = None]
         /\ secrets' = [secrets EXCEPT ![flow[f].key] = None]
         /\ UNCHANGED <<protected, crashes>>
<1> DEFINE i == flow[f].of
           a == [inst[i] EXCEPT !.cookie = "none", !.alive = FALSE, !.trust = FALSE, !.password = FALSE, !.online = FALSE]
<1>1. flow[f].kind = "remove" /\ flow[f].key \in Ids /\ AccountsTyped
  BY DEF LoggedOut, AccountsInv, CallsFit, CallFits
<1>2. i \in Instances /\ inst[i] \in Insts
  BY <1>1, CallIs
<1>3. /\ a \in Insts /\ SameOwner(inst[i], a) /\ a.id = inst[i].id /\ ~a.password
      /\ a.cookie = "none" /\ ~a.trust /\ a.asks = inst[i].asks
  BY <1>2 DEF Insts, SameOwner, Cookies
<1>4. Ends(f, a, accounts')
  BY DEF LoggedOut
<1> HIDE DEF a
<1>5. Over(f, a, accounts')
  BY <1>1, <1>2, <1>3, <1>4, EndsIs
<1>6. QED
  BY <1>1, <1>2, <1>3, <1>5 DEF LoggedOut

LEMMA SavedIs ==
  ASSUME AccountsInv, NEW f \in Flows, Saved(f)
  PROVE  LET i == flow[f].of
             k == flow[f].key
             others == [accounts EXCEPT ![k] = None]
         IN
         /\ flow[f].step = "saving" /\ i \in Instances /\ inst[i].id \in Ids /\ inst[i].name \in Names
         /\ UNCHANGED <<inst, protected, crashes, excuses>> /\ flow' \in [Flows -> Calls]
         /\ \/ ~Moved(f) /\ Goes(f, "announce") /\ UNCHANGED <<accounts, secrets>>
            \/ /\ Moved(f) /\ flow[f].kind \in {"add", "verify", "load"} /\ k \in Ids /\ k # inst[i].id
               /\ accounts[inst[i].id] \notin {None, i}
               /\ accounts' = others /\ secrets' = [secrets EXCEPT ![k] = None] /\ Goes(f, "announce")
            \/ /\ Moved(f) /\ flow[f].kind \in {"add", "verify", "load"} /\ k \in Ids /\ k # inst[i].id
               /\ accounts[inst[i].id] \in {None, i}
               /\ accounts' = [others EXCEPT ![inst[i].id] = i] /\ Persist(inst[i])
               /\ secrets' \in [Ids -> Rows \cup {None}] /\ Goes(f, "rekeying")
<1> DEFINE i == flow[f].of
           k == flow[f].key
           others == [accounts EXCEPT ![k] = None]
<1>1. flow[f].step = "saving" /\ flow[f].kind \in {"add", "again", "verify", "load"} /\ AccountsTyped
  BY DEF Saved, AccountsInv, CallsFit, CallFits
<1>2. i \in Instances /\ inst[i] \in Insts /\ inst[i].id \in Ids /\ inst[i].name \in Names
  BY <1>1, CallIs
<1>3. Moved(f) => flow[f].kind \in {"add", "verify", "load"} /\ k \in Ids /\ k # inst[i].id
  BY <1>1 DEF Moved, AccountsInv, CallsFit, CallFits
<1>4. Moved(f) => others[inst[i].id] = accounts[inst[i].id]
  BY <1>1, <1>2, <1>3 DEF AccountsTyped
<1>5. Goes(f, "announce") \/ Goes(f, "rekeying") => flow' \in [Flows -> Calls]
  BY <1>1, GoesIs DEF Steps
<1>6. Persist(inst[i]) => secrets' \in [Ids -> Rows \cup {None}]
  BY <1>1, <1>2, PersistIs
<1>7. QED
  BY <1>1, <1>2, <1>3, <1>4, <1>5, <1>6 DEF Saved

LEMMA RekeyedIs ==
  ASSUME AccountsInv, NEW f \in Flows, Rekeyed(f)
  PROVE  /\ flow[f].step = "rekeying" /\ flow[f].kind \in {"add", "verify", "load"} /\ flow[f].key \in Ids
         /\ secrets' = [secrets EXCEPT ![flow[f].key] = None]
         /\ Goes(f, "announce") /\ flow' \in [Flows -> Calls]
         /\ UNCHANGED <<inst, accounts, protected, crashes, excuses>>
<1>1. flow[f].step = "rekeying" /\ flow[f].kind \in {"add", "verify", "load"} /\ flow[f].key \in Ids /\ AccountsTyped
  BY DEF Rekeyed, AccountsInv, CallsFit, CallFits
<1>2. Goes(f, "announce")
  BY DEF Rekeyed
<1>3. flow' \in [Flows -> Calls]
  BY <1>1, <1>2, GoesIs DEF Steps
<1>4. QED
  BY <1>1, <1>3 DEF Rekeyed

\* A call begins with an instance that is registered, and nothing else changes but what it says.
LEMMA AddIs ==
  ASSUME AccountsInv, NEW f \in Flows, NEW name \in Names, Add(f, name)
  PROVE  /\ flow[f] = Idle /\ UNCHANGED <<secrets, protected, crashes, excuses>>
         /\ inst' \in [Instances -> Insts] /\ flow' \in [Flows -> Calls] /\ \A g \in Flows : g # f => flow'[g] = flow[g]
         /\ accounts' \in [Ids -> Instances \cup {None}]
         /\ \/ \E i \in Registered :
                 /\ i \in Instances /\ At(i, [inst[i] EXCEPT !.online = FALSE]) /\ UNCHANGED accounts
                 /\ flow'[f].kind = "again" /\ flow'[f].of = i /\ flow'[f].key = None /\ flow'[f].step = "login"
            \/ \E i \in Unused, p \in FreshIds :
                 /\ i \in Instances /\ p \in Pending
                 /\ At(i, inst'[i]) /\ accounts' = [accounts EXCEPT ![p] = i]
                 /\ inst'[i].id = p /\ inst'[i].name = name /\ inst'[i].cookie = "none" /\ ~inst'[i].online
                 /\ ~inst'[i].alive /\ ~inst'[i].trust /\ ~inst'[i].asks /\ inst'[i].reauth = "none" /\ inst'[i].cost = 0
                 /\ flow'[f].kind = "add" /\ flow'[f].of = i /\ flow'[f].key = p /\ flow'[f].step = "login"
<1>1. AccountsTyped /\ flow[f] = Idle /\ UNCHANGED <<secrets, protected, crashes, excuses>>
  BY DEF Add, AccountsInv
<1>2. Registered \subseteq Instances
  BY <1>1 DEF Registered, AccountsTyped
<1> DEFINE Again(i) ==
             /\ i \in Instances /\ At(i, [inst[i] EXCEPT !.online = FALSE]) /\ UNCHANGED accounts
             /\ flow'[f].kind = "again" /\ flow'[f].of = i /\ flow'[f].key = None /\ flow'[f].step = "login"
           Fresh(i, p) ==
             /\ i \in Instances /\ p \in Pending
             /\ At(i, inst'[i]) /\ accounts' = [accounts EXCEPT ![p] = i]
             /\ inst'[i].id = p /\ inst'[i].name = name /\ inst'[i].cookie = "none" /\ ~inst'[i].online
             /\ ~inst'[i].alive /\ ~inst'[i].trust /\ ~inst'[i].asks /\ inst'[i].reauth = "none" /\ inst'[i].cost = 0
             /\ flow'[f].kind = "add" /\ flow'[f].of = i /\ flow'[f].key = p /\ flow'[f].step = "login"
           Typed == /\ inst' \in [Instances -> Insts] /\ flow' \in [Flows -> Calls]
                    /\ \A g \in Flows : g # f => flow'[g] = flow[g]
                    /\ accounts' \in [Ids -> Instances \cup {None}]
<1>3. CASE \E i \in Registered : /\ Begins(f, i, "again", None, "login")
                                 /\ Becomes(i, [inst[i] EXCEPT !.online = FALSE]) /\ UNCHANGED accounts
  <2>1. PICK i \in Registered : /\ Begins(f, i, "again", None, "login")
                                /\ Becomes(i, [inst[i] EXCEPT !.online = FALSE]) /\ UNCHANGED accounts
    BY <1>3
  <2> DEFINE a == [inst[i] EXCEPT !.online = FALSE]
  <2>2. i \in Instances /\ inst[i] \in Insts
    BY <1>1, <1>2 DEF AccountsTyped
  <2>3. a \in Insts
    BY <2>2, FieldIs
  <2>4. Becomes(i, a)
    BY <2>1
  <2> HIDE DEF a
  <2>5. At(i, a) /\ inst' \in [Instances -> Insts]
    BY <1>1, <2>2, <2>3, <2>4, BecomesIs DEF At
  <2>6. /\ flow' \in [Flows -> Calls] /\ \A g \in Flows : g # f => flow'[g] = flow[g]
        /\ flow'[f].kind = "again" /\ flow'[f].of = i /\ flow'[f].key = None /\ flow'[f].step = "login"
    BY <1>1, <2>1, <2>2, BeginsIs DEF Steps
  <2>7. Again(i) /\ Typed
    BY <1>1, <2>1, <2>2, <2>5, <2>6 DEF a, AccountsTyped
  <2> HIDE DEF Again, Typed
  <2>8. Typed /\ \E j \in Registered : Again(j)
    BY <2>7
  <2>9. QED
    BY <1>1, <2>8 DEF Again, Typed
<1>4. CASE /\ Unused /= {} /\ FreshIds /= {}
           /\ LET i == CHOOSE i \in Unused : TRUE
                  p == CHOOSE p \in FreshIds : TRUE
              IN  /\ Begins(f, i, "add", p, "login")
                  /\ Becomes(i, [NoInstance EXCEPT !.id = p, !.name = name, !.online = FALSE])
                  /\ accounts' = [accounts EXCEPT ![p] = i]
  <2>1. PICK i \in Unused, p \in FreshIds :
              /\ Begins(f, i, "add", p, "login")
              /\ Becomes(i, [NoInstance EXCEPT !.id = p, !.name = name, !.online = FALSE])
              /\ accounts' = [accounts EXCEPT ![p] = i]
    BY <1>4
  <2> DEFINE a == [NoInstance EXCEPT !.id = p, !.name = name, !.online = FALSE]
  <2>2. i \in Instances /\ p \in Pending /\ p \in Ids
    BY NoneIsNot DEF Unused, FreshIds
  <2>3. /\ a \in Insts /\ a.id = p /\ a.name = name /\ a.cookie = "none" /\ ~a.online
        /\ ~a.alive /\ ~a.trust /\ ~a.asks /\ a.reauth = "none" /\ a.cost = 0
    BY <2>2 DEF NoInstance, Insts, Cookies
  <2>4. Becomes(i, a)
    BY <2>1
  <2> HIDE DEF a
  <2>5. At(i, a) /\ inst' \in [Instances -> Insts] /\ inst'[i] = a
    BY <1>1, <2>2, <2>3, <2>4, BecomesIs DEF At
  <2>6. /\ flow' \in [Flows -> Calls] /\ \A g \in Flows : g # f => flow'[g] = flow[g]
        /\ flow'[f].kind = "add" /\ flow'[f].of = i /\ flow'[f].key = p /\ flow'[f].step = "login"
    BY <1>1, <2>1, <2>2, BeginsIs DEF Steps
  <2>7. Fresh(i, p) /\ Typed
    BY <1>1, <2>1, <2>2, <2>3, <2>5, <2>6 DEF AccountsTyped
  <2> HIDE DEF Fresh, Typed
  <2>8. Typed /\ \E j \in Unused, q \in FreshIds : Fresh(j, q)
    BY <1>4, <2>7
  <2>9. QED
    BY <1>1, <2>8 DEF Fresh, Typed
<1>5. QED
  BY <1>3, <1>4 DEF Add

LEMMA VerifyIs ==
  ASSUME AccountsInv, NEW f \in Flows, NEW k \in Ids, Verify(f, k)
  PROVE  /\ flow[f] = Idle /\ accounts[k] \in Instances /\ inst[accounts[k]].asks
         /\ flow' \in [Flows -> Calls] /\ \A g \in Flows : g # f => flow'[g] = flow[g]
         /\ flow'[f].kind = "verify" /\ flow'[f].of = accounts[k] /\ flow'[f].key = k /\ flow'[f].step = "code"
         /\ UNCHANGED <<inst, accounts, secrets, protected, crashes, excuses>>
<1>1. accounts[k] \in Instances /\ AccountsTyped
  BY DEF Verify, AccountsInv, AccountsTyped
<1>2. QED
  BY <1>1, BeginsIs DEF Verify, Steps

LEMMA RemoveIs ==
  ASSUME AccountsInv, NEW f \in Flows, NEW k \in Ids, Remove(f, k)
  PROVE  /\ flow[f] = Idle /\ accounts[k] \in Instances
         /\ flow' \in [Flows -> Calls] /\ \A g \in Flows : g # f => flow'[g] = flow[g]
         /\ flow'[f].kind = "remove" /\ flow'[f].of = accounts[k] /\ flow'[f].key = k /\ flow'[f].step = "logout"
         /\ UNCHANGED <<inst, accounts, secrets, protected, crashes, excuses>>
<1>1. accounts[k] \in Instances /\ AccountsTyped
  BY DEF Remove, AccountsInv, AccountsTyped
<1>2. QED
  BY <1>1, BeginsIs DEF Remove, Steps

LEMMA MakesCallIs ==
  ASSUME AccountsInv, NEW f \in Flows, NEW i \in Instances, Call(f, i)
  PROVE  /\ flow[f] = Idle /\ i \in Registered
         /\ flow' \in [Flows -> Calls] /\ \A g \in Flows : g # f => flow'[g] = flow[g]
         /\ flow'[f].kind = "call" /\ flow'[f].of = i /\ flow'[f].key = None /\ flow'[f].step = "sent"
         /\ UNCHANGED <<inst, accounts, secrets, protected, crashes, excuses>>
<1> DEFINE c == [Idle EXCEPT !.kind = "call", !.of = i, !.step = "sent", !.valid = inst[i].alive]
<1>1. AccountsTyped
  BY DEF AccountsInv
<1>2. inst[i].alive \in BOOLEAN
  BY <1>1 DEF AccountsTyped, Insts
<1>3. c \in Calls /\ c.kind = "call" /\ c.of = i /\ c.key = None /\ c.step = "sent"
  BY <1>2 DEF Idle, Calls, Steps
<1>4. flow' = [flow EXCEPT ![f] = c]
  BY DEF Call
<1> HIDE DEF c
<1>5. QED
  BY <1>1, <1>3, <1>4, ZenonT(60) DEF Call, AccountsTyped

\* The re-authentication of an instance goes a step on.
LEMMA InstIs ==
  ASSUME AccountsInv, NEW i \in Instances
  PROVE  /\ inst[i] \in Insts
         /\ inst[i].reauth # "none" => inst[i].id \in Ids /\ inst[i].name \in Names
BY DEF AccountsInv, AccountsTyped, HeldAreNamed, Held

LEMMA ReauthRequiredIs ==
  ASSUME AccountsInv, NEW i \in Instances, ReauthRequired(i)
  PROVE  /\ i \in Registered /\ inst[i].reauth = "none"
         /\ At(i, [inst[i] EXCEPT !.reauth = "probing"]) /\ inst' \in [Instances -> Insts]
         /\ UNCHANGED <<accounts, secrets, flow, protected, crashes, excuses>>
<1> DEFINE a == [inst[i] EXCEPT !.reauth = "probing"]
<1>1. a \in Insts /\ AccountsTyped
  BY InstIs, FieldIs DEF AccountsInv
<1>2. Becomes(i, a)
  BY DEF ReauthRequired, Becomes
<1> HIDE DEF a
<1>3. At(i, a) /\ inst' \in [Instances -> Insts]
  BY <1>1, <1>2, BecomesIs DEF At
<1>4. i \in Registered
  BY NoneIsNot DEF ReauthRequired, Registered
<1>5. QED
  BY <1>3, <1>4 DEF ReauthRequired, a

LEMMA ProbeLiveIs ==
  ASSUME AccountsInv, NEW i \in Instances, ProbeLive(i)
  PROVE  LET a == inst'[i] IN
         /\ inst[i].reauth = "probing" /\ inst[i].cookie = "auth" /\ inst[i].alive
         /\ inst[i].id \in Ids /\ inst[i].name \in Names
         /\ At(i, a) /\ Persist(a) /\ inst' \in [Instances -> Insts] /\ secrets' \in [Ids -> Rows \cup {None}]
         /\ a.id = Real /\ a.name = inst[i].name /\ a.cookie = "auth" /\ a.alive /\ a.trust = inst[i].trust
         /\ a.cost = inst[i].cost /\ a.reauth = "saved" /\ ~a.asks /\ a.online
         /\ UNCHANGED <<accounts, flow, protected, crashes, excuses>>
<1> DEFINE b == Adopted(inst[i])
           a == [b EXCEPT !.reauth = "saved"]
<1>1. inst[i].reauth = "probing" /\ inst[i].cookie = "auth" /\ inst[i].alive /\ AccountsTyped
  BY DEF ProbeLive, AccountsInv
<1>2. inst[i] \in Insts /\ inst[i].id \in Ids /\ inst[i].name \in Names
  BY <1>1, InstIs
<1>3. /\ b \in Insts /\ b.id = Real /\ ~b.asks /\ b.online /\ b.name = inst[i].name /\ b.cookie = "auth"
      /\ b.alive /\ b.trust = inst[i].trust /\ b.cost = inst[i].cost
  BY <1>1, <1>2, AdoptedIs
<1>4. Becomes(i, a) /\ Persist(b) /\ UNCHANGED <<accounts, flow, protected, crashes, excuses>>
  BY DEF ProbeLive
<1> HIDE DEF b
<1>5. /\ a \in Insts /\ a.id = b.id /\ a.name = b.name /\ a.cookie = b.cookie /\ a.alive = b.alive
      /\ a.trust = b.trust /\ a.online = b.online /\ a.asks = b.asks /\ a.password = b.password
      /\ a.cost = b.cost /\ a.reauth = "saved"
  BY <1>3, FieldIs, ZenonT(60)
<1> HIDE DEF a
<1>6. ToSecret(a) = ToSecret(b)
  BY <1>5 DEF ToSecret
<1>7. Persist(a)
  BY <1>4, <1>5, <1>6 DEF Persist
<1>8. At(i, a) /\ inst' \in [Instances -> Insts] /\ inst'[i] = a
  BY <1>1, <1>4, <1>5, BecomesIs DEF At
<1>9. secrets' \in [Ids -> Rows \cup {None}]
  BY <1>1, <1>2, <1>3, <1>5, <1>7, PersistIs, NoneIsNot
<1>10. QED
  BY <1>1, <1>2, <1>3, <1>4, <1>5, <1>7, <1>8, <1>9

LEMMA ProbeFailsIs ==
  ASSUME AccountsInv, NEW i \in Instances, ProbeFails(i)
  PROVE  /\ inst[i].reauth = "probing" /\ UNCHANGED <<protected, crashes, excuses>>
         /\ \/ \E a \in Insts :
                 /\ inst[i].password /\ At(i, a) /\ inst' \in [Instances -> Insts]
                 /\ a.id = inst[i].id /\ a.name = inst[i].name /\ a.cookie = inst[i].cookie /\ a.alive = inst[i].alive
                 /\ a.trust = inst[i].trust /\ a.unsaved = inst[i].unsaved /\ ~a.online /\ a.asks = inst[i].asks /\ a.password
                 /\ a.reauth = "login" /\ a.cost = IF inst[i].alive THEN 0 ELSE inst[i].cost
                 /\ UNCHANGED <<accounts, secrets, flow>>
            \/ \E a \in Insts :
                 /\ ~inst[i].password /\ Settled(i, a)
                 /\ a.id = inst[i].id /\ a.name = inst[i].name /\ a.cookie = inst[i].cookie /\ a.alive = inst[i].alive
                 /\ a.trust = inst[i].trust /\ a.unsaved = inst[i].unsaved /\ ~a.online /\ a.asks = inst[i].asks /\ ~a.password
                 /\ a.cost = IF inst[i].alive THEN 0 ELSE inst[i].cost
<1> DEFINE b == IF inst[i].alive THEN [inst[i] EXCEPT !.cost = 0] ELSE inst[i]
           o == [b EXCEPT !.online = FALSE]
           a == [b EXCEPT !.reauth = "login", !.online = FALSE]
<1>1. inst[i].reauth = "probing" /\ UNCHANGED <<protected, crashes, excuses>> /\ AccountsTyped /\ CallsFit
  BY DEF ProbeFails, AccountsInv
<1>2. inst[i] \in Insts
  BY InstIs
<1>3. /\ b \in Insts /\ b.id = inst[i].id /\ b.name = inst[i].name /\ b.cookie = inst[i].cookie /\ b.alive = inst[i].alive
      /\ b.trust = inst[i].trust /\ b.unsaved = inst[i].unsaved /\ b.asks = inst[i].asks /\ b.password = inst[i].password
      /\ b.cost = IF inst[i].alive THEN 0 ELSE inst[i].cost
  <2>1. CASE inst[i].alive
    <3> DEFINE z == [inst[i] EXCEPT !.cost = 0]
    <3>1. /\ z \in Insts /\ z.id = inst[i].id /\ z.name = inst[i].name /\ z.cookie = inst[i].cookie /\ z.alive = inst[i].alive
          /\ z.trust = inst[i].trust /\ z.unsaved = inst[i].unsaved /\ z.asks = inst[i].asks /\ z.password = inst[i].password /\ z.cost = 0
      BY <1>2 DEF Insts
    <3>2. b = z
      BY <2>1
    <3> HIDE DEF z, b
    <3>3. QED
      BY <2>1, <3>1, <3>2
  <2>2. CASE ~inst[i].alive
    BY <1>2, <2>2
  <2>3. QED
    BY <2>1, <2>2
<1>4. \/ b.password /\ Becomes(i, a) /\ UNCHANGED <<accounts, secrets, flow>>
      \/ ~b.password /\ Settles(i, o, FALSE)
  BY DEF ProbeFails
<1> HIDE DEF b
<1>5. /\ o \in Insts /\ o.id = b.id /\ o.name = b.name /\ o.cookie = b.cookie /\ o.alive = b.alive
      /\ o.trust = b.trust /\ o.unsaved = b.unsaved /\ ~o.online /\ o.asks = b.asks /\ o.password = b.password /\ o.cost = b.cost
  BY <1>3 DEF Insts
<1>6. /\ a \in Insts /\ a.id = b.id /\ a.name = b.name /\ a.cookie = b.cookie /\ a.alive = b.alive
      /\ a.trust = b.trust /\ a.unsaved = b.unsaved /\ ~a.online /\ a.asks = b.asks /\ a.password = b.password /\ a.cost = b.cost
      /\ a.reauth = "login"
  BY <1>3 DEF Insts
<1> HIDE DEF a, o
<1>7. CASE b.password /\ Becomes(i, a) /\ UNCHANGED <<accounts, secrets, flow>>
  <2>1. At(i, a) /\ inst' \in [Instances -> Insts]
    BY <1>1, <1>6, <1>7, BecomesIs DEF At
  <2>2. QED
    BY <1>1, <1>3, <1>6, <1>7, <2>1
<1>8. CASE ~b.password /\ Settles(i, o, FALSE)
  <2>1. Settled(i, o)
    BY <1>1, <1>5, <1>8, SettlesIs
  <2>2. QED
    BY <1>1, <1>3, <1>5, <1>8, <2>1
<1>9. QED
  BY <1>4, <1>7, <1>8

LEMMA ReauthAnsweredIs ==
  ASSUME AccountsInv, NEW i \in Instances, ReauthAnswered(i)
  PROVE  LET a == inst'[i] IN
         /\ inst[i].reauth = "login" /\ inst[i].id \in Ids /\ inst[i].name \in Names
         /\ At(i, a) /\ Persist(a) /\ inst' \in [Instances -> Insts] /\ secrets' \in [Ids -> Rows \cup {None}]
         /\ a.name = inst[i].name /\ a.trust = inst[i].trust /\ a.reauth \in {"saved", "asked"}
         /\ \/ a.id = Real /\ a.cookie = "auth" /\ a.alive /\ ~a.asks /\ a.cost = inst[i].cost + 1
            \/ protected /\ a.id = inst[i].id /\ a.cookie = "pre" /\ ~a.alive /\ a.asks /\ a.cost = 0
         /\ UNCHANGED <<accounts, flow, protected, crashes>>
<1> DEFINE l == LoggedIn(inst[i])
           q == AskedForCode(inst[i])
           a == [l EXCEPT !.reauth = "saved", !.cost = l.cost + 1]
           b == [q EXCEPT !.reauth = "asked"]
<1>1. inst[i].reauth = "login" /\ AccountsTyped /\ UNCHANGED <<accounts, flow, protected, crashes>>
  BY DEF ReauthAnswered, AccountsInv
<1>2. inst[i] \in Insts /\ inst[i].id \in Ids /\ inst[i].name \in Names
  BY <1>1, InstIs
<1>3. /\ l \in Insts /\ l.id = Real /\ ~l.asks /\ l.name = inst[i].name /\ l.cookie = "auth"
      /\ l.alive /\ l.trust = inst[i].trust /\ l.cost = inst[i].cost
  BY <1>2, LoggedInIs
<1>4. /\ q \in Insts /\ q.id = inst[i].id /\ ~q.online /\ q.name = inst[i].name /\ q.cookie = "pre"
      /\ ~q.alive /\ q.trust = inst[i].trust /\ q.cost = 0 /\ q.asks
  BY <1>2, AskedForCodeIs
<1>5. \/ Becomes(i, a) /\ Persist(l)
      \/ protected /\ Becomes(i, b) /\ Persist(q)
  BY <1>3, <1>4 DEF ReauthAnswered, LoginAnswers
<1> HIDE DEF l, q
<1>6. /\ a \in Insts /\ a.id = l.id /\ a.asks = l.asks /\ a.name = l.name /\ a.cookie = l.cookie
      /\ a.alive = l.alive /\ a.trust = l.trust /\ a.cost = l.cost + 1 /\ a.reauth = "saved" /\ a.password = l.password
  <2> DEFINE n == l.cost + 1
  <2>1. n \in Nat /\ a = [l EXCEPT !.reauth = "saved", !.cost = n]
    BY <1>3 DEF Insts
  <2> HIDE DEF a, n
  <2>2. QED
    BY <1>3, <2>1 DEF Insts, n
<1>7. /\ b \in Insts /\ b.id = q.id /\ b.online = q.online /\ b.name = q.name /\ b.cookie = q.cookie
      /\ b.alive = q.alive /\ b.trust = q.trust /\ b.cost = q.cost /\ b.asks = q.asks /\ b.reauth = "asked" /\ b.password = q.password
  BY <1>4, FieldIs, ZenonT(60)
<1> HIDE DEF a, b
<1>8. CASE Becomes(i, a) /\ Persist(l)
  <2>1. ToSecret(a) = ToSecret(l)
    BY <1>6 DEF ToSecret
  <2>2. Persist(a)
    BY <1>6, <1>8, <2>1 DEF Persist
  <2>3. At(i, a) /\ inst' \in [Instances -> Insts] /\ inst'[i] = a
    BY <1>1, <1>6, <1>8, BecomesIs DEF At
  <2>4. secrets' \in [Ids -> Rows \cup {None}]
    BY <1>1, <1>2, <1>3, <1>6, <2>2, PersistIs, NoneIsNot
  <2>5. QED
    BY <1>1, <1>2, <1>3, <1>6, <1>8, <2>2, <2>3, <2>4
<1>9. CASE protected /\ Becomes(i, b) /\ Persist(q)
  <2>1. ToSecret(b) = ToSecret(q)
    BY <1>7 DEF ToSecret
  <2>2. Persist(b)
    BY <1>7, <1>9, <2>1 DEF Persist
  <2>3. At(i, b) /\ inst' \in [Instances -> Insts] /\ inst'[i] = b
    BY <1>1, <1>7, <1>9, BecomesIs DEF At
  <2>4. secrets' \in [Ids -> Rows \cup {None}]
    BY <1>1, <1>2, <1>4, <1>7, <2>2, PersistIs
  <2>5. QED
    BY <1>1, <1>2, <1>4, <1>7, <1>9, <2>2, <2>3, <2>4
<1>10. QED
  BY <1>5, <1>8, <1>9

LEMMA ReauthEndsIs ==
  ASSUME AccountsInv, NEW i \in Instances, ReauthThrows(i) \/ ReauthSaved(i)
  PROVE  /\ inst[i].reauth # "none" /\ UNCHANGED <<protected, crashes, excuses>>
         /\ \E a \in Insts :
              /\ Settled(i, a) /\ SameOwner(inst[i], a) /\ a.id = inst[i].id /\ a.cookie = inst[i].cookie
              /\ a.alive = inst[i].alive /\ a.trust = inst[i].trust /\ a.unsaved = inst[i].unsaved /\ a.asks = inst[i].asks
              /\ a.password = inst[i].password /\ (a.online => inst[i].online)
<1> DEFINE o == [inst[i] EXCEPT !.online = FALSE]
<1>1. AccountsTyped /\ CallsFit
  BY DEF AccountsInv
<1>2. inst[i] \in Insts
  BY InstIs
<1>3. /\ o \in Insts /\ SameOwner(inst[i], o) /\ o.id = inst[i].id /\ o.cookie = inst[i].cookie /\ o.alive = inst[i].alive
      /\ o.trust = inst[i].trust /\ o.unsaved = inst[i].unsaved /\ ~o.online /\ o.asks = inst[i].asks /\ o.password = inst[i].password
  BY <1>2, FieldIs
<1>4. CASE ReauthThrows(i)
  <2>1. Settles(i, o, FALSE) /\ inst[i].reauth # "none" /\ UNCHANGED <<protected, crashes, excuses>>
    BY <1>4 DEF ReauthThrows
  <2> HIDE DEF o
  <2>2. Settled(i, o)
    BY <1>1, <1>3, <2>1, SettlesIs
  <2>3. QED
    BY <1>3, <2>1, <2>2
<1>5. CASE ReauthSaved(i)
  <2>1. Settles(i, inst[i], inst[i].reauth = "saved") /\ inst[i].reauth # "none" /\ UNCHANGED <<protected, crashes, excuses>>
    BY <1>5 DEF ReauthSaved
  <2>2. Settled(i, inst[i])
    BY <1>1, <1>2, <2>1, SettlesIs
  <2>3. SameOwner(inst[i], inst[i])
    BY DEF SameOwner
  <2>4. QED
    BY <1>2, <2>1, <2>2, <2>3
<1>6. QED
  BY <1>4, <1>5

LEMMA ExpireIs ==
  ASSUME AccountsInv, NEW i \in Instances, Expire(i)
  PROVE  LET a == inst'[i] IN
         /\ inst[i].alive /\ At(i, a) /\ inst' \in [Instances -> Insts]
         /\ a.id = inst[i].id /\ a.name = inst[i].name /\ a.cookie = inst[i].cookie /\ ~a.alive
         /\ a.trust = inst[i].trust /\ a.unsaved = inst[i].unsaved /\ a.online = inst[i].online /\ a.asks = inst[i].asks
         /\ a.reauth = inst[i].reauth /\ a.cost = 0
         /\ UNCHANGED <<accounts, secrets, flow, protected, crashes, excuses>>
<1> DEFINE a == [inst[i] EXCEPT !.alive = FALSE, !.cost = 0]
<1>1. AccountsTyped /\ inst[i] \in Insts
  BY InstIs DEF AccountsInv
<1>2. /\ a \in Insts /\ a.id = inst[i].id /\ a.name = inst[i].name /\ a.cookie = inst[i].cookie /\ ~a.alive
      /\ a.trust = inst[i].trust /\ a.unsaved = inst[i].unsaved /\ a.online = inst[i].online /\ a.asks = inst[i].asks
      /\ a.reauth = inst[i].reauth /\ a.cost = 0
  BY <1>1 DEF Insts
<1>3. Becomes(i, a)
  BY <1>1 DEF Expire, Becomes, AccountsTyped, Insts
<1> HIDE DEF a
<1>4. At(i, a) /\ inst' \in [Instances -> Insts] /\ inst'[i] = a
  BY <1>1, <1>2, <1>3, BecomesIs DEF At
<1>5. QED
  BY <1>2, <1>4 DEF Expire

\* The process starts over: every row becomes an instance, that one call loads.
LEMMA DaemonRestartsIs ==
  ASSUME AccountsInv, DaemonRestarts
  PROVE  /\ crashes < MaxCrashes /\ crashes' = crashes + 1 /\ UNCHANGED <<secrets, protected>>
         /\ inst' \in [Instances -> Insts] /\ flow' \in [Flows -> Calls] /\ accounts' \in [Ids -> Instances \cup {None}]
         /\ \A k \in Ids : secrets[k] = None <=> accounts'[k] = None
         /\ \A k, l \in Ids : accounts'[k] # None /\ accounts'[k] = accounts'[l] => k = l
         /\ \A k \in Ids : accounts'[k] # None =>
              LET a == inst'[accounts'[k]] IN
              /\ a.id = k /\ a.name = secrets[k].name /\ a.trust = secrets[k].trust
              /\ a.cookie = (IF VerifiedSince(k) THEN "auth" ELSE secrets[k].cookie)
              /\ (a.alive => a.cookie = "auth") /\ ~a.online /\ ~a.asks /\ a.reauth = "none" /\ a.cost = 0
         /\ \A i \in Instances : inst'[i] = NoInstance \/ \E k \in Ids : accounts'[k] = i
         /\ \A f \in Flows : \/ flow'[f] = Idle
                             \/ /\ flow'[f].kind = "load" /\ flow'[f].key \in Ids /\ flow'[f].step = "resume"
                                /\ flow'[f].of \in Instances /\ flow'[f].of = accounts'[flow'[f].key]
         /\ \A f, g \in Flows : flow'[f] # Idle /\ flow'[g] # Idle /\ flow'[f].key = flow'[g].key => f = g
<1> DEFINE stored == {k \in Ids : secrets[k] /= None}
           at == CHOOSE h \in Injections(stored, Instances) : TRUE
           by == CHOOSE h \in Injections(stored, Flows) : TRUE
           Cookie(k) == IF VerifiedSince(k) THEN "auth" ELSE secrets[k].cookie
           Loaded(k, alive) ==
             [NoInstance EXCEPT !.id = k, !.name = secrets[k].name,
                !.password = secrets[k].password, !.cookie = Cookie(k),
                !.trust = secrets[k].trust,
                !.alive = alive /\ Cookie(k) = "auth"]
           Load(k) == [Idle EXCEPT !.kind = "load", !.of = at[k], !.key = k, !.step = "resume"]
<1>1. /\ AccountsTyped /\ crashes < MaxCrashes /\ crashes' = crashes + 1 /\ UNCHANGED <<secrets, protected>>
      /\ Injections(stored, Instances) /= {} /\ Injections(stored, Flows) /= {}
  BY DEF DaemonRestarts, AccountsInv
<1>2. at \in [stored -> Instances] /\ \A x, y \in stored : at[x] = at[y] => x = y
  BY <1>1 DEF Injections
<1>3. by \in [stored -> Flows] /\ \A x, y \in stored : by[x] = by[y] => x = y
  BY <1>1 DEF Injections
<1>4. PICK alive \in BOOLEAN :
        inst' = [i \in Instances |-> IF \E k \in stored : at[k] = i
                                     THEN Loaded(CHOOSE k \in stored : at[k] = i, alive) ELSE NoInstance]
  BY DEF DaemonRestarts
<1>5. accounts' = [k \in Ids |-> IF k \in stored THEN at[k] ELSE None]
  BY DEF DaemonRestarts
<1>6. flow' = [f \in Flows |-> IF \E k \in stored : by[k] = f THEN Load(CHOOSE k \in stored : by[k] = f) ELSE Idle]
  BY DEF DaemonRestarts
<1>7. \A k \in stored : /\ Loaded(k, alive) \in Insts /\ Loaded(k, alive).id = k /\ Loaded(k, alive).name = secrets[k].name
                        /\ Loaded(k, alive).cookie = Cookie(k) /\ Loaded(k, alive).trust = secrets[k].trust
                        /\ (Loaded(k, alive).alive => Loaded(k, alive).cookie = "auth") /\ ~Loaded(k, alive).online
                        /\ ~Loaded(k, alive).asks /\ Loaded(k, alive).reauth = "none" /\ Loaded(k, alive).cost = 0
  <2> TAKE k \in stored
  <2>1. secrets[k] \in Rows /\ k \in Ids
    BY <1>1 DEF AccountsTyped
  <2>2. secrets[k].name \in Names /\ secrets[k].password \in BOOLEAN /\ secrets[k].cookie \in Cookies /\ secrets[k].trust \in BOOLEAN
    BY <2>1 DEF Rows
  <2>3. Cookie(k) \in Cookies
    BY <2>2 DEF Cookies
  <2> HIDE DEF Cookie
  <2>4. QED
    BY <2>1, <2>2, <2>3 DEF NoInstance, Insts
<1>8. \A k \in stored : Load(k) \in Calls /\ Load(k).kind = "load" /\ Load(k).of = at[k] /\ Load(k).key = k /\ Load(k).step = "resume"
  BY <1>2 DEF Idle, Calls, Steps
<1>9. \A k \in Ids : k \in stored <=> secrets[k] # None
  OBVIOUS
<1> HIDE DEF Loaded, Load, at, by, stored, Cookie
<1>10. \A k \in stored : inst'[at[k]] = Loaded(k, alive)
  <2> TAKE k \in stored
  <2>1. at[k] \in Instances /\ \E l \in stored : at[l] = at[k]
    BY <1>2
  <2>2. PICK l \in stored : l = (CHOOSE x \in stored : at[x] = at[k]) /\ at[l] = at[k]
    BY <2>1
  <2>3. l = k
    BY <1>2, <2>2
  <2>4. QED
    BY <1>4, <2>1, <2>2, <2>3
<1>11. \A f \in Flows : flow'[f] = Idle \/ \E k \in stored : by[k] = f /\ flow'[f] = Load(k)
  BY <1>6
<1>12. \A i \in Instances : inst'[i] = NoInstance \/ \E k \in stored : at[k] = i
  BY <1>4
<1>13. /\ \A k \in stored : k \in Ids /\ accounts'[k] = at[k] /\ at[k] # None /\ at[k] \in Instances
       /\ \A k \in Ids : k \in stored \/ accounts'[k] = None
  BY <1>2, <1>5, NoneIsNot DEF stored
<1>14. inst' \in [Instances -> Insts]
  BY <1>4, <1>7, NoInstanceIs
<1>15. flow' \in [Flows -> Calls]
  BY <1>6, <1>8, IdleIs
<1>16. accounts' \in [Ids -> Instances \cup {None}]
  BY <1>5, <1>13
<1>17. \A f, g \in Flows : flow'[f] # Idle /\ flow'[g] # Idle /\ flow'[f].key = flow'[g].key => f = g
  BY <1>8, <1>11
<1>18. \A f \in Flows : \/ flow'[f] = Idle
                        \/ /\ flow'[f].kind = "load" /\ flow'[f].key \in Ids /\ flow'[f].step = "resume"
                           /\ flow'[f].of \in Instances /\ flow'[f].of = accounts'[flow'[f].key]
  BY <1>8, <1>11, <1>13
<1>19. \A k \in Ids : accounts'[k] # None =>
              LET a == inst'[accounts'[k]] IN
              /\ a.id = k /\ a.name = secrets[k].name /\ a.trust = secrets[k].trust
              /\ a.cookie = (IF VerifiedSince(k) THEN "auth" ELSE secrets[k].cookie)
              /\ (a.alive => a.cookie = "auth") /\ ~a.online /\ ~a.asks /\ a.reauth = "none" /\ a.cost = 0
  BY <1>7, <1>10, <1>13 DEF Cookie
<1>20. \A k, l \in Ids : accounts'[k] # None /\ accounts'[k] = accounts'[l] => k = l
  BY <1>2, <1>13
<1>21. \A i \in Instances : inst'[i] = NoInstance \/ \E k \in Ids : accounts'[k] = i
  BY <1>12, <1>13
<1>22. \A k \in Ids : secrets[k] = None <=> accounts'[k] = None
  BY <1>9, <1>13
<1>23. QED
  BY <1>1, <1>14, <1>15, <1>16, <1>17, <1>18, <1>19, <1>20, <1>21, <1>22

-----------------------------------------------------------------------------
(***************************************************************************)
(* Every step keeps the invariant.                                         *)
(***************************************************************************)
LEMMA KeepsInv ==
  ASSUME AccountsInv, AccountsTyped', CallsFit', WaitersAreHeard', LoginsAreEarned',
         \A j \in Instances : Held(j)' => /\ Held(j) /\ inst'[j].name = inst[j].name
                                          /\ inst'[j].id \in {inst[j].id, Real}
  PROVE  AccountsInv'
<1>1. HeldAreNamed'
  BY NoneIsNot DEF AccountsInv, HeldAreNamed
<1>2. QED
  BY <1>1 DEF AccountsInv

\* A call goes a step on.
LEMMA GoesKeeps ==
  ASSUME AccountsInv, NEW f \in Flows, NEW s \in {"profile", "saving", "rekeying", "announce"}, Goes(f, s),
         flow[f].kind \in {"add", "again", "verify", "load"}, s = "rekeying" => flow[f].kind # "again",
         s = "profile" => flow[f].kind = "verify",
         inst' \in [Instances -> Insts], \A j \in Instances : SameOwner(inst[j], inst'[j]),
         accounts' \in [Ids -> Instances \cup {None}], \A k \in Ids : accounts'[k] \in {accounts[k], None, flow[f].of},
         secrets' \in [Ids -> Rows \cup {None}], UNCHANGED <<protected, crashes>>, LoginsAreEarned'
  PROVE  AccountsInv'
<1>1. AccountsTyped /\ s \in Steps
  BY DEF AccountsInv, Steps
<1>2. /\ flow' \in [Flows -> Calls] /\ flow'[f].step = s
      /\ \A g \in Flows : g # f => flow'[g] = flow[g]
      /\ \A g \in Flows : flow'[g].of = flow[g].of /\ flow'[g].kind = flow[g].kind /\ flow'[g].key = flow[g].key
  BY <1>1, GoesIs
<1>3. AccountsTyped'
  BY <1>1, <1>2 DEF AccountsTyped
<1>4. CallsFit'
  <2> SUFFICES ASSUME NEW g \in Flows PROVE CallFits(flow'[g])
    BY DEF CallsFit
  <2>1. CASE g # f
    BY <1>2, <2>1 DEF AccountsInv, CallsFit
  <2>2. CASE g = f
    <3>1. flow'[f] # Idle
      BY <1>2, IdleIs
    <3>2. CallFits(flow[f])
      BY DEF AccountsInv, CallsFit
    <3> DEFINE c == flow'[f]
               b == flow[f]
    <3>3. c # Idle /\ CallFits(b) /\ c.step = s /\ c.kind = b.kind /\ c.of = b.of /\ c.key = b.key
          /\ b.kind \in {"add", "again", "verify", "load"} /\ (s = "rekeying" => b.kind # "again")
          /\ (s = "profile" => b.kind = "verify")
      BY <1>2, <3>1, <3>2
    <3> HIDE DEF b, c
    <3>4. CallFits(c)
      BY <3>3 DEF CallFits
    <3>5. QED
      BY <2>2, <3>4 DEF c
  <2>3. QED
    BY <2>1, <2>2
<1>5. WaitersAreHeard'
  <2> SUFFICES ASSUME NEW g \in Flows, flow'[g].step = "waiting" PROVE inst'[flow'[g].of].reauth # "none"
    BY DEF WaitersAreHeard
  <2>1. flow'[g] = flow[g]
    BY <1>2
  <2>2. flow[g].of \in Instances /\ inst[flow[g].of].reauth # "none"
    BY <2>1 DEF AccountsInv, CallsFit, CallFits, WaitersAreHeard
  <2>3. QED
    BY <2>1, <2>2 DEF SameOwner
<1>6. \A j \in Instances : Held(j)' => Held(j)
  <2> SUFFICES ASSUME NEW j \in Instances, Held(j)' PROVE Held(j)
    OBVIOUS
  <2>1. CASE inst'[j].reauth # "none"
    BY <2>1 DEF Held, SameOwner
  <2>2. CASE \E k \in Ids : accounts'[k] = j
    BY <2>2, NoneIsNot DEF Held, Referred
  <2>3. CASE \E g \in Flows : flow'[g].of = j
    BY <1>2, <2>3 DEF Held, Referred
  <2>4. QED
    BY <2>1, <2>2, <2>3 DEF Held, Referred
<1>7. QED
  BY <1>3, <1>4, <1>5, <1>6, KeepsInv DEF SameOwner

\* A call returns.
LEMMA OverKeeps ==
  ASSUME AccountsInv, NEW f \in Flows, flow[f].of \in Instances, NEW a \in Insts, Over(f, a, accounts'),
         SameOwner(inst[flow[f].of], a), a.alive = inst[flow[f].of].alive \/ ~a.password,
         ~a.password \/ a.password = inst[flow[f].of].password,
         accounts' \in [Ids -> Instances \cup {None}], \A k \in Ids : accounts'[k] \in {accounts[k], None},
         secrets' \in [Ids -> Rows \cup {None}], UNCHANGED <<protected, crashes>>
  PROVE  AccountsInv'
<1>0. PICK i \in Instances : i = flow[f].of
  OBVIOUS
<1>a. /\ flow' \in [Flows -> Calls] /\ flow'[f] = Idle /\ \A g \in Flows : g # f => flow'[g] = flow[g]
      /\ inst' \in [Instances -> Insts]
      /\ \A j \in Instances : j # i => inst'[j] = inst[j]
  BY <1>0 DEF Over
<1>b. /\ Referred(i, accounts', flow') \/ a.reauth # "none" => inst'[i] = a
      /\ ~(Referred(i, accounts', flow') \/ a.reauth # "none") => inst'[i] = NoInstance
  BY <1>0 DEF Over
<1>c. inst'[i] = a \/ (inst'[i] = NoInstance /\ a.reauth = "none")
  BY <1>b
<1>d. Held(i)' => inst'[i] = a
  BY <1>b, <1>c, NoInstanceIs DEF Held
<1>e. SameOwner(inst[i], a) /\ (a.alive = inst[i].alive \/ ~a.password) /\ (~a.password \/ a.password = inst[i].password)
  BY <1>0
<1>f. \A g \in Flows : flow'[g] = flow[g] \/ flow'[g] = Idle
  BY <1>a
<1>1. \A j \in Instances : inst'[j] = inst[j] \/ (j = i /\ (inst'[j] = a \/ (inst'[j] = NoInstance /\ a.reauth = "none")))
  BY <1>a, <1>c
<1>2. AccountsTyped'
  BY <1>a DEF AccountsInv, AccountsTyped
<1>3. CallsFit'
  BY <1>f, IdleIs DEF AccountsInv, CallsFit
<1>4. \A j \in Instances : inst'[j].reauth = inst[j].reauth
  BY <1>1, <1>e, NoInstanceIs DEF SameOwner
<1>5. WaitersAreHeard'
  <2> SUFFICES ASSUME NEW g \in Flows, flow'[g].step = "waiting" PROVE inst'[flow'[g].of].reauth # "none"
    BY DEF WaitersAreHeard
  <2>1. flow'[g] = flow[g]
    BY <1>f, IdleIs
  <2>2. flow[g].of \in Instances /\ inst[flow[g].of].reauth # "none"
    BY <2>1 DEF AccountsInv, CallsFit, CallFits, WaitersAreHeard
  <2>3. QED
    BY <1>4, <2>1, <2>2
<1>6. LoginsAreEarned'
  <2> SUFFICES ASSUME ~protected, NEW j \in Instances
               PROVE  /\ inst'[j].cost <= 1
                      /\ inst'[j].reauth = "login" => inst'[j].cost = 0
                      /\ inst'[j].cost > 0 => inst'[j].alive \/ ~inst'[j].password
    BY DEF LoginsAreEarned
  <2>1. /\ inst[j].cost <= 1
        /\ inst[j].reauth = "login" => inst[j].cost = 0
        /\ inst[j].cost > 0 => inst[j].alive \/ ~inst[j].password
    BY DEF AccountsInv, LoginsAreEarned
  <2>2. CASE inst'[j] = inst[j]
    BY <2>1, <2>2
  <2>3. CASE inst'[j] = NoInstance
    BY <2>3, NoInstanceIs
  <2>4. CASE j = i /\ inst'[j] = a
    BY <1>e, <2>1, <2>4 DEF SameOwner
  <2>5. QED
    BY <1>1, <2>2, <2>3, <2>4
<1>7. \A j \in Instances : Held(j)' => Held(j)
  <2> SUFFICES ASSUME NEW j \in Instances, Held(j)' PROVE Held(j)
    OBVIOUS
  <2>1. CASE inst'[j].reauth # "none"
    BY <1>4, <2>1 DEF Held
  <2>2. CASE \E k \in Ids : accounts'[k] = j
    BY <2>2, NoneIsNot DEF Held, Referred
  <2>3. CASE \E g \in Flows : flow'[g].of = j
    BY <1>f, <2>3, IdleIs, NoneIsNot DEF Held, Referred
  <2>4. QED
    BY <2>1, <2>2, <2>3 DEF Held, Referred
<1>8. \A j \in Instances : Held(j)' => inst'[j].name = inst[j].name /\ inst'[j].id \in {inst[j].id, Real}
  <2> SUFFICES ASSUME NEW j \in Instances, Held(j)' PROVE inst'[j].name = inst[j].name /\ inst'[j].id \in {inst[j].id, Real}
    OBVIOUS
  <2>1. CASE j # i
    BY <1>1, <2>1
  <2>2. CASE j = i
    BY <1>d, <1>e, <2>2 DEF SameOwner
  <2>3. QED
    BY <2>1, <2>2
<1>9. QED
  BY <1>2, <1>3, <1>5, <1>6, <1>7, <1>8, KeepsInv

\* A call begins with an instance that is registered.
LEMMA BeginsKeeps ==
  ASSUME AccountsInv, NEW f \in Flows, flow[f] = Idle, flow' \in [Flows -> Calls], \A g \in Flows : g # f => flow'[g] = flow[g],
         CallFits(flow'[f]), flow'[f].step # "waiting", flow'[f].of \in Registered,
         inst' \in [Instances -> Insts], \A j \in Instances : SameOwner(inst[j], inst'[j]),
         \A j \in Instances : inst'[j].alive = inst[j].alive /\ inst'[j].password = inst[j].password,
         UNCHANGED <<accounts, secrets, protected, crashes>>
  PROVE  AccountsInv'
<1>1. AccountsTyped'
  BY DEF AccountsInv, AccountsTyped
<1>2. CallsFit'
  BY DEF AccountsInv, CallsFit
<1>3. WaitersAreHeard'
  <2> SUFFICES ASSUME NEW g \in Flows, flow'[g].step = "waiting" PROVE inst'[flow'[g].of].reauth # "none"
    BY DEF WaitersAreHeard
  <2>1. flow'[g] = flow[g]
    OBVIOUS
  <2>2. flow[g].of \in Instances /\ inst[flow[g].of].reauth # "none"
    BY <2>1 DEF AccountsInv, CallsFit, CallFits, WaitersAreHeard
  <2>3. QED
    BY <2>1, <2>2 DEF SameOwner
<1>4. LoginsAreEarned'
  <2> SUFFICES ASSUME ~protected, NEW j \in Instances
               PROVE  /\ inst'[j].cost <= 1
                      /\ inst'[j].reauth = "login" => inst'[j].cost = 0
                      /\ inst'[j].cost > 0 => inst'[j].alive \/ ~inst'[j].password
    BY DEF LoginsAreEarned
  <2>1. /\ inst[j].cost <= 1
        /\ inst[j].reauth = "login" => inst[j].cost = 0
        /\ inst[j].cost > 0 => inst[j].alive \/ ~inst[j].password
    BY DEF AccountsInv, LoginsAreEarned
  <2>2. QED
    BY <2>1 DEF SameOwner
<1>5. \A j \in Instances : Held(j)' => Held(j)
  <2> SUFFICES ASSUME NEW j \in Instances, Held(j)' PROVE Held(j)
    OBVIOUS
  <2>1. CASE inst'[j].reauth # "none"
    BY <2>1 DEF Held, SameOwner
  <2>2. CASE \E k \in Ids : accounts'[k] = j
    BY <2>2 DEF Held, Referred
  <2>3. CASE \E g \in Flows : flow'[g].of = j
    BY <2>3 DEF Held, Referred, Registered
  <2>4. QED
    BY <2>1, <2>2, <2>3 DEF Held, Referred
<1>6. QED
  BY <1>1, <1>2, <1>3, <1>4, <1>5, KeepsInv DEF SameOwner

\* An attempt is over.
LEMMA SettledKeeps ==
  ASSUME AccountsInv, NEW i \in Instances, NEW a \in Insts, Settled(i, a), inst[i].reauth # "none",
         a.name = inst[i].name, a.id = inst[i].id, a.alive = inst[i].alive, a.password = inst[i].password,
         a.cost = inst[i].cost \/ a.cost = 0, UNCHANGED <<protected, crashes>>
  PROVE  AccountsInv'
<1> DEFINE b == [a EXCEPT !.reauth = "none"]
<1>1. /\ b \in Insts /\ b.id = a.id /\ b.name = a.name /\ b.alive = a.alive /\ b.password = a.password
      /\ b.cost = a.cost /\ b.reauth = "none"
  BY FieldIs
<1> HIDE DEF b
<1>2. /\ flow' \in [Flows -> Calls] /\ UNCHANGED <<accounts, secrets>>
      /\ \A g \in Flows : \/ flow'[g] = flow[g] /\ ~(flow[g].of = i /\ flow[g].step = "waiting")
                          \/ flow'[g] = Idle
                          \/ /\ flow[g].of = i /\ flow[g].step = "waiting"
                             /\ flow'[g].kind = "call" /\ flow'[g].of = i /\ flow'[g].step = "sent" /\ flow'[g].key = flow[g].key
      /\ inst' \in [Instances -> Insts]
      /\ \A j \in Instances : j # i => inst'[j] = inst[j]
      /\ Referred(i, accounts, flow') => inst'[i] = b
      /\ ~Referred(i, accounts, flow') => inst'[i] = NoInstance
  BY DEF Settled, b
<1>3. AccountsTyped'
  BY <1>2 DEF AccountsInv, AccountsTyped
<1>4. CallsFit'
  <2> SUFFICES ASSUME NEW g \in Flows PROVE CallFits(flow'[g])
    BY DEF CallsFit
  <2>1. CallFits(flow[g])
    BY DEF AccountsInv, CallsFit
  <2>2. CASE flow'[g] = flow[g]
    BY <2>1, <2>2
  <2>3. CASE flow'[g] = Idle
    BY <2>3, IdleIs
  <2>4. CASE /\ flow[g].of = i /\ flow[g].step = "waiting"
             /\ flow'[g].kind = "call" /\ flow'[g].of = i /\ flow'[g].step = "sent" /\ flow'[g].key = flow[g].key
    <3>1. flow'[g] # Idle /\ flow[g].kind = "call"
      BY <2>1, <2>4, IdleIs DEF CallFits
    <3>2. QED
      BY <2>1, <2>4, <3>1 DEF CallFits
  <2>5. QED
    BY <1>2, <2>2, <2>3, <2>4
<1>5. WaitersAreHeard'
  <2> SUFFICES ASSUME NEW g \in Flows, flow'[g].step = "waiting" PROVE inst'[flow'[g].of].reauth # "none"
    BY DEF WaitersAreHeard
  <2>1. flow'[g] = flow[g] /\ flow[g].of # i
    BY <1>2, IdleIs
  <2>2. flow[g].of \in Instances /\ inst[flow[g].of].reauth # "none"
    BY <2>1 DEF AccountsInv, CallsFit, CallFits, WaitersAreHeard
  <2>3. QED
    BY <1>2, <2>1, <2>2
<1>6. LoginsAreEarned'
  <2> SUFFICES ASSUME ~protected, NEW j \in Instances
               PROVE  /\ inst'[j].cost <= 1
                      /\ inst'[j].reauth = "login" => inst'[j].cost = 0
                      /\ inst'[j].cost > 0 => inst'[j].alive \/ ~inst'[j].password
    BY DEF LoginsAreEarned
  <2>1. /\ inst[j].cost <= 1
        /\ inst[j].cost > 0 => inst[j].alive \/ ~inst[j].password
        /\ inst[j].reauth = "login" => inst[j].cost = 0
    BY DEF AccountsInv, LoginsAreEarned
  <2>2. CASE inst'[j] = inst[j]
    BY <2>1, <2>2
  <2>3. CASE inst'[j] = NoInstance
    BY <2>3, NoInstanceIs
  <2>4. CASE j = i /\ inst'[j] = b
    BY <1>1, <2>1, <2>4
  <2>5. QED
    BY <1>2, <2>2, <2>3, <2>4
<1>7. \A j \in Instances : Held(j)' => Held(j)
  <2> SUFFICES ASSUME NEW j \in Instances, Held(j)', j # i PROVE Held(j)
    BY DEF Held
  <2>1. CASE inst'[j].reauth # "none"
    BY <1>2, <2>1 DEF Held
  <2>2. CASE \E k \in Ids : accounts'[k] = j
    BY <1>2, <2>2 DEF Held, Referred
  <2>3. CASE \E g \in Flows : flow'[g].of = j
    BY <1>2, <2>3, IdleIs, NoneIsNot DEF Held, Referred
  <2>4. QED
    BY <2>1, <2>2, <2>3 DEF Held, Referred
<1>8. \A j \in Instances : Held(j)' => inst'[j].name = inst[j].name /\ inst'[j].id \in {inst[j].id, Real}
  <2> SUFFICES ASSUME NEW j \in Instances, Held(j)' PROVE inst'[j].name = inst[j].name /\ inst'[j].id \in {inst[j].id, Real}
    OBVIOUS
  <2>1. CASE j # i
    BY <1>2, <2>1
  <2>2. CASE j = i
    <3>1. inst'[i] = b
      BY <1>2, <2>2, NoInstanceIs DEF Held
    <3>2. QED
      BY <1>1, <2>2, <3>1
  <2>3. QED
    BY <2>1, <2>2
<1>9. QED
  BY <1>3, <1>4, <1>5, <1>6, <1>7, <1>8, KeepsInv

Earned(a) ==
  /\ a.cost <= 1
  /\ a.reauth = "login" => a.cost = 0
  /\ a.cost > 0 => a.alive \/ ~a.password

LEMMA EarnedKeeps ==
  ASSUME AccountsInv, NEW i \in Instances, NEW a, At(i, a), UNCHANGED protected,
         ~protected /\ Earned(inst[i]) => Earned(a)
  PROVE  LoginsAreEarned'
<1> SUFFICES ASSUME ~protected, NEW j \in Instances PROVE Earned(inst'[j])
  BY DEF LoginsAreEarned, Earned
<1>1. Earned(inst[j]) /\ Earned(inst[i])
  BY DEF AccountsInv, LoginsAreEarned, Earned
<1>2. QED
  BY <1>1 DEF At

\* Only an instance changes.
LEMMA InstKeeps ==
  ASSUME AccountsInv, NEW i \in Instances, NEW a, At(i, a), inst' \in [Instances -> Insts],
         a.name = inst[i].name, a.id \in {inst[i].id, Real},
         a.reauth = "none" => inst[i].reauth = "none", a.reauth # "none" => Held(i),
         ~protected /\ Earned(inst[i]) => Earned(a),
         secrets' \in [Ids -> Rows \cup {None}], UNCHANGED <<accounts, flow, protected, crashes>>
  PROVE  AccountsInv'
<1>1. AccountsTyped' /\ CallsFit'
  BY DEF AccountsInv, AccountsTyped, CallsFit
<1>2. WaitersAreHeard'
  BY DEF AccountsInv, WaitersAreHeard, CallsFit, CallFits, At
<1>3. LoginsAreEarned'
  BY EarnedKeeps
<1>4. \A j \in Instances : Held(j)' => Held(j)
  <2> SUFFICES ASSUME NEW j \in Instances, Held(j)' PROVE Held(j)
    OBVIOUS
  <2>1. CASE j = i
    BY <2>1 DEF Held, At
  <2>2. CASE j # i
    BY <2>2 DEF Held, At
  <2>3. QED
    BY <2>1, <2>2
<1>5. QED
  BY <1>1, <1>2, <1>3, <1>4, KeepsInv DEF At

LEMMA KeptByLoginAnswered ==
  ASSUME AccountsInv, NEW f \in Flows, LoginAnswered(f) PROVE AccountsInv'
<1>0. PICK i \in Instances : i = flow[f].of
  BY LoginAnsweredIs
<1>1. /\ flow[f].kind \in {"add", "again"}
      /\ \/ At(i, LoggedIn(inst[i]))
         \/ protected /\ At(i, AskedForCode(inst[i]))
      /\ SameOwner(inst[i], inst'[i])
      /\ inst' \in [Instances -> Insts] /\ secrets' \in [Ids -> Rows \cup {None}]
      /\ Goes(f, "saving") /\ UNCHANGED <<accounts, protected, crashes>>
  BY <1>0, LoginAnsweredIs
<1>2. \A j \in Instances : SameOwner(inst[j], inst'[j])
  BY <1>1 DEF At, SameOwner
<1>3. LoginsAreEarned'
  <2>1. CASE At(i, LoggedIn(inst[i]))
    <3>1. LoggedIn(inst[i]).alive /\ LoggedIn(inst[i]).cost = inst[i].cost /\ LoggedIn(inst[i]).reauth = inst[i].reauth
      BY InstIs, LoggedInIs
    <3>2. QED
      BY <1>1, <2>1, <3>1, EarnedKeeps DEF Earned
  <2>2. CASE protected
    BY <1>1, <2>2 DEF LoginsAreEarned
  <2>3. QED
    BY <1>1, <2>1, <2>2
<1>4. QED
  BY <1>1, <1>2, <1>3, GoesKeeps DEF AccountsInv, AccountsTyped

LEMMA KeptByCode ==
  ASSUME AccountsInv, NEW f \in Flows, CodeAccepted(f) \/ ProfileLoaded(f) PROVE AccountsInv'
<1>0. PICK i \in Instances : i = flow[f].of
  BY CodeAcceptedIs, ProfileLoadedIs
<1>1. /\ flow[f].kind = "verify" /\ At(i, inst'[i]) /\ (inst'[i].alive \/ inst'[i].alive = inst[i].alive)
      /\ SameOwner(inst[i], inst'[i]) /\ inst'[i].password = inst[i].password
      /\ inst' \in [Instances -> Insts] /\ secrets' \in [Ids -> Rows \cup {None}]
      /\ Goes(f, "profile") \/ Goes(f, "saving")
      /\ UNCHANGED <<accounts, protected, crashes>>
  <2>1. CASE CodeAccepted(f)
    BY <1>0, <2>1, CodeAcceptedIs DEF AccountsInv, AccountsTyped
  <2>2. CASE ProfileLoaded(f)
    <3>1. inst'[i] = Adopted(inst[i])
      BY <1>0, <2>2, ProfileLoadedIs DEF At
    <3>2. inst'[i].alive = inst[i].alive /\ inst'[i].password = inst[i].password
      BY <3>1, InstIs, AdoptedIs
    <3>3. QED
      BY <1>0, <2>2, <3>1, <3>2, ProfileLoadedIs
  <2>3. QED
    BY <2>1, <2>2
<1>2. \A j \in Instances : SameOwner(inst[j], inst'[j])
  BY <1>1 DEF At, SameOwner
<1>3. LoginsAreEarned'
  <2>1. Earned(inst[i]) => Earned(inst'[i])
    BY <1>1 DEF Earned, SameOwner
  <2>2. QED
    BY <1>1, <2>1, EarnedKeeps
<1>4. QED
  BY <1>1, <1>2, <1>3, GoesKeeps DEF AccountsInv, AccountsTyped

LEMMA KeptByResume ==
  ASSUME AccountsInv, NEW f \in Flows, ResumeLive(f) \/ ResumeFails(f) PROVE AccountsInv'
<1>0. PICK i \in Instances : i = flow[f].of
  BY ResumeLiveIs, ResumeFailsIs
<1>1. /\ flow[f].kind = "load" /\ At(i, inst'[i]) /\ inst'[i].alive = inst[i].alive
      /\ inst'[i].password = inst[i].password
      /\ SameOwner(inst[i], inst'[i])
      /\ inst' \in [Instances -> Insts] /\ secrets' \in [Ids -> Rows \cup {None}]
      /\ Goes(f, "saving") /\ UNCHANGED <<accounts, protected, crashes>>
  <2>1. CASE ResumeLive(f)
    <3>1. inst'[i] = Adopted(inst[i])
      BY <1>0, <2>1, ResumeLiveIs DEF At
    <3>2. inst'[i].alive = inst[i].alive /\ inst'[i].password = inst[i].password
      BY <3>1, InstIs, AdoptedIs
    <3>3. QED
      BY <1>0, <2>1, <3>1, <3>2, ResumeLiveIs
  <2>2. CASE ResumeFails(f)
    <3>1. inst'[i] = [inst[i] EXCEPT !.online = FALSE]
      BY <1>0, <2>2, ResumeFailsIs DEF At
    <3>2. inst'[i].alive = inst[i].alive /\ inst'[i].password = inst[i].password
      BY <3>1, InstIs, FieldIs
    <3>3. At(i, inst'[i])
      BY <1>0, <2>2, ResumeFailsIs DEF At
    <3>4. QED
      BY <1>0, <2>2, <3>2, <3>3, ResumeFailsIs DEF AccountsInv, AccountsTyped
  <2>3. QED
    BY <2>1, <2>2
<1>2. \A j \in Instances : SameOwner(inst[j], inst'[j])
  BY <1>1 DEF At, SameOwner
<1>3. LoginsAreEarned'
  <2>1. Earned(inst[i]) => Earned(inst'[i])
    BY <1>1 DEF Earned, SameOwner
  <2>2. QED
    BY <1>1, <2>1, EarnedKeeps
<1>4. QED
  BY <1>1, <1>2, <1>3, GoesKeeps DEF AccountsInv, AccountsTyped

LEMMA KeptBySaved ==
  ASSUME AccountsInv, NEW f \in Flows, Saved(f) \/ Rekeyed(f) PROVE AccountsInv'
<1>1. /\ flow[f].kind \in {"add", "again", "verify", "load"} /\ UNCHANGED <<inst, protected, crashes>>
      /\ \/ Goes(f, "announce")
         \/ Goes(f, "rekeying") /\ flow[f].kind # "again"
  <2>1. CASE Saved(f)
    <3>1. flow[f].kind \in {"add", "again", "verify", "load"}
      BY <2>1, SavedIs DEF AccountsInv, CallsFit, CallFits
    <3>2. QED
      BY <2>1, <3>1, SavedIs
  <2>2. CASE Rekeyed(f)
    BY <2>2, RekeyedIs
  <2>3. QED
    BY <2>1, <2>2
<1>2. /\ accounts' \in [Ids -> Instances \cup {None}] /\ \A k \in Ids : accounts'[k] \in {accounts[k], None, flow[f].of}
      /\ secrets' \in [Ids -> Rows \cup {None}]
  <2>1. CASE Saved(f)
    BY <2>1, SavedIs DEF AccountsInv, AccountsTyped
  <2>2. CASE Rekeyed(f)
    BY <2>2, RekeyedIs DEF AccountsInv, AccountsTyped
  <2>3. QED
    BY <2>1, <2>2
<1>3. \A j \in Instances : SameOwner(inst[j], inst'[j])
  BY <1>1 DEF SameOwner
<1>4. LoginsAreEarned' /\ inst' \in [Instances -> Insts]
  BY <1>1 DEF LoginsAreEarned, AccountsInv, AccountsTyped
<1>5. QED
  BY <1>1, <1>2, <1>3, <1>4, GoesKeeps

LEMMA KeptByReturning ==
  ASSUME AccountsInv, NEW f \in Flows, Returns(f) PROVE AccountsInv'
<1>1. flow[f].of \in Instances /\ inst[flow[f].of] \in Insts
  BY InstIs DEF Returns
<1>2. Over(f, inst[flow[f].of], accounts')
  BY DEF Returns
<1>3. SameOwner(inst[flow[f].of], inst[flow[f].of])
  BY DEF SameOwner
<1>4. QED
  BY <1>1, <1>2, <1>3, OverKeeps DEF Returns, AccountsInv, AccountsTyped

LEMMA KeptByLoginFails ==
  ASSUME AccountsInv, NEW f \in Flows, LoginFails(f) PROVE AccountsInv'
<1>0. PICK i \in Instances : i = flow[f].of
  BY LoginFailsIs
<1> DEFINE a == [inst[i] EXCEPT !.online = FALSE]
<1>1. a \in Insts /\ SameOwner(inst[i], a) /\ a.alive = inst[i].alive /\ a.password = inst[i].password
  BY InstIs, FieldIs
<1>2. Over(f, a, accounts') /\ UNCHANGED <<protected, crashes>>
  BY <1>0, LoginFailsIs
<1> HIDE DEF a
<1>3. /\ accounts' \in [Ids -> Instances \cup {None}] /\ \A k \in Ids : accounts'[k] \in {accounts[k], None}
      /\ secrets' \in [Ids -> Rows \cup {None}]
  BY LoginFailsIs DEF AccountsInv, AccountsTyped
<1>4. QED
  BY <1>0, <1>1, <1>2, <1>3, OverKeeps

LEMMA KeptByLoggedOut ==
  ASSUME AccountsInv, NEW f \in Flows, LoggedOut(f) PROVE AccountsInv'
<1>1. PICK a \in Insts : Over(f, a, accounts') /\ SameOwner(inst[flow[f].of], a) /\ ~a.password
  BY LoggedOutIs
<1>2. flow[f].of \in Instances /\ UNCHANGED <<protected, crashes>>
  BY LoggedOutIs
<1>3. /\ accounts' \in [Ids -> Instances \cup {None}] /\ \A k \in Ids : accounts'[k] \in {accounts[k], None}
      /\ secrets' \in [Ids -> Rows \cup {None}]
  BY LoggedOutIs DEF AccountsInv, AccountsTyped
<1>4. QED
  BY <1>1, <1>2, <1>3, OverKeeps

LEMMA KeptByCall401 ==
  ASSUME AccountsInv, NEW f \in Flows, Call401(f) PROVE AccountsInv'
<1>0. PICK i \in Instances : i = flow[f].of
  BY Call401Is
<1>1. CASE Returns(f)
  BY <1>1, KeptByReturning
<1>2. CASE ~Returns(f)
  <2>1. /\ Goes(f, "waiting") /\ flow[f].kind = "call" /\ flow[f].step = "sent" /\ inst' \in [Instances -> Insts]
        /\ \/ inst[i].reauth # "none" /\ UNCHANGED inst
           \/ inst[i].reauth = "none" /\ At(i, [inst[i] EXCEPT !.reauth = "probing"])
        /\ UNCHANGED <<accounts, secrets, protected, crashes>>
    BY <1>0, <1>2, Call401Is
  <2>2. AccountsTyped /\ CallsFit
    BY DEF AccountsInv
  <2>3. /\ flow' \in [Flows -> Calls] /\ flow'[f].step = "waiting"
        /\ \A g \in Flows : g # f => flow'[g] = flow[g]
        /\ \A g \in Flows : flow'[g].of = flow[g].of /\ flow'[g].kind = flow[g].kind /\ flow'[g].key = flow[g].key
    BY <2>1, <2>2, GoesIs DEF Steps
  <2>4. /\ inst'[i].reauth # "none" /\ \A j \in Instances : j # i => inst'[j] = inst[j]
        /\ inst'[i].id = inst[i].id /\ inst'[i].name = inst[i].name /\ inst'[i].cost = inst[i].cost
        /\ inst'[i].alive = inst[i].alive /\ inst'[i].password = inst[i].password
        /\ inst'[i].reauth # "login" \/ inst[i].reauth = "login"
    <3>1. CASE UNCHANGED inst /\ inst[i].reauth # "none"
      BY <3>1
    <3>2. CASE At(i, [inst[i] EXCEPT !.reauth = "probing"])
      <4> DEFINE a == [inst[i] EXCEPT !.reauth = "probing"]
      <4>1. /\ a.id = inst[i].id /\ a.name = inst[i].name /\ a.cost = inst[i].cost
            /\ a.alive = inst[i].alive /\ a.password = inst[i].password /\ a.reauth = "probing"
        BY InstIs, FieldIs
      <4> HIDE DEF a
      <4>2. inst'[i] = a /\ \A j \in Instances : j # i => inst'[j] = inst[j]
        BY <3>2 DEF At, a
      <4>3. QED
        BY <4>1, <4>2
    <3>3. QED
      BY <2>1, <3>1, <3>2
  <2>5. AccountsTyped'
    BY <2>1, <2>2, <2>3 DEF AccountsTyped
  <2>6. CallsFit'
    <3> SUFFICES ASSUME NEW g \in Flows PROVE CallFits(flow'[g])
      BY DEF CallsFit
    <3>1. CallFits(flow[g])
      BY <2>2 DEF CallsFit
    <3>2. CASE g # f
      BY <2>3, <3>1, <3>2
    <3>3. CASE g = f
      <4>1. flow'[g] # Idle
        BY <2>3, <3>3, IdleIs
      <4>2. QED
        BY <2>1, <2>3, <3>1, <3>3, <4>1 DEF CallFits
    <3>4. QED
      BY <3>2, <3>3
  <2>7. WaitersAreHeard'
    <3> SUFFICES ASSUME NEW g \in Flows, flow'[g].step = "waiting" PROVE inst'[flow'[g].of].reauth # "none"
      BY DEF WaitersAreHeard
    <3>1. CASE flow[g].of = i
      BY <2>3, <2>4, <3>1
    <3>2. CASE flow[g].of # i
      <4>1. flow'[g] = flow[g]
        BY <1>0, <2>3, <3>2
      <4>2. flow[g].of \in Instances /\ inst[flow[g].of].reauth # "none"
        BY <4>1 DEF AccountsInv, CallsFit, CallFits, WaitersAreHeard
      <4>3. QED
        BY <2>4, <3>2, <4>1, <4>2
    <3>3. QED
      BY <3>1, <3>2
  <2>8. LoginsAreEarned'
    <3> SUFFICES ASSUME ~protected, NEW j \in Instances PROVE Earned(inst'[j])
      BY <2>1 DEF LoginsAreEarned, Earned
    <3>1. Earned(inst[j])
      BY DEF AccountsInv, LoginsAreEarned, Earned
    <3>2. CASE j # i
      BY <2>4, <3>1, <3>2
    <3>3. CASE j = i
      BY <2>4, <3>1, <3>3 DEF Earned
    <3>4. QED
      BY <3>2, <3>3
  <2>9. \A j \in Instances : Held(j)' => Held(j)
    <3> SUFFICES ASSUME NEW j \in Instances, Held(j)' PROVE Held(j)
      OBVIOUS
    <3>1. CASE j = i
      BY <1>0, <3>1 DEF Held, Referred
    <3>2. CASE j # i
      BY <2>1, <2>3, <2>4, <3>2 DEF Held, Referred
    <3>3. QED
      BY <3>1, <3>2
  <2>10. \A j \in Instances : inst'[j].name = inst[j].name /\ inst'[j].id \in {inst[j].id, Real}
    BY <2>4
  <2>11. QED
    BY <2>5, <2>6, <2>7, <2>8, <2>9, <2>10, KeepsInv
<1>3. QED
  BY <1>1, <1>2

LEMMA KeptByAdd ==
  ASSUME AccountsInv, NEW f \in Flows, NEW name \in Names, Add(f, name) PROVE AccountsInv'
<1> DEFINE Again(i) ==
             /\ i \in Instances /\ At(i, [inst[i] EXCEPT !.online = FALSE]) /\ UNCHANGED accounts
             /\ flow'[f].kind = "again" /\ flow'[f].of = i /\ flow'[f].key = None /\ flow'[f].step = "login"
           Fresh(i, p) ==
             /\ i \in Instances /\ p \in Pending
             /\ At(i, inst'[i]) /\ accounts' = [accounts EXCEPT ![p] = i]
             /\ inst'[i].id = p /\ inst'[i].name = name /\ inst'[i].reauth = "none" /\ inst'[i].cost = 0
             /\ flow'[f].kind = "add" /\ flow'[f].of = i /\ flow'[f].key = p /\ flow'[f].step = "login"
<1>1. /\ flow[f] = Idle /\ UNCHANGED <<secrets, protected, crashes>>
      /\ inst' \in [Instances -> Insts] /\ flow' \in [Flows -> Calls] /\ \A g \in Flows : g # f => flow'[g] = flow[g]
      /\ accounts' \in [Ids -> Instances \cup {None}]
  BY AddIs
<1>2. (\E i \in Registered : Again(i)) \/ \E i \in Unused, p \in FreshIds : Fresh(i, p)
  BY AddIs
<1>3. ASSUME NEW i \in Registered, Again(i) PROVE AccountsInv'
  <2>0. i \in Instances /\ flow'[f].of \in Registered
    BY <1>3
  <2> DEFINE a == [inst[i] EXCEPT !.online = FALSE]
  <2>1. SameOwner(inst[i], a) /\ a.alive = inst[i].alive /\ a.password = inst[i].password
    BY <2>0, InstIs, FieldIs
  <2>2. At(i, a)
    BY <1>3
  <2> HIDE DEF a
  <2>3. \A j \in Instances : /\ SameOwner(inst[j], inst'[j])
                             /\ inst'[j].alive = inst[j].alive /\ inst'[j].password = inst[j].password
    BY <2>1, <2>2 DEF At, SameOwner
  <2>4. CallFits(flow'[f])
    BY <1>3, <2>0, IdleIs, NoneIsNot DEF CallFits
  <2>5. QED
    BY <1>1, <1>3, <2>0, <2>3, <2>4, BeginsKeeps
<1>4. ASSUME NEW i \in Unused, NEW p \in FreshIds, Fresh(i, p) PROVE AccountsInv'
  <2>0. i \in Instances /\ p \in Pending /\ p \in Ids
    BY <1>4, NoneIsNot
  <2>1. AccountsTyped'
    BY <1>1 DEF AccountsInv, AccountsTyped
  <2>2. CallFits(flow'[f])
    BY <1>4, <2>0, IdleIs DEF CallFits
  <2>3. CallsFit'
    BY <1>1, <2>2 DEF AccountsInv, CallsFit
  <2>4. /\ inst'[i].id = p /\ inst'[i].name = name /\ inst'[i].reauth = "none" /\ inst'[i].cost = 0
        /\ \A j \in Instances : j # i => inst'[j] = inst[j]
        /\ accounts' = [accounts EXCEPT ![p] = i] /\ flow'[f].of = i /\ flow'[f].step = "login"
    BY <1>4 DEF At
  <2>5. inst[i].reauth = "none"
    BY DEF Unused, Busy
  <2>6. WaitersAreHeard'
    <3> SUFFICES ASSUME NEW g \in Flows, flow'[g].step = "waiting" PROVE inst'[flow'[g].of].reauth # "none"
      BY DEF WaitersAreHeard
    <3>1. flow'[g] = flow[g]
      BY <1>1, <2>4
    <3>2. flow[g].of \in Instances /\ inst[flow[g].of].reauth # "none"
      BY <3>1 DEF AccountsInv, CallsFit, CallFits, WaitersAreHeard
    <3>3. QED
      BY <2>4, <2>5, <3>1, <3>2
  <2>7. LoginsAreEarned'
    <3> SUFFICES ASSUME ~protected, NEW j \in Instances PROVE Earned(inst'[j])
      BY <1>1 DEF LoginsAreEarned, Earned
    <3>1. Earned(inst[j])
      BY DEF AccountsInv, LoginsAreEarned, Earned
    <3>2. QED
      BY <2>4, <3>1 DEF Earned
  <2>8. HeldAreNamed'
    <3> SUFFICES ASSUME NEW j \in Instances, Held(j)' PROVE inst'[j].id \in Ids /\ inst'[j].name \in Names
      BY DEF HeldAreNamed
    <3>1. CASE j = i
      BY <2>0, <2>4, <3>1
    <3>2. CASE j # i
      <4>1. accounts \in [Ids -> Instances \cup {None}]
        BY DEF AccountsInv, AccountsTyped
      <4>2. Held(j)
        BY <1>1, <2>0, <2>4, <3>2, <4>1 DEF Held, Referred
      <4>3. QED
        BY <2>4, <3>2, <4>2 DEF AccountsInv, HeldAreNamed
    <3>3. QED
      BY <3>1, <3>2
  <2>9. QED
    BY <2>1, <2>3, <2>6, <2>7, <2>8 DEF AccountsInv
<1> HIDE DEF Again, Fresh
<1>5. QED
  BY <1>2, <1>3, <1>4

LEMMA KeptByBeginning ==
  ASSUME AccountsInv, NEW f \in Flows,
         \/ \E k \in Ids : Verify(f, k) \/ Remove(f, k)
         \/ \E i \in Instances : Call(f, i)
  PROVE  AccountsInv'
<1>1. /\ flow[f] = Idle /\ flow' \in [Flows -> Calls] /\ \A g \in Flows : g # f => flow'[g] = flow[g]
      /\ CallFits(flow'[f]) /\ flow'[f].step # "waiting" /\ flow'[f].of \in Registered
      /\ UNCHANGED <<inst, accounts, secrets, protected, crashes>>
  <2>1. ASSUME NEW k \in Ids, accounts[k] \in Instances PROVE accounts[k] \in Registered
    BY <2>1, NoneIsNot DEF Registered
  <2>2. CASE \E k \in Ids : Verify(f, k)
    <3>1. PICK k \in Ids : Verify(f, k)
      BY <2>2
    <3>2. CallFits(flow'[f])
      BY <3>1, VerifyIs, IdleIs DEF CallFits
    <3>3. QED
      BY <2>1, <3>1, <3>2, VerifyIs
  <2>3. CASE \E k \in Ids : Remove(f, k)
    <3>1. PICK k \in Ids : Remove(f, k)
      BY <2>3
    <3>2. CallFits(flow'[f])
      BY <3>1, RemoveIs, IdleIs DEF CallFits
    <3>3. QED
      BY <2>1, <3>1, <3>2, RemoveIs
  <2>4. CASE \E i \in Instances : Call(f, i)
    <3>1. PICK i \in Instances : Call(f, i)
      BY <2>4
    <3>2. CallFits(flow'[f])
      BY <3>1, MakesCallIs, IdleIs, NoneIsNot DEF CallFits
    <3>3. QED
      BY <3>1, <3>2, MakesCallIs
  <2>5. QED
    BY <2>2, <2>3, <2>4
<1>2. \A j \in Instances : /\ SameOwner(inst[j], inst'[j])
                           /\ inst'[j].alive = inst[j].alive /\ inst'[j].password = inst[j].password
  BY <1>1 DEF SameOwner
<1>3. inst' \in [Instances -> Insts]
  BY <1>1 DEF AccountsInv, AccountsTyped
<1>4. QED
  BY <1>1, <1>2, <1>3, BeginsKeeps

LEMMA KeptByReauthRequired ==
  ASSUME AccountsInv, NEW i \in Instances, ReauthRequired(i) PROVE AccountsInv'
<1> DEFINE a == [inst[i] EXCEPT !.reauth = "probing"]
<1>1. /\ i \in Registered /\ At(i, a) /\ inst' \in [Instances -> Insts]
      /\ UNCHANGED <<accounts, secrets, flow, protected, crashes>>
  BY ReauthRequiredIs
<1>2. /\ a.id = inst[i].id /\ a.name = inst[i].name /\ a.cost = inst[i].cost
      /\ a.alive = inst[i].alive /\ a.password = inst[i].password /\ a.reauth = "probing"
  BY InstIs, FieldIs
<1> HIDE DEF a
<1>3. Held(i)
  BY <1>1 DEF Held, Referred, Registered
<1>4. secrets' \in [Ids -> Rows \cup {None}]
  BY <1>1 DEF AccountsInv, AccountsTyped
<1>5. Earned(inst[i]) => Earned(a)
  BY <1>2 DEF Earned
<1>6. QED
  BY <1>1, <1>2, <1>3, <1>4, <1>5, InstKeeps

LEMMA KeptByProbeLive ==
  ASSUME AccountsInv, NEW i \in Instances, ProbeLive(i) PROVE AccountsInv'
<1> DEFINE a == inst'[i]
<1>1. /\ inst[i].reauth = "probing" /\ a.reauth = "saved" /\ a.alive /\ a.cost = inst[i].cost
      /\ a.name = inst[i].name /\ a.id = Real
      /\ At(i, a) /\ inst' \in [Instances -> Insts] /\ secrets' \in [Ids -> Rows \cup {None}]
      /\ UNCHANGED <<accounts, flow, protected, crashes>>
  BY ProbeLiveIs
<1> HIDE DEF a
<1>2. Held(i)
  BY <1>1 DEF Held
<1>3. Earned(inst[i]) => Earned(a)
  BY <1>1 DEF Earned
<1>4. QED
  BY <1>1, <1>2, <1>3, InstKeeps

LEMMA KeptByProbeFails ==
  ASSUME AccountsInv, NEW i \in Instances, ProbeFails(i) PROVE AccountsInv'
<1> DEFINE Frame(a) == /\ a.id = inst[i].id /\ a.name = inst[i].name /\ a.alive = inst[i].alive
                       /\ a.password = inst[i].password
                       /\ a.cost = IF inst[i].alive THEN 0 ELSE inst[i].cost
           Logs(a) == /\ inst[i].password /\ At(i, a) /\ inst' \in [Instances -> Insts]
                      /\ a.reauth = "login" /\ UNCHANGED <<accounts, secrets, flow>>
<1>1. inst[i].reauth = "probing" /\ UNCHANGED <<protected, crashes>> /\ inst[i] \in Insts
  BY ProbeFailsIs, InstIs
<1>2. \/ \E a \in Insts : Logs(a) /\ Frame(a)
      \/ \E a \in Insts : Settled(i, a) /\ Frame(a)
  <2>1. \A a \in Insts : a.password = TRUE \/ a.password = FALSE
    BY DEF Insts
  <2>2. QED
    BY <1>1, <2>1, ProbeFailsIs, ZenonT(60)
<1>3. ASSUME NEW a \in Insts, Logs(a), Frame(a) PROVE AccountsInv'
  <2>1. /\ At(i, a) /\ a.reauth = "login" /\ UNCHANGED <<accounts, secrets, flow>> /\ inst[i].password
        /\ inst' \in [Instances -> Insts]
    BY <1>3
  <2>2. ~protected /\ Earned(inst[i]) => Earned(a)
    <3>1. inst[i].cost \in Nat
      BY <1>1 DEF Insts
    <3>2. QED
      BY <1>3, <2>1, <3>1 DEF Earned
  <2>3. Held(i) /\ secrets' \in [Ids -> Rows \cup {None}]
    BY <1>1, <2>1 DEF Held, AccountsInv, AccountsTyped
  <2>4. QED
    BY <1>1, <1>3, <2>1, <2>2, <2>3, InstKeeps
<1>4. ASSUME NEW a \in Insts, Settled(i, a), Frame(a) PROVE AccountsInv'
  BY <1>1, <1>4, SettledKeeps
<1> HIDE DEF Logs, Frame
<1>5. QED
  BY <1>2, <1>3, <1>4

LEMMA KeptByReauthAnswered ==
  ASSUME AccountsInv, NEW i \in Instances, ReauthAnswered(i) PROVE AccountsInv'
<1> DEFINE a == inst'[i]
<1>1. /\ inst[i].reauth = "login" /\ a.reauth \in {"saved", "asked"} /\ a.name = inst[i].name
      /\ \/ a.id = Real /\ a.alive /\ a.cost = inst[i].cost + 1
         \/ protected /\ a.id = inst[i].id
      /\ At(i, a) /\ inst' \in [Instances -> Insts] /\ secrets' \in [Ids -> Rows \cup {None}]
      /\ UNCHANGED <<accounts, flow, protected, crashes>>
  BY ReauthAnsweredIs
<1> HIDE DEF a
<1>2. Held(i)
  BY <1>1 DEF Held
<1>3. ~protected /\ Earned(inst[i]) => Earned(a)
  BY <1>1 DEF Earned
<1>4. QED
  BY <1>1, <1>2, <1>3, InstKeeps

LEMMA KeptByReauthEnds ==
  ASSUME AccountsInv, NEW i \in Instances, ReauthThrows(i) \/ ReauthSaved(i) PROVE AccountsInv'
<1>1. inst[i].reauth # "none" /\ UNCHANGED <<protected, crashes>>
  BY ReauthEndsIs
<1>2. PICK a \in Insts : /\ Settled(i, a) /\ SameOwner(inst[i], a) /\ a.id = inst[i].id
                         /\ a.alive = inst[i].alive /\ a.password = inst[i].password
  BY ReauthEndsIs
<1>3. QED
  BY <1>1, <1>2, SettledKeeps DEF SameOwner

LEMMA KeptByExpire ==
  ASSUME AccountsInv, NEW i \in Instances, Expire(i) PROVE AccountsInv'
<1> DEFINE a == inst'[i]
<1>1. /\ a.reauth = inst[i].reauth /\ a.name = inst[i].name /\ a.id = inst[i].id /\ a.cost = 0
      /\ At(i, a) /\ inst' \in [Instances -> Insts]
      /\ UNCHANGED <<accounts, secrets, flow, protected, crashes>>
  BY ExpireIs
<1> HIDE DEF a
<1>2. a.reauth # "none" => Held(i)
  BY <1>1 DEF Held
<1>3. Earned(a)
  BY <1>1 DEF Earned
<1>4. secrets' \in [Ids -> Rows \cup {None}]
  BY <1>1 DEF AccountsInv, AccountsTyped
<1>5. QED
  BY <1>1, <1>2, <1>3, <1>4, InstKeeps

LEMMA KeptByDaemonRestarts ==
  ASSUME AccountsInv, DaemonRestarts PROVE AccountsInv'
<1>1. /\ crashes < MaxCrashes /\ crashes' = crashes + 1 /\ UNCHANGED <<secrets, protected>>
      /\ inst' \in [Instances -> Insts] /\ flow' \in [Flows -> Calls] /\ accounts' \in [Ids -> Instances \cup {None}]
  BY DaemonRestartsIs
<1>2. \A k \in Ids : secrets[k] = None <=> accounts'[k] = None
  BY DaemonRestartsIs
<1>3. \A k \in Ids : accounts'[k] # None =>
        /\ inst'[accounts'[k]].id = k /\ inst'[accounts'[k]].name = secrets[k].name
        /\ inst'[accounts'[k]].reauth = "none" /\ inst'[accounts'[k]].cost = 0
  BY DaemonRestartsIs
<1>4. \A i \in Instances : inst'[i] = NoInstance \/ \E k \in Ids : accounts'[k] = i
  BY DaemonRestartsIs
<1>5. \A f \in Flows : \/ flow'[f] = Idle
                       \/ /\ flow'[f].kind = "load" /\ flow'[f].key \in Ids /\ flow'[f].step = "resume"
                          /\ flow'[f].of \in Instances /\ flow'[f].of = accounts'[flow'[f].key]
  BY DaemonRestartsIs
<1>6. \A i \in Instances : inst'[i].reauth = "none" /\ inst'[i].cost = 0
  BY <1>3, <1>4, NoInstanceIs, NoneIsNot
<1>7. AccountsTyped'
  BY <1>1, NoneIsNot DEF AccountsInv, AccountsTyped
<1>8. CallsFit'
  <2> SUFFICES ASSUME NEW g \in Flows PROVE CallFits(flow'[g])
    BY DEF CallsFit
  <2>1. CASE flow'[g] = Idle
    BY <2>1, IdleIs
  <2>2. CASE flow'[g] # Idle
    BY <1>5, <2>2 DEF CallFits
  <2>3. QED
    BY <2>1, <2>2
<1>9. WaitersAreHeard'
  BY <1>5, IdleIs DEF WaitersAreHeard
<1>10. LoginsAreEarned'
  BY <1>6 DEF LoginsAreEarned
<1>11. HeldAreNamed'
  <2> SUFFICES ASSUME NEW j \in Instances, Held(j)' PROVE inst'[j].id \in Ids /\ inst'[j].name \in Names
    BY DEF HeldAreNamed
  <2>1. Referred(j, accounts', flow')
    BY <1>6 DEF Held
  <2>2. \E k \in Ids : accounts'[k] = j
    BY <1>5, <2>1, IdleIs, NoneIsNot DEF Referred
  <2>3. PICK k \in Ids : accounts'[k] = j
    BY <2>2
  <2>4. inst'[j].id = k /\ inst'[j].name = secrets[k].name /\ secrets[k] # None
    BY <1>2, <1>3, <2>3, NoneIsNot
  <2>5. secrets[k] \in Rows
    BY <2>4 DEF AccountsInv, AccountsTyped
  <2>6. QED
    BY <2>4, <2>5 DEF Rows
<1>12. QED
  BY <1>7, <1>8, <1>9, <1>10, <1>11 DEF AccountsInv

LEMMA AccountsStep ==
  ASSUME AccountsInv, [AccountsNext]_accountsVars PROVE AccountsInv'
<1>1. ASSUME NEW f \in Flows, Advance(f) PROVE AccountsInv'
  <2>1. CASE LoginAnswered(f) BY <2>1, KeptByLoginAnswered
  <2>2. CASE LoginFails(f) BY <2>2, KeptByLoginFails
  <2>3. CASE CodeAccepted(f) \/ ProfileLoaded(f) BY <2>3, KeptByCode
  <2>4. CASE CodeRefused(f) \/ ProfileFails(f) BY <2>4, CodeRefusedIs, ProfileFailsIs, KeptByReturning
  <2>5. CASE ResumeLive(f) \/ ResumeFails(f) BY <2>5, KeptByResume
  <2>6. CASE Saved(f) \/ Rekeyed(f) BY <2>6, KeptBySaved
  <2>7. CASE Announce(f) BY <2>7, AnnounceIs, KeptByReturning
  <2>8. CASE LoggedOut(f) BY <2>8, KeptByLoggedOut
  <2>9. CASE CallOk(f) BY <2>9, CallOkIs, KeptByReturning
  <2>10. CASE Call401(f) BY <2>10, KeptByCall401
  <2>11. QED
    BY <1>1, <2>1, <2>2, <2>3, <2>4, <2>5, <2>6, <2>7, <2>8, <2>9, <2>10 DEF Advance
<1>2. ASSUME NEW i \in Instances, Reauthenticate(i) PROVE AccountsInv'
  BY <1>2, KeptByProbeLive, KeptByProbeFails, KeptByReauthAnswered, KeptByReauthEnds DEF Reauthenticate
<1>3. CASE UNCHANGED accountsVars
  BY <1>3 DEF accountsVars, AccountsInv, AccountsTyped, CallsFit, HeldAreNamed, Held, WaitersAreHeard, LoginsAreEarned
<1>4. QED
  BY <1>1, <1>2, <1>3, KeptByAdd, KeptByBeginning, KeptByReauthRequired, KeptByExpire, KeptByDaemonRestarts DEF AccountsNext

LEMMA AccountsStart == AccountsInit => AccountsInv
<1> SUFFICES ASSUME AccountsInit PROVE AccountsInv
  OBVIOUS
<1>1. AccountsTyped
  BY NoInstanceIs, IdleIs, NoneIsNot DEF AccountsInit, AccountsTyped
<1>2. CallsFit
  BY IdleIs DEF AccountsInit, CallsFit
<1>3. HeldAreNamed
  BY NoInstanceIs, IdleIs, NoneIsNot DEF AccountsInit, HeldAreNamed, Held, Referred
<1>4. WaitersAreHeard
  BY IdleIs DEF AccountsInit, WaitersAreHeard
<1>5. LoginsAreEarned
  BY NoInstanceIs DEF AccountsInit, LoginsAreEarned
<1>6. QED
  BY <1>1, <1>2, <1>3, <1>4, <1>5 DEF AccountsInv

(* Calls, instances and rows fit each other in every reachable state,      *)
(* whatever runs at once.                                                  *)
THEOREM AccountsInvariant == AccountsSpec => []AccountsInv
<1>1. AccountsInv /\ [AccountsNext]_accountsVars => AccountsInv'
  BY AccountsStep
<1>2. QED
  BY <1>1, AccountsStart, PTL DEF AccountsSpec

ExcusesFit == excuses \subseteq Excuses

\* What happened stays so.
LEMMA ExcusesGrow ==
  ASSUME AccountsNext
  PROVE  excuses \subseteq excuses' /\ excuses' \subseteq excuses \cup Excuses
<1>1. ASSUME NEW e \in Excuses, NEW c, Excused(e, c)
      PROVE  excuses \subseteq excuses' /\ excuses' \subseteq excuses \cup Excuses
  BY <1>1 DEF Excused
<1>2. {"removed", "dropped", "halfway", "unasked"} \subseteq Excuses
  BY DEF Excuses
<1>3. ASSUME NEW f \in Flows, Advance(f)
      PROVE  excuses \subseteq excuses' /\ excuses' \subseteq excuses \cup Excuses
  <2>1. CASE LoginAnswered(f)
    BY <1>1, <1>2, <2>1 DEF LoginAnswered
  <2>2. CASE LoginFails(f)
    BY <1>1, <1>2, <2>2 DEF LoginFails
  <2>3. CASE LoggedOut(f)
    BY <1>1, <1>2, <2>3 DEF LoggedOut
  <2>4. CASE ~(LoginAnswered(f) \/ LoginFails(f) \/ LoggedOut(f))
    BY <1>3, <2>4 DEF Advance, CodeAccepted, CodeRefused, ProfileLoaded, ProfileFails, ResumeLive,
       ResumeFails, Saved, Rekeyed, Announce, CallOk, Call401
  <2>5. QED
    BY <2>1, <2>2, <2>3, <2>4
<1>4. ASSUME NEW i \in Instances, Reauthenticate(i)
      PROVE  excuses \subseteq excuses' /\ excuses' \subseteq excuses \cup Excuses
  <2>1. CASE ReauthAnswered(i)
    BY <1>1, <1>2, <2>1 DEF ReauthAnswered
  <2>2. CASE ~ReauthAnswered(i)
    BY <1>4, <2>2 DEF Reauthenticate, ProbeLive, ProbeFails, ReauthThrows, ReauthSaved
  <2>3. QED
    BY <2>1, <2>2
<1>5. CASE DaemonRestarts
  BY <1>1, <1>2, <1>5 DEF DaemonRestarts
<1>6. QED
  BY <1>3, <1>4, <1>5 DEF AccountsNext, Add, Verify, Remove, Call, ReauthRequired, Expire

(* The type invariant; and a request waits only while there is an attempt  *)
(* to wait for (account.ts: reauthenticate).                               *)
THEOREM AccountsTyping == AccountsSpec => []AccountsTypeOK
<1>1. AccountsInv /\ ExcusesFit => AccountsTypeOK
  BY DEF AccountsInv, AccountsTyped, WaitersAreHeard, ExcusesFit, AccountsTypeOK, Insts, Calls, Steps
<1>2. AccountsInit => ExcusesFit
  BY DEF AccountsInit, ExcusesFit
<1>3. ExcusesFit /\ [AccountsNext]_accountsVars => ExcusesFit'
  <2>1. CASE AccountsNext
    BY <2>1, ExcusesGrow DEF ExcusesFit
  <2>2. CASE UNCHANGED accountsVars
    BY <2>2 DEF accountsVars, ExcusesFit
  <2>3. QED
    BY <2>1, <2>2
<1>4. QED
  BY <1>1, <1>2, <1>3, AccountsInvariant, PTL DEF AccountsSpec

(* A wave of 401s costs one login, for any number of requests, instances   *)
(* and names, and whatever else is under way (account.ts:74-79).           *)
THEOREM OneLogin == AccountsSpec => []OneLoginPerExpiry
<1>1. AccountsInv => OneLoginPerExpiry
  BY DEF AccountsInv, LoginsAreEarned, OneLoginPerExpiry
<1>2. QED
  BY <1>1, AccountsInvariant, PTL

(* The instance filed under the real id is never replaced by another one:  *)
(* not by a second name that signs in at the same time, not by a call that *)
(* saves late (manager.ts:202).                                            *)
THEOREM Established == AccountsSpec => EstablishedIsKept
<1> DEFINE Kept == accounts[Real] /= None /\ crashes' = crashes => accounts'[Real] \in {accounts[Real], None}
<1>1. ASSUME AccountsInv, AccountsNext PROVE Kept
  <2> SUFFICES ASSUME accounts[Real] # None, crashes' = crashes, ~UNCHANGED accounts
               PROVE  accounts'[Real] \in {accounts[Real], None}
    OBVIOUS
  <2>0. accounts \in [Ids -> Instances \cup {None}]
    BY <1>1 DEF AccountsInv, AccountsTyped
  <2>1. CASE \E f \in Flows : Advance(f)
    <3>1. PICK f \in Flows : Advance(f)
      BY <2>1
    <3>2. CASE LoginFails(f)
      BY <1>1, <2>0, <3>2, LoginFailsIs, NoneIsNot
    <3>3. CASE LoggedOut(f)
      BY <1>1, <2>0, <3>3, LoggedOutIs, NoneIsNot
    <3>4. CASE Saved(f)
      <4>1. PICK i \in Instances : i = flow[f].of
        BY <1>1, <3>4, SavedIs
      <4>2. PICK k \in Ids : k = flow[f].key
        BY <1>1, <3>4, SavedIs
      <4>3. /\ inst[i].id \in Ids
            /\ \/ accounts' = [accounts EXCEPT ![k] = None]
               \/ /\ accounts[inst[i].id] \in {None, i}
                  /\ accounts' = [[accounts EXCEPT ![k] = None] EXCEPT ![inst[i].id] = i]
        BY <1>1, <3>4, <4>1, <4>2, SavedIs
      <4>4. QED
        BY <2>0, <4>3, NoneIsNot
    <3>5. UNCHANGED accounts \/ LoginFails(f) \/ LoggedOut(f) \/ Saved(f)
      BY <3>1 DEF Advance, LoginAnswered, CodeAccepted, CodeRefused, ProfileLoaded,
                  ProfileFails, ResumeLive, ResumeFails, Rekeyed,
                  Announce, CallOk, Call401
    <3>6. QED
      BY <3>2, <3>3, <3>4, <3>5
  <2>2. CASE \E f \in Flows, name \in Names : Add(f, name)
    <3>1. PICK f \in Flows, name \in Names : Add(f, name)
      BY <2>2
    <3>2. \E i \in Unused, p \in FreshIds : p \in Pending /\ accounts' = [accounts EXCEPT ![p] = i]
      BY <3>1 DEF Add, FreshIds
    <3>3. QED
      BY <2>0, <3>2, NoneIsNot
  <2>3. CASE DaemonRestarts
    <3>1. crashes' = crashes + 1 /\ crashes \in Nat
      BY <1>1, <2>3, DaemonRestartsIs, NoneIsNot DEF AccountsInv, AccountsTyped
    <3>2. QED
      BY <3>1
  <2>4. CASE \E i \in Instances : Reauthenticate(i)
    <3>1. PICK i \in Instances : Reauthenticate(i)
      BY <2>4
    <3>2. UNCHANGED accounts
      BY <3>1 DEF Reauthenticate, ProbeLive, ProbeFails, ReauthAnswered, ReauthThrows, ReauthSaved, Settles
    <3>3. QED
      BY <3>2
  <2>5. QED
    BY <1>1, <2>1, <2>2, <2>3, <2>4 DEF AccountsNext, Verify, Remove, Call, ReauthRequired, Expire
<1>2. AccountsInv /\ [AccountsNext]_accountsVars => [Kept]_accountsVars
  BY <1>1
<1>3. QED
  BY <1>2, AccountsInvariant, PTL DEF AccountsSpec, EstablishedIsKept


-----------------------------------------------------------------------------
(***************************************************************************)
(* Accounts: where the instances are filed, what the calls know of them,   *)
(* and from there what is stored.                                          *)
(***************************************************************************)
\* An instance is registered once, under the id it has or had before it was adopted; and a
\* pending id is of one instance.
Filed ==
  /\ \A k \in Ids : accounts[k] # None => inst[accounts[k]].id \in {k, Real}
  /\ \A k, l \in Ids : accounts[k] # None /\ accounts[k] = accounts[l] => k = l
  /\ \A i, j \in Instances : inst[i].id \in Pending /\ inst[j].id = inst[i].id => i = j
  /\ \A i \in Instances : inst[i].id \in Pending => accounts[inst[i].id] \in {None, i}

\* The id a call began with is still that of its instance, or was.
Knows(f) ==
  flow[f].key \in Ids =>
    /\ inst[flow[f].of].id \in {flow[f].key, Real}
    /\ flow[f].key \in Pending => accounts[flow[f].key] \in {None, flow[f].of}
    /\ \A k \in Ids : accounts[k] = flow[f].of => k \in {flow[f].key, Real}
    /\ flow[f].step = "rekeying" => flow[f].key \in Pending /\ accounts[flow[f].key] = None

Known == Filed /\ \A f \in Flows : Knows(f)

\* A call that goes on, or is over; it is at no re-keying that it was not at before.
Follows(f) ==
  \/ flow'[f].key = None
  \/ /\ flow'[f].of = flow[f].of /\ flow'[f].key = flow[f].key
     /\ flow'[f].step = "rekeying" => flow[f].step = "rekeying"

LEMMA KeyedHasInstance ==
  ASSUME AccountsInv, NEW f \in Flows, flow[f].key \in Ids
  PROVE  flow[f].of \in Instances /\ flow[f].kind # "idle" /\ flow[f].kind \in {"add", "verify", "load", "remove"}
BY DEF AccountsInv, CallsFit, CallFits

LEMMA FiledStays ==
  ASSUME AccountsInv, Known, accounts' \in [Ids -> Instances \cup {None}],
         \A k \in Ids : accounts'[k] \in {accounts[k], None},
         \A j \in Instances : \/ inst'[j].id \in {inst[j].id, Real}
                              \/ inst'[j].id = None /\ \A k \in Ids : accounts'[k] # j
  PROVE  Filed'
<1>0. accounts \in [Ids -> Instances \cup {None}]
  BY DEF AccountsInv, AccountsTyped
<1>1. ASSUME NEW k \in Ids, accounts'[k] # None PROVE inst'[accounts'[k]].id \in {k, Real}
  <2>1. accounts'[k] = accounts[k] /\ accounts[k] \in Instances /\ inst[accounts[k]].id \in {k, Real}
    BY <1>0, <1>1 DEF Known, Filed
  <2>2. QED
    BY <1>1, <2>1
<1>2. \A k, l \in Ids : accounts'[k] # None /\ accounts'[k] = accounts'[l] => k = l
  BY DEF Known, Filed
<1>3. \A i \in Instances : inst'[i].id \in Pending => inst'[i].id = inst[i].id
  BY NoneIsNot
<1>4. \A i, j \in Instances : inst'[i].id \in Pending /\ inst'[j].id = inst'[i].id => i = j
  BY <1>3 DEF Known, Filed
<1>5. \A i \in Instances : inst'[i].id \in Pending => accounts'[inst'[i].id] \in {None, i}
  BY <1>3, NoneIsNot DEF Known, Filed
<1>6. QED
  BY <1>1, <1>2, <1>4, <1>5 DEF Filed

LEMMA CalmKnows ==
  ASSUME AccountsInv, Known, AccountsInv',
         \A k \in Ids : accounts'[k] \in {accounts[k], None},
         \A j \in Instances : \/ inst'[j].id \in {inst[j].id, Real}
                              \/ inst'[j].id = None /\ ~Referred(j, accounts', flow'),
         \A g \in Flows : Follows(g)
  PROVE  Known'
<1>1. accounts' \in [Ids -> Instances \cup {None}] /\ accounts \in [Ids -> Instances \cup {None}]
  BY DEF AccountsInv, AccountsTyped
<1>2. Filed'
  BY <1>1, FiledStays DEF Referred
<1>3. ASSUME NEW f \in Flows, flow'[f].key \in Ids
      PROVE  /\ inst'[flow'[f].of].id \in {flow'[f].key, Real}
             /\ flow'[f].key \in Pending => accounts'[flow'[f].key] \in {None, flow'[f].of}
             /\ \A k \in Ids : accounts'[k] = flow'[f].of => k \in {flow'[f].key, Real}
             /\ flow'[f].step = "rekeying" => flow'[f].key \in Pending /\ accounts'[flow'[f].key] = None
  <2>1. /\ flow'[f].of = flow[f].of /\ flow'[f].key = flow[f].key
        /\ flow'[f].step = "rekeying" => flow[f].step = "rekeying"
    BY <1>3, NoneIsNot DEF Follows
  <2>2. Knows(f) /\ flow[f].of \in Instances
    BY <1>3, <2>1, KeyedHasInstance DEF Known
  <2>3. inst'[flow[f].of].id \in {inst[flow[f].of].id, Real}
    BY <2>1, <2>2 DEF Referred
  <2>4. \A k \in Ids : accounts'[k] = flow[f].of => accounts[k] = flow[f].of
    BY <2>2, NoneIsNot
  <2>5. QED
    BY <1>3, <2>1, <2>2, <2>3, <2>4 DEF Knows
<1>4. QED
  BY <1>2, <1>3 DEF Known, Knows

\* A call begins with an instance that is registered.
LEMMA BeginsKnows ==
  ASSUME AccountsInv, Known, AccountsInv', NEW f \in Flows, UNCHANGED accounts,
         \A j \in Instances : inst'[j].id = inst[j].id,
         \A g \in Flows : g # f => flow'[g] = flow[g],
         \/ flow'[f].key = None
         \/ /\ flow'[f].key \in Ids /\ flow'[f].step # "rekeying"
            /\ flow'[f].of = accounts[flow'[f].key] /\ flow'[f].of # None
  PROVE  Known'
<1>1. accounts' \in [Ids -> Instances \cup {None}] /\ accounts \in [Ids -> Instances \cup {None}]
  BY DEF AccountsInv, AccountsTyped
<1>2. Filed'
  BY <1>1, FiledStays
<1>3. ASSUME NEW g \in Flows, g # f, flow'[g].key \in Ids
      PROVE  /\ inst'[flow'[g].of].id \in {flow'[g].key, Real}
             /\ flow'[g].key \in Pending => accounts'[flow'[g].key] \in {None, flow'[g].of}
             /\ \A k \in Ids : accounts'[k] = flow'[g].of => k \in {flow'[g].key, Real}
             /\ flow'[g].step = "rekeying" => flow'[g].key \in Pending /\ accounts'[flow'[g].key] = None
  <2>1. flow'[g] = flow[g] /\ Knows(g) /\ flow[g].of \in Instances
    BY <1>3, KeyedHasInstance DEF Known
  <2>2. QED
    BY <1>3, <2>1 DEF Knows
<1>4. ASSUME flow'[f].key \in Ids
      PROVE  /\ inst'[flow'[f].of].id \in {flow'[f].key, Real}
             /\ flow'[f].key \in Pending => accounts'[flow'[f].key] \in {None, flow'[f].of}
             /\ \A k \in Ids : accounts'[k] = flow'[f].of => k \in {flow'[f].key, Real}
             /\ flow'[f].step # "rekeying"
  <2>1. PICK k \in Ids : k = flow'[f].key
    BY <1>4
  <2>2. accounts[k] # None /\ flow'[f].of = accounts[k] /\ accounts[k] \in Instances /\ flow'[f].step # "rekeying"
    BY <1>1, <2>1, NoneIsNot
  <2>3. inst[accounts[k]].id \in {k, Real} /\ \A l \in Ids : accounts[l] = accounts[k] => l = k
    BY <2>2 DEF Known, Filed
  <2>4. QED
    BY <2>1, <2>2, <2>3
<1>5. QED
  BY <1>2, <1>3, <1>4 DEF Known, Knows

LEMMA OverFollows ==
  ASSUME NEW f \in Flows, NEW a \in Insts, flow[f].of \in Instances, Over(f, a, accounts'), a.id = inst[flow[f].of].id
  PROVE  /\ \A g \in Flows : Follows(g)
         /\ \A j \in Instances : \/ inst'[j].id \in {inst[j].id, Real}
                                 \/ inst'[j].id = None /\ ~Referred(j, accounts', flow')
<1>1. \A g \in Flows : Follows(g)
  BY IdleIs DEF Follows, Over
<1>2. ASSUME NEW j \in Instances
      PROVE  \/ inst'[j].id \in {inst[j].id, Real}
             \/ inst'[j].id = None /\ ~Referred(j, accounts', flow')
  <2>1. CASE j # flow[f].of
    BY <2>1 DEF Over
  <2>2. CASE j = flow[f].of
    BY <2>2, NoInstanceIs DEF Over
  <2>3. QED
    BY <2>1, <2>2
<1>3. QED
  BY <1>1, <1>2

LEMMA GoesFollows ==
  ASSUME AccountsInv, NEW f \in Flows, NEW s \in Steps, Goes(f, s), s # "rekeying"
  PROVE  \A g \in Flows : Follows(g)
BY GoesIs DEF Follows, AccountsInv

LEMMA SettledFollows ==
  ASSUME AccountsInv, NEW i \in Instances, NEW a \in Insts, Settled(i, a), a.id = inst[i].id
  PROVE  /\ \A g \in Flows : Follows(g)
         /\ \A j \in Instances : \/ inst'[j].id \in {inst[j].id, Real}
                                 \/ inst'[j].id = None /\ ~Referred(j, accounts', flow')
         /\ UNCHANGED <<accounts, secrets>>
         /\ \A g \in Flows : flow[g].step = "rekeying" => flow'[g] = flow[g]
<1>1. \A g \in Flows : flow'[g].step = "sent" => flow'[g].step # "rekeying"
  OBVIOUS
<1>2. \A g \in Flows : flow[g].step = "rekeying" => flow[g].step # "waiting"
  OBVIOUS
<1>3. \A g \in Flows : Follows(g)
  <2> SUFFICES ASSUME NEW g \in Flows PROVE Follows(g)
    OBVIOUS
  <2>1. CASE flow[g].of # i \/ flow[g].step # "waiting"
    BY <2>1 DEF Follows, Settled
  <2>2. CASE flow[g].of = i /\ flow[g].step = "waiting"
    BY <1>1, <2>2, IdleIs DEF Follows, Settled
  <2>3. QED
    BY <2>1, <2>2
<1>4. [a EXCEPT !.reauth = "none"].id = inst[i].id
  BY FieldIs
<1>5. ASSUME NEW j \in Instances
      PROVE  \/ inst'[j].id \in {inst[j].id, Real}
             \/ inst'[j].id = None /\ ~Referred(j, accounts', flow')
  <2>1. CASE j # i
    BY <2>1 DEF Settled
  <2>2. CASE j = i
    BY <1>4, <2>2, NoInstanceIs DEF Settled
  <2>3. QED
    BY <2>1, <2>2
<1>6. QED
  BY <1>2, <1>3, <1>5 DEF Settled

LEMMA AtFollows ==
  ASSUME NEW i \in Instances, NEW a, At(i, a), a.id \in {inst[i].id, Real}
  PROVE  \A j \in Instances : inst'[j].id \in {inst[j].id, Real}
BY DEF At

LEMMA SameId ==
  ASSUME NEW i \in Instances, inst[i] \in Insts,
         At(i, [inst[i] EXCEPT !.online = FALSE]) \/ At(i, [inst[i] EXCEPT !.reauth = "probing"])
  PROVE  \A j \in Instances : inst'[j].id = inst[j].id
<1>1. [inst[i] EXCEPT !.online = FALSE].id = inst[i].id /\ [inst[i] EXCEPT !.reauth = "probing"].id = inst[i].id
  BY DEF Insts
<1>2. inst'[i].id = inst[i].id /\ \A j \in Instances : j # i => inst'[j] = inst[j]
  BY <1>1 DEF At
<1>3. QED
  BY <1>2

LEMMA KnownByAdvance ==
  ASSUME AccountsInv, Known, AccountsInv', NEW f \in Flows, Advance(f), ~Saved(f)
  PROVE  Known'
<1> DEFINE Calm ==
      /\ \A k \in Ids : accounts'[k] \in {accounts[k], None}
      /\ \A j \in Instances : \/ inst'[j].id \in {inst[j].id, Real}
                              \/ inst'[j].id = None /\ ~Referred(j, accounts', flow')
      /\ \A g \in Flows : Follows(g)
<1>0. /\ accounts \in [Ids -> Instances \cup {None}]
      /\ "saving" \in Steps /\ "profile" \in Steps /\ "announce" \in Steps /\ "waiting" \in Steps
  BY DEF AccountsInv, AccountsTyped, Steps
<1>1. CASE LoginAnswered(f) \/ CodeAccepted(f) \/ ProfileLoaded(f) \/ ResumeLive(f) \/ ResumeFails(f)
  <2>1. PICK i \in Instances : i = flow[f].of
    BY <1>1, LoginAnsweredIs, CodeAcceptedIs, ProfileLoadedIs, ResumeLiveIs, ResumeFailsIs
  <2>2. SameOwner(inst[i], inst'[i]) /\ \A j \in Instances : j # i => inst'[j] = inst[j]
    <3>1. CASE LoginAnswered(f) BY <2>1, <3>1, LoginAnsweredIs DEF At
    <3>2. CASE CodeAccepted(f) BY <2>1, <3>2, CodeAcceptedIs DEF At
    <3>3. CASE ProfileLoaded(f) BY <2>1, <3>3, ProfileLoadedIs DEF At
    <3>4. CASE ResumeLive(f) BY <2>1, <3>4, ResumeLiveIs DEF At
    <3>5. CASE ResumeFails(f) BY <2>1, <3>5, ResumeFailsIs DEF At
    <3>6. QED
      BY <1>1, <3>1, <3>2, <3>3, <3>4, <3>5
  <2>3. /\ Goes(f, "saving") \/ Goes(f, "profile")
        /\ UNCHANGED accounts
    BY <1>1, LoginAnsweredIs, CodeAcceptedIs, ProfileLoadedIs, ResumeLiveIs, ResumeFailsIs
  <2>4. Calm
    BY <1>0, <2>2, <2>3, GoesFollows DEF SameOwner
  <2>5. QED
    BY <2>4, CalmKnows
<1>2. CASE LoginFails(f)
  <2>1. PICK i \in Instances : i = flow[f].of
    BY <1>2, LoginFailsIs
  <2> DEFINE a == [inst[i] EXCEPT !.online = FALSE]
  <2>2. a \in Insts /\ a.id = inst[i].id
    BY InstIs, FieldIs
  <2>3. Over(f, a, accounts') /\ \A k \in Ids : accounts'[k] \in {accounts[k], None}
    BY <1>0, <1>2, <2>1, LoginFailsIs
  <2> HIDE DEF a
  <2>4. QED
    BY <2>1, <2>2, <2>3, OverFollows, CalmKnows
<1>3. CASE LoggedOut(f)
  <2>1. PICK i \in Instances : i = flow[f].of
    BY <1>3, LoggedOutIs
  <2>2. PICK a \in Insts : Over(f, a, accounts') /\ a.id = inst[i].id
    BY <1>3, <2>1, LoggedOutIs
  <2>3. \A k \in Ids : accounts'[k] \in {accounts[k], None}
    BY <1>0, <1>3, LoggedOutIs
  <2>4. QED
    BY <2>1, <2>2, <2>3, OverFollows, CalmKnows
<1>4. CASE Returns(f)
  <2>1. PICK i \in Instances : i = flow[f].of
    BY <1>4 DEF Returns
  <2>2. Over(f, inst[i], accounts') /\ inst[i] \in Insts /\ UNCHANGED accounts
    BY <1>4, <2>1, InstIs DEF Returns
  <2>3. QED
    BY <2>1, <2>2, OverFollows, CalmKnows
<1>5. CASE Rekeyed(f)
  <2>1. Goes(f, "announce") /\ UNCHANGED <<inst, accounts>>
    BY <1>5, RekeyedIs
  <2>2. Calm
    BY <1>0, <2>1, GoesFollows
  <2>3. QED
    BY <2>2, CalmKnows
<1>6. CASE Call401(f) /\ ~Returns(f)
  <2>1. PICK i \in Instances : i = flow[f].of
    BY <1>6, Call401Is
  <2>2. /\ Goes(f, "waiting") /\ UNCHANGED accounts
        /\ UNCHANGED inst \/ At(i, [inst[i] EXCEPT !.reauth = "probing"])
    BY <1>6, <2>1, Call401Is
  <2>3. \A j \in Instances : inst'[j].id = inst[j].id
    BY <2>2, InstIs, SameId
  <2>4. Calm
    BY <1>0, <2>2, <2>3, GoesFollows
  <2>5. QED
    BY <2>4, CalmKnows
<1>7. QED
  BY <1>1, <1>2, <1>3, <1>4, <1>5, <1>6, CodeRefusedIs, ProfileFailsIs, AnnounceIs, CallOkIs DEF Advance

LEMMA KnownBySaved ==
  ASSUME AccountsInv, Known, AccountsInv', NEW f \in Flows, Saved(f)
  PROVE  Known'
<1>0. /\ accounts \in [Ids -> Instances \cup {None}] /\ AccountsTyped
      /\ "announce" \in Steps /\ "rekeying" \in Steps /\ accounts' \in [Ids -> Instances \cup {None}]
  BY DEF AccountsInv, AccountsTyped, Steps
<1>1. PICK i \in Instances : i = flow[f].of
  BY SavedIs
<1>2. inst[i].id \in Ids /\ UNCHANGED inst
  BY <1>1, SavedIs
<1>3. CASE Goes(f, "announce") /\ \A k \in Ids : accounts'[k] \in {accounts[k], None}
  <2>1. \A g \in Flows : Follows(g)
    BY <1>0, <1>3, GoesFollows
  <2>2. QED
    BY <1>2, <1>3, <2>1, CalmKnows
<1>4. ASSUME NEW k \in Ids, k = flow[f].key, k # inst[i].id, accounts[inst[i].id] \in {None, i},
             accounts' = [[accounts EXCEPT ![k] = None] EXCEPT ![inst[i].id] = i], Goes(f, "rekeying")
      PROVE  Known'
  <2>1. inst[i].id = Real /\ k \in Pending
    BY <1>1, <1>4, NoneIsNot DEF Known, Knows
  <2>2. /\ accounts'[Real] = i /\ accounts'[k] = None
        /\ \A l \in Ids : l # Real => accounts'[l] \in {accounts[l], None}
        /\ \A l \in Ids : l # Real /\ l # k => accounts'[l] = accounts[l]
    BY <1>0, <1>4, <2>1, NoneIsNot
  <2>3. \A l \in Ids : accounts[l] = i => l \in {k, Real}
    BY <1>1, <1>4 DEF Known, Knows
  <2>4. \A g \in Flows : flow'[g].of = flow[g].of /\ flow'[g].key = flow[g].key /\ (g # f => flow'[g] = flow[g])
    BY <1>0, <1>4, GoesIs
  <2>5. ASSUME NEW l \in Ids, accounts'[l] # None PROVE inst'[accounts'[l]].id \in {l, Real}
    <3>1. CASE l = Real
      BY <1>2, <2>1, <2>2, <3>1
    <3>2. CASE l # Real
      <4>1. accounts'[l] = accounts[l]
        BY <2>2, <2>5, <3>2
      <4>2. QED
        BY <1>2, <2>5, <4>1 DEF Known, Filed
    <3>3. QED
      BY <3>1, <3>2
  <2>6. ASSUME NEW l \in Ids, NEW m \in Ids, accounts'[l] # None, accounts'[l] = accounts'[m] PROVE l = m
    <3>1. \A n \in Ids : n # Real /\ accounts'[n] # None => accounts'[n] = accounts[n] /\ accounts[n] # i
      BY <2>2, <2>3
    <3>2. CASE l = Real \/ m = Real
      BY <2>2, <2>6, <3>1, <3>2
    <3>3. CASE l # Real /\ m # Real
      BY <2>6, <3>1, <3>3 DEF Known, Filed
    <3>4. QED
      BY <3>2, <3>3
  <2>7. \A j \in Instances : inst'[j].id \in Pending => accounts'[inst'[j].id] \in {None, j}
    BY <1>2, <2>2, NoneIsNot DEF Known, Filed
  <2>8. \A j, l \in Instances : inst'[j].id \in Pending /\ inst'[l].id = inst'[j].id => j = l
    BY <1>2 DEF Known, Filed
  <2>9. Filed'
    BY <2>5, <2>6, <2>7, <2>8 DEF Filed
  <2>10. ASSUME NEW g \in Flows, flow'[g].key \in Ids
         PROVE  /\ inst'[flow'[g].of].id \in {flow'[g].key, Real}
                /\ flow'[g].key \in Pending => accounts'[flow'[g].key] \in {None, flow'[g].of}
                /\ \A l \in Ids : accounts'[l] = flow'[g].of => l \in {flow'[g].key, Real}
                /\ flow'[g].step = "rekeying" => flow'[g].key \in Pending /\ accounts'[flow'[g].key] = None
    <3>1. PICK m \in Ids : m = flow[g].key /\ flow'[g].key = m
      BY <2>4, <2>10
    <3>2. PICK j \in Instances : j = flow[g].of /\ flow'[g].of = j
      BY <2>4, <3>1, KeyedHasInstance
    <3>3. /\ inst[j].id \in {m, Real} /\ (m \in Pending => accounts[m] \in {None, j})
          /\ \A l \in Ids : accounts[l] = j => l \in {m, Real}
          /\ flow[g].step = "rekeying" => m \in Pending /\ accounts[m] = None
      BY <3>1, <3>2 DEF Known, Knows
    <3>4. m \in Pending => accounts'[m] \in {None, j}
      BY <2>2, <3>3, NoneIsNot
    <3>5. \A l \in Ids : accounts'[l] = j => l \in {m, Real}
      BY <2>2, <3>2, <3>3, NoneIsNot
    <3>6. flow'[g].step = "rekeying" => m \in Pending /\ accounts'[m] = None
      <4>1. CASE g = f
        BY <1>4, <2>1, <2>2, <3>1, <4>1
      <4>2. CASE g # f
        BY <2>2, <2>4, <3>3, <4>2, NoneIsNot
      <4>3. QED
        BY <4>1, <4>2
    <3>7. QED
      BY <1>2, <3>1, <3>2, <3>3, <3>4, <3>5, <3>6
  <2>11. QED
    BY <2>9, <2>10 DEF Known, Knows
<1>5. QED
  <2>1. CASE ~Moved(f)
    BY <1>0, <1>3, <2>1, SavedIs
  <2>2. CASE Moved(f)
    <3>1. PICK k \in Ids : k = flow[f].key
      BY <2>2, SavedIs
    <3>2. k # inst[i].id
      BY <1>1, <2>2, <3>1, SavedIs
    <3>3. \/ accounts' = [accounts EXCEPT ![k] = None] /\ Goes(f, "announce")
          \/ /\ accounts[inst[i].id] \in {None, i} /\ Goes(f, "rekeying")
             /\ accounts' = [[accounts EXCEPT ![k] = None] EXCEPT ![inst[i].id] = i]
      BY <1>1, <2>2, <3>1, SavedIs
    <3>4. QED
      BY <1>0, <1>3, <1>4, <3>1, <3>2, <3>3
  <2>3. QED
    BY <2>1, <2>2

LEMMA KnownByAdd ==
  ASSUME AccountsInv, Known, AccountsInv', NEW f \in Flows, NEW name \in Names, Add(f, name)
  PROVE  Known'
<1>0. accounts \in [Ids -> Instances \cup {None}] /\ accounts' \in [Ids -> Instances \cup {None}]
  BY DEF AccountsInv, AccountsTyped
<1> DEFINE Again(i) ==
             /\ At(i, [inst[i] EXCEPT !.online = FALSE]) /\ UNCHANGED accounts /\ i \in Instances
             /\ flow'[f].key = None
           Fresh(i, p) ==
             /\ At(i, inst'[i]) /\ accounts' = [accounts EXCEPT ![p] = i] /\ inst'[i].id = p
             /\ flow'[f].of = i /\ flow'[f].key = p /\ flow'[f].step = "login"
<1>1. /\ \A g \in Flows : g # f => flow'[g] = flow[g]
      /\ (\E i \in Registered : Again(i)) \/ \E i \in Unused, p \in FreshIds : Fresh(i, p)
  BY AddIs
<1>2. ASSUME NEW i \in Registered, Again(i) PROVE Known'
  <2>1. \A j \in Instances : inst'[j].id = inst[j].id
    BY <1>2, InstIs, SameId
  <2>2. QED
    BY <1>1, <1>2, <2>1, BeginsKnows
<1>3. ASSUME NEW i \in Unused, NEW p \in FreshIds, Fresh(i, p) PROVE Known'
  <2>1. /\ i \in Instances /\ p \in Pending /\ p \in Ids /\ accounts[p] = None
        /\ \A g \in Flows : flow[g].key # p /\ flow[g].of # i
        /\ \A j \in Instances : inst[j].id # p
        /\ \A k \in Ids : accounts[k] # i
    BY NoneIsNot DEF Unused, FreshIds, Registered, Busy, FlowsOf
  <2>2. /\ inst'[i].id = p /\ \A j \in Instances : j # i => inst'[j] = inst[j]
        /\ accounts'[p] = i /\ \A k \in Ids : k # p => accounts'[k] = accounts[k]
        /\ flow'[f].of = i /\ flow'[f].key = p /\ flow'[f].step = "login"
    BY <1>0, <1>3, <2>1 DEF At
  <2>3. ASSUME NEW k \in Ids, accounts'[k] # None PROVE inst'[accounts'[k]].id \in {k, Real}
    <3>1. CASE k = p
      BY <2>2, <3>1
    <3>2. CASE k # p
      <4>1. accounts'[k] = accounts[k] /\ accounts[k] # i /\ accounts[k] \in Instances
        BY <1>0, <2>1, <2>2, <2>3, <3>2
      <4>2. QED
        BY <2>2, <2>3, <4>1 DEF Known, Filed
    <3>3. QED
      BY <3>1, <3>2
  <2>4. ASSUME NEW k \in Ids, NEW l \in Ids, accounts'[k] # None, accounts'[k] = accounts'[l] PROVE k = l
    BY <2>1, <2>2, <2>4 DEF Known, Filed
  <2>5. \A j, l \in Instances : inst'[j].id \in Pending /\ inst'[l].id = inst'[j].id => j = l
    BY <2>1, <2>2 DEF Known, Filed
  <2>6. ASSUME NEW j \in Instances, inst'[j].id \in Pending PROVE accounts'[inst'[j].id] \in {None, j}
    <3>1. CASE j = i
      BY <2>2, <3>1
    <3>2. CASE j # i
      BY <2>1, <2>2, <2>6, <3>2, NoneIsNot DEF Known, Filed
    <3>3. QED
      BY <3>1, <3>2
  <2>7. Filed'
    BY <2>3, <2>4, <2>5, <2>6 DEF Filed
  <2>8. ASSUME NEW g \in Flows, flow'[g].key \in Ids
        PROVE  /\ inst'[flow'[g].of].id \in {flow'[g].key, Real}
               /\ flow'[g].key \in Pending => accounts'[flow'[g].key] \in {None, flow'[g].of}
               /\ \A k \in Ids : accounts'[k] = flow'[g].of => k \in {flow'[g].key, Real}
               /\ flow'[g].step = "rekeying" => flow'[g].key \in Pending /\ accounts'[flow'[g].key] = None
    <3>1. CASE g = f
      BY <2>1, <2>2, <3>1
    <3>2. CASE g # f
      <4>1. flow'[g] = flow[g] /\ flow[g].key # p /\ flow[g].of # i /\ flow[g].of \in Instances /\ Knows(g)
        BY <1>1, <2>1, <2>8, <3>2, KeyedHasInstance DEF Known
      <4>2. QED
        BY <2>1, <2>2, <2>8, <4>1, NoneIsNot DEF Knows
    <3>3. QED
      BY <3>1, <3>2
  <2>9. QED
    BY <2>7, <2>8 DEF Known, Knows
<1> HIDE DEF Again, Fresh
<1>4. QED
  BY <1>1, <1>2, <1>3

LEMMA KnownByDaemonRestarts ==
  ASSUME AccountsInv, Known, AccountsInv', DaemonRestarts
  PROVE  Known'
<1>1. /\ \A k, l \in Ids : accounts'[k] # None /\ accounts'[k] = accounts'[l] => k = l
      /\ \A k \in Ids : accounts'[k] # None => inst'[accounts'[k]].id = k
      /\ \A i \in Instances : inst'[i] = NoInstance \/ \E k \in Ids : accounts'[k] = i
      /\ \A f \in Flows : \/ flow'[f] = Idle
                          \/ /\ flow'[f].step = "resume" /\ flow'[f].key \in Ids
                             /\ flow'[f].of \in Instances /\ flow'[f].of = accounts'[flow'[f].key]
  BY DaemonRestartsIs
<1>2. \A i \in Instances : inst'[i].id \in Ids => accounts'[inst'[i].id] = i
  <2> SUFFICES ASSUME NEW i \in Instances, inst'[i].id \in Ids PROVE accounts'[inst'[i].id] = i
    OBVIOUS
  <2>1. PICK k \in Ids : accounts'[k] = i
    BY <1>1, NoInstanceIs, NoneIsNot
  <2>2. QED
    BY <1>1, <2>1, NoneIsNot
<1>3. Filed'
  BY <1>1, <1>2, NoneIsNot DEF Filed
<1>4. ASSUME NEW f \in Flows, flow'[f].key \in Ids
      PROVE  /\ inst'[flow'[f].of].id \in {flow'[f].key, Real}
             /\ flow'[f].key \in Pending => accounts'[flow'[f].key] \in {None, flow'[f].of}
             /\ \A k \in Ids : accounts'[k] = flow'[f].of => k \in {flow'[f].key, Real}
             /\ flow'[f].step # "rekeying"
  <2>1. PICK k \in Ids : k = flow'[f].key /\ flow'[f].of = accounts'[k] /\ accounts'[k] \in Instances
                         /\ flow'[f].step = "resume"
    BY <1>1, <1>4, IdleIs, NoneIsNot
  <2>2. QED
    BY <1>1, <2>1, NoneIsNot
<1>5. QED
  BY <1>3, <1>4 DEF Known, Knows

LEMMA KnownByReauthenticate ==
  ASSUME AccountsInv, Known, AccountsInv', NEW i \in Instances, Reauthenticate(i)
  PROVE  Known'
<1>1. ASSUME UNCHANGED <<flow, accounts>>, At(i, inst'[i]), inst'[i].id \in {inst[i].id, Real} PROVE Known'
  <2>1. \A g \in Flows : Follows(g)
    BY <1>1 DEF Follows
  <2>2. \A j \in Instances : inst'[j].id \in {inst[j].id, Real}
    BY <1>1, AtFollows
  <2>3. QED
    BY <1>1, <2>1, <2>2, CalmKnows
<1>2. ASSUME NEW a \in Insts, Settled(i, a), a.id = inst[i].id PROVE Known'
  BY <1>2, SettledFollows, CalmKnows
<1>3. CASE ProbeLive(i)
  BY <1>1, <1>3, ProbeLiveIs
<1>4. CASE ReauthAnswered(i)
  BY <1>1, <1>4, ReauthAnsweredIs
<1>5. CASE ReauthThrows(i) \/ ReauthSaved(i)
  <2>1. PICK a \in Insts : Settled(i, a) /\ a.id = inst[i].id
    BY <1>5, ReauthEndsIs
  <2>2. QED
    BY <1>2, <2>1
<1>6. CASE ProbeFails(i)
  <2> DEFINE Logs(a) == At(i, a) /\ a.id = inst[i].id /\ UNCHANGED <<accounts, flow>>
             Gives(a) == Settled(i, a) /\ a.id = inst[i].id
  <2>1. (\E a \in Insts : Logs(a)) \/ \E a \in Insts : Gives(a)
    BY <1>6, ProbeFailsIs
  <2>2. ASSUME NEW a \in Insts, Logs(a) PROVE Known'
    <3>1. At(i, inst'[i]) /\ inst'[i].id = inst[i].id /\ UNCHANGED <<accounts, flow>>
      BY <2>2 DEF At
    <3>2. QED
      BY <1>1, <3>1
  <2>3. ASSUME NEW a \in Insts, Gives(a) PROVE Known'
    BY <1>2, <2>3
  <2> HIDE DEF Logs, Gives
  <2>4. QED
    BY <2>1, <2>2, <2>3
<1>7. QED
  BY <1>3, <1>4, <1>5, <1>6 DEF Reauthenticate

LEMMA KnownStep ==
  ASSUME AccountsInv, Known, AccountsNext
  PROVE  Known'
<1>0. AccountsInv'
  BY AccountsStep
<1>1. ASSUME NEW f \in Flows, Advance(f) PROVE Known'
  BY <1>0, <1>1, KnownByAdvance, KnownBySaved
<1>2. ASSUME NEW f \in Flows, NEW k \in Ids, Verify(f, k) \/ Remove(f, k) PROVE Known'
  <2>1. /\ \A g \in Flows : g # f => flow'[g] = flow[g]
        /\ UNCHANGED <<inst, accounts>>
        /\ flow'[f].key = k /\ flow'[f].of = accounts[k] /\ accounts[k] \in Instances
        /\ flow'[f].step \in {"code", "logout"}
    BY <1>2, VerifyIs, RemoveIs
  <2>2. QED
    BY <1>0, <2>1, BeginsKnows, NoneIsNot
<1>3. ASSUME NEW f \in Flows, NEW i \in Instances, Call(f, i) PROVE Known'
  BY <1>0, <1>3, MakesCallIs, BeginsKnows
<1>4. ASSUME NEW i \in Instances, ReauthRequired(i) \/ Expire(i) PROVE Known'
  <2>1. UNCHANGED <<flow, accounts>> /\ \A j \in Instances : inst'[j].id = inst[j].id
    <3>1. CASE ReauthRequired(i)
      BY <3>1, ReauthRequiredIs, InstIs, SameId
    <3>2. CASE Expire(i)
      BY <3>2, ExpireIs DEF At
    <3>3. QED
      BY <1>4, <3>1, <3>2
  <2>2. \A g \in Flows : Follows(g)
    BY <2>1 DEF Follows
  <2>3. QED
    BY <1>0, <2>1, <2>2, CalmKnows
<1>5. QED
  BY <1>0, <1>1, <1>2, <1>3, <1>4, KnownByReauthenticate, KnownByAdd, KnownByDaemonRestarts DEF AccountsNext

\* Nothing was removed or dropped while something else was under way for it.
Peace == excuses \cap {"removed", "dropped"} = {}
\* A protected account, of which nothing has cost its trust.
Clear == protected /\ excuses \cap {"removed", "halfway", "unasked"} = {}

\* An id that an instance goes by is one an instance is registered under, or the instance is.
Homes ==
  Peace => \A i \in Instances : inst[i].id \in Ids =>
             accounts[inst[i].id] # None \/ \E l \in Ids : accounts[l] = i

Owned(k) ==
  \/ accounts[k] # None
  \/ k = Real /\ \E l \in Ids : accounts[l] # None /\ inst[accounts[l]].id = Real
  \/ \E f \in Flows : flow[f].key = k /\ flow[f].step = "rekeying"

RowsOwned == Peace => \A k \in Ids : secrets[k] # None => Owned(k)

Unprotected ==
  ~protected =>
    /\ \A i \in Instances : ~inst[i].trust /\ ~inst[i].asks
    /\ \A k \in Ids : secrets[k] # None => ~secrets[k].trust
    /\ \A f \in Flows : flow[f].step # "code"

\* Only who is trusted has a session past its second factor, or the real id.
Trusted ==
  Clear =>
    /\ \A i \in Instances : inst[i].cookie = "auth" \/ inst[i].id = Real => inst[i].trust
    /\ \A k \in Ids : secrets[k] # None /\ (secrets[k].cookie = "auth" \/ k = Real) => secrets[k].trust

RealStored == "removed" \notin excuses => \A i \in Instances : inst[i].id = Real => secrets[Real] # None

PendingStored ==
  \A i \in Instances : inst[i].id \in Pending /\ accounts[inst[i].id] = i /\ inst[i].trust =>
     inst[i].unsaved \/ (secrets[inst[i].id] # None /\ secrets[inst[i].id].trust)

Stored == Homes /\ RowsOwned /\ Unprotected /\ Trusted /\ RealStored /\ PendingStored

LEMMA NoInstanceHas ==
  /\ NoInstance.id \notin Ids /\ NoInstance.cookie = "none" /\ ~NoInstance.trust /\ ~NoInstance.asks
BY NoneIsNot DEF NoInstance

LEMMA ToSecretHas ==
  ASSUME NEW a \in Insts, a.name \in Names
  PROVE  /\ ToSecret(a) # None /\ ToSecret(a).trust = a.trust /\ ToSecret(a).cookie = a.cookie
         /\ ToSecret(a).name = a.name
<1>1. ToSecret(a) \in Rows
  BY DEF ToSecret, Rows, Insts
<1>2. QED
  BY <1>1, NoneIsNot DEF ToSecret

\* The step of one instance, that may be stored by it or be gone after it.
LEMMA TurnKeeps ==
  ASSUME AccountsInv, AccountsInv', Known, Known', Stored, NEW i \in Instances, NEW a \in Insts, At(i, a),
         UNCHANGED <<accounts, protected>>, excuses \subseteq excuses',
         \/ a.id = inst[i].id /\ UNCHANGED secrets
         \/ /\ a.id \in {inst[i].id, Real} /\ a.id \in Ids /\ inst[i].id \in Ids /\ a.name \in Names /\ Persist(a)
         \/ a = NoInstance /\ (\A k \in Ids : accounts[k] # i) /\ UNCHANGED secrets,
         \A g \in Flows : flow[g].step = "rekeying" => flow'[g].key = flow[g].key /\ flow'[g].step = "rekeying",
         ~protected => ~a.trust /\ ~a.asks /\ \A g \in Flows : flow'[g].step # "code",
         Clear' => (a.cookie = "auth" \/ a.id = Real => a.trust),
         a.trust => a.unsaved \/ Persist(a) \/ (inst[i].trust /\ ~inst[i].unsaved)
  PROVE  Stored'
<1>0. AccountsTyped /\ AccountsTyped' /\ accounts' = accounts
  BY DEF AccountsInv
<1>1. (Peace' => Peace) /\ (Clear' => Clear) /\ ("removed" \notin excuses' => "removed" \notin excuses)
  BY DEF Peace, Clear
<1>2. inst'[i] = a /\ \A j \in Instances : j # i => inst'[j] = inst[j]
  BY DEF At
<1>3. Persist(a) /\ a.id \in Ids /\ a.name \in Names =>
        /\ secrets'[a.id] = ToSecret(a) /\ \A k \in Ids : k # a.id => secrets'[k] = secrets[k]
        /\ ToSecret(a) # None /\ ToSecret(a).trust = a.trust /\ ToSecret(a).cookie = a.cookie
  BY <1>0, PersistIs, ToSecretHas
<1>4. Homes'
  <2> SUFFICES ASSUME Peace', NEW j \in Instances, inst'[j].id \in Ids
               PROVE  accounts[inst'[j].id] # None \/ \E l \in Ids : accounts[l] = j
    BY <1>0 DEF Homes
  <2>1. CASE inst'[j].id = inst[j].id
    BY <1>1, <2>1 DEF Stored, Homes
  <2>2. CASE inst'[j].id # inst[j].id
    <3>1. j = i /\ inst[i].id \in Ids
      BY <1>2, <2>2, NoInstanceHas
    <3>2. accounts[inst[i].id] # None \/ \E l \in Ids : accounts[l] = i
      BY <1>1, <3>1 DEF Stored, Homes
    <3>3. inst[i].id \in Pending
      BY <1>2, <2>2, <3>1, NoneIsNot, NoInstanceHas
    <3>4. accounts[inst[i].id] \in {None, i}
      BY <3>3 DEF Known, Filed
    <3>5. QED
      BY <3>1, <3>2, <3>4
  <2>3. QED
    BY <2>1, <2>2
<1>5. RowsOwned'
  <2> SUFFICES ASSUME Peace', NEW k \in Ids, secrets'[k] # None PROVE Owned(k)'
    BY DEF RowsOwned
  <2>1. CASE secrets'[k] = secrets[k]
    <3>1. Owned(k)
      BY <1>1, <2>1 DEF Stored, RowsOwned
    <3>2. CASE accounts[k] # None
      BY <1>0, <3>2 DEF Owned
    <3>3. CASE \E f \in Flows : flow[f].key = k /\ flow[f].step = "rekeying"
      BY <3>3 DEF Owned
    <3>4. CASE k = Real /\ \E l \in Ids : accounts[l] # None /\ inst[accounts[l]].id = Real
      <4>1. PICK l \in Ids : accounts[l] # None /\ inst[accounts[l]].id = Real
        BY <3>4
      <4>2. accounts[l] \in Instances
        BY <1>0, <4>1 DEF AccountsTyped
      <4>3. inst'[accounts[l]].id = Real
        BY <1>2, <4>1, <4>2
      <4>4. QED
        BY <1>0, <3>4, <4>1, <4>3 DEF Owned
    <3>5. QED
      BY <3>1, <3>2, <3>3, <3>4 DEF Owned
  <2>2. CASE secrets'[k] # secrets[k]
    <3>1. k = a.id
      BY <1>3, <2>2
    <3>2. accounts'[k] # None \/ \E l \in Ids : accounts'[l] = i
      BY <1>2, <1>4, <3>1 DEF Homes
    <3>3. CASE \E l \in Ids : accounts'[l] = i
      <4>1. PICK l \in Ids : accounts'[l] = i
        BY <3>3
      <4>2. accounts'[l] # None /\ inst'[i].id \in {l, Real}
        BY <4>1, NoneIsNot DEF Known, Filed
      <4>3. QED
        BY <1>2, <3>1, <4>1, <4>2 DEF Owned
    <3>4. QED
      BY <3>2, <3>3 DEF Owned
  <2>3. QED
    BY <2>1, <2>2
<1>6. Unprotected'
  <2> SUFFICES ASSUME ~protected
               PROVE  /\ \A j \in Instances : ~inst'[j].trust /\ ~inst'[j].asks
                      /\ \A k \in Ids : secrets'[k] # None => ~secrets'[k].trust
                      /\ \A f \in Flows : flow'[f].step # "code"
    BY DEF Unprotected
  <2>1. \A j \in Instances : ~inst'[j].trust /\ ~inst'[j].asks
    BY <1>2 DEF Stored, Unprotected
  <2>2. \A k \in Ids : secrets'[k] # None => ~secrets'[k].trust
    BY <1>3 DEF Stored, Unprotected
  <2>3. QED
    BY <2>1, <2>2
<1>7. Trusted'
  <2> SUFFICES ASSUME Clear'
               PROVE  /\ \A j \in Instances : inst'[j].cookie = "auth" \/ inst'[j].id = Real => inst'[j].trust
                      /\ \A k \in Ids : secrets'[k] # None /\ (secrets'[k].cookie = "auth" \/ k = Real) => secrets'[k].trust
    BY DEF Trusted
  <2>1. \A j \in Instances : inst'[j].cookie = "auth" \/ inst'[j].id = Real => inst'[j].trust
    BY <1>1, <1>2 DEF Stored, Trusted
  <2>2. \A k \in Ids : secrets'[k] # None /\ (secrets'[k].cookie = "auth" \/ k = Real) => secrets'[k].trust
    BY <1>1, <1>3 DEF Stored, Trusted
  <2>3. QED
    BY <2>1, <2>2
<1>8. RealStored'
  <2> SUFFICES ASSUME "removed" \notin excuses', NEW j \in Instances, inst'[j].id = Real PROVE secrets'[Real] # None
    BY DEF RealStored
  <2>1. CASE inst[j].id = Real
    <3>1. secrets[Real] # None
      BY <1>1, <2>1 DEF Stored, RealStored
    <3>2. QED
      BY <1>3, <3>1, NoneIsNot
  <2>2. CASE inst[j].id # Real
    BY <1>2, <1>3, <2>2, NoInstanceHas, NoneIsNot
  <2>3. QED
    BY <2>1, <2>2
<1>9. PendingStored'
  <2> SUFFICES ASSUME NEW j \in Instances, inst'[j].id \in Pending, accounts[inst'[j].id] = j, inst'[j].trust
               PROVE  inst'[j].unsaved \/ (secrets'[inst'[j].id] # None /\ secrets'[inst'[j].id].trust)
    BY <1>0 DEF PendingStored
  <2>0. inst'[j].id \in Ids
    BY NoneIsNot
  <2>1. CASE j # i
    <3>1. inst'[j] = inst[j]
      BY <1>2, <2>1
    <3>2. inst[i].id # inst[j].id
      BY <2>1, <3>1 DEF Known, Filed
    <3>3. a.id # inst[j].id
      BY <3>1, <3>2, NoneIsNot, NoInstanceHas
    <3>4. secrets'[inst[j].id] = secrets[inst[j].id]
      BY <1>3, <2>0, <3>1, <3>3
    <3>5. QED
      BY <3>1, <3>4 DEF Stored, PendingStored
  <2>2. CASE j = i
    <3>1. a.id = inst[i].id /\ a.id \in Pending /\ a.trust /\ accounts[a.id] = i
      BY <1>2, <2>2, NoneIsNot, NoInstanceHas
    <3>2. CASE Persist(a) /\ a.name \in Names
      BY <1>2, <1>3, <2>0, <2>2, <3>1, <3>2
    <3>3. CASE UNCHANGED secrets
      <4>1. a.unsaved \/ Persist(a) \/ (inst[i].trust /\ ~inst[i].unsaved)
        BY <3>1
      <4>2. CASE Persist(a)
        <5>1. Held(i)'
          BY <1>0, <3>1, NoneIsNot DEF Held, Referred
        <5>2. a.name \in Names
          BY <1>2, <5>1 DEF AccountsInv, HeldAreNamed
        <5>3. QED
          BY <3>2, <4>2, <5>2
      <4>3. CASE inst[i].trust /\ ~inst[i].unsaved
        BY <1>2, <2>2, <3>1, <3>3, <4>3 DEF Stored, PendingStored
      <4>4. QED
        BY <1>2, <2>2, <4>1, <4>2, <4>3
    <3>4. QED
      BY <3>2, <3>3
  <2>3. QED
    BY <2>1, <2>2
<1>10. QED
  BY <1>4, <1>5, <1>6, <1>7, <1>8, <1>9 DEF Stored

\* The call f takes its instance off the registry, and its row.
LEMMA RemovalKeeps ==
  ASSUME AccountsInv, AccountsInv', Known, Known', Stored, NEW f \in Flows, NEW i \in Instances, NEW k \in Ids,
         NEW a \in Insts, flow[f].of = i, flow[f].key = k, flow[f].step # "rekeying", Over(f, a, accounts'),
         a.id = inst[i].id, a.reauth = inst[i].reauth, a.asks = inst[i].asks,
         a.trust => inst[i].trust /\ a.unsaved = inst[i].unsaved,
         accounts' = [accounts EXCEPT ![k] = None], secrets' = [secrets EXCEPT ![k] = None],
         UNCHANGED protected, excuses \subseteq excuses',
         \/ k \in Pending /\ (a.trust = inst[i].trust) /\ a.cookie = inst[i].cookie
            /\ ("dropped" \notin excuses' => Alone(f))
         \/ ~a.trust /\ a.cookie = "none" /\ ("removed" \notin excuses' => Alone(f))
  PROVE  Stored'
<1>0. AccountsTyped /\ AccountsTyped' /\ CallsFit
  BY DEF AccountsInv
<1>1. (Peace' => Peace) /\ (Clear' => Clear) /\ ("removed" \notin excuses' => "removed" \notin excuses)
  BY DEF Peace, Clear
<1>2. /\ flow'[f] = Idle /\ \A g \in Flows : g # f => flow'[g] = flow[g]
      /\ \A j \in Instances : j # i => inst'[j] = inst[j]
      /\ inst'[i] = a \/ inst'[i] = NoInstance
      /\ ~(Referred(i, accounts', flow') \/ a.reauth # "none") => inst'[i] = NoInstance
  BY DEF Over
<1>3. /\ accounts'[k] = None /\ secrets'[k] = None
      /\ \A l \in Ids : l # k => accounts'[l] = accounts[l] /\ secrets'[l] = secrets[l]
  BY <1>0 DEF AccountsTyped
<1>4. Peace' => Alone(f)
  BY DEF Peace
<1>5. \A j \in Instances : inst'[j].id \in Ids => inst'[j].id = inst[j].id /\ inst'[j].asks = inst[j].asks
  BY <1>2, NoInstanceHas
<1>a. ASSUME Alone(f)
      PROVE  /\ inst'[i] = NoInstance /\ accounts[k] = i /\ \A l \in Ids : l # k => accounts[l] # i
             /\ \A j \in Instances : inst[j].id = k <=> j = i
  <2>1. /\ FlowsOf(i) = {f} /\ inst[i].reauth = "none" /\ accounts[k] = i
        /\ \A j \in Instances : inst[j].id = k <=> j = i
    BY <1>a DEF Alone
  <2>2. \A l \in Ids : l # k => accounts[l] # i
    BY <2>1, NoneIsNot DEF Known, Filed
  <2>3. \A g \in Flows : g # f => flow[g].of # i
    BY <2>1 DEF FlowsOf
  <2>4. ~Referred(i, accounts', flow')
    BY <1>2, <1>3, <2>2, <2>3, IdleIs, NoneIsNot DEF Referred
  <2>5. QED
    BY <1>2, <2>1, <2>2, <2>4
<1>6. Homes'
  <2> SUFFICES ASSUME Peace', NEW j \in Instances, inst'[j].id \in Ids
               PROVE  accounts'[inst'[j].id] # None \/ \E l \in Ids : accounts'[l] = j
    BY DEF Homes
  <2>1. j # i /\ inst[j].id # k /\ inst'[j] = inst[j]
    BY <1>2, <1>4, <1>a, NoInstanceHas
  <2>2. accounts[inst[j].id] # None \/ \E l \in Ids : accounts[l] = j
    BY <1>1, <2>1 DEF Stored, Homes
  <2>3. CASE accounts[inst[j].id] # None
    BY <1>3, <2>1, <2>3
  <2>4. CASE \E l \in Ids : accounts[l] = j
    BY <1>3, <1>4, <1>a, <2>1, <2>4
  <2>5. QED
    BY <2>2, <2>3, <2>4
<1>7. RowsOwned'
  <2> SUFFICES ASSUME Peace', NEW l \in Ids, secrets'[l] # None PROVE Owned(l)'
    BY DEF RowsOwned
  <2>1. l # k /\ secrets[l] # None
    BY <1>3
  <2>2. Owned(l)
    BY <1>1, <2>1 DEF Stored, RowsOwned
  <2>3. CASE accounts[l] # None
    BY <1>3, <2>1, <2>3 DEF Owned
  <2>4. CASE \E g \in Flows : flow[g].key = l /\ flow[g].step = "rekeying"
    <3>1. PICK g \in Flows : flow[g].key = l /\ flow[g].step = "rekeying"
      BY <2>4
    <3>2. flow'[g] = flow[g]
      BY <1>2, <3>1
    <3>3. QED
      BY <3>1, <3>2 DEF Owned
  <2>5. CASE l = Real /\ \E m \in Ids : accounts[m] # None /\ inst[accounts[m]].id = Real
    <3>1. PICK m \in Ids : accounts[m] # None /\ inst[accounts[m]].id = Real
      BY <2>5
    <3>2. PICK j \in Instances : j = accounts[m]
      BY <1>0, <3>1 DEF AccountsTyped
    <3>3. j # i /\ m # k
      BY <1>4, <1>a, <2>1, <2>5, <3>1, <3>2
    <3>4. accounts'[m] = j /\ inst'[j].id = Real
      BY <1>2, <1>3, <3>1, <3>2, <3>3
    <3>5. QED
      BY <2>5, <3>4, NoneIsNot DEF Owned
  <2>6. QED
    BY <2>2, <2>3, <2>4, <2>5 DEF Owned
<1>8. Unprotected'
  <2> SUFFICES ASSUME ~protected
               PROVE  /\ \A j \in Instances : ~inst'[j].trust /\ ~inst'[j].asks
                      /\ \A l \in Ids : secrets'[l] # None => ~secrets'[l].trust
                      /\ \A g \in Flows : flow'[g].step # "code"
    BY DEF Unprotected
  <2>1. \A j \in Instances : ~inst'[j].trust /\ ~inst'[j].asks
    BY <1>2, NoInstanceHas DEF Stored, Unprotected
  <2>2. \A l \in Ids : secrets'[l] # None => ~secrets'[l].trust
    BY <1>3 DEF Stored, Unprotected
  <2>3. \A g \in Flows : flow'[g].step # "code"
    BY <1>2, IdleIs DEF Stored, Unprotected
  <2>4. QED
    BY <2>1, <2>2, <2>3
<1>9. Trusted'
  <2> SUFFICES ASSUME Clear'
               PROVE  /\ \A j \in Instances : inst'[j].cookie = "auth" \/ inst'[j].id = Real => inst'[j].trust
                      /\ \A l \in Ids : secrets'[l] # None /\ (secrets'[l].cookie = "auth" \/ l = Real) => secrets'[l].trust
    BY DEF Trusted
  <2>1. inst'[i].cookie = "auth" \/ inst'[i].id = Real => inst'[i].trust
    <3>1. CASE "removed" \notin excuses' => Alone(f)
      BY <1>a, <3>1, NoInstanceHas, NoneIsNot DEF Clear
    <3>2. CASE a.trust = inst[i].trust /\ a.cookie = inst[i].cookie
      BY <1>1, <1>2, <3>2, NoInstanceHas, NoneIsNot DEF Stored, Trusted
    <3>3. QED
      BY <3>1, <3>2
  <2>2. \A j \in Instances : inst'[j].cookie = "auth" \/ inst'[j].id = Real => inst'[j].trust
    BY <1>1, <1>2, <2>1 DEF Stored, Trusted
  <2>3. \A l \in Ids : secrets'[l] # None /\ (secrets'[l].cookie = "auth" \/ l = Real) => secrets'[l].trust
    BY <1>1, <1>3 DEF Stored, Trusted
  <2>4. QED
    BY <2>2, <2>3
<1>10. RealStored'
  <2> SUFFICES ASSUME "removed" \notin excuses', NEW j \in Instances, inst'[j].id = Real PROVE secrets'[Real] # None
    BY DEF RealStored
  <2>1. inst[j].id = Real /\ secrets[Real] # None
    BY <1>1, <1>5, NoneIsNot DEF Stored, RealStored
  <2>2. CASE k \in Pending
    BY <1>3, <2>1, <2>2, NoneIsNot
  <2>3. CASE Alone(f)
    BY <1>2, <1>3, <1>a, <2>1, <2>3, NoInstanceHas, NoneIsNot
  <2>4. QED
    BY <2>2, <2>3
<1>11. PendingStored'
  <2> SUFFICES ASSUME NEW j \in Instances, inst'[j].id \in Pending, accounts'[inst'[j].id] = j, inst'[j].trust
               PROVE  inst'[j].unsaved \/ (secrets'[inst'[j].id] # None /\ secrets'[inst'[j].id].trust)
    BY DEF PendingStored
  <2>1. inst'[j].id \in Ids /\ inst'[j].id = inst[j].id /\ inst[j].id # k /\ accounts[inst[j].id] = j
    BY <1>3, <1>5, NoneIsNot
  <2>2. secrets'[inst[j].id] = secrets[inst[j].id]
    BY <1>3, <2>1
  <2>3. inst[j].trust /\ inst'[j].unsaved = inst[j].unsaved
    BY <1>2, NoInstanceHas
  <2>4. QED
    BY <2>1, <2>2, <2>3 DEF Stored, PendingStored
<1>12. QED
  BY <1>6, <1>7, <1>8, <1>9, <1>10, <1>11 DEF Stored

\* The instance moves to its real id, or gives way to the one that is there.
LEMMA MoveKeeps ==
  ASSUME AccountsInv, AccountsInv', Known, Known', Stored, NEW f \in Flows, NEW i \in Instances, NEW k \in Ids,
         flow[f].of = i, flow[f].key = k, flow[f].step = "saving", k # Real, inst[i].id = Real,
         UNCHANGED <<inst, protected, excuses>>, inst[i].name \in Names,
         \A g \in Flows : g # f => flow'[g] = flow[g], flow'[f].key = k, flow'[f].step \in {"announce", "rekeying"},
         \/ /\ accounts[Real] \notin {None, i}
            /\ accounts' = [accounts EXCEPT ![k] = None] /\ secrets' = [secrets EXCEPT ![k] = None]
         \/ /\ accounts[Real] \in {None, i} /\ flow'[f].step = "rekeying"
            /\ accounts' = [[accounts EXCEPT ![k] = None] EXCEPT ![Real] = i] /\ Persist(inst[i])
  PROVE  Stored'
<1>0. AccountsTyped /\ AccountsTyped' /\ inst[i] \in Insts /\ k \in Pending /\ Real \in Ids
  BY NoneIsNot DEF AccountsInv, AccountsTyped
<1>1. /\ accounts'[k] = None /\ accounts'[Real] # None /\ accounts'[Real] \in Instances
      /\ \A l \in Ids : l \notin {k, Real} => accounts'[l] = accounts[l] /\ secrets'[l] = secrets[l]
      /\ accounts[Real] \notin {None, i} => accounts'[Real] = accounts[Real]
      /\ accounts[Real] \in {None, i} => accounts'[Real] = i
  BY <1>0, NoneIsNot, PersistIs DEF AccountsTyped
<1>2. \/ secrets'[k] = None /\ secrets'[Real] = secrets[Real]
      \/ /\ secrets'[k] = secrets[k] /\ secrets'[Real] # None
         /\ secrets'[Real].trust = inst[i].trust /\ flow'[f].step = "rekeying"
  <2>1. CASE secrets' = [secrets EXCEPT ![k] = None]
    BY <1>0, <2>1 DEF AccountsTyped
  <2>2. CASE Persist(inst[i]) /\ flow'[f].step = "rekeying"
    BY <1>0, <2>2, PersistIs, ToSecretHas
  <2>3. QED
    BY <2>1, <2>2
<1>3. accounts[k] \in {None, i} /\ inst[accounts'[Real]].id = Real
  <2>1. accounts[k] \in {None, i}
    BY <1>0 DEF Known, Knows
  <2>2. inst[accounts'[Real]].id = Real
    BY <1>0, <1>1 DEF Known, Filed
  <2>3. QED
    BY <2>1, <2>2
<1>4. Homes'
  <2> SUFFICES ASSUME Peace, NEW j \in Instances, inst[j].id \in Ids
               PROVE  accounts'[inst[j].id] # None \/ \E l \in Ids : accounts'[l] = j
    BY DEF Homes, Peace
  <2>1. CASE inst[j].id = Real
    BY <1>1, <2>1
  <2>2. CASE inst[j].id # Real
    <3>1. accounts[inst[j].id] # None \/ \E l \in Ids : accounts[l] = j
      BY DEF Stored, Homes
    <3>2. accounts[inst[j].id] \in {None, j} /\ j # i
      BY <2>2, NoneIsNot DEF Known, Filed
    <3>3. PICK l \in Ids : accounts[l] = j
      BY <3>1, <3>2
    <3>4. l # k /\ (l = Real => accounts'[l] = j)
      BY <1>1, <1>3, <3>2, <3>3, NoneIsNot
    <3>5. accounts'[l] = j
      BY <1>1, <3>3, <3>4
    <3>6. QED
      BY <3>5
  <2>3. QED
    BY <2>1, <2>2
<1>5. RowsOwned'
  <2> SUFFICES ASSUME Peace, NEW l \in Ids, secrets'[l] # None PROVE Owned(l)'
    BY DEF RowsOwned, Peace
  <2>1. CASE l = Real
    BY <1>1, <2>1 DEF Owned
  <2>2. CASE l = k
    BY <1>2, <2>2 DEF Owned
  <2>3. CASE l \notin {k, Real}
    <3>1. Owned(l)
      BY <1>1, <2>3 DEF Stored, RowsOwned
    <3>2. CASE accounts[l] # None
      BY <1>1, <2>3, <3>2 DEF Owned
    <3>3. CASE \E g \in Flows : flow[g].key = l /\ flow[g].step = "rekeying"
      <4>1. PICK g \in Flows : flow[g].key = l /\ flow[g].step = "rekeying"
        BY <3>3
      <4>2. flow'[g] = flow[g]
        BY <4>1
      <4>3. QED
        BY <4>1, <4>2 DEF Owned
    <3>4. QED
      BY <2>3, <3>1, <3>2, <3>3 DEF Owned
  <2>4. QED
    BY <2>1, <2>2, <2>3
<1>6. Unprotected'
  <2> SUFFICES ASSUME ~protected
               PROVE  /\ \A j \in Instances : ~inst[j].trust /\ ~inst[j].asks
                      /\ \A l \in Ids : secrets'[l] # None => ~secrets'[l].trust
                      /\ \A g \in Flows : flow'[g].step # "code"
    BY DEF Unprotected
  <2>1. \A g \in Flows : flow'[g].step # "code"
    BY DEF Stored, Unprotected
  <2>2. \A l \in Ids : secrets'[l] # None => ~secrets'[l].trust
    BY <1>1, <1>2 DEF Stored, Unprotected
  <2>3. QED
    BY <2>1, <2>2 DEF Stored, Unprotected
<1>7. Trusted'
  <2> SUFFICES ASSUME Clear
               PROVE  /\ \A j \in Instances : inst[j].cookie = "auth" \/ inst[j].id = Real => inst[j].trust
                      /\ \A l \in Ids : secrets'[l] # None /\ (secrets'[l].cookie = "auth" \/ l = Real) => secrets'[l].trust
    BY DEF Trusted, Clear
  <2>1. \A l \in Ids : secrets'[l] # None /\ (secrets'[l].cookie = "auth" \/ l = Real) => secrets'[l].trust
    BY <1>1, <1>2 DEF Stored, Trusted
  <2>2. QED
    BY <2>1 DEF Stored, Trusted
<1>8. RealStored'
  BY <1>2 DEF Stored, RealStored
<1>9. PendingStored'
  <2> SUFFICES ASSUME NEW j \in Instances, inst[j].id \in Pending, accounts'[inst[j].id] = j, inst[j].trust
               PROVE  inst[j].unsaved \/ (secrets'[inst[j].id] # None /\ secrets'[inst[j].id].trust)
    BY DEF PendingStored
  <2>1. inst[j].id \in Ids /\ inst[j].id \notin {k, Real}
    BY <1>1, NoneIsNot
  <2>2. accounts[inst[j].id] = j /\ secrets'[inst[j].id] = secrets[inst[j].id]
    BY <1>1, <2>1
  <2>3. QED
    BY <2>2 DEF Stored, PendingStored
<1>10. QED
  BY <1>4, <1>5, <1>6, <1>7, <1>8, <1>9 DEF Stored

LEMMA RekeyedKeeps ==
  ASSUME AccountsInv, AccountsInv', Known, Stored, NEW f \in Flows, Rekeyed(f)
  PROVE  Stored'
<1>1. PICK k \in Ids : k = flow[f].key
  BY RekeyedIs
<1>2. /\ k \in Pending /\ accounts[k] = None /\ flow[f].step = "rekeying"
      /\ secrets' = [secrets EXCEPT ![k] = None]
      /\ Goes(f, "announce") /\ UNCHANGED <<inst, accounts, protected, excuses>>
  BY <1>1, RekeyedIs DEF Known, Knows
<1>3. /\ AccountsTyped /\ secrets'[k] = None /\ \A l \in Ids : l # k => secrets'[l] = secrets[l]
  BY <1>2 DEF AccountsInv, AccountsTyped
<1>4. flow'[f].step = "announce" /\ \A g \in Flows : g # f => flow'[g] = flow[g]
  BY <1>2, <1>3, GoesIs DEF Steps
<1>5. Homes' /\ RealStored'
  BY <1>2, <1>3, NoneIsNot DEF Stored, Homes, Peace, RealStored
<1>6. RowsOwned'
  <2> SUFFICES ASSUME Peace, NEW l \in Ids, secrets'[l] # None PROVE Owned(l)'
    BY <1>2 DEF RowsOwned, Peace
  <2>1. Owned(l) /\ l # k
    BY <1>3 DEF Stored, RowsOwned
  <2>2. CASE \E g \in Flows : flow[g].key = l /\ flow[g].step = "rekeying"
    <3>1. PICK g \in Flows : flow[g].key = l /\ flow[g].step = "rekeying"
      BY <2>2
    <3>2. flow'[g] = flow[g]
      BY <1>1, <1>4, <2>1, <3>1
    <3>3. QED
      BY <3>1, <3>2 DEF Owned
  <2>3. QED
    BY <1>2, <2>1, <2>2 DEF Owned
<1>7. Unprotected'
  BY <1>2, <1>3, <1>4 DEF Stored, Unprotected
<1>8. Trusted'
  BY <1>2, <1>3 DEF Stored, Trusted, Clear
<1>9. PendingStored'
  <2> SUFFICES ASSUME NEW j \in Instances, inst[j].id \in Pending, accounts[inst[j].id] = j, inst[j].trust
               PROVE  inst[j].unsaved \/ (secrets'[inst[j].id] # None /\ secrets'[inst[j].id].trust)
    BY <1>2 DEF PendingStored
  <2>1. inst[j].id \in Ids /\ inst[j].id # k
    BY <1>2, NoneIsNot
  <2>2. QED
    BY <1>3, <2>1 DEF Stored, PendingStored
<1>10. QED
  BY <1>5, <1>6, <1>7, <1>8, <1>9 DEF Stored

\* A new account, that nothing is stored of.
LEMMA FreshKeeps ==
  ASSUME AccountsInv, AccountsInv', Known, Stored, NEW f \in Flows, NEW i \in Unused, NEW p \in FreshIds,
         i \in Instances, p \in Pending, At(i, inst'[i]), accounts' = [accounts EXCEPT ![p] = i],
         inst'[i].id = p, inst'[i].cookie = "none", ~inst'[i].trust, ~inst'[i].asks, flow[f] = Idle,
         \A g \in Flows : g # f => flow'[g] = flow[g], flow'[f].step # "code",
         UNCHANGED <<secrets, protected, excuses>>
  PROVE  Stored'
<1>0. /\ AccountsTyped /\ p \in Ids /\ accounts[p] = None /\ secrets[p] = None
      /\ \A k \in Ids : accounts[k] # i
  BY NoneIsNot DEF Unused, FreshIds, Registered, AccountsInv
<1>1. /\ accounts'[p] = i /\ \A k \in Ids : k # p => accounts'[k] = accounts[k]
      /\ \A j \in Instances : j # i => inst'[j] = inst[j]
  BY <1>0 DEF AccountsTyped, At
<1>2. Homes'
  <2> SUFFICES ASSUME Peace, NEW j \in Instances, inst'[j].id \in Ids
               PROVE  accounts'[inst'[j].id] # None \/ \E l \in Ids : accounts'[l] = j
    BY DEF Homes, Peace
  <2>1. CASE j = i
    BY <1>0, <1>1, <2>1
  <2>2. CASE j # i
    <3>1. inst'[j] = inst[j] /\ (accounts[inst[j].id] # None \/ \E l \in Ids : accounts[l] = j)
      BY <1>1, <2>2 DEF Stored, Homes
    <3>2. CASE accounts[inst[j].id] # None
      BY <1>0, <1>1, <3>1, <3>2
    <3>3. CASE \E l \in Ids : accounts[l] = j
      BY <1>0, <1>1, <3>3, NoneIsNot
    <3>4. QED
      BY <3>1, <3>2, <3>3
  <2>3. QED
    BY <2>1, <2>2
<1>3. RowsOwned'
  <2> SUFFICES ASSUME Peace, NEW l \in Ids, secrets[l] # None PROVE Owned(l)'
    BY DEF RowsOwned, Peace
  <2>1. Owned(l) /\ l # p
    BY <1>0 DEF Stored, RowsOwned
  <2>2. CASE accounts[l] # None
    BY <1>1, <2>1, <2>2 DEF Owned
  <2>3. CASE \E g \in Flows : flow[g].key = l /\ flow[g].step = "rekeying"
    <3>1. PICK g \in Flows : flow[g].key = l /\ flow[g].step = "rekeying"
      BY <2>3
    <3>2. flow'[g] = flow[g]
      BY <3>1, IdleIs
    <3>3. QED
      BY <3>1, <3>2 DEF Owned
  <2>4. CASE l = Real /\ \E m \in Ids : accounts[m] # None /\ inst[accounts[m]].id = Real
    <3>1. PICK m \in Ids : accounts[m] # None /\ inst[accounts[m]].id = Real
      BY <2>4
    <3>2. PICK j \in Instances : j = accounts[m]
      BY <1>0, <3>1 DEF AccountsTyped
    <3>3. m # p /\ j # i
      BY <1>0, <3>1, <3>2
    <3>4. accounts'[m] = j /\ inst'[j].id = Real
      BY <1>1, <3>1, <3>2, <3>3
    <3>5. QED
      BY <2>4, <3>4, NoneIsNot DEF Owned
  <2>5. QED
    BY <2>1, <2>2, <2>3, <2>4 DEF Owned
<1>4. Unprotected'
  <2>1. \A g \in Flows : ~protected => flow'[g].step # "code"
    BY DEF Stored, Unprotected
  <2>2. \A j \in Instances : ~protected => ~inst'[j].trust /\ ~inst'[j].asks
    BY <1>1 DEF Stored, Unprotected
  <2>3. QED
    BY <2>1, <2>2 DEF Stored, Unprotected
<1>5. Trusted'
  <2>1. Clear => \A j \in Instances : inst'[j].cookie = "auth" \/ inst'[j].id = Real => inst'[j].trust
    BY <1>1, NoneIsNot DEF Stored, Trusted
  <2>2. QED
    BY <2>1 DEF Stored, Trusted, Clear
<1>6. RealStored'
  BY <1>1, NoneIsNot DEF Stored, RealStored
<1>7. PendingStored'
  <2> SUFFICES ASSUME NEW j \in Instances, inst'[j].id \in Pending, accounts'[inst'[j].id] = j, inst'[j].trust
               PROVE  inst'[j].unsaved \/ (secrets[inst'[j].id] # None /\ secrets[inst'[j].id].trust)
    BY DEF PendingStored
  <2>1. j # i /\ inst'[j] = inst[j]
    BY <1>1
  <2>2. accounts[inst[j].id] = j
    BY <1>1, <2>1, NoneIsNot
  <2>3. QED
    BY <2>1, <2>2 DEF Stored, PendingStored
<1>8. QED
  BY <1>2, <1>3, <1>4, <1>5, <1>6, <1>7 DEF Stored

LEMMA RestartKeeps ==
  ASSUME AccountsInv, AccountsInv', Stored, DaemonRestarts
  PROVE  Stored'
<1>1. /\ \A k \in Ids : secrets[k] = None <=> accounts'[k] = None
      /\ \A k \in Ids : accounts'[k] # None =>
           /\ inst'[accounts'[k]].id = k /\ inst'[accounts'[k]].trust = secrets[k].trust
           /\ inst'[accounts'[k]].cookie = (IF VerifiedSince(k) THEN "auth" ELSE secrets[k].cookie)
           /\ ~inst'[accounts'[k]].asks
      /\ \A i \in Instances : inst'[i] = NoInstance \/ \E k \in Ids : accounts'[k] = i
      /\ \A f \in Flows : flow'[f] = Idle \/ flow'[f].step = "resume"
      /\ UNCHANGED <<secrets, protected>>
  BY DaemonRestartsIs
<1>2. \A i \in Instances : \/ inst'[i] = NoInstance
                           \/ \E k \in Ids : /\ accounts'[k] = i /\ inst'[i].id = k /\ secrets[k] # None
                                             /\ inst'[i].trust = secrets[k].trust /\ ~inst'[i].asks
                                             /\ inst'[i].cookie = (IF VerifiedSince(k) THEN "auth" ELSE secrets[k].cookie)
  BY <1>1, NoneIsNot
<1>3. Homes'
  BY <1>2, NoInstanceHas DEF Homes
<1>4. RowsOwned'
  BY <1>1 DEF RowsOwned, Owned
<1>5. Unprotected'
  <2> SUFFICES ASSUME ~protected
               PROVE  /\ \A j \in Instances : ~inst'[j].trust /\ ~inst'[j].asks
                      /\ \A k \in Ids : secrets[k] # None => ~secrets[k].trust
                      /\ \A f \in Flows : flow'[f].step # "code"
    BY <1>1 DEF Unprotected
  <2>1. \A k \in Ids : secrets[k] # None => ~secrets[k].trust
    BY DEF Stored, Unprotected
  <2>2. \A j \in Instances : ~inst'[j].trust /\ ~inst'[j].asks
    BY <1>2, <2>1, NoInstanceHas
  <2>3. \A f \in Flows : flow'[f].step # "code"
    BY <1>1, IdleIs
  <2>4. QED
    BY <2>1, <2>2, <2>3
<1>6. Trusted'
  <2> SUFFICES ASSUME Clear'
               PROVE  /\ \A j \in Instances : inst'[j].cookie = "auth" \/ inst'[j].id = Real => inst'[j].trust
                      /\ \A k \in Ids : secrets[k] # None /\ (secrets[k].cookie = "auth" \/ k = Real) => secrets[k].trust
    BY <1>1 DEF Trusted
  <2>1. Clear /\ ~\E k \in {k \in Ids : secrets[k] /= None} : VerifiedSince(k) /\ ~secrets[k].trust
    <3> DEFINE C == \E k \in {k \in Ids : secrets[k] /= None} : VerifiedSince(k) /\ ~secrets[k].trust
    <3>1. Excused("halfway", C)
      BY DEF DaemonRestarts
    <3> HIDE DEF C
    <3>2. ~C /\ excuses' = excuses
      BY <3>1 DEF Excused, Clear
    <3>3. QED
      BY <1>1, <3>2 DEF Clear, C
  <2>2. \A k \in Ids : secrets[k] # None /\ (secrets[k].cookie = "auth" \/ k = Real) => secrets[k].trust
    BY <2>1 DEF Stored, Trusted
  <2>3. \A j \in Instances : inst'[j].cookie = "auth" \/ inst'[j].id = Real => inst'[j].trust
    BY <1>2, <2>1, <2>2, NoInstanceHas, NoneIsNot
  <2>4. QED
    BY <2>2, <2>3
<1>7. RealStored'
  BY <1>1, <1>2, NoInstanceHas, NoneIsNot DEF RealStored
<1>8. PendingStored'
  BY <1>1, <1>2, NoInstanceHas, NoneIsNot DEF PendingStored
<1>9. QED
  BY <1>3, <1>4, <1>5, <1>6, <1>7, <1>8 DEF Stored

\* A call goes a step on, that is not to or from re-keying.
LEMMA GoesLeaves ==
  ASSUME AccountsInv, NEW f \in Flows, NEW s \in Steps, Goes(f, s), s \notin {"code", "rekeying"}, flow[f].step # "rekeying"
  PROVE  /\ \A g \in Flows : flow[g].step = "rekeying" => flow'[g].key = flow[g].key /\ flow'[g].step = "rekeying"
         /\ \A g \in Flows : flow'[g].step = "code" => flow[g].step = "code"
BY GoesIs DEF AccountsInv

LEMMA StoredByLogin ==
  ASSUME AccountsInv, AccountsInv', Known, Known', Stored, excuses \subseteq excuses', NEW f \in Flows, LoginAnswered(f)
  PROVE  Stored'
<1>1. PICK i \in Instances : i = flow[f].of
  BY LoginAnsweredIs
<1>2. /\ \/ At(i, LoggedIn(inst[i])) /\ Persist(LoggedIn(inst[i]))
         \/ protected /\ At(i, AskedForCode(inst[i])) /\ Persist(AskedForCode(inst[i]))
      /\ flow[f].step = "login" /\ Goes(f, "saving") /\ UNCHANGED <<accounts, protected>>
      /\ inst[i] \in Insts /\ inst[i].id \in Ids /\ inst[i].name \in Names
  BY <1>1, LoginAnsweredIs, InstIs, CallIs
<1>3. PICK a \in {LoggedIn(inst[i]), AskedForCode(inst[i])} :
        At(i, a) /\ Persist(a) /\ Excused("unasked", Unasked(inst[i], a))
  <2>1. PICK b \in LoginAnswers(inst[i]) : Becomes(i, b) /\ Persist(b) /\ Excused("unasked", Unasked(inst[i], b))
    BY <1>1 DEF LoginAnswered
  <2>2. b \in {LoggedIn(inst[i]), AskedForCode(inst[i])} /\ b \in Insts
    BY <1>2, <2>1, LoggedInIs, AskedForCodeIs DEF LoginAnswers
  <2>3. At(i, b)
    BY <2>1, <2>2, BecomesIs DEF At, AccountsInv
  <2>4. QED
    BY <2>1, <2>2, <2>3
<1>4. /\ \A g \in Flows : flow[g].step = "rekeying" => flow'[g].key = flow[g].key /\ flow'[g].step = "rekeying"
      /\ \A g \in Flows : flow'[g].step = "code" => flow[g].step = "code"
  BY <1>2, GoesLeaves DEF Steps
<1>5. ~protected => a = LoggedIn(inst[i])
  <2>1. LoggedIn(inst[i]).cookie = "auth" /\ AskedForCode(inst[i]).cookie = "pre"
    BY <1>2, LoggedInIs, AskedForCodeIs
  <2>2. QED
    BY <1>2, <1>3, <2>1 DEF At
<1>6. CASE a = LoggedIn(inst[i])
  <2>1. /\ a \in Insts /\ a.id = Real /\ a.trust = inst[i].trust /\ ~a.asks /\ a.name = inst[i].name
    BY <1>2, <1>6, LoggedInIs
  <2>2. Clear' => a.trust
    BY <1>2, <1>3, <2>1 DEF Clear, Excused, Unasked
  <2>3. ~protected => ~a.trust /\ ~a.asks /\ \A g \in Flows : flow'[g].step # "code"
    BY <1>4, <2>1 DEF Stored, Unprotected
  <2>4. QED
    BY <1>2, <1>3, <1>4, <2>1, <2>2, <2>3, TurnKeeps, NoneIsNot
<1>7. CASE a = AskedForCode(inst[i])
  <2>1. /\ a \in Insts /\ a.id = inst[i].id /\ a.trust = inst[i].trust /\ a.name = inst[i].name /\ a.cookie = "pre"
    BY <1>2, <1>7, AskedForCodeIs
  <2>2. Clear' => (a.cookie = "auth" \/ a.id = Real => a.trust)
    BY <2>1, <1>2 DEF Clear, Stored, Trusted
  <2>3. protected
    <3>1. LoggedIn(inst[i]).cookie = "auth" /\ AskedForCode(inst[i]).cookie = "pre"
      BY <1>2, LoggedInIs, AskedForCodeIs
    <3>2. QED
      BY <1>5, <1>7, <3>1
  <2>4. QED
    BY <1>2, <1>3, <1>4, <2>1, <2>2, <2>3, TurnKeeps
<1>8. QED
  BY <1>3, <1>6, <1>7

\* An instance is adopted by the account it turned out to be, and stored.
LEMMA AdoptionKeeps ==
  ASSUME AccountsInv, AccountsInv', Known, Known', Stored, excuses \subseteq excuses', NEW i \in Instances, NEW a \in Insts,
         At(i, a), Persist(a), a.id = Real, a.name \in Names, inst[i].id \in Ids, a.trust = inst[i].trust, ~a.asks,
         inst[i].cookie = "auth", UNCHANGED <<accounts, protected>>,
         \A g \in Flows : flow[g].step = "rekeying" => flow'[g].key = flow[g].key /\ flow'[g].step = "rekeying",
         \A g \in Flows : flow'[g].step = "code" => flow[g].step = "code"
  PROVE  Stored'
<1>1. Clear' => a.trust
  BY DEF Clear, Stored, Trusted
<1>2. ~protected => ~a.trust /\ ~a.asks /\ \A g \in Flows : flow'[g].step # "code"
  BY DEF Stored, Unprotected
<1>3. QED
  BY <1>1, <1>2, TurnKeeps, NoneIsNot

\* What is stored stays, and the instance is who it was, or is gone.
LEMMA UnstoredKeeps ==
  ASSUME AccountsInv, AccountsInv', Known, Known', Stored, excuses \subseteq excuses', NEW i \in Instances, NEW a \in Insts,
         At(i, a), UNCHANGED <<accounts, secrets, protected>>,
         \/ /\ a.id = inst[i].id /\ a.cookie = inst[i].cookie /\ a.trust = inst[i].trust /\ a.asks = inst[i].asks
            /\ a.unsaved = inst[i].unsaved
         \/ a = NoInstance /\ \A k \in Ids : accounts[k] # i,
         \A g \in Flows : flow[g].step = "rekeying" => flow'[g].key = flow[g].key /\ flow'[g].step = "rekeying",
         \A g \in Flows : flow'[g].step = "code" => flow[g].step = "code" \/ protected
  PROVE  Stored'
<1>1. Clear' => (a.cookie = "auth" \/ a.id = Real => a.trust)
  BY NoInstanceHas, NoneIsNot DEF Clear, Stored, Trusted
<1>2. ~protected => ~a.trust /\ ~a.asks /\ \A g \in Flows : flow'[g].step # "code"
  BY NoInstanceHas DEF Stored, Unprotected
<1>3. a.trust => a.unsaved \/ (inst[i].trust /\ ~inst[i].unsaved)
  BY NoInstanceHas DEF AccountsInv, AccountsTyped, Insts
<1>4. QED
  BY <1>1, <1>2, <1>3, TurnKeeps

LEMMA StoredBySignIn ==
  ASSUME AccountsInv, AccountsInv', Known, Known', Stored, excuses \subseteq excuses', NEW f \in Flows,
         CodeAccepted(f) \/ ProfileLoaded(f) \/ ResumeLive(f) \/ ResumeFails(f)
  PROVE  Stored'
<1>0. "saving" \in Steps /\ "profile" \in Steps
  BY DEF Steps
<1>1. CASE ProfileLoaded(f) \/ ResumeLive(f)
  <2>1. PICK i \in Instances : i = flow[f].of
    BY <1>1, ProfileLoadedIs, ResumeLiveIs
  <2> DEFINE a == Adopted(inst[i])
  <2>2. /\ At(i, a) /\ Persist(a) /\ inst[i].cookie = "auth" /\ inst[i].id \in Ids /\ inst[i].name \in Names
        /\ Goes(f, "saving") /\ flow[f].step \in {"profile", "resume"} /\ UNCHANGED <<accounts, protected>>
    BY <1>1, <2>1, ProfileLoadedIs, ResumeLiveIs
  <2>3. a \in Insts /\ a.id = Real /\ a.name = inst[i].name /\ a.trust = inst[i].trust /\ ~a.asks
    BY InstIs, AdoptedIs
  <2> HIDE DEF a
  <2>4. QED
    BY <1>0, <2>2, <2>3, GoesLeaves, AdoptionKeeps
<1>2. CASE ResumeFails(f)
  <2>1. PICK i \in Instances : i = flow[f].of
    BY <1>2, ResumeFailsIs
  <2> DEFINE a == [inst[i] EXCEPT !.online = FALSE]
  <2>2. At(i, a) /\ Goes(f, "saving") /\ flow[f].step = "resume" /\ UNCHANGED <<accounts, secrets, protected>>
    BY <1>2, <2>1, ResumeFailsIs
  <2>3. /\ a \in Insts /\ a.id = inst[i].id /\ a.cookie = inst[i].cookie /\ a.trust = inst[i].trust /\ a.asks = inst[i].asks
        /\ a.unsaved = inst[i].unsaved
    BY InstIs, FieldIs
  <2> HIDE DEF a
  <2>4. QED
    BY <1>0, <2>2, <2>3, GoesLeaves, UnstoredKeeps
<1>3. CASE CodeAccepted(f)
  <2>1. PICK i \in Instances : i = flow[f].of
    BY <1>3, CodeAcceptedIs
  <2>2. PICK a \in Insts : a = inst'[i]
    BY <1>3, <2>1, CodeAcceptedIs DEF At
  <2>3. /\ At(i, a) /\ a.id = inst[i].id /\ a.trust /\ a.unsaved /\ flow[f].step = "code"
        /\ Goes(f, "profile") /\ UNCHANGED <<accounts, secrets, protected>>
    BY <1>3, <2>1, <2>2, CodeAcceptedIs
  <2>4. protected
    BY <2>3 DEF Stored, Unprotected
  <2>5. \A g \in Flows : flow[g].step = "rekeying" => flow'[g].key = flow[g].key /\ flow'[g].step = "rekeying"
    BY <1>0, <2>3, GoesLeaves
  <2>6. QED
    BY <2>3, <2>4, <2>5, TurnKeeps
<1>4. QED
  BY <1>1, <1>2, <1>3

LEMMA StoredByReturn ==
  ASSUME AccountsInv, AccountsInv', Known, Known', Stored, excuses \subseteq excuses', NEW f \in Flows,
         NEW i \in Instances, i = flow[f].of, flow[f].step # "rekeying", NEW a \in Insts, Over(f, a, accounts'),
         a.id = inst[i].id, a.cookie = inst[i].cookie, a.trust = inst[i].trust, a.asks = inst[i].asks,
         a.unsaved = inst[i].unsaved, UNCHANGED <<accounts, secrets, protected>>
  PROVE  Stored'
<1>1. /\ flow'[f] = Idle /\ \A g \in Flows : g # f => flow'[g] = flow[g]
      /\ \A j \in Instances : j # i => inst'[j] = inst[j]
      /\ inst'[i] \in {a, NoInstance} /\ (inst'[i] # a => ~Referred(i, accounts, flow'))
  BY DEF Over
<1>2. PICK b \in {a, NoInstance} : b = inst'[i]
  BY <1>1
<1>3. b \in Insts /\ At(i, b) /\ (b = a \/ (b = NoInstance /\ \A k \in Ids : accounts[k] # i))
  BY <1>1, <1>2, NoInstanceIs DEF At, Referred
<1>4. QED
  BY <1>1, <1>3, IdleIs, UnstoredKeeps

LEMMA StoredByCall401 ==
  ASSUME AccountsInv, AccountsInv', Known, Known', Stored, excuses \subseteq excuses', NEW f \in Flows,
         Call401(f), ~Returns(f)
  PROVE  Stored'
<1>1. PICK i \in Instances : i = flow[f].of
  BY Call401Is
<1> DEFINE b == [inst[i] EXCEPT !.reauth = "probing"]
<1>2. /\ UNCHANGED inst \/ At(i, b)
      /\ Goes(f, "waiting") /\ flow[f].step = "sent" /\ UNCHANGED <<accounts, secrets, protected>>
  BY <1>1, Call401Is
<1>3. /\ b \in Insts /\ b.id = inst[i].id /\ b.cookie = inst[i].cookie /\ b.trust = inst[i].trust /\ b.asks = inst[i].asks
      /\ b.unsaved = inst[i].unsaved /\ inst[i] \in Insts
  BY InstIs, FieldIs
<1> HIDE DEF b
<1>4. At(i, b) \/ At(i, inst[i])
  BY <1>2, <1>3 DEF At
<1>5. "waiting" \in Steps
  BY DEF Steps
<1>6. QED
  BY <1>2, <1>3, <1>4, <1>5, GoesLeaves, UnstoredKeeps

LEMMA StoredByRemoval ==
  ASSUME AccountsInv, AccountsInv', Known, Known', Stored, excuses \subseteq excuses', NEW f \in Flows,
         LoginFails(f) \/ LoggedOut(f)
  PROVE  Stored'
<1>1. PICK i \in Instances : i = flow[f].of
  BY LoginFailsIs, LoggedOutIs
<1>2. CASE LoginFails(f)
  <2> DEFINE a == [inst[i] EXCEPT !.online = FALSE]
  <2>1. /\ a \in Insts /\ a.id = inst[i].id /\ a.cookie = inst[i].cookie /\ a.trust = inst[i].trust /\ a.asks = inst[i].asks
        /\ a.unsaved = inst[i].unsaved /\ a.reauth = inst[i].reauth
    BY InstIs, FieldIs DEF SameOwner
  <2>2. Over(f, a, accounts') /\ flow[f].step = "login" /\ UNCHANGED protected
    BY <1>1, <1>2, LoginFailsIs
  <2> HIDE DEF a
  <2>3. CASE flow[f].kind = "again"
    BY <1>1, <1>2, <2>1, <2>2, <2>3, LoginFailsIs, StoredByReturn
  <2>4. CASE flow[f].kind = "add"
    <3>1. PICK k \in Ids : k = flow[f].key /\ k \in Pending
      BY <2>4, NoneIsNot DEF AccountsInv, CallsFit, CallFits
    <3>2. /\ accounts' = [accounts EXCEPT ![k] = None] /\ secrets' = [secrets EXCEPT ![k] = None]
      BY <1>2, <2>4, <3>1, LoginFailsIs
    <3>3. "dropped" \notin excuses' => Alone(f)
      BY <1>2, <2>4 DEF LoginFails, Excused
    <3>4. QED
      BY <1>1, <2>1, <2>2, <3>1, <3>2, <3>3, RemovalKeeps
  <2>5. QED
    BY <1>2, <2>3, <2>4, LoginFailsIs
<1>3. CASE LoggedOut(f)
  <2>1. PICK a \in Insts : /\ Over(f, a, accounts') /\ SameOwner(inst[i], a) /\ a.id = inst[i].id
                           /\ a.cookie = "none" /\ ~a.trust /\ a.asks = inst[i].asks
    BY <1>1, <1>3, LoggedOutIs
  <2>2. PICK k \in Ids : k = flow[f].key
    BY <1>3, LoggedOutIs
  <2>3. /\ accounts' = [accounts EXCEPT ![k] = None] /\ secrets' = [secrets EXCEPT ![k] = None]
        /\ flow[f].step = "logout" /\ UNCHANGED protected
    BY <1>3, <2>2, LoggedOutIs DEF LoggedOut
  <2>4. "removed" \notin excuses' => Alone(f)
    BY <1>3 DEF LoggedOut, Excused
  <2>5. QED
    BY <1>1, <2>1, <2>2, <2>3, <2>4, RemovalKeeps DEF SameOwner
<1>4. QED
  BY <1>2, <1>3

LEMMA StoredBySaved ==
  ASSUME AccountsInv, AccountsInv', Known, Known', Stored, NEW f \in Flows, Saved(f)
  PROVE  Stored'
<1>0. "announce" \in Steps /\ "rekeying" \in Steps
  BY DEF Steps
<1>1. PICK i \in Instances : i = flow[f].of
  BY SavedIs
<1>2. /\ flow[f].step = "saving" /\ inst[i].id \in Ids /\ inst[i].name \in Names /\ inst[i] \in Insts
      /\ UNCHANGED <<inst, protected, excuses>>
  BY <1>1, SavedIs, InstIs
<1>3. CASE ~Moved(f)
  <2>1. Goes(f, "announce") /\ UNCHANGED <<accounts, secrets>>
    BY <1>3, SavedIs
  <2>2. At(i, inst[i])
    BY <1>2 DEF At
  <2>3. QED
    BY <1>0, <1>2, <2>1, <2>2, GoesLeaves, UnstoredKeeps
<1>4. CASE Moved(f)
  <2>1. PICK k \in Ids : k = flow[f].key
    BY <1>4, SavedIs
  <2>2. k # inst[i].id /\ inst[i].id \in {k, Real}
    <3>1. k # inst[i].id
      BY <1>1, <1>4, <2>1, SavedIs
    <3>2. QED
      BY <1>1, <2>1, <3>1 DEF Known, Knows
  <2>3. inst[i].id = Real /\ k # Real
    BY <2>2
  <2>4. \/ /\ accounts[Real] \notin {None, i} /\ Goes(f, "announce")
           /\ accounts' = [accounts EXCEPT ![k] = None] /\ secrets' = [secrets EXCEPT ![k] = None]
        \/ /\ accounts[Real] \in {None, i} /\ Goes(f, "rekeying")
           /\ accounts' = [[accounts EXCEPT ![k] = None] EXCEPT ![Real] = i] /\ Persist(inst[i])
    BY <1>1, <1>4, <2>1, <2>3, SavedIs
  <2>5. /\ \A g \in Flows : g # f => flow'[g] = flow[g]
        /\ flow'[f].key = k /\ flow'[f].step \in {"announce", "rekeying"}
        /\ Goes(f, "rekeying") => flow'[f].step = "rekeying"
    BY <1>0, <2>1, <2>4, GoesIs DEF AccountsInv
  <2>6. QED
    BY <1>1, <1>2, <2>1, <2>3, <2>4, <2>5, MoveKeeps
<1>5. QED
  BY <1>3, <1>4

LEMMA StoredByReauth ==
  ASSUME AccountsInv, AccountsInv', Known, Known', Stored, excuses \subseteq excuses', NEW i \in Instances, Reauthenticate(i)
  PROVE  Stored'
<1>1. ASSUME NEW a \in Insts, Settled(i, a), a.id = inst[i].id, a.cookie = inst[i].cookie, a.trust = inst[i].trust,
             a.asks = inst[i].asks, a.unsaved = inst[i].unsaved, UNCHANGED protected
      PROVE  Stored'
  <2> DEFINE b == [a EXCEPT !.reauth = "none"]
  <2>1. /\ b \in Insts /\ b.id = inst[i].id /\ b.cookie = inst[i].cookie /\ b.trust = inst[i].trust
        /\ b.asks = inst[i].asks /\ b.unsaved = inst[i].unsaved
    BY <1>1, FieldIs
  <2>2. /\ Referred(i, accounts, flow') => inst'[i] = b
        /\ ~Referred(i, accounts, flow') => inst'[i] = NoInstance
        /\ \A j \in Instances : j # i => inst'[j] = inst[j]
        /\ \A g \in Flows : \/ flow'[g] = flow[g]
                            \/ flow[g].step = "waiting" /\ flow'[g] = Idle
                            \/ flow[g].step = "waiting" /\ flow'[g].step = "sent"
        /\ UNCHANGED <<accounts, secrets>>
    BY <1>1 DEF Settled
  <2> HIDE DEF b
  <2>3. PICK c \in {b, NoInstance} : /\ c = inst'[i] /\ At(i, c) /\ c \in Insts
                                     /\ c = b \/ (c = NoInstance /\ \A k \in Ids : accounts[k] # i)
    BY <2>1, <2>2, NoInstanceIs DEF At, Referred
  <2>4. /\ \A g \in Flows : flow[g].step = "rekeying" => flow'[g].key = flow[g].key /\ flow'[g].step = "rekeying"
        /\ \A g \in Flows : flow'[g].step = "code" => flow[g].step = "code"
    BY <2>2, IdleIs
  <2>5. QED
    BY <1>1, <2>1, <2>2, <2>3, <2>4, UnstoredKeeps
<1>2. CASE ProbeLive(i)
  <2>1. PICK a \in Insts : a = inst'[i] /\ At(i, a)
    BY <1>2, ProbeLiveIs DEF At
  <2>2. /\ Persist(a) /\ a.id = Real /\ a.name \in Names /\ inst[i].id \in Ids /\ a.trust = inst[i].trust /\ ~a.asks
        /\ inst[i].cookie = "auth" /\ UNCHANGED <<accounts, flow, protected>>
    BY <1>2, <2>1, ProbeLiveIs
  <2>3. QED
    BY <2>1, <2>2, AdoptionKeeps
<1>3. CASE ReauthAnswered(i)
  <2>1. PICK a \in Insts : a = inst'[i] /\ At(i, a)
    BY <1>3, ReauthAnsweredIs DEF At
  <2>2. /\ Persist(a) /\ a.name = inst[i].name /\ a.name \in Names /\ inst[i].id \in Ids /\ a.trust = inst[i].trust
        /\ \/ a.id = Real /\ ~a.asks
           \/ protected /\ a.id = inst[i].id /\ a.cookie = "pre" /\ a.asks
        /\ UNCHANGED <<accounts, flow, protected>>
    BY <1>3, <2>1, ReauthAnsweredIs
  <2>3. Clear' => a.trust \/ a.asks
    <3>1. PICK b \in LoginAnswers(inst[i]) :
            /\ a = (IF b.asks THEN [b EXCEPT !.reauth = "asked"] ELSE [b EXCEPT !.reauth = "saved", !.cost = b.cost + 1])
            /\ Excused("unasked", Unasked(inst[i], b))
      <4>1. PICK b \in LoginAnswers(inst[i]) :
              /\ Becomes(i, IF b.asks THEN [b EXCEPT !.reauth = "asked"]
                            ELSE [b EXCEPT !.reauth = "saved", !.cost = b.cost + 1])
              /\ Excused("unasked", Unasked(inst[i], b))
        BY <1>3 DEF ReauthAnswered
      <4>2. QED
        BY <2>1, <4>1 DEF Becomes, AccountsInv, AccountsTyped
    <3>2. b \in Insts
      BY <3>1, InstIs, LoggedInIs, AskedForCodeIs DEF LoginAnswers
    <3>3. a.asks = b.asks
      BY <3>1, <3>2 DEF Insts
    <3>4. QED
      BY <2>2, <3>1, <3>3 DEF Clear, Excused, Unasked
  <2>4. Clear' => (a.cookie = "auth" \/ a.id = Real => a.trust)
    BY <2>2, <2>3 DEF Clear, Stored, Trusted
  <2>5. ~protected => ~a.trust /\ ~a.asks /\ \A g \in Flows : flow'[g].step # "code"
    BY <2>2 DEF Stored, Unprotected
  <2>6. QED
    BY <2>1, <2>2, <2>4, <2>5, TurnKeeps, NoneIsNot
<1>4. CASE ReauthThrows(i) \/ ReauthSaved(i)
  <2>1. PICK a \in Insts : /\ Settled(i, a) /\ a.id = inst[i].id /\ a.cookie = inst[i].cookie /\ a.trust = inst[i].trust
                           /\ a.asks = inst[i].asks /\ a.unsaved = inst[i].unsaved
    BY <1>4, ReauthEndsIs
  <2>2. QED
    BY <1>1, <1>4, <2>1, ReauthEndsIs
<1>5. CASE ProbeFails(i)
  <2> DEFINE Frame(a) == /\ a.id = inst[i].id /\ a.cookie = inst[i].cookie /\ a.trust = inst[i].trust
                         /\ a.asks = inst[i].asks /\ a.unsaved = inst[i].unsaved
  <2>1. UNCHANGED protected
    BY <1>5, ProbeFailsIs
  <2>2. \/ \E a \in Insts : At(i, a) /\ UNCHANGED <<accounts, secrets, flow>> /\ Frame(a)
        \/ \E a \in Insts : Settled(i, a) /\ Frame(a)
    BY <1>5, ProbeFailsIs
  <2>3. ASSUME NEW a \in Insts, At(i, a), UNCHANGED <<accounts, secrets, flow>>, Frame(a) PROVE Stored'
    BY <2>1, <2>3, UnstoredKeeps
  <2>4. ASSUME NEW a \in Insts, Settled(i, a), Frame(a) PROVE Stored'
    BY <1>1, <2>1, <2>4
  <2> HIDE DEF Frame
  <2>5. QED
    BY <2>2, <2>3, <2>4
<1>6. QED
  BY <1>2, <1>3, <1>4, <1>5 DEF Reauthenticate

LEMMA StoredByAdd ==
  ASSUME AccountsInv, AccountsInv', Known, Known', Stored, NEW f \in Flows, NEW name \in Names, Add(f, name)
  PROVE  Stored'
<1> DEFINE Again(i) ==
             /\ At(i, [inst[i] EXCEPT !.online = FALSE]) /\ UNCHANGED accounts /\ i \in Instances
             /\ flow'[f].step = "login"
           Fresh(i, p) ==
             /\ i \in Instances /\ p \in Pending
             /\ At(i, inst'[i]) /\ accounts' = [accounts EXCEPT ![p] = i] /\ inst'[i].id = p
             /\ inst'[i].cookie = "none" /\ ~inst'[i].trust /\ ~inst'[i].asks
             /\ flow'[f].step = "login"
<1>1. /\ flow[f] = Idle /\ \A g \in Flows : g # f => flow'[g] = flow[g]
      /\ UNCHANGED <<secrets, protected, excuses>>
      /\ (\E i \in Registered : Again(i)) \/ \E i \in Unused, p \in FreshIds : Fresh(i, p)
  BY AddIs
<1>2. ASSUME NEW i \in Registered, Again(i) PROVE Stored'
  <2> DEFINE a == [inst[i] EXCEPT !.online = FALSE]
  <2>1. i \in Instances /\ At(i, a) /\ UNCHANGED accounts /\ flow'[f].step = "login"
    BY <1>2
  <2>2. /\ a \in Insts /\ a.id = inst[i].id /\ a.cookie = inst[i].cookie /\ a.trust = inst[i].trust
        /\ a.asks = inst[i].asks /\ a.unsaved = inst[i].unsaved
    BY <2>1, InstIs, FieldIs
  <2> HIDE DEF a
  <2>3. QED
    BY <1>1, <2>1, <2>2, IdleIs, UnstoredKeeps
<1>3. ASSUME NEW i \in Unused, NEW p \in FreshIds, Fresh(i, p) PROVE Stored'
  BY <1>1, <1>3, FreshKeeps
<1> HIDE DEF Again, Fresh
<1>4. QED
  BY <1>1, <1>2, <1>3

LEMMA StoredStep ==
  ASSUME AccountsInv, Known, Stored, AccountsNext
  PROVE  Stored'
<1>0. AccountsInv' /\ Known' /\ excuses \subseteq excuses'
  BY AccountsStep, KnownStep, ExcusesGrow
<1>1. ASSUME NEW f \in Flows, Advance(f) PROVE Stored'
  <2>1. ASSUME Returns(f) PROVE Stored'
    <3>1. PICK i \in Instances : i = flow[f].of
      BY <2>1 DEF Returns
    <3>2. /\ Over(f, inst[i], accounts') /\ inst[i] \in Insts /\ UNCHANGED <<accounts, secrets, protected>>
      BY <2>1, <3>1, InstIs DEF Returns
    <3>3. CASE flow[f].step # "rekeying"
      BY <1>0, <3>1, <3>2, <3>3, StoredByReturn
    <3>4. CASE flow[f].step = "rekeying"
      BY <1>1, <3>4, RekeyedKeeps, <1>0 DEF Advance, LoginAnswered, LoginFails, CodeAccepted, CodeRefused, ProfileLoaded,
         ProfileFails, ResumeLive, ResumeFails, Saved, Announce, LoggedOut, CallOk, Call401
    <3>5. QED
      BY <3>3, <3>4
  <2>2. QED
    BY <1>0, <1>1, <2>1, StoredByLogin, StoredByRemoval, StoredBySignIn, StoredBySaved, RekeyedKeeps, StoredByCall401,
       CodeRefusedIs, ProfileFailsIs, AnnounceIs, CallOkIs DEF Advance
<1>2. ASSUME NEW f \in Flows, NEW i \in Instances, flow[f] = Idle, \A g \in Flows : g # f => flow'[g] = flow[g],
             flow'[f].step = "code" => protected, UNCHANGED <<inst, accounts, secrets, protected>>
      PROVE  Stored'
  <2>1. At(i, inst[i]) /\ inst[i] \in Insts
    BY <1>2, InstIs DEF At
  <2>2. QED
    BY <1>0, <1>2, <2>1, IdleIs, UnstoredKeeps
<1>3. ASSUME NEW f \in Flows, NEW k \in Ids, Verify(f, k) PROVE Stored'
  BY <1>2, <1>3, VerifyIs DEF Stored, Unprotected
<1>4. ASSUME NEW f \in Flows, NEW k \in Ids, Remove(f, k) PROVE Stored'
  BY <1>2, <1>4, RemoveIs
<1>5. ASSUME NEW f \in Flows, NEW i \in Instances, Call(f, i) PROVE Stored'
  BY <1>2, <1>5, MakesCallIs
<1>6. ASSUME NEW i \in Instances, ReauthRequired(i) PROVE Stored'
  <2> DEFINE a == [inst[i] EXCEPT !.reauth = "probing"]
  <2>1. At(i, a) /\ UNCHANGED <<accounts, secrets, flow, protected>>
    BY <1>6, ReauthRequiredIs
  <2>2. /\ a \in Insts /\ a.id = inst[i].id /\ a.cookie = inst[i].cookie /\ a.trust = inst[i].trust
        /\ a.asks = inst[i].asks /\ a.unsaved = inst[i].unsaved
    BY InstIs, FieldIs
  <2> HIDE DEF a
  <2>3. QED
    BY <1>0, <2>1, <2>2, UnstoredKeeps
<1>7. ASSUME NEW i \in Instances, Expire(i) PROVE Stored'
  <2>1. PICK a \in Insts : a = inst'[i] /\ At(i, a)
    BY <1>7, ExpireIs DEF At
  <2>2. /\ a.id = inst[i].id /\ a.cookie = inst[i].cookie /\ a.trust = inst[i].trust
        /\ a.asks = inst[i].asks /\ a.unsaved = inst[i].unsaved
        /\ UNCHANGED <<accounts, secrets, flow, protected>>
    BY <1>7, <2>1, ExpireIs
  <2>3. QED
    BY <1>0, <2>1, <2>2, UnstoredKeeps
<1>8. QED
  BY <1>0, <1>1, <1>3, <1>4, <1>5, <1>6, <1>7, StoredByReauth, StoredByAdd, RestartKeeps DEF AccountsNext

LEMMA StoredStart == AccountsInit => Known /\ Stored
<1> SUFFICES ASSUME AccountsInit PROVE Known /\ Stored
  OBVIOUS
<1>1. /\ \A i \in Instances : inst[i] = NoInstance
      /\ \A k \in Ids : accounts[k] = None /\ secrets[k] = None
      /\ \A f \in Flows : flow[f] = Idle
  BY DEF AccountsInit
<1>2. Known
  BY <1>1, NoInstanceHas, IdleIs, NoneIsNot DEF Known, Filed, Knows
<1>3. Stored
  BY <1>1, NoInstanceHas, IdleIs, NoneIsNot DEF Stored, Homes, RowsOwned, Unprotected, Trusted, RealStored, PendingStored
<1>4. QED
  BY <1>2, <1>3

(* Where the instances are filed, what every call under way knows of them, *)
(* and what is stored of them, however sign-ins, removals, refused         *)
(* requests and restarts interleave.                                       *)
THEOREM StoredInvariant == AccountsSpec => [](Known /\ Stored)
<1>1. AccountsInv /\ Known /\ Stored /\ [AccountsNext]_accountsVars => (Known /\ Stored)'
  <2> SUFFICES ASSUME AccountsInv, Known, Stored, [AccountsNext]_accountsVars PROVE (Known /\ Stored)'
    OBVIOUS
  <2>1. CASE AccountsNext
    BY <2>1, KnownStep, StoredStep
  <2>2. CASE UNCHANGED accountsVars
    BY <2>2 DEF accountsVars, Known, Filed, Knows, Stored, Homes, RowsOwned, Owned, Unprotected, Trusted, RealStored,
       PendingStored, Peace, Clear
  <2>3. QED
    BY <2>1, <2>2
<1>2. QED
  BY <1>1, StoredStart, AccountsInvariant, PTL DEF AccountsSpec

(* What remove() and a failed add() take away stays away, and a re-keying  *)
(* leaves no row behind (manager.ts:108-143, 195), unless that removal     *)
(* crossed something else that was under way for the account; for any      *)
(* number of calls at once, of any names, whatever fails.                  *)
THEOREM NoRowOrphaned == AccountsSpec => []NoOrphanRow
<1>1. ASSUME AccountsInv, Known, Stored PROVE NoOrphanRow
  <2> SUFFICES ASSUME NEW k \in Ids, secrets[k] # None, Peace PROVE AccountedFor(k)
    BY DEF NoOrphanRow, Peace
  <2>1. Owned(k)
    BY <1>1 DEF Stored, RowsOwned
  <2>2. CASE k = Real /\ \E l \in Ids : accounts[l] # None /\ inst[accounts[l]].id = Real
    <3>1. PICK l \in Ids : accounts[l] # None /\ inst[accounts[l]].id = Real
      BY <2>2
    <3>2. accounts[l] \in Registered
      BY <3>1 DEF Registered
    <3>3. QED
      BY <2>2, <3>1, <3>2 DEF AccountedFor
  <2>3. QED
    BY <2>1, <2>2 DEF Owned, AccountedFor
<1>2. QED
  BY <1>1, AccountsInvariant, StoredInvariant, PTL

(* The device trust a code bought is on disk, through every re-keying,     *)
(* second sign-in, re-authentication and restart (auth.ts:189-191,         *)
(* manager.ts:210-216), but for what is named: the time between the        *)
(* accepted code and the next #persist, a removal or a restart in the      *)
(* middle, and a login that asked for no code.                             *)
THEOREM TrustKept == AccountsSpec => []TrustSurvives
<1>1. ASSUME AccountsInv, Known, Stored, AccountsTypeOK PROVE TrustSurvives
  <2> SUFFICES ASSUME NEW i \in Registered, inst[i].trust, ~inst[i].unsaved,
                      excuses \cap {"removed", "halfway", "unasked"} = {}
               PROVE  secrets[inst[i].id] # None /\ secrets[inst[i].id].trust
    BY <1>1 DEF TrustSurvives
  <2>1. PICK k \in Ids : accounts[k] = i /\ i # None
    BY DEF Registered
  <2>2. i \in Instances /\ inst[i].id \in {k, Real}
    BY <1>1, <2>1 DEF AccountsInv, AccountsTyped, Known, Filed
  <2>3. protected
    BY <1>1, <2>2 DEF Stored, Unprotected
  <2>4. Clear
    BY <2>3 DEF Clear
  <2>5. CASE inst[i].id = Real
    BY <1>1, <2>2, <2>4, <2>5, NoneIsNot DEF Stored, RealStored, Trusted
  <2>6. CASE inst[i].id # Real
    BY <1>1, <2>1, <2>2, <2>6, NoneIsNot DEF Stored, PendingStored
  <2>7. QED
    BY <2>5, <2>6
<1>2. QED
  BY <1>1, AccountsInvariant, StoredInvariant, AccountsTyping, PTL

-----------------------------------------------------------------------------
(***************************************************************************)
(* The safety of PipelineClient, for every bound on the generations and    *)
(* with or without idle detection.                                         *)
(*                                                                         *)
(* The invariants that the runs check are inductive only together: that    *)
(* OneLiveSocket survives a token that arrives needs NoStall (no socket is *)
(* there yet), which needs NoDoubleConnect (the call is current only while *)
(* connecting), which needs TypeOK (no call has a generation to come).     *)
(***************************************************************************)

(* The inductive invariant.                                                *)
IInv ==
    /\ TypeOK
    /\ OneLiveSocket
    /\ NoStall
    /\ QuietWhenDown
    /\ NoDoubleConnect

(* No socket is held open when the client holds none.                      *)
LEMMA NoSocketNoneLive ==
    ASSUME TypeOK, OneLiveSocket, socket = NoSocket
    PROVE  live = {} /\ silent = {}
  BY DEF TypeOK, OneLiveSocket, NoSocket

(* Dropping the socket leaves no socket live, and a generation that no     *)
(* call of #connect has captured.                                          *)
LEMMA DropSocketEffect ==
    ASSUME TypeOK, OneLiveSocket, DropSocket
    PROVE  /\ live' = {} /\ silent' = {}
           /\ generation' \in Nat /\ generation' = generation + 1
           /\ generation' \notin pending
           /\ pending \subseteq 0..generation'
           /\ socket' = NoSocket /\ openedAt' = "none"
           /\ idleTimer' = FALSE /\ heartbeat' = FALSE
  BY DEF TypeOK, OneLiveSocket, DropSocket, NoSocket

(* A retry, from whatever state and with whatever calls in flight, leaves  *)
(* the invariant true.                                                     *)
LEMMA ScheduleReconnectKeepsIInv ==
    ASSUME IInv, ScheduleReconnect, pending' \subseteq pending
    PROVE  IInv'
  <1>0. /\ live' = {} /\ silent' = {}
        /\ generation' \in Nat
        /\ generation' \notin pending
        /\ pending \subseteq 0..generation'
        /\ socket' = NoSocket /\ openedAt' = "none"
        /\ idleTimer' = FALSE /\ heartbeat' = FALSE
    BY DropSocketEffect DEF IInv, ScheduleReconnect
  <1>1. TypeOK'
    <2>1. TimersOK'
      BY <1>0, Zenon DEF ScheduleReconnect, TimersOK
    <2> QED BY <1>0, <2>1 DEF IInv, ScheduleReconnect, TypeOK, States, Ages
  <1>2. OneLiveSocket'
    BY <1>0 DEF IInv, ScheduleReconnect, OneLiveSocket, NoSocket
  <1>3. NoStall' /\ QuietWhenDown'
    BY <1>0 DEF IInv, ScheduleReconnect, NoStall, QuietWhenDown
  <1>4. NoDoubleConnect'
    BY <1>0 DEF IInv, ScheduleReconnect, NoDoubleConnect
  <1> QED BY <1>1, <1>2, <1>3, <1>4 DEF IInv

(* So does stopping for a new session.                                     *)
LEMMA HandleReauthKeepsIInv ==
    ASSUME IInv, HandleReauth, pending' \subseteq pending
    PROVE  IInv'
  <1>0. /\ live' = {} /\ silent' = {}
        /\ generation' \in Nat
        /\ generation' \notin pending
        /\ pending \subseteq 0..generation'
        /\ socket' = NoSocket /\ openedAt' = "none"
        /\ idleTimer' = FALSE /\ heartbeat' = FALSE
    BY DropSocketEffect DEF IInv, HandleReauth
  <1>1. TypeOK'
    <2>1. TimersOK'
      BY <1>0, Zenon DEF HandleReauth, TimersOK
    <2> QED BY <1>0, <2>1 DEF IInv, HandleReauth, TypeOK, States, Ages
  <1>2. OneLiveSocket'
    BY <1>0 DEF IInv, HandleReauth, OneLiveSocket, NoSocket
  <1>3. NoStall' /\ QuietWhenDown'
    BY <1>0 DEF IInv, HandleReauth, NoStall, QuietWhenDown
  <1>4. NoDoubleConnect'
    BY <1>0 DEF IInv, HandleReauth, NoDoubleConnect
  <1> QED BY <1>1, <1>2, <1>3, <1>4 DEF IInv

-----------------------------------------------------------------------------
LEMMA InitEstablishesIInv == Init => IInv
  <1> SUFFICES ASSUME Init PROVE IInv
    OBVIOUS
  <1>1. TimersOK
    BY Zenon DEF Init, TimersOK
  <1>2. TypeOK
    BY <1>1 DEF Init, TypeOK, NoSocket, States, Ages
  <1>3. OneLiveSocket /\ NoStall /\ QuietWhenDown /\ NoDoubleConnect
    BY DEF Init, OneLiveSocket, NoStall, QuietWhenDown, NoDoubleConnect
  <1> QED BY <1>2, <1>3 DEF IInv

(* Every step of the client keeps the invariant.                           *)
LEMMA NextKeepsIInv == IInv /\ [Next]_vars => IInv'
  <1> SUFFICES ASSUME IInv, [Next]_vars PROVE IInv'
    OBVIOUS
  <1> USE IdleDetectionIsBoolean
  <1>0. TypeOK /\ OneLiveSocket /\ NoStall /\ QuietWhenDown /\ NoDoubleConnect
    BY DEF IInv
  <1>1. CASE Start
    <2>1. TypeOK'
      <3>1. TimersOK'
        BY <1>0, <1>1, Zenon DEF Start, BeginConnect, IsTerminal, TypeOK, TimersOK
      <3>2. /\ pending' \subseteq pending \cup {generation}
            /\ state' \in {state, "connecting"}
        BY <1>1 DEF Start, BeginConnect, IsTerminal
      <3>3. pending' \subseteq 0..generation
        BY <1>0, <3>2 DEF TypeOK
      <3> QED
        BY <1>0, <1>1, <3>1, <3>2, <3>3 DEF Start, TypeOK, States
    <2>2. OneLiveSocket'
      BY <1>0, <1>1 DEF Start, BeginConnect, IsTerminal, TypeOK, OneLiveSocket, NoSocket
    <2>3. NoStall'
      BY <1>0, <1>1 DEF Start, BeginConnect, IsTerminal, TypeOK, NoStall, QuietWhenDown, NoDoubleConnect, NoSocket
    <2>4. QuietWhenDown'
      BY <1>0, <1>1 DEF Start, BeginConnect, IsTerminal, NoStall, QuietWhenDown
    <2>5. NoDoubleConnect'
      BY <1>0, <1>1 DEF Start, BeginConnect, IsTerminal, TypeOK, NoStall, QuietWhenDown, NoDoubleConnect
    <2> QED BY <2>1, <2>2, <2>3, <2>4, <2>5 DEF IInv
  <1>2. CASE Restart
    <2>1. TypeOK'
      <3>1. TimersOK'
        BY <1>0, <1>2, Zenon DEF Restart, DropSocket, TypeOK, TimersOK
      <3>2. /\ live' = {} /\ silent' = {}
            /\ generation' \in Nat /\ generation' = generation + 1
            /\ pending \subseteq 0..generation'
            /\ socket' = NoSocket /\ openedAt' = "none"
        BY <1>0, <1>2, DropSocketEffect DEF Restart
      <3>3. pending' \subseteq 0..generation'
        BY <1>0, <1>2, <3>2 DEF Restart, BeginConnect, TypeOK
      <3> QED
        BY <1>2, <3>1, <3>2, <3>3 DEF Restart, BeginConnect, TypeOK, States, Ages
    <2>2. OneLiveSocket'
      BY <1>0, <1>2, DropSocketEffect DEF Restart, BeginConnect, TypeOK, OneLiveSocket, NoSocket
    <2>3. NoStall'
      BY <1>0, <1>2, DropSocketEffect DEF Restart, BeginConnect, TypeOK, NoStall, QuietWhenDown, NoDoubleConnect, NoSocket
    <2>4. QuietWhenDown'
      BY <1>0, <1>2, DropSocketEffect DEF Restart, BeginConnect, NoStall, QuietWhenDown
    <2>5. NoDoubleConnect'
      BY <1>0, <1>2, DropSocketEffect DEF Restart, BeginConnect, TypeOK, NoStall, QuietWhenDown, NoDoubleConnect
    <2> QED BY <2>1, <2>2, <2>3, <2>4, <2>5 DEF IInv
  <1>3. CASE Dispose
    <2>1. TypeOK'
      <3>1. TimersOK'
        BY <1>0, <1>3, DropSocketEffect, Zenon DEF Dispose, TypeOK, TimersOK
      <3> QED
        BY <1>0, <1>3, DropSocketEffect, <3>1 DEF Dispose, TypeOK, States, Ages, NoSocket
    <2>2. OneLiveSocket'
      BY <1>0, <1>3, DropSocketEffect DEF Dispose, TypeOK, OneLiveSocket, NoSocket
    <2>3. NoStall'
      BY <1>0, <1>3, DropSocketEffect DEF Dispose, TypeOK, NoStall, QuietWhenDown, NoDoubleConnect, NoSocket
    <2>4. QuietWhenDown'
      BY <1>0, <1>3, DropSocketEffect DEF Dispose, NoStall, QuietWhenDown
    <2>5. NoDoubleConnect'
      BY <1>0, <1>3, DropSocketEffect DEF Dispose, TypeOK, NoStall, QuietWhenDown, NoDoubleConnect
    <2> QED BY <2>1, <2>2, <2>3, <2>4, <2>5 DEF IInv
  <1>4. ASSUME NEW gen \in pending, TokenIgnored(gen) PROVE IInv'
    <2>1. TimersOK'
      BY <1>0, <1>4, Zenon DEF TokenIgnored, TypeOK, TimersOK
    <2>2. TypeOK' /\ OneLiveSocket' /\ QuietWhenDown'
      BY <1>0, <1>4, <2>1
         DEF TokenIgnored, TypeOK, OneLiveSocket, QuietWhenDown
    <2>3. NoStall' /\ NoDoubleConnect'
      BY <1>0, <1>4 DEF TokenIgnored, IsTerminal, NoStall, NoDoubleConnect
    <2> QED BY <2>2, <2>3 DEF IInv
  <1>5. ASSUME NEW gen \in pending, TokenOpensSocket(gen) PROVE IInv'
    <2>1. state = "connecting" /\ socket = NoSocket /\ openedAt = "none"
      BY <1>0, <1>5 DEF TokenOpensSocket, NoStall, NoDoubleConnect
    <2>2. live = {} /\ silent = {}
      BY <1>0, <2>1, NoSocketNoneLive
    <2>3. TypeOK'
      <3>1. TimersOK'
        BY <1>0, <1>5, Zenon DEF TokenOpensSocket, TypeOK, TimersOK
      <3>2. gen \in 0..generation /\ gen \in Nat
        BY <1>0 DEF TypeOK
      <3> QED BY <1>0, <1>5, <2>2, <3>1, <3>2 DEF TokenOpensSocket, TypeOK
    <2>4. OneLiveSocket'
      BY <1>5, <2>2 DEF TokenOpensSocket, OneLiveSocket
    <2>5. NoStall' /\ QuietWhenDown' /\ NoDoubleConnect'
      BY <1>0, <1>5, <2>1
         DEF TokenOpensSocket, TypeOK, NoStall, QuietWhenDown,
             NoDoubleConnect, NoSocket
    <2> QED BY <2>3, <2>4, <2>5 DEF IInv
  <1>6. ASSUME NEW gen \in pending, SocketConstructionFails(gen) PROVE IInv'
    BY <1>6, ScheduleReconnectKeepsIInv DEF SocketConstructionFails
  <1>7. ASSUME NEW gen \in pending, TokenEmpty(gen) PROVE IInv'
    BY <1>7, HandleReauthKeepsIInv DEF TokenEmpty
  <1>8. ASSUME NEW gen \in pending, TokenRejected(gen) PROVE IInv'
    <2>1. CASE IsTerminal
      <3>1. TimersOK'
        BY <1>0, <1>8, <2>1, Zenon DEF TokenRejected, TypeOK, TimersOK
      <3>2. TypeOK' /\ OneLiveSocket' /\ QuietWhenDown'
        BY <1>0, <1>8, <2>1, <3>1
           DEF TokenRejected, TypeOK, OneLiveSocket, QuietWhenDown
      <3>3. NoStall' /\ NoDoubleConnect'
        BY <1>0, <1>8, <2>1
           DEF TokenRejected, IsTerminal, NoStall, NoDoubleConnect
      <3> QED BY <3>2, <3>3 DEF IInv
    <2>2. CASE ~IsTerminal
      BY <1>8, <2>2, ScheduleReconnectKeepsIInv DEF TokenRejected
    <2> QED BY <2>1, <2>2
  <1>9. CASE SocketOpens
    <2>1. TypeOK'
      <3>1. TimersOK'
        BY <1>0, <1>9, Zenon DEF SocketOpens, TypeOK, TimersOK
      <3> QED
        BY <1>0, <1>9, <3>1 DEF SocketOpens, TypeOK, States, Ages, NoSocket
    <2>2. OneLiveSocket'
      BY <1>0, <1>9 DEF SocketOpens, TypeOK, OneLiveSocket, NoSocket
    <2>3. NoStall'
      BY <1>0, <1>9 DEF SocketOpens, TypeOK, NoStall, QuietWhenDown, NoDoubleConnect, NoSocket
    <2>4. QuietWhenDown'
      BY <1>0, <1>9 DEF SocketOpens, NoStall, QuietWhenDown
    <2>5. NoDoubleConnect'
      BY <1>0, <1>9 DEF SocketOpens, TypeOK, NoStall, QuietWhenDown, NoDoubleConnect
    <2> QED BY <2>1, <2>2, <2>3, <2>4, <2>5 DEF IInv
  <1>10. CASE ReauthFrame
    BY <1>10, HandleReauthKeepsIInv DEF ReauthFrame
  <1>11. CASE SocketCloses
    <2>1. ~IsTerminal
      BY <1>0, <1>11 DEF SocketCloses, IsTerminal, QuietWhenDown
    <2> QED BY <1>11, <2>1, ScheduleReconnectKeepsIInv DEF SocketCloses
  <1>12. CASE PeerGoesSilent
    <2>1. TypeOK'
      <3>1. TimersOK'
        BY <1>0, <1>12, Zenon DEF PeerGoesSilent, TypeOK, TimersOK
      <3> QED
        BY <1>0, <1>12, <3>1 DEF PeerGoesSilent, TypeOK, States, Ages, NoSocket
    <2>2. OneLiveSocket'
      BY <1>0, <1>12 DEF PeerGoesSilent, TypeOK, OneLiveSocket, NoSocket
    <2>3. NoStall'
      BY <1>0, <1>12 DEF PeerGoesSilent, TypeOK, NoStall, QuietWhenDown, NoDoubleConnect, NoSocket
    <2>4. QuietWhenDown'
      BY <1>0, <1>12 DEF PeerGoesSilent, NoStall, QuietWhenDown
    <2>5. NoDoubleConnect'
      BY <1>0, <1>12 DEF PeerGoesSilent, TypeOK, NoStall, QuietWhenDown, NoDoubleConnect
    <2> QED BY <2>1, <2>2, <2>3, <2>4, <2>5 DEF IInv
  <1>13. CASE ReconnectTimerFires
    <2>1. TypeOK'
      <3>1. TimersOK'
        BY <1>0, <1>13, Zenon DEF ReconnectTimerFires, BeginConnect, IsTerminal, TypeOK, TimersOK
      <3>2. /\ pending' \subseteq pending \cup {generation}
            /\ state' \in {state, "connecting"}
        BY <1>13 DEF ReconnectTimerFires, BeginConnect, IsTerminal
      <3>3. pending' \subseteq 0..generation
        BY <1>0, <3>2 DEF TypeOK
      <3> QED
        BY <1>0, <1>13, <3>1, <3>2, <3>3 DEF ReconnectTimerFires, TypeOK, States
    <2>2. OneLiveSocket'
      BY <1>0, <1>13 DEF ReconnectTimerFires, BeginConnect, IsTerminal, TypeOK, OneLiveSocket, NoSocket
    <2>3. NoStall'
      BY <1>0, <1>13 DEF ReconnectTimerFires, BeginConnect, IsTerminal, TypeOK, NoStall, QuietWhenDown, NoDoubleConnect, NoSocket
    <2>4. QuietWhenDown'
      BY <1>0, <1>13 DEF ReconnectTimerFires, BeginConnect, IsTerminal, NoStall, QuietWhenDown
    <2>5. NoDoubleConnect'
      BY <1>0, <1>13 DEF ReconnectTimerFires, BeginConnect, IsTerminal, TypeOK, NoStall, QuietWhenDown, NoDoubleConnect
    <2> QED BY <2>1, <2>2, <2>3, <2>4, <2>5 DEF IInv
  <1>14. CASE IdleTimerFires
    BY <1>14, ScheduleReconnectKeepsIInv DEF IdleTimerFires
  <1>15. CASE ConnectionGetsStable
    <2>1. TypeOK'
      <3>1. TimersOK'
        BY <1>0, <1>15, Zenon DEF ConnectionGetsStable, TypeOK, TimersOK
      <3> QED
        BY <1>0, <1>15, <3>1 DEF ConnectionGetsStable, TypeOK, States, Ages, NoSocket
    <2>2. OneLiveSocket'
      BY <1>0, <1>15 DEF ConnectionGetsStable, TypeOK, OneLiveSocket, NoSocket
    <2>3. NoStall'
      BY <1>0, <1>15 DEF ConnectionGetsStable, TypeOK, NoStall, QuietWhenDown, NoDoubleConnect, NoSocket
    <2>4. QuietWhenDown'
      BY <1>0, <1>15 DEF ConnectionGetsStable, NoStall, QuietWhenDown
    <2>5. NoDoubleConnect'
      BY <1>0, <1>15 DEF ConnectionGetsStable, TypeOK, NoStall, QuietWhenDown, NoDoubleConnect
    <2> QED BY <2>1, <2>2, <2>3, <2>4, <2>5 DEF IInv
  <1>16. CASE UNCHANGED vars
    <2>1. TimersOK'
      BY <1>0, <1>16, Zenon DEF vars, TypeOK, TimersOK
    <2> QED
      BY <1>0, <1>16, <2>1
         DEF IInv, vars, TypeOK, OneLiveSocket, NoStall, QuietWhenDown,
             NoDoubleConnect
  <1> QED
    BY <1>1, <1>2, <1>3, <1>4, <1>5, <1>6, <1>7, <1>8, <1>9, <1>10, <1>11,
       <1>12, <1>13, <1>14, <1>15, <1>16
       DEF Next, TokenSettles

(* The inductive invariant holds in every reachable state of the client.   *)
THEOREM ClientInvariant == Spec => []IInv
  BY InitEstablishesIInv, NextKeepsIInv, PTL DEF Spec

(* Every variable of the client keeps its type.                            *)
THEOREM ClientTypeOK == Spec => []TypeOK
  <1>1. IInv => TypeOK
    BY DEF IInv
  <1> QED BY <1>1, ClientInvariant, PTL

(* The daemon holds at most one pipeline session per account, and its      *)
(* callbacks are those of the current generation.                          *)
THEOREM AtMostOneSocket == Spec => []OneLiveSocket
  <1>1. IInv => OneLiveSocket
    BY DEF IInv
  <1> QED BY <1>1, ClientInvariant, PTL

(* The client is never in a state that nothing is going to end.            *)
THEOREM NeverStalls == Spec => []NoStall
  <1>1. IInv => NoStall
    BY DEF IInv
  <1> QED BY <1>1, ClientInvariant, PTL

(* Two calls of #connect never compete for one generation.                 *)
THEOREM OneConnectPerGeneration == Spec => []NoDoubleConnect
  <1>1. IInv => NoDoubleConnect
    BY DEF IInv
  <1> QED BY <1>1, ClientInvariant, PTL

(* Nothing that settles or fires after dispose() moves the client: in a    *)
(* closed state there is no socket and no timer left to cause a step, and a*)
(* call of #connect that returns finds the state terminal.                 *)
THEOREM DisposedIsDisposed == Spec => ClosedForever
  <1> DEFINE Still ==
        UNCHANGED <<state, attempt, generation, socket, reconnectTimer,
                    idleTimer, heartbeat, live>>
  <1>1. IInv /\ [Next]_vars => [state = "closed" => Still]_vars
    <2> SUFFICES ASSUME IInv, Next, state = "closed" PROVE Still
      BY DEF vars
    <2>1. /\ socket = NoSocket /\ openedAt = "none"
          /\ ~idleTimer /\ ~heartbeat /\ ~reconnectTimer
          /\ live = {}
      BY NoSocketNoneLive DEF IInv, QuietWhenDown, NoStall
    <2>2. IsTerminal
      BY DEF IsTerminal
    <2>3. CASE TokenSettles
      BY <2>2, <2>3
         DEF TokenSettles, TokenIgnored, TokenOpensSocket,
             SocketConstructionFails, TokenEmpty, TokenRejected
    <2>4. CASE Start \/ Restart \/ Dispose
      BY <2>4 DEF Start, Restart, Dispose
    <2>5. CASE SocketOpens \/ ReauthFrame \/ SocketCloses \/ PeerGoesSilent
      BY <2>1, <2>5 DEF SocketOpens, ReauthFrame, SocketCloses, PeerGoesSilent
    <2>6. CASE ReconnectTimerFires \/ IdleTimerFires \/ ConnectionGetsStable
      BY <2>1, <2>6
         DEF ReconnectTimerFires, IdleTimerFires, ConnectionGetsStable
    <2> QED BY <2>3, <2>4, <2>5, <2>6 DEF Next
  <1> QED BY <1>1, ClientInvariant, PTL DEF Spec, ClosedForever

(* A streak is cleared by nothing but a connection that lasted or a call   *)
(* of start() or restart(): a socket that only opens, a close, a rejected  *)
(* token or the end of a backoff leave it as it is or make it longer.      *)
THEOREM StreakIsKept == Spec => FlappingKeepsTheStreak
  <1> DEFINE Kept == attempt' < attempt => openedAt = "stable" \/ Start \/ Restart
  <1>1. IInv /\ [Next]_vars => [Kept]_vars
    <2> SUFFICES ASSUME IInv, Next PROVE Kept
      BY DEF vars
    <2>1. attempt \in Nat
      BY DEF IInv, TypeOK
    <2>2. CASE TokenSettles
      BY <2>1, <2>2
         DEF TokenSettles, TokenIgnored, TokenOpensSocket,
             SocketConstructionFails, TokenEmpty, TokenRejected,
             ScheduleReconnect, HandleReauth
    <2>3. CASE Start \/ Restart
      BY <2>3
    <2>4. CASE Dispose \/ SocketOpens \/ ReauthFrame \/ PeerGoesSilent
      BY <2>1, <2>4
         DEF Dispose, SocketOpens, ReauthFrame, PeerGoesSilent, HandleReauth
    <2>5. CASE SocketCloses \/ ReconnectTimerFires \/ IdleTimerFires
               \/ ConnectionGetsStable
      BY <2>1, <2>5
         DEF SocketCloses, ReconnectTimerFires, IdleTimerFires,
             ConnectionGetsStable, ScheduleReconnect
    <2> QED BY <2>2, <2>3, <2>4, <2>5 DEF Next
  <1> QED BY <1>1, ClientInvariant, PTL DEF Spec, FlappingKeepsTheStreak

-----------------------------------------------------------------------------
(***************************************************************************)
(* The client as app.ts wires it to an account.  The wiring adds causes of *)
(* the client's steps (a removed account, a login, a session refused on    *)
(* the socket), and takes none of its guards away: the invariant of the    *)
(* client alone is also that of the client in the daemon.  It is not a     *)
(* refinement of Spec, whose bound on the faults the wiring does not share:*)
(* the two steps that stop the client are not counted there.               *)
(***************************************************************************)

(* connectPipeline() is start(), once, or nothing.                         *)
LEMMA ConnectPipelineKeepsIInv ==
    ASSUME IInv, ConnectPipeline
    PROVE  IInv'
  <1>1. [Next]_vars
    BY DEF ConnectPipeline, Next, vars
  <1> QED BY <1>1, NextKeepsIInv

(* Every step of the daemon keeps the invariant of its client.             *)
LEMMA AppNextKeepsIInv == IInv /\ [AppNext]_allVars => IInv'
  <1> SUFFICES ASSUME IInv, [AppNext]_allVars PROVE IInv'
    OBVIOUS
  <1>1. CASE TokenSettlesInApp
    <2>1. PICK gen \in pending :
            \/ ClientOpensSocket(gen) \/ ClientCannotOpen(gen)
            \/ ClientHasNoSession(gen) \/ ClientIgnoresToken(gen)
      BY <1>1 DEF TokenSettlesInApp
    <2>2. CASE ClientOpensSocket(gen) \/ ClientCannotOpen(gen)
               \/ ClientIgnoresToken(gen)
      <3>1. TokenSettles
        BY <2>2 DEF ClientOpensSocket, ClientCannotOpen, ClientIgnoresToken,
                    TokenSettles
      <3> QED BY <3>1, NextKeepsIInv DEF Next
    <2>3. CASE ClientHasNoSession(gen)
      BY <2>3, HandleReauthKeepsIInv DEF ClientHasNoSession
    <2> QED BY <2>1, <2>2, <2>3
  <1>2. CASE ServerRefusesToken
    BY <1>2, HandleReauthKeepsIInv DEF ServerRefusesToken
  <1>3. CASE ClientAlone
    <2>1. Next
      BY <1>3 DEF ClientAlone, Next
    <2> QED BY <2>1, NextKeepsIInv
  <1>4. CASE AccountReady
    BY <1>4, ConnectPipelineKeepsIInv DEF AccountReady
  <1>5. CASE ConnectAtStartup
    <2>1. ConnectPipeline \/ UNCHANGED vars
      BY <1>5 DEF ConnectAtStartup
    <2> QED BY <2>1, ConnectPipelineKeepsIInv, NextKeepsIInv
  <1>6. CASE SessionExpires \/ RestCallUnauthorized \/ ReauthSucceeds
             \/ ReauthFails \/ RemoveAccount
    <2>1. UNCHANGED vars
      BY <1>6 DEF SessionExpires, RestCallUnauthorized, ReauthSucceeds,
                  ReauthFails, RemoveAccount
    <2> QED BY <2>1, NextKeepsIInv
  <1>7. CASE UNCHANGED allVars
    <2>1. UNCHANGED vars
      BY <1>7 DEF allVars
    <2> QED BY <2>1, NextKeepsIInv
  <1> QED BY <1>1, <1>2, <1>3, <1>4, <1>5, <1>6, <1>7 DEF AppNext

(* In the daemon, whatever becomes of the account in the meantime, its     *)
(* pipeline holds at most one socket and never waits for what cannot come. *)
THEOREM WiredClientInvariant == AppSpec => [](OneLiveSocket /\ NoStall)
  <1>1. AppInit => IInv
    BY InitEstablishesIInv DEF AppInit
  <1>2. IInv => OneLiveSocket /\ NoStall
    BY DEF IInv
  <1> QED BY <1>1, <1>2, AppNextKeepsIInv, PTL DEF AppSpec
===============================================================================
