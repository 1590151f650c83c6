------------------------------ MODULE Accounts ------------------------------
(***************************************************************************)
(* Signing in, re-authenticating, removing and restarting accounts:        *)
(* accounts/account.ts (class Account), accounts/manager.ts (class         *)
(* AccountManager) and the flow of accounts/auth.ts they share.            *)
(*                                                                         *)
(* Everything here is a chain of awaits on one thread: a call of the       *)
(* manager (a flow), or the re-authentication of one instance, of which    *)
(* there is one at a time and which any number of requests wait for.  What *)
(* runs between two awaits is one step.  Between the steps of one chain    *)
(* come those of the others, on the same instance, the same registry and   *)
(* the same store.                                                         *)
(*                                                                         *)
(* Simplifications:                                                        *)
(*  - one VRChat account, with several names that can sign in to it: other *)
(*    accounts share no state with it but the rate limiter;                *)
(*  - the store is its memory (#data); SecretsStore is about its file;     *)
(*  - GET /auth and GET /auth/user of one probe are one await;             *)
(*  - events other than account.ready, refresh() and names of users are    *)
(*    left out, and goOffline(), which only precedes the end of the        *)
(*    process.                                                             *)
(***************************************************************************)
EXTENDS Naturals

CONSTANTS
    Names,           \* usernames and e-mail addresses of the account
    Real,            \* its usr_... id
    Pending,         \* ids given out by nextPendingId
    Instances,       \* objects of class Account
    Flows,           \* calls of the manager, or requests, under way at a time
    None,
    MaxCrashes       \* bound: restarts of the daemon

Ids == {Real} \cup Pending

(* The auth cookie of an instance's jar, before or after the second factor,*)
(* and whether the session it names is alive; trust is twoFactorAuth, and  *)
(* unsaved (history) says that it came with a code after which nothing has *)
(* been stored yet.                                                        *)
Cookies == {"none", "pre", "auth"}

Rows == [name : Names, password : BOOLEAN, cookie : Cookies, trust : BOOLEAN]

ASSUME AccountsAssumption ==
    /\ Real \notin Pending
    /\ None \notin Ids \cup Instances \cup Names \cup Rows
    /\ MaxCrashes \in Nat

VARIABLES
    inst,            \* the instances
    accounts,        \* #accounts: the instance registered under each id
    secrets,         \* #data.accounts: the row stored under each id
    flow,            \* the flows
    protected,       \* VRChat asks for a code at some of its logins
    crashes,         \* restarts so far
    excuses          \* history: what happened that the code has no answer to

accountsVars == <<inst, accounts, secrets, flow, protected, crashes, excuses>>

(* removed, dropped: the account was removed, or dropped as its first      *)
(*   sign-in failed, while something else was under way for it;            *)
(* halfway: the process ended between an accepted code and the moment when *)
(*   the row of the session that it was for had been replaced or removed;  *)
(* unasked: a protected account was signed in to without a code.           *)
Excuses == {"removed", "dropped", "halfway", "unasked"}

NoInstance ==
    [id |-> None, name |-> None, password |-> FALSE, cookie |-> "none",
     alive |-> FALSE, trust |-> FALSE, unsaved |-> FALSE, online |-> FALSE,
     asks |-> FALSE, reauth |-> "none", cost |-> 0]

Idle == [kind |-> "idle", of |-> None, key |-> None, step |-> "done",
         valid |-> FALSE, retried |-> FALSE]

AccountsInit ==
    /\ inst = [i \in Instances |-> NoInstance]
    /\ accounts = [k \in Ids |-> None]
    /\ secrets = [k \in Ids |-> None]
    /\ flow = [f \in Flows |-> Idle]
    /\ protected \in BOOLEAN
    /\ crashes = 0
    /\ excuses = {}

-----------------------------------------------------------------------------
Registered == {accounts[k] : k \in Ids} \ {None}
FlowsOf(i) == {f \in Flows : flow[f].of = i}
Busy(i) == FlowsOf(i) /= {} \/ inst[i].reauth /= "none"
(* The call f is about the account filed and stored under its own id, and  *)
(* nothing else is.                                                        *)
Alone(f) ==
    LET i == flow[f].of IN
    /\ FlowsOf(i) = {f} /\ inst[i].reauth = "none"
    /\ accounts[flow[f].key] = i
    /\ \A j \in Instances : inst[j].id = flow[f].key <=> j = i

Excused(e, condition) ==
    excuses' = IF condition THEN excuses \cup {e} ELSE excuses

Unused == {i \in Instances : i \notin Registered /\ ~Busy(i)}
FreshIds == {p \in Pending : /\ accounts[p] = None /\ secrets[p] = None
                             /\ \A f \in Flows : flow[f].key /= p
                             /\ \A i \in Instances : inst[i].id /= p}

ToSecret(a) == [name |-> a.name, password |-> a.password,
                cookie |-> a.cookie, trust |-> a.trust]

(* #persist: put under the id the instance has by then.                    *)
Persist(a) == secrets' = [secrets EXCEPT ![a.id] = ToSecret(a)]

Becomes(i, a) == inst' = [inst EXCEPT ![i] = a]
Begins(f, i, kind, key, step) ==
    flow' = [flow EXCEPT ![f] = [Idle EXCEPT !.kind = kind, !.of = i,
                                             !.key = key, !.step = step]]
Goes(f, step) == flow' = [flow EXCEPT ![f].step = step]

(* The call returns; an instance that nobody refers to any more is gone.   *)
Referred(i, at, fl) == \/ \E k \in Ids : at[k] = i
                       \/ \E f \in Flows : fl[f].of = i
Ends(f, a, at) ==
    LET i == flow[f].of
        fl == [flow EXCEPT ![f] = Idle]
    IN
    /\ flow' = fl
    /\ inst' = [inst EXCEPT ![i] = IF Referred(i, at, fl) \/ a.reauth /= "none"
                                   THEN a ELSE NoInstance]

(* #adoptUser: the instance takes the real id.                             *)
Adopted(a) == [a EXCEPT !.id = Real, !.asks = FALSE, !.online = TRUE,
                        !.unsaved = FALSE]

(* A password login mints a session, whether or not a code is asked for.   *)
LoggedIn(a) == [Adopted(a) EXCEPT !.cookie = "auth", !.alive = TRUE,
                                  !.password = TRUE]
AskedForCode(a) == [a EXCEPT !.asks = TRUE, !.online = FALSE,
                             !.cookie = "pre", !.alive = FALSE,
                             !.password = TRUE, !.unsaved = FALSE,
                             !.cost = 0]

(* What VRChat answers to a password login.  It is sent no cookies, and so *)
(* no device trust either (net/request.ts:147-157).                        *)
LoginAnswers(a) ==
    {LoggedIn(a)} \cup (IF protected THEN {AskedForCode(a)} ELSE {})
Unasked(a, answer) == protected /\ ~a.trust /\ ~answer.asks

-----------------------------------------------------------------------------
(* AccountManager.add                                                      *)

(* resolve: an instance of that name is used again; a new one is           *)
(* registered under a pending id before its first await.                   *)
Add(f, name) ==
    LET known == {i \in Registered : inst[i].name = name} IN
    /\ flow[f] = Idle
    /\ \/ \E i \in known :
            /\ Begins(f, i, "again", None, "login")
            /\ Becomes(i, [inst[i] EXCEPT !.online = FALSE])
            /\ UNCHANGED accounts
       \/ /\ known = {} /\ Unused /= {} /\ FreshIds /= {}
          /\ LET i == CHOOSE i \in Unused : TRUE
                 p == CHOOSE p \in FreshIds : TRUE
             IN  /\ Begins(f, i, "add", p, "login")
                 /\ Becomes(i, [NoInstance EXCEPT !.id = p, !.name = name,
                                                  !.online = FALSE])
                 /\ accounts' = [accounts EXCEPT ![p] = i]
    /\ UNCHANGED <<secrets, protected, crashes, excuses>>

(* Account.login: the answer, and what it stores.                          *)
LoginAnswered(f) ==
    LET i == flow[f].of IN
    /\ flow[f].step = "login"
    /\ \E a \in LoginAnswers(inst[i]) :
            /\ Becomes(i, a)
            /\ Persist(a)
            /\ Excused("unasked", Unasked(inst[i], a))
    /\ Goes(f, "saving")
    /\ UNCHANGED <<accounts, protected, crashes>>

(* A refused or failed login; a new account is then dropped again.         *)
LoginFails(f) ==
    LET i == flow[f].of IN
    /\ flow[f].step = "login"
    /\ IF flow[f].kind = "add"
       THEN /\ accounts' = [accounts EXCEPT ![flow[f].key] = None]
            /\ secrets' = [secrets EXCEPT ![flow[f].key] = None]
            /\ Excused("dropped", ~Alone(f))
       ELSE UNCHANGED <<accounts, secrets, excuses>>
    /\ Ends(f, [inst[i] EXCEPT !.online = FALSE], accounts')
    /\ UNCHANGED <<protected, crashes>>

-----------------------------------------------------------------------------
(* AccountManager.verifyTwoFactor, by the id the account had when asked.   *)

Verify(f, k) ==
    LET i == accounts[k] IN
    /\ flow[f] = Idle
    /\ i /= None /\ inst[i].asks
    /\ Begins(f, i, "verify", k, "code")
    /\ UNCHANGED <<inst, accounts, secrets, protected, crashes, excuses>>

(* The POST: the code was right, and the trust is in the jar with nothing   *)
(* adopted or stored.  The session it was checked against may no longer be *)
(* the one in the jar, where another login has put its own.                *)
CodeAccepted(f) ==
    LET i == flow[f].of
        a == [inst[i] EXCEPT !.trust = TRUE, !.unsaved = TRUE]
    IN
    /\ flow[f].step = "code"
    /\ inst[i].cookie = "pre" \/ inst[i].alive
    /\ \/ Becomes(i, [a EXCEPT !.cookie = "auth", !.alive = TRUE])
       \/ Becomes(i, a)
    /\ Goes(f, "profile")
    /\ UNCHANGED <<accounts, secrets, protected, crashes, excuses>>

(* The code was wrong, or the request failed.                              *)
CodeRefused(f) ==
    /\ flow[f].step = "code"
    /\ Ends(f, inst[flow[f].of], accounts)
    /\ UNCHANGED <<accounts, secrets, protected, crashes, excuses>>

(* The GET /auth/user after the POST.                                      *)
ProfileLoaded(f) ==
    LET i == flow[f].of
        a == Adopted(inst[i])
    IN
    /\ flow[f].step = "profile"
    /\ inst[i].cookie = "auth" /\ inst[i].alive
    /\ Becomes(i, a)
    /\ Persist(a)
    /\ Goes(f, "saving")
    /\ UNCHANGED <<accounts, protected, crashes, excuses>>

(* It failed: the account goes on asking for a code, and its trust is in   *)
(* memory only.                                                            *)
ProfileFails(f) ==
    /\ flow[f].step = "profile"
    /\ Ends(f, inst[flow[f].of], accounts)
    /\ UNCHANGED <<accounts, secrets, protected, crashes, excuses>>

-----------------------------------------------------------------------------
(* AccountManager.loadAll, resume                                          *)

ResumeLive(f) ==
    LET i == flow[f].of
        a == Adopted(inst[i])
    IN
    /\ flow[f].step = "resume"
    /\ inst[i].cookie = "auth" /\ inst[i].alive
    /\ Becomes(i, a)
    /\ Persist(a)
    /\ Goes(f, "saving")
    /\ UNCHANGED <<accounts, protected, crashes, excuses>>

(* A session that is over, an answer that is not 2xx, or no answer.        *)
ResumeFails(f) ==
    LET i == flow[f].of IN
    /\ flow[f].step = "resume"
    /\ Becomes(i, [inst[i] EXCEPT !.online = FALSE])
    /\ Goes(f, "saving")
    /\ UNCHANGED <<accounts, secrets, protected, crashes, excuses>>

-----------------------------------------------------------------------------
(* #rekeyIfNeeded and #announceReady                                       *)

Moved(f) == /\ flow[f].kind /= "again"
            /\ inst[flow[f].of].id /= flow[f].key

(* Mutant: the row is moved with secrets.rename, as it is.                 *)
SavedByRename(f) ==
    LET i == flow[f].of
        a == inst[i]
        key == flow[f].key
        others == [accounts EXCEPT ![key] = None]
    IN
    /\ flow[f].step = "saving"
    /\ \/ /\ ~Moved(f)
          /\ Goes(f, "announce")
          /\ UNCHANGED <<accounts, secrets>>
       \/ /\ Moved(f) /\ others[a.id] \notin {None, i}
          /\ accounts' = others
          /\ secrets' = [secrets EXCEPT ![key] = None]
          /\ Goes(f, "announce")
       \/ /\ Moved(f) /\ others[a.id] \in {None, i}
          /\ accounts' = [others EXCEPT ![a.id] = i]
          /\ secrets' = IF secrets[key] = None THEN secrets
                        ELSE [secrets EXCEPT ![a.id] = secrets[key]]
          /\ Goes(f, "rekeying")
    /\ UNCHANGED <<inst, protected, crashes, excuses>>

(* Mutant: the instance that signed in last takes the id over.             *)
SavedOverOther(f) ==
    LET i == flow[f].of
        a == inst[i]
        key == flow[f].key
    IN
    /\ flow[f].step = "saving"
    /\ \/ /\ ~Moved(f)
          /\ Goes(f, "announce")
          /\ UNCHANGED <<accounts, secrets>>
       \/ /\ Moved(f)
          /\ accounts' = [accounts EXCEPT ![key] = None, ![a.id] = i]
          /\ Persist(a)
          /\ Goes(f, "rekeying")
    /\ UNCHANGED <<inst, protected, crashes, excuses>>

(* The first flush is over.  #rekeyIfNeeded moves the instance to its real *)
(* id, with a row of what it holds now, unless another instance is there.  *)
Saved(f) ==
    LET i == flow[f].of
        a == inst[i]
        key == flow[f].key
        others == [accounts EXCEPT ![key] = None]
    IN
    /\ flow[f].step = "saving"
    /\ \/ /\ ~Moved(f)
          /\ Goes(f, "announce")
          /\ UNCHANGED <<accounts, secrets>>
       \/ /\ Moved(f) /\ others[a.id] \notin {None, i}
          /\ accounts' = others
          /\ secrets' = [secrets EXCEPT ![key] = None]
          /\ Goes(f, "announce")
       \/ /\ Moved(f) /\ others[a.id] \in {None, i}
          /\ accounts' = [others EXCEPT ![a.id] = i]
          /\ Persist(a)
          /\ Goes(f, "rekeying")
    /\ UNCHANGED <<inst, protected, crashes, excuses>>

(* Mutant: the old row stays.                                              *)
RekeyedKeepingRow(f) ==
    /\ flow[f].step = "rekeying"
    /\ Goes(f, "announce")
    /\ UNCHANGED <<inst, accounts, secrets, protected, crashes, excuses>>

(* The second flush is over: the old row goes.                             *)
Rekeyed(f) ==
    /\ flow[f].step = "rekeying"
    /\ secrets' = [secrets EXCEPT ![flow[f].key] = None]
    /\ Goes(f, "announce")
    /\ UNCHANGED <<inst, accounts, protected, crashes, excuses>>

Announces(f) == flow[f].step = "announce" /\ inst[flow[f].of].online

(* #announceReady, for an account that is online; the call returns.        *)
Announce(f) ==
    /\ flow[f].step = "announce"
    /\ Ends(f, inst[flow[f].of], accounts)
    /\ UNCHANGED <<accounts, secrets, protected, crashes, excuses>>

-----------------------------------------------------------------------------
(* AccountManager.remove and Account.signOut                               *)

Remove(f, k) ==
    LET i == accounts[k] IN
    /\ flow[f] = Idle
    /\ i /= None
    /\ Begins(f, i, "remove", k, "logout")
    /\ UNCHANGED <<inst, accounts, secrets, protected, crashes, excuses>>

(* PUT /logout is over, whatever it answered.                              *)
LoggedOut(f) ==
    LET i == flow[f].of IN
    /\ flow[f].step = "logout"
    /\ accounts' = [accounts EXCEPT ![flow[f].key] = None]
    /\ secrets' = [secrets EXCEPT ![flow[f].key] = None]
    /\ Ends(f, [inst[i] EXCEPT !.cookie = "none", !.alive = FALSE,
                               !.trust = FALSE, !.password = FALSE,
                               !.online = FALSE], accounts')
    /\ Excused("removed", ~Alone(f))
    /\ UNCHANGED <<protected, crashes>>

-----------------------------------------------------------------------------
(* Requests through context(), and reauthenticate()                        *)

Call(f, i) ==
    /\ flow[f] = Idle
    /\ i \in Registered
    /\ flow' = [flow EXCEPT ![f] = [Idle EXCEPT !.kind = "call", !.of = i,
                                    !.step = "sent", !.valid = inst[i].alive]]
    /\ UNCHANGED <<inst, accounts, secrets, protected, crashes, excuses>>

CallOk(f) ==
    /\ flow[f].step = "sent" /\ flow[f].valid
    /\ Ends(f, inst[flow[f].of], accounts)
    /\ UNCHANGED <<accounts, secrets, protected, crashes, excuses>>

(* A 401: once per call the request waits for the one re-authentication.   *)
Call401(f) ==
    LET i == flow[f].of IN
    /\ flow[f].step = "sent"
    /\ ~flow[f].valid \/ ~inst[i].alive
    /\ \/ /\ flow[f].retried
          /\ Ends(f, inst[i], accounts)
       \/ /\ ~flow[f].retried
          /\ Goes(f, "waiting")
          /\ inst' = IF inst[i].reauth /= "none" THEN inst
                     ELSE [inst EXCEPT ![i].reauth = "probing"]
    /\ UNCHANGED <<accounts, secrets, protected, crashes, excuses>>

(* The socket of the account was refused (AccountPipeline).                *)
ReauthRequired(i) ==
    /\ i = accounts[Real] /\ i /= None
    /\ inst[i].reauth = "none"
    /\ inst' = [inst EXCEPT ![i].reauth = "probing"]
    /\ UNCHANGED <<accounts, secrets, flow, protected, crashes, excuses>>

(* The attempt is over: who waited sends again, or gives up.               *)
Settles(i, a, ok) ==
    LET fl == [f \in Flows |->
                IF flow[f].of /= i \/ flow[f].step /= "waiting" THEN flow[f]
                ELSE IF ok THEN [flow[f] EXCEPT !.step = "sent", !.retried = TRUE,
                                                !.valid = a.alive]
                ELSE Idle]
    IN
    /\ flow' = fl
    /\ inst' = [inst EXCEPT ![i] = IF Referred(i, accounts, fl)
                                   THEN [a EXCEPT !.reauth = "none"]
                                   ELSE NoInstance]
    /\ UNCHANGED <<accounts, secrets>>

(* Mutant: a 401 is answered with a login, without a probe.                *)
ProbeSkipped(i) ==
    /\ inst[i].reauth = "probing" /\ inst[i].password
    /\ Becomes(i, [inst[i] EXCEPT !.reauth = "login", !.online = FALSE])
    /\ UNCHANGED <<accounts, secrets, flow, protected, crashes, excuses>>

(* resumeFromCookies, the path that costs nothing.                         *)
ProbeLive(i) ==
    LET a == Adopted(inst[i]) IN
    /\ inst[i].reauth = "probing"
    /\ inst[i].cookie = "auth" /\ inst[i].alive
    /\ Becomes(i, [a EXCEPT !.reauth = "saved"])
    /\ Persist(a)
    /\ UNCHANGED <<accounts, flow, protected, crashes, excuses>>

(* An answer of null: the session is over, or the answer was not 2xx.  A   *)
(* live session that could not be validated counts as one that is over.    *)
ProbeFails(i) ==
    LET a == IF inst[i].alive THEN [inst[i] EXCEPT !.cost = 0] ELSE inst[i] IN
    /\ inst[i].reauth = "probing"
    /\ \/ /\ a.password
          /\ Becomes(i, [a EXCEPT !.reauth = "login",
                                  !.online = FALSE])
          /\ UNCHANGED <<accounts, secrets, flow>>
       \/ /\ ~a.password
          /\ Settles(i, [a EXCEPT !.online = FALSE], FALSE)
    /\ UNCHANGED <<protected, crashes, excuses>>

ReauthAnswered(i) ==
    /\ inst[i].reauth = "login"
    /\ \E a \in LoginAnswers(inst[i]) :
          /\ Becomes(i, IF a.asks THEN [a EXCEPT !.reauth = "asked"]
                        ELSE [a EXCEPT !.reauth = "saved", !.cost = a.cost + 1])
          /\ Persist(a)
          /\ Excused("unasked", Unasked(inst[i], a))
    /\ UNCHANGED <<accounts, flow, protected, crashes>>

ReauthThrows(i) ==
    /\ inst[i].reauth \in {"probing", "login"}
    /\ Settles(i, [inst[i] EXCEPT !.online = FALSE], FALSE)
    /\ UNCHANGED <<protected, crashes, excuses>>

ReauthSaved(i) ==
    /\ inst[i].reauth \in {"saved", "asked"}
    /\ Settles(i, inst[i], inst[i].reauth = "saved")
    /\ UNCHANGED <<protected, crashes, excuses>>

-----------------------------------------------------------------------------
(* VRChat ends a session.                                                  *)
Expire(i) ==
    /\ inst[i].alive
    /\ inst' = [inst EXCEPT ![i].alive = FALSE, ![i].cost = 0]
    /\ UNCHANGED <<accounts, secrets, flow, protected, crashes, excuses>>

Injections(S, T) == {h \in [S -> T] : \A x, y \in S : h[x] = h[y] => x = y}

(* The cookie of the row is the one it was before the code, and names a    *)
(* session that has had its code meanwhile.                                *)
VerifiedSince(k) ==
    /\ secrets[k].cookie = "pre"
    /\ \E i \in Instances :
         /\ inst[i].cookie = "auth"
         /\ accounts[k] = i \/ \E f \in FlowsOf(i) : flow[f].key = k

(* The process ends, anywhere, and loadAll starts over from the store: a   *)
(* session may have ended meanwhile.                                       *)
DaemonRestarts ==
    LET stored == {k \in Ids : secrets[k] /= None}
        at == CHOOSE h \in Injections(stored, Instances) : TRUE
        by == CHOOSE h \in Injections(stored, Flows) : TRUE
        Cookie(k) == IF VerifiedSince(k) THEN "auth" ELSE secrets[k].cookie
        Loaded(k, alive) ==
            [NoInstance EXCEPT !.id = k, !.name = secrets[k].name,
                !.password = secrets[k].password, !.cookie = Cookie(k),
                !.trust = secrets[k].trust,
                !.alive = alive /\ Cookie(k) = "auth"]
    IN
    /\ crashes < MaxCrashes
    /\ Injections(stored, Instances) /= {} /\ Injections(stored, Flows) /= {}
    /\ \E alive \in BOOLEAN :
         inst' = [i \in Instances |->
                    IF \E k \in stored : at[k] = i
                    THEN Loaded(CHOOSE k \in stored : at[k] = i, alive)
                    ELSE NoInstance]
    /\ accounts' = [k \in Ids |-> IF k \in stored THEN at[k] ELSE None]
    /\ flow' = [f \in Flows |->
                  IF \E k \in stored : by[k] = f
                  THEN LET k == CHOOSE k \in stored : by[k] = f IN
                       [Idle EXCEPT !.kind = "load", !.of = at[k], !.key = k,
                                    !.step = "resume"]
                  ELSE Idle]
    /\ crashes' = crashes + 1
    /\ Excused("halfway", \E k \in stored : VerifiedSince(k) /\ ~secrets[k].trust)
    /\ UNCHANGED <<secrets, protected>>

-----------------------------------------------------------------------------
Advance(f) ==
    \/ LoginAnswered(f) \/ LoginFails(f)
    \/ CodeAccepted(f) \/ CodeRefused(f)
    \/ ProfileLoaded(f) \/ ProfileFails(f)
    \/ ResumeLive(f) \/ ResumeFails(f)
    \/ Saved(f) \/ Rekeyed(f) \/ Announce(f)
    \/ LoggedOut(f)
    \/ CallOk(f) \/ Call401(f)

(* Mutant: the probe goes through context(): the 401 of a dead session is  *)
(* given to reauthenticate(), which is this very attempt.                  *)
ReauthenticateHooked(i) ==
    /\ inst[i].reauth = "probing" => inst[i].cookie = "none" \/ inst[i].alive
    /\ \/ ProbeLive(i) \/ ProbeFails(i)
       \/ ReauthAnswered(i) \/ ReauthThrows(i) \/ ReauthSaved(i)

Reauthenticate(i) ==
    \/ ProbeLive(i) \/ ProbeFails(i)
    \/ ReauthAnswered(i) \/ ReauthThrows(i) \/ ReauthSaved(i)

AccountsNext ==
    \/ \E f \in Flows : Advance(f)
    \/ \E i \in Instances : Reauthenticate(i)
    \/ \E f \in Flows, name \in Names : Add(f, name)
    \/ \E f \in Flows, k \in Ids : Verify(f, k)
    \/ \E f \in Flows, k \in Ids : Remove(f, k)
    \/ \E f \in Flows, i \in Instances : Call(f, i)
    \/ \E i \in Instances : ReauthRequired(i)
    \/ \E i \in Instances : Expire(i)
    \/ DaemonRestarts

AccountsSpec == AccountsInit /\ [][AccountsNext]_accountsVars

(* A request is answered or times out, and a write to disk ends: then the  *)
(* await returns.  Nobody has to start anything, and no sign-in to end.    *)
AccountsFairness ==
    /\ \A f \in Flows : WF_accountsVars(flow[f].kind = "call" /\ Advance(f))
    /\ \A i \in Instances : WF_accountsVars(Reauthenticate(i))

AccountsFairSpec == AccountsSpec /\ AccountsFairness

-----------------------------------------------------------------------------
AccountsTypeOK ==
    /\ inst \in [Instances ->
         [id : Ids \cup {None}, name : Names \cup {None}, password : BOOLEAN,
          cookie : Cookies, alive : BOOLEAN, trust : BOOLEAN, unsaved : BOOLEAN,
          online : BOOLEAN, asks : BOOLEAN, cost : Nat,
          reauth : {"none", "probing", "login", "saved", "asked"}]]
    /\ accounts \in [Ids -> Instances \cup {None}]
    /\ secrets \in [Ids -> Rows \cup {None}]
    /\ flow \in [Flows ->
         [kind : {"idle", "add", "again", "verify", "load", "remove", "call"},
          of : Instances \cup {None}, key : Ids \cup {None},
          step : {"done", "login", "code", "profile", "resume", "saving", "rekeying",
                  "announce", "logout", "sent", "waiting"},
          valid : BOOLEAN, retried : BOOLEAN]]
    /\ crashes \in 0..MaxCrashes
    /\ excuses \subseteq Excuses
    (* While an attempt lasts there is somebody to end it for.             *)
    /\ \A f \in Flows : flow[f].step = "waiting" => inst[flow[f].of].reauth /= "none"

(* What is stored under k is of an account the daemon has, or the old row  *)
(* of a re-keying that is about to take it away.                           *)
AccountedFor(k) ==
    \/ accounts[k] /= None
    \/ \E i \in Registered : inst[i].id = k
    \/ \E f \in Flows : flow[f].key = k /\ flow[f].step = "rekeying"

(* What remove() and a failed add() take away stays away, and re-keying    *)
(* leaves nothing behind, whatever is under way (manager.ts:108-143, 195), *)
(* unless that removal crossed something else.                             *)
NoOrphanRow ==
    \A k \in Ids : secrets[k] /= None =>
        AccountedFor(k) \/ excuses \cap {"removed", "dropped"} /= {}

(* remove() "forgets its credentials locally" (manager.ts:135): when the   *)
(* calls for it are over, nothing is stored that is of no account.         *)
RemovedIsForgotten ==
    (\A i \in Instances : ~Busy(i)) /\ "dropped" \notin excuses
        => \A k \in Ids : secrets[k] /= None => AccountedFor(k)

(* The device trust that a code bought is on disk as long as the account   *)
(* lives, through every re-keying, second sign-in, re-authentication and   *)
(* restart (auth.ts:189-191, manager.ts:210-216).  What the code does not  *)
(* see to is named: between the POST and the next #persist, which does not *)
(* come when the GET fails, the trust is in memory only; and see Excuses.  *)
(* With the type invariant.                                                *)
TrustSurvives ==
    /\ AccountsTypeOK
    /\ \A i \in Registered : inst[i].trust =>
         \/ secrets[inst[i].id] /= None /\ secrets[inst[i].id].trust
         \/ inst[i].unsaved
         \/ excuses \cap {"removed", "halfway", "unasked"} /= {}

(* A wave of 401s costs one login: reauthenticate() logs in again only if  *)
(* the session it has was found dead (account.ts:74-79).  Of an account    *)
(* that is asked for a code this is not true: see README.                  *)
OneLoginPerExpiry == \A i \in Instances : ~protected => inst[i].cost <= 1

(* The instance filed under the real id is not replaced by a second one of *)
(* the same account (manager.ts:202).                                      *)
EstablishedIsKept ==
    [][accounts[Real] /= None /\ crashes' = crashes
         => accounts'[Real] \in {accounts[Real], None}]_accountsVars

(* Every request ends, also when re-authentication fails, and is never     *)
(* left waiting for an attempt that waits for it (account.ts:137-141).     *)
EveryCallEnds ==
    \A f \in Flows : flow[f].step = "waiting" ~> flow[f].kind /= "call"
=============================================================================
