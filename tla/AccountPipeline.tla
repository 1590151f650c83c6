--------------------------- MODULE AccountPipeline ---------------------------
(***************************************************************************)
(* One account and its pipeline client, as app.ts wires them together.     *)
(*                                                                         *)
(* The client (module PipelineClient) asks for a token on every attempt    *)
(* and reports a dead one; the account owns the session and re-logs in;    *)
(* app.ts creates the client on `account.ready` and answers                *)
(* onReauthRequired.  The client's state is that of PipelineClient; this   *)
(* module adds the account and restates each action of the client with     *)
(* what the wiring does in the same callback.                              *)
(*                                                                         *)
(* Simplifications:                                                        *)
(*  - the supplier is an async function without an await, so its value is  *)
(*    read when the token settles, and it never rejects: TokenRejected     *)
(*    does not occur here;                                                 *)
(*  - a login is one action (its own interleavings belong to the accounts),*)
(*    and so is a removal;                                                 *)
(*  - the daemon's shutdown is left out: it disposes every client.         *)
(***************************************************************************)
EXTENDS PipelineClient

CONSTANT
    MaxLogins        \* bound: how often the session is renewed or lost

ASSUME LoginBound == MaxLogins \in Nat

VARIABLES
    registered,      \* accounts.get(id) is defined
    session,         \* the auth cookie in the jar, as VRChat sees it
    reauthInFlight,  \* Account#reauthInFlight
    hasClient,       \* pipelines.has(id)
    socketToken,     \* the token the current socket was opened with
    started,         \* app.ts has looped over the accounts that resumed
    logins           \* changes of the session so far

accountVars == <<registered, session, reauthInFlight, hasClient, started,
                 logins>>
allVars == <<vars, accountVars, socketToken>>

Sessions == {"none", "dead", "valid"}

LoginsLeft == logins < MaxLogins

(* app.ts runs this after accounts.loadAll(): an account that resumed is   *)
(* online, one that did not may hold a dead cookie or none.                *)
AppInit ==
    /\ Init
    /\ registered = TRUE
    /\ session \in Sessions
    /\ reauthInFlight = FALSE
    /\ hasClient = FALSE
    /\ socketToken = "none"
    /\ started = FALSE
    /\ logins = 0

-----------------------------------------------------------------------------
(* The client's actions, in the daemon.                                    *)

(* connectPipeline: for the first online account of that id only.          *)
ConnectPipeline ==
    IF hasClient
    THEN UNCHANGED <<vars, hasClient, socketToken>>
    ELSE /\ hasClient' = TRUE
         /\ Start
         /\ UNCHANGED socketToken

(* onReauthRequired: ask the account to re-authenticate.                   *)
OnReauthRequired ==
    /\ reauthInFlight' = registered
    /\ UNCHANGED <<registered, session, hasClient, started, logins>>

(* getAuthToken: the cookie of the account that is registered now, or "".  *)
SupplierToken == registered /\ session /= "none"

ClientOpensSocket(gen) ==
    /\ SupplierToken
    /\ TokenOpensSocket(gen)
    /\ socketToken' = session
    /\ UNCHANGED accountVars

(* The upgrade is asked for and the constructor throws.                    *)
ClientCannotOpen(gen) ==
    /\ SupplierToken
    /\ SocketConstructionFails(gen)
    /\ UNCHANGED <<accountVars, socketToken>>

ClientHasNoSession(gen) ==
    /\ ~SupplierToken
    /\ gen \in pending
    /\ gen = generation /\ ~IsTerminal
    /\ pending' = pending \ {gen}
    /\ HandleReauth
    /\ OnReauthRequired
    /\ UNCHANGED socketToken

ClientIgnoresToken(gen) ==
    /\ TokenIgnored(gen)
    /\ UNCHANGED <<accountVars, socketToken>>

TokenSettlesInApp ==
    \E gen \in pending :
        \/ ClientOpensSocket(gen)
        \/ ClientCannotOpen(gen)
        \/ ClientHasNoSession(gen)
        \/ ClientIgnoresToken(gen)

(* VRChat says so on the socket when the token it was opened with is dead. *)
ServerRefusesToken ==
    /\ socketToken = "dead"
    /\ socket /= NoSocket /\ socket \notin silent
    /\ openedAt /= "none"
    /\ HandleReauth
    /\ OnReauthRequired
    /\ UNCHANGED <<pending, socketToken>>

(* What needs nothing of the account.                                      *)
ClientAlone ==
    /\ \/ SocketOpens
       \/ SocketCloses
       \/ PeerGoesSilent
       \/ ReconnectTimerFires
       \/ IdleTimerFires
       \/ ConnectionGetsStable
    /\ UNCHANGED <<accountVars, socketToken>>

-----------------------------------------------------------------------------
(* The account.                                                            *)

(* The session ends upstream.                                              *)
SessionExpires ==
    /\ LoginsLeft
    /\ session = "valid"
    /\ session' = "dead"
    /\ socketToken' = (IF socketToken = "valid" THEN "dead" ELSE socketToken)
    /\ logins' = logins + 1
    /\ UNCHANGED <<vars, registered, reauthInFlight, hasClient, started>>

(* A REST call is answered 401, and vrcFetch asks for a re-authentication. *)
RestCallUnauthorized ==
    /\ registered
    /\ session /= "valid"
    /\ ~reauthInFlight
    /\ reauthInFlight' = TRUE
    /\ UNCHANGED <<vars, registered, session, hasClient, started, socketToken,
                   logins>>

(* reauthenticate() resumes or logs in.  It announces nothing.             *)
ReauthSucceeds ==
    /\ reauthInFlight
    /\ registered
    /\ reauthInFlight' = FALSE
    /\ session' = "valid"
    /\ UNCHANGED <<vars, registered, hasClient, started, socketToken, logins>>

(* The login fails, or stops at 2FA, for which the user is needed.         *)
ReauthFails ==
    /\ LoginsLeft
    /\ reauthInFlight
    /\ reauthInFlight' = FALSE
    /\ logins' = logins + 1
    /\ UNCHANGED <<vars, registered, session, hasClient, started, socketToken>>

(* The user signs in, or answers a 2FA challenge: `account.ready`.  An     *)
(* account that was removed is added anew the same way.                    *)
AccountReady ==
    /\ LoginsLeft
    /\ started
    /\ ~(registered /\ session = "valid")
    /\ registered' = TRUE
    /\ session' = "valid"
    /\ logins' = logins + 1
    /\ ConnectPipeline
    /\ UNCHANGED <<reauthInFlight, started>>

(* app.ts connects every account that is online once the daemon is up.     *)
ConnectAtStartup ==
    /\ ~started
    /\ started' = TRUE
    /\ IF registered /\ session = "valid"
       THEN ConnectPipeline
       ELSE UNCHANGED <<vars, hasClient, socketToken>>
    /\ UNCHANGED <<registered, session, reauthInFlight, logins>>

(* AccountManager.remove: PUT /logout, which may fail upstream, then the   *)
(* account and its cookies are forgotten.  The client is not told.         *)
RemoveAccount ==
    /\ LoginsLeft
    /\ registered
    /\ registered' = FALSE
    /\ session' = "none"
    /\ reauthInFlight' = FALSE
    /\ socketToken' \in {socketToken,
                         IF socketToken = "valid" THEN "dead" ELSE socketToken}
    /\ logins' = logins + 1
    /\ UNCHANGED <<vars, hasClient, started>>

-----------------------------------------------------------------------------
AppNext ==
    \/ TokenSettlesInApp
    \/ ServerRefusesToken
    \/ ClientAlone
    \/ SessionExpires
    \/ RestCallUnauthorized
    \/ ReauthSucceeds
    \/ ReauthFails
    \/ AccountReady
    \/ ConnectAtStartup
    \/ RemoveAccount

AppSpec == AppInit /\ [][AppNext]_allVars

(* Promises, handshakes and timers as in PipelineClient, a re-authentication*)
(* in flight ends, and the startup loop reaches the account.               *)
AppFairness ==
    /\ WF_allVars(TokenSettlesInApp)
    /\ WF_allVars(ClientAlone /\ openedAt = "none" /\ socket /= NoSocket)
    /\ WF_allVars(ClientAlone /\ reconnectTimer)
    /\ WF_allVars(ClientAlone /\ socket \in silent)
    /\ WF_allVars(ReauthSucceeds)
    /\ WF_allVars(ConnectAtStartup)

FairAppSpec == AppSpec /\ AppFairness

-----------------------------------------------------------------------------
(* A client that exists is down for good only if the token was refused: as *)
(* long as the session stays good and the client has not been told to stop,*)
(* every fault ends in a connection.                                       *)
ValidSessionGetsConnected ==
    <>[](registered /\ session = "valid" /\ hasClient
            /\ state /= "reauth-required")
        => <>[](state = "connected")

(* "Terminal until the caller re-authenticates and calls restart()": when  *)
(* the account has been re-authenticated, its pipeline comes back.         *)
ReauthBringsThePipelineBack ==
    (hasClient /\ state = "reauth-required" /\ session = "valid")
        ~> (state /= "reauth-required" \/ session /= "valid")
=============================================================================
