--------------------------- MODULE PipelineClient ---------------------------
(***************************************************************************)
(* One account's connection to VRChat's event pipeline:                    *)
(* pipeline/client.ts, class PipelineClient.                               *)
(*                                                                         *)
(* The client is single-threaded but not sequential: it is driven by its   *)
(* caller (start, restart, dispose), by promises (the token supplier), by  *)
(* socket callbacks and by timers, in any order.  Each of those is one     *)
(* action; a callback runs to completion, so an action is a whole handler. *)
(*                                                                         *)
(* Simplifications:                                                        *)
(*  - a call of #connect is known by the value of #generation it captured, *)
(*    and so is the socket it makes (NoDoubleConnect says why that is      *)
(*    enough to tell two of them apart);                                   *)
(*  - time is one bit: whether the open socket is older than               *)
(*    stableConnectionMs.  Delays are left out, the order of events is not;*)
(*  - frames are of two kinds: one that means the token is dead, and any   *)
(*    other (an event, a server error, an undecodable frame), which only   *)
(*    re-arms the idle timer.                                              *)
(***************************************************************************)
EXTENDS Integers

CONSTANTS
    MaxGeneration,   \* bound: the environment causes faults and restarts
                     \* only while #generation is below it
    IdleDetection    \* idleTimeoutMs > 0

ASSUME GenerationBound == MaxGeneration \in Nat
ASSUME IdleDetectionIsBoolean == IdleDetection \in BOOLEAN

VARIABLES
    state,           \* #state
    attempt,         \* #attempt
    generation,      \* #generation
    socket,          \* #socket: the generation it was made in, or NoSocket
    openedAt,        \* #openedAt, against #stableConnectionMs
    reconnectTimer,  \* #reconnectTimer !== null
    idleTimer,       \* #idleTimer !== null
    heartbeat,       \* #heartbeatTimer !== null
    pending,         \* calls of #connect awaiting getAuthToken()
    live,            \* sockets that exist and neither side has closed
    silent           \* live sockets whose peer is gone without a close

vars == <<state, attempt, generation, socket, openedAt, reconnectTimer,
          idleTimer, heartbeat, pending, live, silent>>

NoSocket == -1

States == {"idle", "connecting", "connected", "backoff",
           "reauth-required", "closed"}

Ages == {"none", "fresh", "stable"}

IsTerminal == state \in {"closed", "reauth-required"}

(* The environment may still cause a fault.                                *)
FaultsLeft == generation < MaxGeneration

Init ==
    /\ state = "idle"
    /\ attempt = 0
    /\ generation = 0
    /\ socket = NoSocket
    /\ openedAt = "none"
    /\ reconnectTimer = FALSE
    /\ idleTimer = FALSE
    /\ heartbeat = FALSE
    /\ pending = {}
    /\ live = {}
    /\ silent = {}

-----------------------------------------------------------------------------
(* Mutants are named after the definition they follow; each is the same    *)
(* definition with one plausible mistake, used to see a property fail.     *)

(* Mutant: the socket is forgotten and never closed.                       *)
DropSocketLeavesItOpen ==
    /\ generation' = generation + 1
    /\ openedAt' = "none"
    /\ idleTimer' = FALSE
    /\ heartbeat' = FALSE
    /\ socket' = NoSocket
    /\ UNCHANGED <<live, silent>>

(* Mutant: the timer of the backoff is never set.                          *)
ScheduleReconnectWithoutTimer ==
    /\ generation' = generation + 1
    /\ openedAt' = "none"
    /\ idleTimer' = FALSE
    /\ heartbeat' = FALSE
    /\ socket' = NoSocket
    /\ live' = live \ {socket}
    /\ silent' = silent \ {socket}
    /\ reconnectTimer' = FALSE
    /\ attempt' = (IF openedAt = "stable" THEN 0 ELSE attempt) + 1
    /\ state' = "backoff"

(* #dropSocket: abandon the socket and everything that hangs off it.  Its  *)
(* handlers are nulled, so it causes no step afterwards.                   *)
DropSocket ==
    /\ generation' = generation + 1
    /\ openedAt' = "none"
    /\ idleTimer' = FALSE
    /\ heartbeat' = FALSE
    /\ socket' = NoSocket
    /\ live' = live \ {socket}
    /\ silent' = silent \ {socket}

(* #connect, up to its await: gen is the generation the call captures.     *)
BeginConnect(gen) ==
    /\ state' = "connecting"
    /\ pending' = pending \cup {gen}

(* #scheduleReconnect in a state that is not terminal.                     *)
ScheduleReconnect ==
    /\ DropSocket
    /\ reconnectTimer' = TRUE
    /\ attempt' = (IF openedAt = "stable" THEN 0 ELSE attempt) + 1
    /\ state' = "backoff"

(* #handleReauth: stop, until the caller says the session is new.          *)
HandleReauth ==
    /\ DropSocket
    /\ reconnectTimer' = FALSE
    /\ state' = "reauth-required"
    /\ UNCHANGED attempt

-----------------------------------------------------------------------------
(* The caller.                                                             *)

(* start() returns at once while connecting or connected, and its #connect *)
(* returns at once in reauth-required, where only the streak is cleared.   *)
Start ==
    /\ state \in {"idle", "backoff", "reauth-required"}
    /\ reconnectTimer' = FALSE
    /\ attempt' = 0
    /\ IF IsTerminal THEN UNCHANGED <<state, pending>>
                     ELSE BeginConnect(generation)
    /\ UNCHANGED <<generation, socket, openedAt, idleTimer, heartbeat, live,
                   silent>>

Restart ==
    /\ FaultsLeft
    /\ state /= "closed"
    /\ DropSocket
    /\ reconnectTimer' = FALSE
    /\ attempt' = 0
    /\ BeginConnect(generation + 1)

Dispose ==
    /\ state /= "closed"
    /\ DropSocket
    /\ reconnectTimer' = FALSE
    /\ state' = "closed"
    /\ UNCHANGED <<attempt, pending>>

-----------------------------------------------------------------------------
(* The token supplier settles for the call of #connect in generation gen.  *)

(* A call that is no longer current, or that finds the client stopped,     *)
(* returns.                                                                *)
TokenIgnored(gen) ==
    /\ gen \in pending
    /\ gen /= generation \/ IsTerminal
    /\ pending' = pending \ {gen}
    /\ UNCHANGED <<state, attempt, generation, socket, openedAt,
                   reconnectTimer, idleTimer, heartbeat, live, silent>>

(* A token: the socket is made and its handlers are attached.              *)
TokenOpensSocket(gen) ==
    /\ gen \in pending
    /\ gen = generation /\ ~IsTerminal
    /\ pending' = pending \ {gen}
    /\ socket' = gen
    /\ live' = live \cup {gen}
    /\ UNCHANGED <<state, attempt, generation, openedAt, reconnectTimer,
                   idleTimer, heartbeat, silent>>

(* A token, and a socket constructor that throws.                          *)
SocketConstructionFails(gen) ==
    /\ FaultsLeft
    /\ gen \in pending
    /\ gen = generation /\ ~IsTerminal
    /\ pending' = pending \ {gen}
    /\ ScheduleReconnect

(* The empty token: no session at all.                                     *)
TokenEmpty(gen) ==
    /\ FaultsLeft
    /\ gen \in pending
    /\ gen = generation /\ ~IsTerminal
    /\ pending' = pending \ {gen}
    /\ HandleReauth

(* The supplier rejects.  The catch clause comes before the check of the   *)
(* generation, so this also runs for a call that has been superseded.      *)
TokenRejected(gen) ==
    /\ FaultsLeft
    /\ gen \in pending
    /\ pending' = pending \ {gen}
    /\ IF IsTerminal
       THEN UNCHANGED <<state, attempt, generation, socket, openedAt,
                        reconnectTimer, idleTimer, heartbeat, live, silent>>
       ELSE ScheduleReconnect

-----------------------------------------------------------------------------
(* Callbacks of the current socket.  Those of an abandoned one are detached*)

(* Mutant: the streak is cleared on open.                                  *)
SocketOpensClearsStreak ==
    /\ socket /= NoSocket /\ socket \notin silent
    /\ openedAt = "none"
    /\ openedAt' = "fresh"
    /\ state' = "connected"
    /\ attempt' = 0
    /\ idleTimer' = IdleDetection
    /\ heartbeat' = TRUE
    /\ UNCHANGED <<generation, socket, reconnectTimer, pending, live, silent>>

(* Mutant: the idle timer waits for the first frame to be armed.           *)
SocketOpensUnwatched ==
    /\ socket /= NoSocket /\ socket \notin silent
    /\ openedAt = "none"
    /\ openedAt' = "fresh"
    /\ state' = "connected"
    /\ heartbeat' = TRUE
    /\ UNCHANGED <<attempt, generation, socket, reconnectTimer, idleTimer,
                   pending, live, silent>>

SocketOpens ==
    /\ socket /= NoSocket /\ socket \notin silent
    /\ openedAt = "none"
    /\ openedAt' = "fresh"
    /\ state' = "connected"
    /\ idleTimer' = IdleDetection
    /\ heartbeat' = TRUE
    /\ UNCHANGED <<attempt, generation, socket, reconnectTimer, pending, live,
                   silent>>

(* A frame re-arms the idle timer, which is armed already: only a frame    *)
(* that says the token is dead changes anything here.                      *)
ReauthFrame ==
    /\ FaultsLeft
    /\ socket /= NoSocket /\ socket \notin silent
    /\ openedAt /= "none"
    /\ HandleReauth
    /\ UNCHANGED pending

(* onclose: the handshake failed, or an open socket went down.             *)
SocketCloses ==
    /\ FaultsLeft
    /\ socket /= NoSocket /\ socket \notin silent
    /\ IF IsTerminal
       THEN /\ DropSocket
            /\ UNCHANGED <<state, attempt, reconnectTimer>>
       ELSE ScheduleReconnect
    /\ UNCHANGED pending

(* The peer of an open socket vanishes: no frame and no close will come.   *)
PeerGoesSilent ==
    /\ FaultsLeft
    /\ socket \in live \ silent
    /\ openedAt /= "none"
    /\ silent' = silent \cup {socket}
    /\ UNCHANGED <<state, attempt, generation, socket, openedAt,
                   reconnectTimer, idleTimer, heartbeat, pending, live>>

-----------------------------------------------------------------------------
(* Timers.                                                                 *)

ReconnectTimerFires ==
    /\ reconnectTimer
    /\ reconnectTimer' = FALSE
    /\ IF IsTerminal THEN UNCHANGED <<state, pending>>
                     ELSE BeginConnect(generation)
    /\ UNCHANGED <<attempt, generation, socket, openedAt, idleTimer,
                   heartbeat, live, silent>>

(* No frame for idleTimeoutMs: the peer is gone, or is only quiet.         *)
IdleTimerFires ==
    /\ socket \in silent \/ FaultsLeft
    /\ idleTimer
    /\ ~IsTerminal
    /\ ScheduleReconnect
    /\ UNCHANGED pending

(* stableConnectionMs have passed since the socket opened.                 *)
ConnectionGetsStable ==
    /\ openedAt = "fresh"
    /\ openedAt' = "stable"
    /\ UNCHANGED <<state, attempt, generation, socket, reconnectTimer,
                   idleTimer, heartbeat, pending, live, silent>>

-----------------------------------------------------------------------------
TokenSettles ==
    \E gen \in pending :
        \/ TokenIgnored(gen)
        \/ TokenOpensSocket(gen)
        \/ SocketConstructionFails(gen)
        \/ TokenEmpty(gen)
        \/ TokenRejected(gen)

Next ==
    \/ Start
    \/ Restart
    \/ Dispose
    \/ TokenSettles
    \/ SocketOpens
    \/ ReauthFrame
    \/ SocketCloses
    \/ PeerGoesSilent
    \/ ReconnectTimerFires
    \/ IdleTimerFires
    \/ ConnectionGetsStable

Spec == Init /\ [][Next]_vars

(* A promise settles, a handshake ends, a timer that nothing re-arms fires.*)
(* The idle timer is re-armed by every frame of a peer that is there, so   *)
(* it is entitled to fire only when the peer is gone.  Nothing is promised *)
(* about the caller or about faults.                                       *)
Fairness ==
    /\ WF_vars(TokenSettles)
    /\ WF_vars(SocketOpens \/ (openedAt = "none" /\ SocketCloses))
    /\ WF_vars(ReconnectTimerFires)
    /\ WF_vars(socket \in silent /\ IdleTimerFires)

FairSpec == Spec /\ Fairness

-----------------------------------------------------------------------------
(* The type of every variable, and the bound the guards put on generations:*)
(* a fault below the bound may leave one more drop to come (the idle timer *)
(* of a silent peer), and dispose() adds the last.                         *)
TimersOK ==
    /\ reconnectTimer \in BOOLEAN
    /\ idleTimer \in BOOLEAN
    /\ heartbeat \in BOOLEAN

TypeOK ==
    /\ TimersOK
    /\ state \in States
    /\ attempt \in Nat
    /\ generation \in Nat
    /\ socket \in Nat \cup {NoSocket}
    /\ openedAt \in Ages
    /\ pending \subseteq 0..generation
    /\ live \subseteq 0..generation
    /\ silent \subseteq live

(* One session per account: every socket that anyone still holds open is   *)
(* the one the client holds, and that one belongs to the current           *)
(* generation, so that none of its callbacks is turned away.               *)
OneLiveSocket ==
    /\ live \subseteq {socket}
    /\ socket /= NoSocket => socket = generation

(* The client never waits for something that cannot come.  While           *)
(* connecting, the current call awaits its token or its socket is shaking  *)
(* hands, and never both; while connected, the socket is open and a peer   *)
(* that falls silent will be noticed; and it backs off exactly while a     *)
(* timer is going to end that.                                             *)
NoStall ==
    /\ state = "connecting" =>
            /\ (generation \in pending) /= (socket /= NoSocket)
            /\ openedAt = "none"
    /\ state = "connected" =>
            /\ socket /= NoSocket
            /\ openedAt /= "none"
            /\ idleTimer = IdleDetection
            /\ heartbeat
    /\ state = "backoff" <=> reconnectTimer

(* Whenever it is neither connecting nor connected the client holds no     *)
(* socket and no timer of one.                                             *)
QuietWhenDown ==
    state \notin {"connecting", "connected"} =>
        /\ socket = NoSocket
        /\ openedAt = "none"
        /\ ~idleTimer
        /\ ~heartbeat

(* A call of #connect is in flight in the current generation only while    *)
(* connecting or once stopped for good: no second call captures the same   *)
(* generation, so two retries never compete.                               *)
NoDoubleConnect ==
    generation \in pending => state = "connecting"

(* "closed: Disposed. Terminal, always": whatever promise settles later,   *)
(* a disposed client does not move.                                        *)
ClosedForever ==
    [][state = "closed" =>
        UNCHANGED <<state, attempt, generation, socket, reconnectTimer,
                    idleTimer, heartbeat, live>>]_vars

(* The failure streak is cleared by a connection that lasted or by the     *)
(* caller, never by a socket that merely opened.                           *)
FlappingKeepsTheStreak ==
    [][attempt' < attempt => openedAt = "stable" \/ Start \/ Restart]_vars
=============================================================================
