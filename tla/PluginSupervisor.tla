-------------------------- MODULE PluginSupervisor --------------------------
(***************************************************************************)
(* The supervisor of one plugin, with the calls the registry makes of it   *)
(* and the transport that carries its process.  (plugins/supervisor.ts,    *)
(* plugins/process-transport.ts, plugins/registry.ts.)                     *)
(*                                                                         *)
(* The code compares an epoch that every start, stop and disable bumps;    *)
(* here every start is an attempt with a process of its own, and "current" *)
(* is the attempt whose epoch is still valid, 0 if none is.  The length of *)
(* the backoff is left out, and the crash window forgets a crash at any    *)
(* time.  One life of the daemon.                                          *)
(***************************************************************************)
EXTENDS Naturals, FiniteSets

CONSTANTS
  MaxAttempts,   \* starts that are ever attempted
  MaxMissed,     \* maxMissedBeats
  CrashLimit     \* crashLoopThreshold

ASSUME SupervisorAssumption == {MaxAttempts, MaxMissed, CrashLimit} \subseteq Nat \ {0}

VARIABLES
  state,      \* #state
  attempt,    \* how many starts have been attempted
  current,    \* the attempt of the epoch, 0 if no continuation of one is valid
  transport,  \* #transport: the process it carries, 0 for null
  timers,     \* the timers that are armed; all of them belong to the epoch
  ping,       \* a ping is unanswered
  missed,     \* #missedBeats
  crashes,    \* how many crashes the window holds
  procs,      \* the processes
  quit,       \* stopAll(): "no", "waiting" for a stop() to return, or "over"
  awaited,    \* the process whose end that stop() awaits, 0 for none
  illegal,    \* the states that were asked for where the table does not lead to them
  crossed     \* history: stop() has returned when another process had been adopted

watch == <<timers, ping, missed>>
vars == <<state, attempt, current, transport, timers, ping, missed, crashes, procs, quit,
          awaited, illegal, crossed>>

Attempts == 1 .. MaxAttempts
States == {"idle", "starting", "activating", "running", "stopping", "backoff", "disabled"}

\* SUPERVISOR_TRANSITIONS
Transitions ==
  [idle       |-> {"starting", "disabled"},
   starting   |-> {"activating", "backoff", "idle", "stopping", "disabled"},
   activating |-> {"running", "backoff", "idle", "stopping", "disabled"},
   running    |-> {"stopping", "backoff", "idle", "disabled"},
   stopping   |-> {"idle", "disabled"},
   backoff    |-> {"starting", "idle", "disabled"},
   disabled   |-> {"idle"}]

\* A process: it is being created ("pending"), lives, or has reported its exit; the
\* intent its exit will be given; whether it has been told to end, by kill() or by
\* the end of its stdin; whether it turns its event loop; and what it has said.
Processes ==
  [life : {"none", "pending", "alive", "gone"},
   intent : {"none", "killed", "shutdown", "spawn-failed"},
   told : {"nothing", "eof", "kill"}, hung : BOOLEAN,
   said : {"nothing", "hello", "active"}]
NoProcess == [life |-> "none", intent |-> "none", told |-> "nothing", hung |-> FALSE, said |-> "nothing"]
Gone == [NoProcess EXCEPT !.life = "gone"]

Init ==
  /\ state = "idle" /\ attempt = 0 /\ current = 0 /\ transport = 0
  /\ timers = {} /\ ping = FALSE /\ missed = 0 /\ crashes = 0
  /\ procs = [p \in Attempts |-> NoProcess]
  /\ quit = "no" /\ awaited = 0 /\ illegal = {} /\ crossed = FALSE

\* #transition, once and twice in one turn.
Go(next) ==
  /\ state' = next
  /\ illegal' = illegal \cup ({next} \ Transitions[state])
GoBy(via, next) ==
  /\ state' = next
  /\ illegal' = illegal \cup ({via} \ Transitions[state]) \cup ({next} \ Transitions[via])
Stay == UNCHANGED <<state, illegal>>

\* kill(), of the processes ps with what they are; the first intent wins.
Killed(ps, p, intent) ==
  IF p = 0 \/ ps[p].life # "alive" THEN ps
  ELSE [ps EXCEPT ![p].told = "kill", ![p].intent = IF @ = "none" THEN intent ELSE @]

-----------------------------------------------------------------------------
(* Starting.                                                               *)

\* start(): the factory is asked for a process, unless the bundle is not what was
\* installed, which disables the plugin.
StartFrom(begins) ==
  /\ attempt < MaxAttempts
  /\ attempt' = attempt + 1
  /\ \/ /\ current' = attempt + 1
        /\ procs' = [procs EXCEPT ![attempt + 1].life = "pending"]
        /\ timers' = timers \ {"restart"}
        /\ begins
        /\ UNCHANGED <<transport, ping>>
     \/ /\ current' = 0
        /\ procs' = Killed(procs, transport, "killed")
        /\ transport' = 0 /\ timers' = {} /\ ping' = FALSE
        /\ GoBy("starting", "disabled")

\* The registry starts the plugin at boot.
Start ==
  /\ quit = "no" /\ attempt = 0
  /\ state = "idle"
  /\ StartFrom(Go("starting"))
  /\ UNCHANGED <<missed, crashes, quit, awaited, crossed>>

\* enable() of the registry: a disable is cleared, and the plugin is started if it is
\* neither up nor on its way.  The registry looks at the bundle before it asks the
\* supervisor, which looks again: where the first look fails nothing is started, and
\* what was disabled is left idle.
EnableDisabled ==
  /\ state = "disabled"
  /\ crashes' = 0
  /\ \/ /\ attempt < MaxAttempts
        /\ attempt' = attempt + 1
        /\ \/ /\ current' = attempt + 1
              /\ procs' = [procs EXCEPT ![attempt + 1].life = "pending"]
              /\ GoBy("idle", "starting")
           \/ /\ current' = 0   \* the second look fails: idle, starting, disabled
              /\ UNCHANGED <<procs, state, illegal>>
     \/ Go("idle") /\ UNCHANGED <<attempt, current, procs>>
  /\ UNCHANGED <<transport, timers, ping>>

Enable ==
  /\ quit # "over"
  /\ \/ EnableDisabled
     \/ state \in {"idle", "backoff"} /\ StartFrom(Go("starting")) /\ UNCHANGED crashes
  /\ UNCHANGED <<missed, quit, awaited, crossed>>

\* #disable(): nothing of it waits.
DisableNow(ps) ==
  /\ current' = 0 /\ timers' = {} /\ ping' = FALSE
  /\ procs' = Killed(ps, transport, "killed")
  /\ transport' = 0
  /\ Go("disabled")

\* disable(), by the user.
Disable ==
  /\ quit # "over"
  /\ state # "disabled"
  /\ DisableNow(procs)
  /\ UNCHANGED <<attempt, missed, crashes, quit, awaited, crossed>>

\* Mutant: whatever arrives is adopted.
FactoryResolvesLate(p) ==
  /\ procs[p].life = "pending"
  /\ procs' = [procs EXCEPT ![p].life = "alive"]
  /\ transport' = p /\ timers' = timers \cup {"hello"}
  /\ Stay
  /\ UNCHANGED <<attempt, current, ping, missed, crashes, quit, awaited, crossed>>

\* factory() resolves: a process that comes after a stop or a disable is killed.
FactoryResolves(p) ==
  /\ procs[p].life = "pending"
  /\ LET born == [procs EXCEPT ![p].life = "alive"]
     IN IF current = p
        THEN /\ procs' = born
             /\ transport' = p /\ timers' = timers \cup {"hello"}
        ELSE procs' = Killed(born, p, "killed") /\ UNCHANGED <<transport, timers>>
  /\ Stay
  /\ UNCHANGED <<attempt, current, ping, missed, crashes, quit, awaited, crossed>>

FactoryFails(p) ==
  /\ procs[p].life = "pending"
  /\ LET stillborn == [procs EXCEPT ![p] = Gone]
     IN IF current = p THEN DisableNow(stillborn)
        ELSE procs' = stillborn /\ Stay /\ UNCHANGED <<current, transport, timers, ping>>
  /\ UNCHANGED <<attempt, missed, crashes, quit, awaited, crossed>>

-----------------------------------------------------------------------------
(* What the process says, and the watch over it.                           *)

Speaks(p) == procs[p].life = "alive" /\ ~procs[p].hung

\* #onHello, also when the transport has been forgotten.
Hello(p) ==
  /\ Speaks(p) /\ procs[p].said = "nothing"
  /\ procs' = [procs EXCEPT ![p].said = "hello"]
  /\ IF current # p \/ state # "starting" THEN Stay /\ UNCHANGED timers
     ELSE IF transport = 0 THEN Stay /\ timers' = timers \ {"hello"}
     ELSE Go("activating") /\ timers' = (timers \ {"hello"}) \cup {"activate"}
  /\ UNCHANGED <<attempt, current, transport, ping, missed, crashes, quit, awaited, crossed>>

\* A hello with the wrong protocol or id.
WrongHello(p) ==
  /\ Speaks(p) /\ procs[p].said = "nothing"
  /\ current = p /\ state = "starting"
  /\ DisableNow([procs EXCEPT ![p].said = "hello"])
  /\ UNCHANGED <<attempt, missed, crashes, quit, awaited, crossed>>

\* The answer to activate: it runs, or its startup has failed and it is killed.
Activated(p) ==
  /\ Speaks(p) /\ procs[p].said = "hello"
  /\ current = p /\ state = "activating" /\ "activate" \in timers
  /\ procs' = [procs EXCEPT ![p].said = "active"]
  /\ Go("running")
  /\ timers' = (timers \ {"activate"}) \cup {"beat", "stable"}
  /\ ping' = FALSE /\ missed' = 0
  /\ UNCHANGED <<attempt, current, transport, crashes, quit, awaited, crossed>>

ActivateFails(p) ==
  /\ Speaks(p) /\ procs[p].said = "hello"
  /\ current = p /\ state = "activating" /\ "activate" \in timers
  /\ procs' = Killed([procs EXCEPT ![p].said = "active"], transport, "killed")
  /\ timers' = timers \ {"activate"}
  /\ Stay
  /\ UNCHANGED <<attempt, current, transport, ping, missed, crashes, quit, awaited, crossed>>

Pong(p) ==
  /\ Speaks(p)
  /\ current = p /\ ping
  /\ ping' = FALSE /\ missed' = 0
  /\ Stay
  /\ UNCHANGED <<attempt, current, transport, timers, crashes, procs, quit, awaited, crossed>>

\* The deadlines of hello and of activate: what the supervisor holds is killed.
DeadlinePasses(timer, during) ==
  /\ timer \in timers
  /\ timers' = timers \ {timer}
  /\ procs' = IF state = during THEN Killed(procs, transport, "killed") ELSE procs
  /\ Stay
  /\ UNCHANGED <<attempt, current, transport, ping, missed, crashes, quit, awaited, crossed>>

\* The transport's own hello deadline, which is armed first: dead on arrival.
TransportGivesUp(p) ==
  /\ procs[p].life = "alive" /\ procs[p].said = "nothing" /\ procs[p].told # "kill"
  /\ procs' = Killed(procs, p, "spawn-failed")
  /\ Stay
  /\ UNCHANGED <<attempt, current, transport, timers, ping, missed, crashes, quit, awaited, crossed>>

\* Mutant: a ping that is not answered is dropped instead of counted.
BeatUnjudged ==
  /\ "beat" \in timers /\ state = "running"
  /\ IF transport = 0 THEN UNCHANGED <<ping, missed, procs>>
     ELSE /\ UNCHANGED missed
          /\ \/ ping' = ~ping /\ UNCHANGED procs
             \/ ping' = FALSE /\ procs' = Killed(procs, transport, "killed")
  /\ Stay
  /\ UNCHANGED <<attempt, current, transport, timers, crashes, quit, awaited, crossed>>

\* #beat: the last ping is judged, then the memory, then the next ping is sent.
Beat ==
  /\ "beat" \in timers /\ state = "running"
  /\ IF transport = 0 THEN UNCHANGED <<ping, missed, procs>>
     ELSE IF ping /\ missed + 1 >= MaxMissed
     THEN /\ ping' = FALSE /\ missed' = MaxMissed
          /\ procs' = Killed(procs, transport, "killed")
     ELSE /\ missed' = IF ping THEN missed + 1 ELSE missed
          /\ \/ ping' = TRUE /\ UNCHANGED procs
             \/ ping' = FALSE /\ procs' = Killed(procs, transport, "killed")
  /\ Stay
  /\ UNCHANGED <<attempt, current, transport, timers, crashes, quit, awaited, crossed>>

Stable ==
  /\ "stable" \in timers /\ state = "running"
  /\ timers' = timers \ {"stable"} /\ crashes' = 0
  /\ Stay
  /\ UNCHANGED <<attempt, current, transport, ping, missed, procs, quit, awaited, crossed>>

CrashAges ==
  /\ crashes > 0
  /\ crashes' = crashes - 1
  /\ Stay
  /\ UNCHANGED <<attempt, current, transport, watch, procs, quit, awaited, crossed>>

-----------------------------------------------------------------------------
(* The process ends.                                                       *)

ProcessHangs(p) ==
  /\ Speaks(p)
  /\ procs' = [procs EXCEPT ![p].hung = TRUE]
  /\ Stay
  /\ UNCHANGED <<attempt, current, transport, watch, crashes, quit, awaited, crossed>>

\* #onExit, by the reason the transport gives, and #scheduleRestart.
OnExit(reason) ==
  /\ transport' = 0 /\ ping' = FALSE
  /\ IF state \in {"disabled", "backoff", "idle"}
     THEN Stay /\ timers' = timers \cap {"restart"} /\ UNCHANGED <<current, crashes>>
     ELSE IF state = "stopping" \/ reason = "shutdown"
     THEN Go("idle") /\ timers' = timers \cap {"restart"} /\ UNCHANGED <<current, crashes>>
     ELSE IF reason = "spawn-failed"
     THEN Go("disabled") /\ current' = 0 /\ timers' = {} /\ UNCHANGED crashes
     ELSE /\ crashes' = crashes + 1
          /\ IF crashes + 1 >= CrashLimit
             THEN Go("disabled") /\ current' = 0 /\ timers' = {}
             ELSE Go("backoff") /\ timers' = {"restart"} /\ UNCHANGED current

\* A process ends by itself while it turns its loop, and when it is told to; the
\* transport reports it once, to the continuation of the attempt it belongs to.
ProcessExits(p) ==
  /\ procs[p].life = "alive"
  /\ ~procs[p].hung \/ procs[p].told = "kill"
  /\ procs' = [procs EXCEPT ![p] = Gone]
  /\ IF current = p
     THEN OnExit(IF procs[p].intent = "none" THEN "crashed" ELSE procs[p].intent)
     ELSE Stay /\ UNCHANGED <<current, transport, timers, ping, crashes>>
  /\ UNCHANGED <<attempt, missed, quit, awaited, crossed>>

\* The restart timer: start() again.
Restart ==
  /\ "restart" \in timers /\ state = "backoff"
  /\ StartFrom(Go("starting"))
  /\ UNCHANGED <<missed, crashes, quit, awaited, crossed>>

-----------------------------------------------------------------------------
(* stopAll(), once, when the daemon goes.  The control API still answers.  *)

StopAll ==
  /\ quit = "no"
  /\ IF state \in {"disabled", "idle"}
     THEN quit' = "over" /\ Stay /\ UNCHANGED <<current, timers, procs, awaited>>
     ELSE /\ current' = 0 /\ timers' = {}
          /\ IF transport = 0
             THEN quit' = "over" /\ Go("idle") /\ UNCHANGED <<procs, awaited>>
             ELSE /\ quit' = "waiting" /\ awaited' = transport
                  /\ Go("stopping")
                  /\ procs' = IF procs[transport].life # "alive" THEN procs
                              ELSE [procs EXCEPT ![transport].told = IF @ = "kill" THEN @ ELSE "eof",
                                                 ![transport].intent = IF @ = "none" THEN "shutdown" ELSE @]
  /\ UNCHANGED <<attempt, transport, ping, missed, crashes, crossed>>

\* The grace is over: it is killed.
GraceEnds ==
  /\ quit = "waiting" /\ procs[awaited].life = "alive"
  /\ procs' = Killed(procs, awaited, "shutdown")
  /\ Stay
  /\ UNCHANGED <<attempt, current, transport, watch, crashes, quit, awaited, crossed>>

\* The rest of stop(), when the process is gone.
StopReturns ==
  /\ quit = "waiting" /\ procs[awaited].life = "gone"
  /\ crossed' = (transport \notin {0, awaited})
  /\ transport' = 0
  /\ quit' = "over" /\ awaited' = 0
  /\ IF state = "stopping" THEN Go("idle") ELSE Stay
  /\ UNCHANGED <<attempt, current, watch, crashes, procs>>

Next ==
  \/ Start \/ Enable \/ Disable
  \/ \E p \in Attempts :
       \/ FactoryResolves(p) \/ FactoryFails(p)
       \/ Hello(p) \/ WrongHello(p) \/ Activated(p) \/ ActivateFails(p) \/ Pong(p)
       \/ TransportGivesUp(p) \/ ProcessHangs(p) \/ ProcessExits(p)
  \/ DeadlinePasses("hello", "starting") \/ DeadlinePasses("activate", "activating")
  \/ Beat \/ Stable \/ CrashAges \/ Restart
  \/ StopAll \/ GraceEnds \/ StopReturns

\* A timer that stays armed fires, a factory answers, and a kill ends the process.
Fairness ==
  /\ WF_vars(DeadlinePasses("hello", "starting"))
  /\ WF_vars(DeadlinePasses("activate", "activating"))
  /\ WF_vars(Beat) /\ WF_vars(GraceEnds)
  /\ \A p \in Attempts :
       /\ WF_vars(FactoryResolves(p) \/ FactoryFails(p))
       /\ WF_vars(procs[p].told = "kill" /\ ProcessExits(p))

Spec == Init /\ [][Next]_vars
FairSpec == Spec /\ Fairness
-----------------------------------------------------------------------------
(* Properties.                                                             *)

TypeOK ==
  /\ state \in States
  /\ attempt \in 0 .. MaxAttempts /\ current \in 0 .. attempt /\ transport \in 0 .. attempt
  /\ timers \subseteq {"hello", "activate", "beat", "stable", "restart"}
  /\ ping \in BOOLEAN /\ missed \in 0 .. MaxMissed /\ crashes \in 0 .. CrashLimit
  /\ procs \in [Attempts -> Processes]
  /\ quit \in {"no", "waiting", "over"} /\ awaited \in 0 .. attempt
  /\ illegal \subseteq States /\ crossed \in BOOLEAN

\* No process lives that nobody has told to end and that the supervisor does not hold,
\* and it holds none while it says that it is idle, waiting to restart or disabled:
\* whatever starts, stops, disables and late arrivals interleave.  stop() breaks this
\* when it forgets a process that was adopted while it waited (supervisor.ts:600).
NobodyUnwatched ==
  ~crossed =>
    \A p \in Attempts :
      (procs[p].life = "alive" /\ procs[p].told = "nothing") =>
        transport = p /\ current = p /\ state \in {"starting", "activating", "running"}

\* The variables hold what the code keeps in them, and the state machine is never asked for
\* an edge its table does not have (supervisor.ts:79-83), however exits, timers and calls race.
TransitionsAreLegal == TypeOK /\ illegal = {}

\* A process that hangs is ended, by a deadline, the heartbeat, a stop or a disable.
Hung == {p \in Attempts : procs[p].life = "alive" /\ procs[p].hung}
HungIsEnded == Hung # {} ~> (Hung = {} \/ crossed)
=============================================================================
