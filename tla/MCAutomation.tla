---------------------------- MODULE MCAutomation ----------------------------
(***************************************************************************)
(* What runs for the user, for TLC: the four machines of the plugin host   *)
(* (the install of a plugin, the supervisor of its process, the events it  *)
(* is sent, the calls between it and the host) and the graph engine, in    *)
(* one state space.  A behaviour is about one part; the calls of the       *)
(* plugin and those of the host are two parts, to keep the product small.  *)
(***************************************************************************)
EXTENDS PluginInstall, PluginSupervisor, EventsBridge, PluginDispatcher, GraphEngine

CONSTANTS sub1, sub2, t1, t2

VARIABLE part   \* what this behaviour is about

mcVars == <<hostVars, vars, bridgeVars, callVars, graphVars, part>>

\* Two questions of one version, and another version.
MCBuilds ==
  {[version |-> 1, question |-> "few", bundle |-> "first"],
   [version |-> 1, question |-> "more", bundle |-> "second"],
   [version |-> 2, question |-> "few", bundle |-> "third"]}

Policy(credits, batch, overflow) == [credits |-> credits, maxBatch |-> batch, overflow |-> overflow]
Asks(sub, policy) == [sub |-> sub, policy |-> policy, wants |-> {t1, t2}, named |-> TRUE]
\* Every way to overflow, a batch that is less than the window, two subscriptions whose
\* queues share the one timer, and a filter without kinds for what may not be readable.
MCFrames ==
  {Asks(sub1, Policy(2, 2, "coalesce")), Asks(sub1, Policy(2, 1, "drop-newest")),
   Asks(sub1, Policy(1, 1, "disconnect")),
   [Asks(sub2, Policy(1, 1, "drop-oldest")) EXCEPT !.wants = {t2}, !.named = FALSE]}
MCGrants == {NoGrant, {t1}, {t1, t2}}

\* A Wait, a node with a breakpoint, and another Wait.
MCDocument == <<"wait", "break", "wait">>
\* Every mode, and the debugger on where a run it holds blocks the next.
MCSettings == {<<"drop", FALSE>>, <<"drop", TRUE>>, <<"parallel", FALSE>>, <<"queue", FALSE>>, <<"queue", TRUE>>}

MCInit ==
  /\ part \in {"install", "supervisor", "bridge", "plugin calls", "host calls", "graph"}
  /\ HostInit /\ Init /\ BridgeInit /\ DispatcherInit /\ EngineInit
  /\ part = "bridge" \/ grant = NoGrant
  /\ part = "graph" \/ (mode = "drop" /\ ~debug)

InstallNext == part = "install" /\ HostNext /\ UNCHANGED <<vars, bridgeVars, callVars, graphVars, part>>
Supervised(action) ==
  part = "supervisor" /\ action /\ UNCHANGED <<hostVars, bridgeVars, callVars, graphVars, part>>
EventsNext == part = "bridge" /\ BridgeNext /\ UNCHANGED <<hostVars, vars, callVars, graphVars, part>>
CallsNext ==
  /\ \/ part = "plugin calls" /\ PluginSide
     \/ part = "host calls" /\ HostSide
  /\ UNCHANGED <<hostVars, vars, bridgeVars, graphVars, part>>
Graphed(action) == part = "graph" /\ action /\ UNCHANGED <<hostVars, vars, bridgeVars, callVars, part>>

MCNext ==
  \/ InstallNext \/ EventsNext \/ Supervised(Next) \/ CallsNext \/ Graphed(EngineNext)

MCSpec ==
  /\ MCInit /\ [][MCNext]_mcVars
  /\ WF_mcVars(Supervised(DeadlinePasses("hello", "starting")))
  /\ WF_mcVars(Supervised(DeadlinePasses("activate", "activating")))
  /\ WF_mcVars(Supervised(Beat)) /\ WF_mcVars(Supervised(GraceEnds))
  /\ \A p \in Attempts :
       /\ WF_mcVars(Supervised(FactoryResolves(p) \/ FactoryFails(p)))
       /\ WF_mcVars(Supervised(procs[p].told = "kill" /\ ProcessExits(p)))
  /\ \A r \in Runs :
       /\ WF_mcVars(Graphed(\E ok \in BOOLEAN : NodeReturns(r, ok)))
       /\ WF_mcVars(Graphed(WaitIsDue(r)))
  /\ WF_mcVars(Graphed(\E k \in Slots : SweepBegins(k)))
  /\ \A k \in Slots : WF_mcVars(Graphed(SweepItem(k)))
  /\ WF_mcVars(Graphed(EngineStart)) /\ WF_mcVars(Graphed(StartPumps)) /\ WF_mcVars(Graphed(TimerStarts))
=============================================================================
