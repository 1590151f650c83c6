---------------------------- MODULE GraphEngine ----------------------------
(***************************************************************************)
(* The graph engine: what becomes of the runs of one graph.  A trigger     *)
(* fires, the concurrency mode and the ceilings admit a run, queue it or   *)
(* drop it; the walk executes the nodes, parks on a Wait or a breakpoint,  *)
(* and pumps the queue when it ends; a sweep on a timer resumes the waits  *)
(* that are due; a restart gives up what was being walked and picks up the *)
(* rest.  (graphs/engine.ts over the rows of graph_runs.)                  *)
(*                                                                         *)
(* JavaScript runs one piece of code between two awaits, so a step is what *)
(* happens up to the next node that executes: the end of one run and the   *)
(* start of the next queued one are a single step.  The document is a      *)
(* chain of nodes; branches, loops and values are left out, and a node     *)
(* either succeeds or fails the run.  The time of a Wait is a flag that    *)
(* moves from "armed" to "due"; the hour of the ceiling is longer than a   *)
(* life of the daemon.                                                     *)
(***************************************************************************)
EXTENDS Naturals, Sequences, FiniteSets, FiniteSetsExt

CONSTANTS
  Document,     \* the nodes behind the trigger: "act", "break" (one with a breakpoint), "wait"
  Settings,     \* what a graph may be set to: its concurrency and its debug switch
  SkipMissed,   \* onMissed of the Waits is "skip"
  MaxParallel,  \* maxParallelRuns
  MaxQueued,    \* maxQueuedRuns
  MaxPerHour,   \* maxRunsPerHour
  MaxRuns,      \* runs that are ever inserted
  MaxSweeps,    \* sweeps under way at once
  MaxStarts     \* starts of the daemon

ASSUME GraphAssumption ==
  /\ Document \in Seq({"act", "break", "wait"}) /\ Document # <<>>
  /\ Settings \subseteq {"drop", "parallel", "queue"} \X BOOLEAN
  /\ SkipMissed \in BOOLEAN
  /\ {MaxParallel, MaxQueued, MaxPerHour, MaxRuns, MaxSweeps, MaxStarts} \subseteq Nat \ {0}

VARIABLES
  graph,       \* the row of graphs: "on", "off" or "deleted"
  mode,        \* its concurrency
  debug,       \* its debug switch
  rows,        \* graph_runs; a run is numbered by its started_at
  fired,       \* how many runs have been inserted
  walk,        \* #walking: the node a run is executing, 0 if this process is not on it
  sweeps,      \* the calls of resumeDue under way: what they have listed and what they await
  hits,        \* the runs-per-hour window
  engine,      \* "down", "starting", "pumping" or "up"
  starts,      \* how often the daemon has started
  furthest,    \* history: the last node of each run that began to execute
  repeated,    \* history: the runs that executed a node again
  disorder     \* history: "overlapped" if a sweep has begun while another was under way,
               \* "jumped" if a start has pumped the queue past a run that was parked

storeVars == <<graph, mode, debug, rows, fired>>
engineVars == <<walk, sweeps, hits, engine, starts>>
history == <<furthest, repeated, disorder>>
graphVars == <<graph, mode, debug, rows, fired, walk, sweeps, hits, engine, starts,
          furthest, repeated, disorder>>

Runs == 1 .. MaxRuns
Slots == 1 .. MaxSweeps

NoRow == [status |-> "none", pos |-> 0, timer |-> "none", stepping |-> FALSE]
IdleSweep == [todo |-> {}, on |-> 0]

WithStatus(rs, statuses) == {r \in Runs : rs[r].status \in statuses}
\* Mutant: a parked run does not count as live.
LiveUnlessParked(rs) == WithStatus(rs, {"queued", "running"})
Live(rs) == WithStatus(rs, {"queued", "running", "waiting"})
Paused(rs) == {r \in WithStatus(rs, {"waiting"}) : rs[r].timer = "none"}
Due(rs) == {r \in WithStatus(rs, {"waiting"}) : rs[r].timer = "due"}

EngineInit ==
  /\ graph = "on" /\ \E s \in Settings : mode = s[1] /\ debug = s[2]
  /\ rows = [r \in Runs |-> NoRow]
  /\ fired = 0
  /\ walk = [r \in Runs |-> 0]
  /\ sweeps = [k \in Slots |-> IdleSweep]
  /\ hits = 0
  /\ engine = "down" /\ starts = 0
  /\ furthest = [r \in Runs |-> 0] /\ repeated = {} /\ disorder = {}

-----------------------------------------------------------------------------
(* The walk, as functions of the rows and of what is being walked.         *)

Now == [rows |-> rows, walk |-> walk]

\* An UPDATE of a row that is no longer there changes nothing.
Put(s, r, row) == IF s.rows[r].status = "none" THEN s ELSE [s EXCEPT !.rows[r] = row]
Deleted(s, r) == [s EXCEPT !.rows[r] = NoRow, !.walk[r] = 0]

Pauses(row, node, over) ==
  debug /\ ~over /\ (Document[node] = "break" \/ row.stepping)

\* #walkScope reaches a node, with the run's state in row: it stops there, parks
\* behind it, or begins to execute it.
Reach(s, r, row, node, over) ==
  IF Pauses(row, node, over)
  THEN Put([s EXCEPT !.walk[r] = 0], r,
           [row EXCEPT !.status = "waiting", !.pos = node - 1, !.timer = "none"])
  ELSE IF Document[node] = "wait"
  THEN Put([s EXCEPT !.walk[r] = 0], r,
           [row EXCEPT !.status = "waiting", !.pos = node, !.timer = "armed"])
  ELSE Put([s EXCEPT !.walk[r] = node], r,
           [row EXCEPT !.status = "running", !.pos = node - 1, !.timer = "none"])

\* #pumpQueue: the oldest queued run, unless one is running.
Pump(s) ==
  IF WithStatus(s.rows, {"queued"}) = {} \/ WithStatus(s.rows, {"running"}) # {} THEN s
  ELSE LET next == Min(WithStatus(s.rows, {"queued"})) IN Reach(s, next, s.rows[next], 1, FALSE)

\* Mutant: the end of a run does not pump the queue.
EndUnpumped(s, r) == Deleted(s, r)

\* #settle and the pump behind it.
End(s, r) == Pump(Deleted(s, r))

\* #advance from the node behind the ones the row has executed.
Advance(s, r, row, over) ==
  IF row.pos = Len(Document) THEN End(s, r) ELSE Reach(s, r, row, row.pos + 1, over)

\* The run that was started by what led from s to t, other than r, if any.
PumpedBy(s, t, r) ==
  LET begun == {q \in Runs \ {r} : t.walk[q] # 0 /\ s.walk[q] = 0}
  IN IF begun = {} THEN 0 ELSE Min(begun)

\* The step leads to t: nodes that begin to execute are entered in the history.
Becomes(t) ==
  LET begun == {r \in Runs : t.walk[r] # 0 /\ t.walk[r] # walk[r]}
  IN /\ rows' = t.rows /\ walk' = t.walk
     /\ furthest' = [r \in Runs |-> IF r \in begun THEN t.walk[r] ELSE furthest[r]]
     /\ repeated' = repeated \cup {r \in begun : t.walk[r] <= furthest[r]}

-----------------------------------------------------------------------------
(* Fires, and the document's owner.                                        *)

Running == engine # "down"

\* Mutant: the ceilings are off by one.
AdmittedOneMore ==
  CASE mode = "drop" -> Live(rows) = {}
    [] mode = "parallel" -> Cardinality(Live(rows)) <= MaxParallel
    [] mode = "queue" -> Live(rows) # {} => Cardinality(WithStatus(rows, {"queued"})) <= MaxQueued

\* The concurrency questions of fire().
Admitted ==
  CASE mode = "drop" -> Live(rows) = {}
    [] mode = "parallel" -> Cardinality(Live(rows)) < MaxParallel
    [] mode = "queue" -> Live(rows) # {} => Cardinality(WithStatus(rows, {"queued"})) < MaxQueued

\* Bounds: sweeps that overlap exclude the last of the MaxRuns runs, and the debugger.
MayInsert == fired < MaxRuns /\ (fired + 1 = MaxRuns => "overlapped" \notin disorder)
MayOverlap == fired < MaxRuns /\ ~debug

\* fire(): a fire that is not dropped counts for the hour, and the one over the
\* ceiling switches the graph off.
Fire ==
  /\ Running
  /\ graph = "on"
  /\ Admitted
  /\ hits = MaxPerHour \/ MayInsert
  /\ IF hits + 1 > MaxPerHour
     THEN /\ graph' = "off" /\ hits' = 0
          /\ UNCHANGED <<rows, fired, walk, furthest, repeated>>
     ELSE LET r == fired + 1
              inserted(status) == [Now EXCEPT !.rows[r] = [NoRow EXCEPT !.status = status]]
          IN /\ hits' = hits + 1
             /\ fired' = r
             /\ IF mode = "queue" /\ Live(rows) # {}
                THEN Becomes(inserted("queued"))
                ELSE Becomes(Advance(inserted("running"), r, [NoRow EXCEPT !.status = "running"], FALSE))
             /\ UNCHANGED graph
  /\ UNCHANGED <<mode, debug, sweeps, engine, starts, disorder>>

SetEnabled(on) ==
  /\ Running
  /\ graph = IF on THEN "off" ELSE "on"
  /\ graph' = IF on THEN "on" ELSE "off"
  /\ UNCHANGED <<mode, debug, rows, fired, engineVars, history>>

\* deleteGraph(): the rows go with it by foreign key; a walk goes on without one.
DeleteGraph ==
  /\ Running
  /\ graph # "deleted"
  /\ graph' = "deleted"
  /\ rows' = [r \in Runs |-> [NoRow EXCEPT !.stepping = (walk[r] # 0 /\ rows[r].stepping)]]
  /\ hits' = 0
  /\ UNCHANGED <<mode, debug, fired, walk, sweeps, engine, starts, history>>

\* resumeRun(): a run that is paused goes on, past the node it stands on.
ResumeRun(r, step) ==
  /\ Running
  /\ r \in Paused(rows) /\ walk[r] = 0
  /\ Becomes(Advance(Now, r, [rows[r] EXCEPT !.stepping = step], TRUE))
  /\ UNCHANGED <<graph, mode, debug, fired, sweeps, hits, engine, starts, disorder>>

StopRun(r) ==
  /\ Running
  /\ r \in Paused(rows)
  /\ Becomes(End(Now, r))
  /\ UNCHANGED <<graph, mode, debug, fired, sweeps, hits, engine, starts, disorder>>

-----------------------------------------------------------------------------
(* The walk's own steps, and the sweeps.                                   *)

\* Sweeps that wait for r wait for the run its end has started.
Awaiting(r, next) ==
  [k \in Slots |-> IF sweeps[k].on = r THEN [sweeps[k] EXCEPT !.on = next] ELSE sweeps[k]]

\* The provider answers: the state is persisted and the walk reaches the next node,
\* or the run fails.
NodeReturns(r, ok) ==
  /\ walk[r] # 0
  /\ \E row \in {[rows[r] EXCEPT !.pos = walk[r]]} :
     \E t \in {IF ok THEN Advance(Put(Now, r, row), r, row, FALSE) ELSE End(Now, r)} :
       /\ Becomes(t)
       /\ sweeps' = IF t.walk[r] # 0 THEN sweeps ELSE Awaiting(r, PumpedBy(Now, t, r))
  /\ UNCHANGED <<graph, mode, debug, fired, hits, engine, starts, disorder>>

WaitIsDue(r) ==
  /\ rows[r].timer = "armed"
  /\ rows' = [rows EXCEPT ![r].timer = "due"]
  /\ UNCHANGED <<graph, mode, debug, fired, engineVars, history>>

Listed(rs) == {[id |-> r, row |-> rs[r]] : r \in Due(rs)}
UnderWay(k) == sweeps[k] # IdleSweep

\* The interval ticks, whether or not an earlier sweep is still at work.
SweepBegins(k) ==
  /\ engine = "up"
  /\ ~UnderWay(k)
  /\ Due(rows) # {}
  /\ sweeps' = [sweeps EXCEPT ![k].todo = Listed(rows)]
  /\ MayOverlap \/ \A j \in Slots : ~UnderWay(j)
  /\ disorder' = IF \E j \in Slots : UnderWay(j) THEN disorder \cup {"overlapped"} ELSE disorder
  /\ UNCHANGED <<storeVars, walk, hits, engine, starts, furthest, repeated>>

\* #resume of a listed run, by the row as it was listed: a graph that is off or a
\* Wait that was missed (the machine was off or asleep) gives the run up.
Resumed(item, missed) ==
  IF graph = "deleted" THEN Now
  ELSE IF graph = "off" \/ (missed /\ SkipMissed)
  THEN End(Now, item.id)
  ELSE IF rows[item.id].status = "none" THEN Now
  ELSE Advance(Put(Now, item.id, [item.row EXCEPT !.status = "running", !.timer = "none"]),
               item.id, item.row, FALSE)

SweepItem(k) ==
  /\ sweeps[k].on = 0
  /\ \E item \in sweeps[k].todo, missed \in BOOLEAN :
     \E t \in {IF walk[item.id] # 0 THEN Now ELSE Resumed(item, missed)} :
       /\ Becomes(t)
       /\ sweeps' = [sweeps EXCEPT ![k] =
            [todo |-> @.todo \ {item},
             on |-> IF walk[item.id] # 0 THEN 0
                    ELSE IF t.walk[item.id] # 0 THEN item.id ELSE PumpedBy(Now, t, item.id)]]
  /\ UNCHANGED <<graph, mode, debug, fired, hits, engine, starts, disorder>>

-----------------------------------------------------------------------------
(* The life of the engine.                                                 *)

\* Mutants: nothing is reclaimed; what was being walked is picked up again.
ReclaimedNever == rows
ReclaimedToResume ==
  [r \in Runs |-> IF rows[r].status = "running"
                 THEN [rows[r] EXCEPT !.status = "waiting", !.timer = "due"] ELSE rows[r]]

\* start(): what a previous process was walking is given up, not done again.
Reclaimed == [r \in Runs |-> IF rows[r].status = "running" THEN NoRow ELSE rows[r]]

EngineStart ==
  /\ engine = "down"
  /\ starts < MaxStarts
  /\ engine' = "starting" /\ starts' = starts + 1
  /\ rows' = Reclaimed
  /\ sweeps' = [sweeps EXCEPT ![1].todo = Listed(Reclaimed)]
  /\ UNCHANGED <<graph, mode, debug, fired, walk, hits, history>>

\* The backlog is settled: the queue is pumped, and the timer of the sweeps starts
\* when that has ended.
StartPumps ==
  /\ engine = "starting" /\ ~UnderWay(1)
  /\ engine' = "pumping"
  /\ Becomes(Pump(Now))
  /\ sweeps' = [sweeps EXCEPT ![1].on = PumpedBy(Now, Pump(Now), 0)]
  /\ disorder' = IF Pump(Now) # Now /\ WithStatus(rows, {"waiting"}) # {}
                 THEN disorder \cup {"jumped"} ELSE disorder
  /\ UNCHANGED <<graph, mode, debug, fired, hits, starts>>

TimerStarts ==
  /\ engine = "pumping" /\ ~UnderWay(1)
  /\ engine' = "up"
  /\ UNCHANGED <<storeVars, walk, sweeps, hits, starts, history>>

\* The daemon is stopped or killed.  stop() takes the triggers and the timer away and
\* waits for no walk: what is under way goes on until the process is gone.
DaemonEnds ==
  /\ engine # "down"
  /\ engine' = "down" /\ hits' = 0
  /\ walk' = [r \in Runs |-> 0] /\ sweeps' = [k \in Slots |-> IdleSweep]
  /\ UNCHANGED <<storeVars, starts, history>>

EngineNext ==
  \/ Fire \/ DeleteGraph
  \/ \E on \in BOOLEAN : SetEnabled(on)
  \/ \E r \in Runs :
       \/ \E step \in BOOLEAN : ResumeRun(r, step)
       \/ StopRun(r)
       \/ \E ok \in BOOLEAN : NodeReturns(r, ok)
       \/ WaitIsDue(r)
  \/ \E k \in Slots : SweepBegins(k) \/ SweepItem(k)
  \/ EngineStart \/ StartPumps \/ TimerStarts \/ DaemonEnds

\* A node answers at last, time passes, the interval keeps ticking, and what is
\* awaited goes on when it is over.
EngineFairness ==
  /\ \A r \in Runs : WF_graphVars(\E ok \in BOOLEAN : NodeReturns(r, ok)) /\ WF_graphVars(WaitIsDue(r))
  /\ WF_graphVars(\E k \in Slots : SweepBegins(k))
  /\ \A k \in Slots : WF_graphVars(SweepItem(k))
  /\ WF_graphVars(EngineStart) /\ WF_graphVars(StartPumps) /\ WF_graphVars(TimerStarts)

EngineSpec == EngineInit /\ [][EngineNext]_graphVars
FairEngineSpec == EngineSpec /\ EngineFairness
-----------------------------------------------------------------------------
(* Properties.                                                             *)

EngineTypeOK ==
  /\ graph \in {"on", "off", "deleted"} /\ \E s \in Settings : mode = s[1] /\ debug = s[2]
  /\ rows \in [Runs -> [status : {"none", "queued", "running", "waiting"},
                        pos : 0 .. Len(Document),
                        timer : {"none", "armed", "due"}, stepping : BOOLEAN]]
  /\ fired \in 0 .. MaxRuns /\ walk \in [Runs -> 0 .. Len(Document)]
  /\ \A k \in Slots : sweeps[k].on \in 0 .. MaxRuns
  /\ hits \in 0 .. MaxPerHour /\ starts \in 0 .. MaxStarts
  /\ engine \in {"down", "starting", "pumping", "up"}
  /\ repeated \subseteq Runs /\ disorder \subseteq {"overlapped", "jumped"}

\* The rows are well-formed, and a graph never holds more of them than its mode allows,
\* parked runs counted, however fires, resumes, restarts and the debugger interleave.
SlotsRespected ==
  /\ EngineTypeOK
  /\ mode = "drop" => Cardinality(Live(rows)) <= 1
  /\ mode = "parallel" => Cardinality(Live(rows)) <= MaxParallel
  /\ Cardinality(WithStatus(rows, {"queued"})) <= MaxQueued

\* A row says "running" exactly while this process is on the run: a row nobody
\* walks would hold its slot for ever (engine.ts:175-186).
RunningIsWalked ==
  engine # "down" /\ graph # "deleted" =>
    \A r \in Runs : rows[r].status = "running" <=> walk[r] # 0

\* No node of a run is executed twice, also across a kill: losing a run is better
\* than sending its invite again (engine.ts:183-186).  It takes two sweeps at once.
NodesRunOnce == "overlapped" \in disorder \/ repeated = {}

\* In queue mode a run starts only when the ones fired before it are over.  #pumpQueue
\* counts only the runs that are awake, so this fails once a start has pumped past a
\* run that is parked, or a sweep has resumed what another has ended.
FirstInFirstDone ==
  [][(mode = "queue" /\ disorder' = {}) =>
       \A r \in Runs :
         (rows[r].status \in {"none", "queued"} /\ rows'[r].status \in {"running", "waiting"}) =>
           \A q \in 1 .. r - 1 : rows'[q].status = "none"]_graphVars

\* Every fire that was let in comes to an end, unless a run stands on a breakpoint or
\* the daemon goes: the queue is pumped on every path a run can end on.  (There are MaxRuns
\* fires, so a graph whose runs all end comes to rest.)
EveryRunEnds ==
  Live(rows) # {} ~> (Live(rows) = {} \/ Paused(rows) # {} \/ engine = "down")
=============================================================================
