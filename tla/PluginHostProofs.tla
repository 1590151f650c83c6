-------------------------- MODULE PluginHostProofs --------------------------
(***************************************************************************)
(* The host of a plugin: for every set of builds and any number of         *)
(* installs, starts, lives and calls.                                      *)
(***************************************************************************)
EXTENDS PluginInstall, PluginSupervisor, PluginDispatcher, TLAPS

(***************************************************************************)
(* Installing: what the row, the disk and the process say of a plugin      *)
(* agrees.                                                                 *)
(***************************************************************************)
Steps == {"new", "built", "restarted", "asked", "over"}
HostTypeOK ==
  /\ installs \in [Ids -> [step : Steps, build : SUBSET Builds]]
  /\ keeper \in {"none", "idle", "up", "backoff", "disabled"}

\* The process and its restart belong to a plugin that is installed and on.
KeptOnlyIfOn ==
  /\ runs # {} => keeper = "up"
  /\ keeper \in {"up", "backoff"} => Installed /\ ~off

\* An install that has not written its row yet has built something, and its artifact is
\* there, too.
BuiltIsThere ==
  \A i \in Ids : installs[i].step = "built" =>
    installs[i].build # {} /\ BundleOf(installs[i].build) \subseteq files \cup robbed

\* The user's "off" is in the row.
OffIsWritten == wish = "off" => Installed /\ off

HostInv == HostTypeOK /\ KeptOnlyIfOn /\ ArtifactIsThere /\ BuiltIsThere /\ OffIsWritten

-----------------------------------------------------------------------------
\* The processes and the wish, and the artifacts, are disturbed by different actions.
LEMMA InitHolds == HostInit => HostInv
BY DEF HostInit, HostInv, HostTypeOK, KeptOnlyIfOn, ArtifactIsThere, BuiltIsThere, OffIsWritten,
       NotBegun, Steps, BundleOf

LEMMA BundlesOfMore == ASSUME NEW S, NEW T PROVE BundleOf(T) \subseteq BundleOf(S \cup T)
BY DEF BundleOf

\* What start() leaves: a process only of a row that has an artifact.
LEMMA StartLeaves ==
  ASSUME NEW r, NEW fs, NEW k, NEW run, StartOf(r, fs, k, run),
         k \in {"none", "idle", "up", "backoff", "disabled"},
         run # {} => k = "up",
         k \in {"up", "backoff"} => r # {}
  PROVE  /\ keeper' \in {"none", "idle", "up", "backoff", "disabled"}
         /\ runs' # {} => keeper' = "up"
         /\ keeper' \in {"up", "backoff"} => r # {}
BY DEF StartOf, BundleOf

LEMMA EnableLeaves ==
  ASSUME HostTypeOK, KeptOnlyIfOn, NEW fs, EnableOf(row, fs), row' = row
  PROVE  keeper' \in {"none", "idle", "up", "backoff", "disabled"} /\ KeptOnlyIfOn' /\ ~off'
<1> DEFINE k == IF keeper = "disabled" THEN "idle" ELSE keeper
<1>1. k \in {"none", "idle", "up", "backoff", "disabled"} /\ (runs # {} => k = "up")
      /\ (k \in {"up", "backoff"} => row # {})
  BY DEF HostTypeOK, KeptOnlyIfOn, Installed
<1>2. StartOf(row, fs, k, runs) /\ off' = FALSE
  BY DEF EnableOf
<1> HIDE DEF k
<1>3. QED
  BY <1>1, <1>2, StartLeaves DEF KeptOnlyIfOn, Installed

LEMMA StepKeeps == HostInv /\ [HostNext]_hostVars => HostInv'
<1> SUFFICES ASSUME HostInv, [HostNext]_hostVars PROVE HostInv'
  OBVIOUS
<1> USE DEF HostInv
<1>1. CASE StartAll
  <2>1. CASE off \/ ~Installed
    BY <1>1, <2>1 DEF StartAll, HostTypeOK, KeptOnlyIfOn, ArtifactIsThere, BuiltIsThere, OffIsWritten, Installed
  <2>2. CASE ~(off \/ ~Installed)
    <3>1. StartOf(row, files, keeper, runs)
      BY <1>1, <2>2 DEF StartAll
    <3>2. keeper' \in {"none", "idle", "up", "backoff", "disabled"} /\ (runs' # {} => keeper' = "up")
      BY <3>1, StartLeaves DEF HostTypeOK, KeptOnlyIfOn, Installed
    <3>3. QED
      BY <1>1, <2>2, <3>2 DEF StartAll, HostTypeOK, KeptOnlyIfOn, ArtifactIsThere, BuiltIsThere, OffIsWritten, Installed
  <2>3. QED
    BY <2>1, <2>2
<1>2. CASE PluginCrashes
  BY <1>2 DEF PluginCrashes, HostTypeOK, KeptOnlyIfOn, ArtifactIsThere, BuiltIsThere, OffIsWritten, Installed
<1>3. CASE RestartFires
  <2>1. CASE BundleOf(row) \cap files = {}
    BY <1>3, <2>1 DEF RestartFires, HostTypeOK, KeptOnlyIfOn, ArtifactIsThere, BuiltIsThere, OffIsWritten, Installed
  <2>2. CASE BundleOf(row) \cap files # {}
    <3>1. StartOf(row, files, keeper, runs)
      BY <1>3, <2>2 DEF RestartFires
    <3>2. keeper' \in {"none", "idle", "up", "backoff", "disabled"} /\ (runs' # {} => keeper' = "up")
      BY <3>1, StartLeaves DEF HostTypeOK, KeptOnlyIfOn, Installed
    <3>3. QED
      BY <1>3, <3>2 DEF RestartFires, HostTypeOK, KeptOnlyIfOn, ArtifactIsThere, BuiltIsThere, OffIsWritten, Installed
  <2>3. QED
    BY <2>1, <2>2
<1>4. CASE UserEnables
  <2>1. keeper' \in {"none", "idle", "up", "backoff", "disabled"} /\ KeptOnlyIfOn'
    BY <1>4, EnableLeaves DEF UserEnables
  <2>2. QED
    BY <1>4, <2>1 DEF UserEnables, HostTypeOK, ArtifactIsThere, BuiltIsThere, OffIsWritten
<1>5. CASE UserDisables
  BY <1>5 DEF UserDisables, DisableOf, HostTypeOK, KeptOnlyIfOn, ArtifactIsThere, BuiltIsThere, OffIsWritten, Installed
<1>6. CASE Uninstall
  <2>1. BuiltIsThere'
    <3>1. ASSUME NEW i \in Ids, installs'[i].step = "built", NEW x \in BundleOf(installs'[i].build)
          PROVE  x \in robbed'
      BY <1>6, <3>1 DEF Uninstall, BundleOf
    <3>2. QED
      BY <1>6, <3>1 DEF BuiltIsThere, Uninstall
  <2>2. QED
    BY <1>6, <2>1 DEF Uninstall, DisableOf, HostTypeOK, KeptOnlyIfOn, ArtifactIsThere, OffIsWritten, Installed, BundleOf
<1>7. CASE Reboot
  <2>1. installs' \in [Ids -> [step : Steps, build : SUBSET Builds]]
    BY <1>7 DEF Reboot, HostTypeOK, Steps
  <2>2. \A i \in Ids : installs'[i].step # "built"
    BY <1>7 DEF Reboot, HostTypeOK
  <2>3. QED
    BY <1>7, <2>1, <2>2 DEF Reboot, HostTypeOK, KeptOnlyIfOn, ArtifactIsThere, BuiltIsThere, OffIsWritten, Installed
<1>8. ASSUME NEW i \in Ids, Build(i) PROVE HostInv'
  <2>1. CASE To(i, "over") /\ UNCHANGED <<files, robbed>>
    BY <1>8, <2>1 DEF Build, To, Steps, HostTypeOK, KeptOnlyIfOn, ArtifactIsThere, BuiltIsThere, OffIsWritten, Installed
  <2>2. ASSUME NEW b \in Builds,
               installs' = [installs EXCEPT ![i] = [step |-> "built", build |-> {b}]],
               files' = files \cup {b.bundle}, robbed' = robbed \ {b.bundle}
        PROVE  HostInv'
    <3>1. files \cup robbed \subseteq files' \cup robbed'
      BY <2>2
    <3>2. BuiltIsThere'
      BY <2>2, <3>1 DEF BuiltIsThere, HostTypeOK, BundleOf
    <3>3. HostTypeOK'
      BY <1>8, <2>2 DEF Build, HostTypeOK, Steps
    <3>4. QED
      BY <1>8, <3>1, <3>2, <3>3 DEF Build, KeptOnlyIfOn, ArtifactIsThere, OffIsWritten, Installed
  <2>3. QED
    BY <1>8, <2>1, <2>2 DEF Build
<1>9. ASSUME NEW i \in Ids, Record(i) PROVE HostInv'
  <2>1. row' # {} => Installed'
    BY DEF Installed
  <2>2. ArtifactIsThere'
    BY <1>9 DEF Record, ArtifactIsThere, BuiltIsThere
  <2>3. CASE \E b \in installs[i].build : Question(b) \in grants
    <3>1. row' # {} /\ To(i, "restarted") /\ off' = FALSE /\ wish' = "on"
          /\ StartOf(row', files, IF keeper = "none" THEN "none" ELSE "idle", {})
      BY <1>9, <2>3 DEF Record
    <3>2. keeper' \in {"none", "idle", "up", "backoff", "disabled"} /\ (runs' # {} => keeper' = "up")
      BY <3>1, StartLeaves
    <3>3. HostTypeOK' /\ BuiltIsThere'
      BY <1>9, <3>1, <3>2 DEF Record, To, HostTypeOK, BuiltIsThere, Steps
    <3>4. QED
      BY <2>2, <3>1, <3>2, <3>3 DEF KeptOnlyIfOn, OffIsWritten, Installed
  <2>4. CASE ~(\E b \in installs[i].build : Question(b) \in grants)
    <3>1. To(i, "asked") /\ off' = (Installed /\ off) /\ UNCHANGED <<keeper, runs, wish>> /\ row' # {}
      BY <1>9, <2>4 DEF Record, BuiltIsThere
    <3>2. HostTypeOK' /\ BuiltIsThere'
      BY <1>9, <3>1 DEF Record, To, HostTypeOK, BuiltIsThere, Steps
    <3>3. QED
      BY <2>2, <3>1, <3>2 DEF KeptOnlyIfOn, OffIsWritten, Installed
  <2>5. QED
    BY <2>3, <2>4
<1>10. ASSUME NEW i \in Ids, Report(i) PROVE HostInv'
  BY <1>10 DEF Report, To, Steps, HostTypeOK, KeptOnlyIfOn, ArtifactIsThere, BuiltIsThere, OffIsWritten, Installed
<1>11. ASSUME NEW i \in Ids, Deny(i) PROVE HostInv'
  BY <1>11 DEF Deny, To, Steps, HostTypeOK, KeptOnlyIfOn, ArtifactIsThere, BuiltIsThere, OffIsWritten, Installed
<1>12. ASSUME NEW i \in Ids, Approve(i) PROVE HostInv'
  <2>1. CASE ~Installed
    BY <1>12, <2>1 DEF Approve, To, Steps, HostTypeOK, KeptOnlyIfOn, ArtifactIsThere, BuiltIsThere, OffIsWritten, Installed
  <2>2. CASE Installed
    <3>1. PICK b \in installs[i].build :
            /\ files' = files \cap {b.bundle}
            /\ robbed' = robbed \cup (NeededBesides(i) \ {b.bundle})
            /\ EnableOf(row, files')
      BY <1>12, <2>2 DEF Approve
    <3>2. /\ installs' = [installs EXCEPT ![i].step = "over"]
          /\ row' = row /\ wish' = "on"
      BY <1>12, <2>2 DEF Approve, To
    <3>3. ASSUME NEW x \in (files \cup robbed) \cap (NeededBesides(i) \cup {b.bundle})
          PROVE  x \in files' \cup robbed'
      BY <3>1
    <3>4. ArtifactIsThere'
      <4>1. BundleOf(row) \subseteq (files \cup robbed) \cap NeededBesides(i)
        BY BundlesOfMore DEF ArtifactIsThere, NeededBesides
      <4>2. QED
        BY <3>2, <3>3, <4>1 DEF ArtifactIsThere
    <3>5. ASSUME NEW j \in Ids, installs'[j].step = "built", NEW x \in BundleOf(installs'[j].build)
          PROVE  installs'[j].build # {} /\ x \in files' \cup robbed'
      <4>1. j # i /\ installs[j].step = "built" /\ x \in BundleOf(installs[j].build)
            /\ installs'[j].build = installs[j].build
        BY <3>2, <3>5 DEF HostTypeOK
      <4>2. x \in NeededBesides(i)
        BY <4>1 DEF NeededBesides, BundleOf
      <4>3. QED
        BY <3>3, <4>1, <4>2 DEF BuiltIsThere
    <3>6. keeper' \in {"none", "idle", "up", "backoff", "disabled"} /\ KeptOnlyIfOn'
      BY <3>1, <3>2, EnableLeaves
    <3>7. HostTypeOK'
      BY <3>2, <3>6 DEF HostTypeOK, Steps
    <3>8. QED
      BY <3>2, <3>4, <3>5, <3>6, <3>7 DEF BuiltIsThere, OffIsWritten
  <2>3. QED
    BY <2>1, <2>2
<1>13. CASE UNCHANGED hostVars
  BY <1>13 DEF hostVars, HostTypeOK, KeptOnlyIfOn, ArtifactIsThere, BuiltIsThere, OffIsWritten, Installed
<1>14. QED
  BY <1>1, <1>2, <1>3, <1>4, <1>5, <1>6, <1>7, <1>8, <1>9, <1>10, <1>11, <1>12, <1>13 DEF HostNext

\* The inductive invariant of installing, starting, turning off and uninstalling: whatever
\* overlaps, a process or its restart belongs to a plugin that is installed and on.
THEOREM HostInvariant == HostSpec => []HostInv
BY InitHolds, StepKeeps, PTL DEF HostSpec

\* What runs is installed and on, the artifact of the row is on disk unless an overlapping
\* install or uninstall took it, and what the user turned off stays off over a restart
\* (plugin-host.ts, artifact.ts:18, registry.ts:186).
THEOREM HostAgrees == HostSpec => []RowDiskAndProcessAgree
<1>1. HostInv => RowDiskAndProcessAgree
  BY DEF HostInv, KeptOnlyIfOn, OffIsWritten, RowDiskAndProcessAgree, NothingRunsUninstalled, OffStaysOff
<1>2. QED
  BY <1>1, HostInvariant, PTL

-----------------------------------------------------------------------------
(***************************************************************************)
(* The supervisor. The state machine and the watch over processes hold     *)
(* each other up: that a transition is legal follows from which process    *)
(* may still report to whom, and that from the state. IInv is what both    *)
(* need.                                                                   *)
(***************************************************************************)
\* While no process is held, the supervisor carries none.
RestsEmpty == state \in {"idle", "backoff", "disabled"} => transport = 0

\* A factory that is still waited for belongs to a start that has nothing yet.
PendingIsStarting ==
  \A p \in Attempts :
    (procs[p].life = "pending" /\ current = p) => (state = "starting" /\ transport = 0)

\* Whose continuations may still run.
EpochsEnd ==
  /\ state = "disabled" => current = 0
  /\ state = "stopping" => current = 0 /\ quit = "waiting"
  /\ crossed => quit = "over"

\* A window that is full has disabled the plugin.
WindowHasRoom == state # "disabled" => crashes < CrashLimit

IInv ==
  /\ TypeOK /\ illegal = {}
  /\ RestsEmpty /\ PendingIsStarting /\ EpochsEnd /\ WindowHasRoom
  /\ NobodyUnwatched

-----------------------------------------------------------------------------
(* Processes.                                                              *)

\* A process that has been told something is not unwatched.
Unwatched(ps) == {p \in Attempts : ps[p].life = "alive" /\ ps[p].told = "nothing"}

\* kill() keeps the processes well-formed and creates none, and what it was asked
\* to end has been told.
LEMMA KilledEffect ==
  ASSUME NEW ps \in [Attempts -> Processes], NEW p \in 0 .. MaxAttempts,
         NEW intent \in {"killed", "shutdown", "spawn-failed"}
  PROVE  /\ Killed(ps, p, intent) \in [Attempts -> Processes]
         /\ \A q \in Attempts : Killed(ps, p, intent)[q].life = ps[q].life
         /\ Unwatched(Killed(ps, p, intent)) = Unwatched(ps) \ {p}
  <1>1. CASE p = 0 \/ ps[p].life # "alive"
    BY <1>1 DEF Killed, Unwatched, Attempts
  <1>2. CASE p # 0 /\ ps[p].life = "alive"
    <2>1. p \in Attempts
      BY <1>2 DEF Attempts
    <2>2. PICK i \in {"none", "killed", "shutdown", "spawn-failed"} :
            Killed(ps, p, intent) = [ps EXCEPT ![p] = [ps[p] EXCEPT !.told = "kill", !.intent = i]]
      BY <1>2, <2>1 DEF Killed, Processes
    <2>3. [ps[p] EXCEPT !.told = "kill", !.intent = i] \in Processes
      BY <2>1 DEF Processes
    <2> QED
      BY <2>1, <2>2, <2>3 DEF Unwatched, Processes
  <1> QED
    BY <1>1, <1>2

-----------------------------------------------------------------------------
(* The pieces that several actions share.                                  *)

\* The table, edge by edge.
LEMMA Edges ==
  /\ Transitions["idle"] = {"starting", "disabled"}
  /\ Transitions["starting"] = {"activating", "backoff", "idle", "stopping", "disabled"}
  /\ Transitions["activating"] = {"running", "backoff", "idle", "stopping", "disabled"}
  /\ Transitions["running"] = {"stopping", "backoff", "idle", "disabled"}
  /\ Transitions["stopping"] = {"idle", "disabled"}
  /\ Transitions["backoff"] = {"starting", "idle", "disabled"}
  /\ Transitions["disabled"] = {"idle"}
  BY DEF Transitions

\* What IInv says of the processes, in terms of the sets above.
LEMMA Watched ==
  ASSUME IInv
  PROVE  /\ procs \in [Attempts -> Processes]
         /\ ~crossed => \A p \in Unwatched(procs) :
              transport = p /\ current = p /\ state \in {"starting", "activating", "running"}
  BY DEF IInv, TypeOK, NobodyUnwatched, Unwatched

\* #disable() of a plugin that is not disabled leaves nobody unwatched.
LEMMA DisableNowStep ==
  ASSUME IInv, state # "disabled",
         NEW ps \in [Attempts -> Processes], Unwatched(ps) \subseteq Unwatched(procs),
         DisableNow(ps),
         UNCHANGED <<attempt, missed, crashes, quit, awaited, crossed>>
  PROVE  IInv'
  <1>1. /\ procs' \in [Attempts -> Processes]
        /\ Unwatched(procs') \subseteq Unwatched(procs) \ {transport}
    <2>1. transport \in 0 .. MaxAttempts /\ procs' = Killed(ps, transport, "killed")
      BY SupervisorAssumption DEF IInv, TypeOK, DisableNow
    <2> QED
      BY <2>1, KilledEffect
  <1>2. illegal' = {} /\ state' = "disabled"
    BY Edges DEF IInv, TypeOK, DisableNow, Go, States
  <1>3. TypeOK'
    <2>1. ping' \in BOOLEAN /\ crossed' \in BOOLEAN
      BY DEF IInv, TypeOK, DisableNow
    <2> QED
      BY <1>1, <1>2, <2>1 DEF IInv, TypeOK, DisableNow, States
  <1>4. RestsEmpty' /\ PendingIsStarting' /\ EpochsEnd' /\ WindowHasRoom'
    BY DEF IInv, EpochsEnd, RestsEmpty, PendingIsStarting, WindowHasRoom, DisableNow, Go, Attempts
  <1>5. NobodyUnwatched'
    <2>1. ~crossed => Unwatched(procs') = {}
      BY <1>1, Watched
    <2> QED
      BY <2>1 DEF NobodyUnwatched, Unwatched
  <1> QED
    BY <1>2, <1>3, <1>4, <1>5 DEF IInv

\* start() of a plugin that is idle or waits to restart.
LEMMA StartFromStep ==
  ASSUME IInv, state \in {"idle", "backoff"},
         StartFrom(Go("starting")),
         UNCHANGED <<missed, crashes, quit, awaited, crossed>>
  PROVE  IInv'
  <1>0. /\ procs \in [Attempts -> Processes] /\ transport = 0
        /\ attempt \in Nat /\ attempt + 1 \in Attempts
    BY SupervisorAssumption DEF IInv, TypeOK, RestsEmpty, StartFrom, Attempts
  <1>z. ~crossed => Unwatched(procs) = {}
    BY Watched
  <1>1. CASE /\ current' = attempt + 1
             /\ procs' = [procs EXCEPT ![attempt + 1].life = "pending"]
             /\ timers' = timers \ {"restart"}
             /\ Go("starting")
             /\ UNCHANGED <<transport, ping>>
    <2>1. procs' \in [Attempts -> Processes] /\ Unwatched(procs') \subseteq Unwatched(procs)
      BY <1>0, <1>1 DEF Processes, Unwatched
    <2>2. illegal' = {} /\ state' = "starting"
      BY <1>1, Edges DEF IInv, Go
    <2>3. TypeOK'
      BY <1>0, <1>1, <2>1, <2>2 DEF IInv, TypeOK, StartFrom, States, Attempts
    <2>4. RestsEmpty' /\ PendingIsStarting' /\ EpochsEnd' /\ WindowHasRoom'
      BY <1>0, <1>1 DEF IInv, RestsEmpty, PendingIsStarting, EpochsEnd, WindowHasRoom, Go
    <2>5. NobodyUnwatched'
      BY <1>z, <2>1 DEF NobodyUnwatched, Unwatched
    <2> QED
      BY <2>2, <2>3, <2>4, <2>5 DEF IInv
  <1>2. CASE /\ current' = 0
             /\ procs' = Killed(procs, transport, "killed")
             /\ transport' = 0 /\ timers' = {} /\ ping' = FALSE
             /\ GoBy("starting", "disabled")
    <2>1. procs' = procs
      BY <1>0, <1>2 DEF Killed
    <2>2. illegal' = {} /\ state' = "disabled"
      BY <1>2, Edges DEF IInv, GoBy
    <2>3. TypeOK'
      <3>1. ping' \in BOOLEAN /\ crossed' \in BOOLEAN
        BY <1>2 DEF IInv, TypeOK
      <3> QED
        BY <1>0, <1>2, <2>1, <2>2, <3>1 DEF IInv, TypeOK, StartFrom, States, Attempts
    <2>4. RestsEmpty' /\ PendingIsStarting' /\ EpochsEnd' /\ WindowHasRoom'
      BY <1>2 DEF IInv, RestsEmpty, PendingIsStarting, EpochsEnd, WindowHasRoom, GoBy, Attempts
    <2>5. NobodyUnwatched'
      BY <1>z, <2>1 DEF NobodyUnwatched, Unwatched
    <2> QED
      BY <2>2, <2>3, <2>4, <2>5 DEF IInv
  <1> QED
    BY <1>1, <1>2 DEF StartFrom

-----------------------------------------------------------------------------
(* The invariant is kept.                                                  *)

LEMMA InitIsIInv == Init => IInv
  <1>1. ASSUME Init PROVE TypeOK
    <2>1. procs \in [Attempts -> Processes]
      BY <1>1 DEF Init, NoProcess, Processes
    <2>2. ping \in BOOLEAN /\ crossed \in BOOLEAN
      BY <1>1 DEF Init
    <2> QED
      BY <1>1, <2>1, <2>2, SupervisorAssumption DEF Init, TypeOK, States
  <1>2. Init => illegal = {} /\ RestsEmpty /\ PendingIsStarting /\ EpochsEnd /\ WindowHasRoom
    BY SupervisorAssumption
    DEF Init, NoProcess, RestsEmpty, PendingIsStarting, EpochsEnd, WindowHasRoom, Attempts
  <1>3. Init => NobodyUnwatched
    BY DEF Init, NoProcess, NobodyUnwatched
  <1> QED
    BY <1>1, <1>2, <1>3 DEF IInv

\* A step that leaves the state machine and the processes alone but for one that is
\* told to end, hangs or speaks.
LEMMA QuietStep ==
  ASSUME IInv, Stay,
         procs' \in [Attempts -> Processes],
         \A p \in Attempts : procs'[p].life = procs[p].life,
         Unwatched(procs') \subseteq Unwatched(procs),
         timers' \subseteq timers, ping' \in BOOLEAN, missed' \in 0 .. MaxMissed,
         crashes' \in 0 .. crashes,
         UNCHANGED <<attempt, current, transport, quit, awaited, crossed>>
  PROVE  IInv'
  <1>1. TypeOK'
    BY SupervisorAssumption DEF IInv, TypeOK, Stay
  <1>2. illegal' = {} /\ RestsEmpty' /\ EpochsEnd' /\ WindowHasRoom'
    BY SupervisorAssumption DEF IInv, TypeOK, RestsEmpty, EpochsEnd, WindowHasRoom, Stay
  <1>3. PendingIsStarting'
    BY DEF IInv, PendingIsStarting, Stay
  <1>4. NobodyUnwatched'
    <2>1. ~crossed => \A p \in Unwatched(procs') :
            transport = p /\ current = p /\ state \in {"starting", "activating", "running"}
      BY Watched
    <2> QED
      BY <2>1 DEF NobodyUnwatched, Unwatched, Stay
  <1> QED
    BY <1>1, <1>2, <1>3, <1>4 DEF IInv

\* What a process says, or that it hangs, changes nothing of the watch over it.
LEMMA SpokenEffect ==
  ASSUME procs \in [Attempts -> Processes], NEW p \in Attempts,
         NEW ps, \/ \E said \in {"hello", "active"} : ps = [procs EXCEPT ![p].said = said]
                \/ ps = [procs EXCEPT ![p].hung = TRUE]
  PROVE  /\ ps \in [Attempts -> Processes]
         /\ \A q \in Attempts : ps[q].life = procs[q].life
         /\ Unwatched(ps) = Unwatched(procs)
  <1>1. CASE ps = [procs EXCEPT ![p].hung = TRUE]
    BY <1>1, ZenonT(60) DEF Processes, Unwatched
  <1>2. ASSUME NEW said \in {"hello", "active"}, ps = [procs EXCEPT ![p].said = said]
        PROVE  /\ ps \in [Attempts -> Processes]
               /\ \A q \in Attempts : ps[q].life = procs[q].life
               /\ Unwatched(ps) = Unwatched(procs)
    BY <1>2 DEF Processes, Unwatched
  <1> QED
    BY <1>1, <1>2

LEMMA EnableStep == ASSUME IInv, Enable PROVE IInv'
  <1>1. CASE state # "disabled"
    BY <1>1, StartFromStep DEF Enable, EnableDisabled
  <1>2. CASE state = "disabled"
    <2>0. /\ procs \in [Attempts -> Processes] /\ transport = 0
          /\ attempt \in Nat /\ current = 0
          /\ attempt < MaxAttempts => attempt + 1 \in Attempts
          /\ EnableDisabled
          /\ UNCHANGED <<transport, timers, ping, missed, quit, awaited, crossed>>
          /\ crashes' = 0
      <3>1. procs \in [Attempts -> Processes] /\ transport = 0 /\ attempt \in Nat /\ current = 0
        BY <1>2 DEF IInv, TypeOK, RestsEmpty, EpochsEnd, Attempts
      <3>2. attempt < MaxAttempts => attempt + 1 \in Attempts
        BY <3>1, SupervisorAssumption DEF Attempts
      <3>3. EnableDisabled /\ UNCHANGED <<missed, quit, awaited, crossed>>
        BY <1>2 DEF Enable
      <3>4. UNCHANGED <<transport, timers, ping>> /\ crashes' = 0
        BY <3>3 DEF EnableDisabled
      <3> QED
        BY <3>1, <3>2, <3>3, <3>4
    <2>1. ~crossed => Unwatched(procs) = {}
      BY <1>2, Watched
    <2>2. CASE /\ attempt < MaxAttempts /\ attempt' = attempt + 1 /\ current' = attempt + 1
               /\ procs' = [procs EXCEPT ![attempt + 1].life = "pending"]
               /\ GoBy("idle", "starting")
      <3>1. procs' \in [Attempts -> Processes] /\ Unwatched(procs') \subseteq Unwatched(procs)
        BY <2>0, <2>2 DEF Processes, Unwatched
      <3>2. illegal' = {} /\ state' = "starting"
        BY <1>2, <2>2, Edges DEF IInv, GoBy
      <3>3. TypeOK'
        BY <1>2, <2>0, <2>2, <3>1, <3>2, SupervisorAssumption DEF IInv, TypeOK, States, Attempts
      <3>4. RestsEmpty' /\ PendingIsStarting' /\ EpochsEnd' /\ WindowHasRoom'
        BY <1>2, <2>0, <2>2, <3>2, SupervisorAssumption
        DEF IInv, RestsEmpty, PendingIsStarting, EpochsEnd, WindowHasRoom
      <3>5. NobodyUnwatched'
        BY <2>0, <2>1, <3>1 DEF NobodyUnwatched, Unwatched
      <3> QED
        BY <3>2, <3>3, <3>4, <3>5 DEF IInv
    <2>3. CASE /\ attempt < MaxAttempts /\ attempt' = attempt + 1 /\ current' = 0
               /\ UNCHANGED <<procs, state, illegal>>
      <3>1. TypeOK'
        BY <1>2, <2>0, <2>3, SupervisorAssumption DEF IInv, TypeOK, States, Attempts
      <3>2. illegal' = {} /\ RestsEmpty' /\ PendingIsStarting' /\ EpochsEnd' /\ WindowHasRoom'
        BY <1>2, <2>0, <2>3, SupervisorAssumption
        DEF IInv, RestsEmpty, PendingIsStarting, EpochsEnd, WindowHasRoom, Attempts
      <3>3. NobodyUnwatched'
        BY <2>0, <2>1, <2>3 DEF NobodyUnwatched, Unwatched
      <3> QED
        BY <3>1, <3>2, <3>3 DEF IInv
    <2>4. CASE Go("idle") /\ UNCHANGED <<attempt, current, procs>>
      <3>1. illegal' = {} /\ state' = "idle"
        BY <1>2, <2>4, Edges DEF IInv, Go
      <3>2. TypeOK'
        BY <2>0, <2>4, <3>1, SupervisorAssumption DEF IInv, TypeOK, States, Attempts
      <3>3. RestsEmpty' /\ PendingIsStarting' /\ EpochsEnd' /\ WindowHasRoom'
        BY <1>2, <2>0, <2>4, <3>1, SupervisorAssumption
        DEF IInv, RestsEmpty, PendingIsStarting, EpochsEnd, WindowHasRoom, Attempts
      <3>4. NobodyUnwatched'
        BY <2>0, <2>1, <2>4 DEF NobodyUnwatched, Unwatched
      <3> QED
        BY <3>1, <3>2, <3>3, <3>4 DEF IInv
    <2> QED
      BY <2>0, <2>2, <2>3, <2>4 DEF EnableDisabled
  <1> QED
    BY <1>1, <1>2

\* A process that arrives is adopted by the start that asked for it, which has nothing
\* else in hand, or is killed.
LEMMA FactoryResolvesStep ==
  ASSUME IInv, NEW p \in Attempts, FactoryResolves(p) PROVE IInv'
  <1> DEFINE born == [procs EXCEPT ![p].life = "alive"]
  <1>0. procs \in [Attempts -> Processes]
    BY Watched
  <1>1. /\ born \in [Attempts -> Processes]
        /\ Unwatched(born) \subseteq Unwatched(procs) \cup {p}
        /\ \A q \in Attempts : born[q].life = "pending" => procs[q].life = "pending" /\ q # p
    BY <1>0 DEF Processes, Unwatched
  <1> HIDE DEF born
  <1>2. CASE current = p
    <2>1. state = "starting" /\ transport = 0
      BY <1>2 DEF IInv, PendingIsStarting, FactoryResolves
    <2>2. /\ procs' = born /\ transport' = p /\ timers' = timers \cup {"hello"}
          /\ UNCHANGED <<state, illegal, attempt, current, ping, missed, crashes, quit, awaited, crossed>>
      BY <1>2 DEF FactoryResolves, Stay, born
    <2>3. TypeOK'
      BY <1>1, <1>2, <2>2 DEF IInv, TypeOK
    <2>4. illegal' = {} /\ RestsEmpty' /\ PendingIsStarting' /\ EpochsEnd' /\ WindowHasRoom'
      BY <1>1, <1>2, <2>1, <2>2 DEF IInv, RestsEmpty, PendingIsStarting, EpochsEnd, WindowHasRoom
    <2>5. NobodyUnwatched'
      <3>1. ~crossed => Unwatched(procs) = {}
        BY <2>1, Watched DEF Attempts, Unwatched
      <3> QED
        BY <1>1, <1>2, <2>1, <2>2, <3>1 DEF NobodyUnwatched, Unwatched
    <2> QED
      BY <2>3, <2>4, <2>5 DEF IInv
  <1>3. CASE current # p
    <2>1. /\ procs' = Killed(born, p, "killed")
          /\ UNCHANGED <<state, illegal, attempt, current, transport, timers, ping, missed, crashes, quit, awaited, crossed>>
      BY <1>3 DEF FactoryResolves, Stay, born
    <2>2. /\ procs' \in [Attempts -> Processes]
          /\ \A q \in Attempts : procs'[q].life = born[q].life
          /\ Unwatched(procs') \subseteq Unwatched(procs)
      <3>1. p \in 0 .. MaxAttempts
        BY SupervisorAssumption DEF Attempts
      <3> QED
        BY <1>1, <2>1, <3>1, KilledEffect
    <2>3. TypeOK'
      BY <2>1, <2>2 DEF IInv, TypeOK
    <2>4. illegal' = {} /\ RestsEmpty' /\ PendingIsStarting' /\ EpochsEnd' /\ WindowHasRoom'
      BY <1>1, <2>1, <2>2 DEF IInv, RestsEmpty, PendingIsStarting, EpochsEnd, WindowHasRoom
    <2>5. NobodyUnwatched'
      BY <2>1, <2>2, Watched DEF NobodyUnwatched, Unwatched
    <2> QED
      BY <2>3, <2>4, <2>5 DEF IInv
  <1> QED
    BY <1>2, <1>3

LEMMA FactoryFailsStep ==
  ASSUME IInv, NEW p \in Attempts, FactoryFails(p) PROVE IInv'
  <1> DEFINE stillborn == [procs EXCEPT ![p] = Gone]
  <1>0. procs \in [Attempts -> Processes]
    BY Watched
  <1>1. /\ stillborn \in [Attempts -> Processes]
        /\ Unwatched(stillborn) \subseteq Unwatched(procs)
        /\ \A q \in Attempts : stillborn[q].life = "pending" => procs[q].life = "pending"
    BY <1>0 DEF Processes, Unwatched, Gone, NoProcess
  <1> HIDE DEF stillborn
  <1>2. CASE current = p
    <2>1. state # "disabled"
      BY <1>2 DEF IInv, EpochsEnd, Attempts
    <2>2. DisableNow(stillborn) /\ UNCHANGED <<attempt, missed, crashes, quit, awaited, crossed>>
      BY <1>2 DEF FactoryFails, stillborn
    <2> QED
      BY <1>1, <2>1, <2>2, DisableNowStep
  <1>3. CASE current # p
    <2>1. /\ procs' = stillborn
          /\ UNCHANGED <<state, illegal, attempt, current, transport, timers, ping, missed, crashes, quit, awaited, crossed>>
      BY <1>3 DEF FactoryFails, Stay, stillborn
    <2>2. TypeOK'
      BY <1>1, <2>1 DEF IInv, TypeOK
    <2>3. illegal' = {} /\ RestsEmpty' /\ PendingIsStarting' /\ EpochsEnd' /\ WindowHasRoom'
      BY <1>1, <2>1 DEF IInv, RestsEmpty, PendingIsStarting, EpochsEnd, WindowHasRoom
    <2>4. NobodyUnwatched'
      BY <1>1, <2>1, Watched DEF NobodyUnwatched, Unwatched
    <2> QED
      BY <2>2, <2>3, <2>4 DEF IInv
  <1> QED
    BY <1>2, <1>3

\* The steps of a process that the supervisor listens to.
LEMMA HelloStep == ASSUME IInv, NEW p \in Attempts, Hello(p) PROVE IInv'
  <1>1. /\ procs' \in [Attempts -> Processes]
        /\ \A q \in Attempts : procs'[q].life = procs[q].life
        /\ Unwatched(procs') = Unwatched(procs)
    BY Watched, SpokenEffect DEF Hello
  <1>2. CASE Stay /\ timers' \subseteq timers
    <2>1. ping' \in BOOLEAN /\ missed' \in 0 .. MaxMissed /\ crashes' \in 0 .. crashes
      BY DEF IInv, TypeOK, Hello
    <2> QED
      BY <1>1, <1>2, <2>1, QuietStep DEF Hello
  <1>3. CASE /\ current = p /\ state = "starting" /\ transport # 0
             /\ Go("activating") /\ timers' = (timers \ {"hello"}) \cup {"activate"}
    <2>1. illegal' = {} /\ state' = "activating"
      BY <1>3, Edges DEF IInv, Go
    <2>2. TypeOK'
      BY <1>1, <1>3, <2>1 DEF IInv, TypeOK, Hello, States
    <2>3. RestsEmpty' /\ PendingIsStarting' /\ EpochsEnd' /\ WindowHasRoom'
      BY <1>1, <1>3, <2>1 DEF IInv, RestsEmpty, PendingIsStarting, EpochsEnd, WindowHasRoom, Hello, Speaks
    <2>4. NobodyUnwatched'
      BY <1>1, <2>1, Watched DEF NobodyUnwatched, Unwatched, Hello
    <2> QED
      BY <2>1, <2>2, <2>3, <2>4 DEF IInv
  <1> QED
    BY <1>2, <1>3 DEF Hello

LEMMA WrongHelloStep == ASSUME IInv, NEW p \in Attempts, WrongHello(p) PROVE IInv'
  <1>1. /\ [procs EXCEPT ![p].said = "hello"] \in [Attempts -> Processes]
        /\ Unwatched([procs EXCEPT ![p].said = "hello"]) = Unwatched(procs)
    BY Watched, SpokenEffect
  <1> QED
    BY <1>1, DisableNowStep DEF WrongHello

LEMMA ActivatedStep == ASSUME IInv, NEW p \in Attempts, Activated(p) PROVE IInv'
  <1>1. /\ procs' \in [Attempts -> Processes]
        /\ \A q \in Attempts : procs'[q].life = procs[q].life
        /\ Unwatched(procs') = Unwatched(procs)
    BY Watched, SpokenEffect DEF Activated
  <1>2. illegal' = {} /\ state' = "running"
    BY Edges DEF IInv, Activated, Go
  <1>3. TypeOK'
    <2>1. missed' \in 0 .. MaxMissed
      BY SupervisorAssumption DEF Activated
    <2>2. ping' \in BOOLEAN
      BY DEF Activated
    <2> QED
      BY <1>1, <1>2, <2>1, <2>2 DEF IInv, TypeOK, Activated, States
  <1>4. RestsEmpty' /\ PendingIsStarting' /\ EpochsEnd' /\ WindowHasRoom'
    BY <1>1, <1>2 DEF IInv, RestsEmpty, PendingIsStarting, EpochsEnd, WindowHasRoom, Activated, Speaks
  <1>5. NobodyUnwatched'
    BY <1>1, <1>2, Watched DEF NobodyUnwatched, Unwatched, Activated
  <1> QED
    BY <1>2, <1>3, <1>4, <1>5 DEF IInv

\* Whatever only asks what the supervisor holds to end, or p itself.
LEMMA KillingStep ==
  ASSUME IInv, Stay,
         NEW ps \in [Attempts -> Processes], Unwatched(ps) = Unwatched(procs),
         \A q \in Attempts : ps[q].life = procs[q].life,
         NEW p \in 0 .. MaxAttempts, NEW intent \in {"killed", "shutdown", "spawn-failed"},
         procs' = ps \/ procs' = Killed(ps, p, intent),
         timers' \subseteq timers, ping' \in BOOLEAN, missed' \in 0 .. MaxMissed,
         UNCHANGED <<attempt, current, transport, crashes, quit, awaited, crossed>>
  PROVE  IInv'
  <1>1. /\ procs' \in [Attempts -> Processes]
        /\ \A q \in Attempts : procs'[q].life = procs[q].life
        /\ Unwatched(procs') \subseteq Unwatched(procs)
    BY KilledEffect
  <1>2. crashes' \in 0 .. crashes
    BY SupervisorAssumption DEF IInv, TypeOK
  <1> QED
    BY <1>1, <1>2, QuietStep

\* stop(), as far as its await.
LEMMA StopAllStep == ASSUME IInv, StopAll PROVE IInv'
  <1>0. procs \in [Attempts -> Processes]
    BY Watched
  <1>1. CASE state \in {"disabled", "idle"}
    <2>1. TypeOK' /\ illegal' = {} /\ RestsEmpty' /\ PendingIsStarting' /\ EpochsEnd' /\ WindowHasRoom'
      BY <1>1 DEF IInv, TypeOK, RestsEmpty, PendingIsStarting, EpochsEnd, WindowHasRoom, StopAll, Stay
    <2>2. NobodyUnwatched'
      BY <1>1 DEF IInv, NobodyUnwatched, StopAll, Stay
    <2> QED
      BY <2>1, <2>2 DEF IInv
  <1>2. CASE state \notin {"disabled", "idle"} /\ transport = 0
    <2>1. illegal' = {} /\ state' = "idle" /\ current' = 0 /\ timers' = {} /\ quit' = "over"
      BY <1>2, Edges DEF IInv, TypeOK, States, StopAll, Go
    <2>2. TypeOK' /\ RestsEmpty' /\ PendingIsStarting' /\ EpochsEnd' /\ WindowHasRoom'
      BY <1>2, <2>1 DEF IInv, TypeOK, RestsEmpty, PendingIsStarting, EpochsEnd, WindowHasRoom, StopAll, States, Attempts
    <2>3. NobodyUnwatched'
      BY <1>2, <2>1 DEF IInv, NobodyUnwatched, StopAll, Attempts
    <2> QED
      BY <2>1, <2>2, <2>3 DEF IInv
  <1>3. CASE state \notin {"disabled", "idle"} /\ transport # 0
    <2>0. transport \in Attempts
      BY <1>3, SupervisorAssumption DEF IInv, TypeOK, Attempts
    <2>1. /\ illegal' = {} /\ state' = "stopping" /\ current' = 0 /\ timers' = {}
          /\ quit' = "waiting" /\ awaited' = transport
      <3>1. state \in {"starting", "activating", "running"}
        BY <1>3 DEF IInv, TypeOK, States, RestsEmpty, EpochsEnd, StopAll
      <3> QED
        BY <1>3, <3>1, Edges DEF IInv, StopAll, Go
    <2>2. /\ procs' \in [Attempts -> Processes]
          /\ Unwatched(procs') \subseteq Unwatched(procs) \ {transport}
      <3>1. CASE procs[transport].life # "alive"
        BY <1>0, <1>3, <2>0, <3>1 DEF StopAll, Unwatched
      <3>2. CASE procs[transport].life = "alive"
        <4> DEFINE told == IF procs[transport].told = "kill" THEN procs[transport].told ELSE "eof"
                   intent == IF procs[transport].intent = "none" THEN "shutdown" ELSE procs[transport].intent
        <4>1. procs' = [procs EXCEPT ![transport] =
                          [procs[transport] EXCEPT !.told = told, !.intent = intent]]
          BY <1>0, <1>3, <2>0, <3>2 DEF StopAll, Processes
        <4>2. [procs[transport] EXCEPT !.told = told, !.intent = intent] \in Processes
          BY <1>0, <2>0 DEF Processes
        <4> QED
          BY <1>0, <2>0, <4>1, <4>2 DEF Unwatched, Processes
      <3> QED
        BY <3>1, <3>2
    <2>3. TypeOK'
      BY <2>0, <2>1, <2>2 DEF IInv, TypeOK, StopAll, States
    <2>4. RestsEmpty' /\ PendingIsStarting' /\ EpochsEnd' /\ WindowHasRoom'
      BY <2>1, <1>3 DEF IInv, RestsEmpty, PendingIsStarting, EpochsEnd, WindowHasRoom, StopAll, Attempts
    <2>5. NobodyUnwatched'
      <3>1. ~crossed => Unwatched(procs') = {}
        BY <2>2, Watched
      <3> QED
        BY <3>1 DEF NobodyUnwatched, Unwatched, StopAll
    <2> QED
      BY <2>1, <2>3, <2>4, <2>5 DEF IInv
  <1> QED
    BY <1>1, <1>2, <1>3

LEMMA StopReturnsStep == ASSUME IInv, StopReturns PROVE IInv'
  <1>1. illegal' = {} /\ state' = (IF state = "stopping" THEN "idle" ELSE state)
    BY Edges DEF IInv, StopReturns, Go, Stay
  <1>2. TypeOK'
    <2>1. crossed' \in BOOLEAN
      BY DEF StopReturns
    <2> QED
      BY <1>1, <2>1 DEF IInv, TypeOK, StopReturns, watch, States
  <1>3. RestsEmpty' /\ PendingIsStarting' /\ EpochsEnd' /\ WindowHasRoom'
    BY <1>1 DEF IInv, RestsEmpty, PendingIsStarting, EpochsEnd, WindowHasRoom, StopReturns, watch
  <1>4. NobodyUnwatched'
    <2>1. ~crossed
      BY DEF IInv, EpochsEnd, StopReturns
    <2>2. ~crossed' => transport \in {0, awaited}
      BY DEF StopReturns
    <2>3. transport \in {0, awaited} => Unwatched(procs) = {}
      BY <2>1, Watched DEF StopReturns, Unwatched, Attempts
    <2> QED
      BY <2>2, <2>3 DEF NobodyUnwatched, Unwatched, StopReturns
  <1> QED
    BY <1>1, <1>2, <1>3, <1>4 DEF IInv

-----------------------------------------------------------------------------
(* The exit of a process.                                                  *)

\* What a process leaves behind: nothing to watch.
LEMMA GoneEffect ==
  ASSUME procs \in [Attempts -> Processes], NEW p \in Attempts,
         procs' = [procs EXCEPT ![p] = Gone]
  PROVE  /\ procs' \in [Attempts -> Processes]
         /\ Unwatched(procs') = Unwatched(procs) \ {p}
         /\ \A q \in Attempts : procs'[q].life = "pending" => procs[q].life = "pending" /\ q # p
  BY DEF Processes, Unwatched, Gone, NoProcess

\* #onExit goes along an edge of the table, or stays where no process is expected.
LEMMA OnExitEffect ==
  ASSUME IInv, NEW reason, OnExit(reason)
  PROVE  /\ illegal' = {} /\ transport' = 0 /\ ping' = FALSE
         /\ timers' \subseteq {"hello", "activate", "beat", "stable", "restart"}
         /\ state' \in {"idle", "backoff", "disabled"}
         /\ current' \in {0, current}
         /\ state' = "disabled" => current' = 0 \/ state = "disabled"
         /\ crashes' \in 0 .. CrashLimit
         /\ state' # "disabled" => crashes' < CrashLimit
  <1>0. state \in States /\ illegal = {} /\ crashes \in 0 .. CrashLimit /\ CrashLimit \in Nat
        /\ timers \subseteq {"hello", "activate", "beat", "stable", "restart"}
        /\ (state # "disabled" => crashes < CrashLimit)
    BY SupervisorAssumption DEF IInv, TypeOK, WindowHasRoom
  <1>1. CASE state \in {"disabled", "backoff", "idle"}
    BY <1>0, <1>1 DEF OnExit, Stay
  <1>2. CASE state \notin {"disabled", "backoff", "idle"} /\ (state = "stopping" \/ reason = "shutdown")
    BY <1>0, <1>2, Edges DEF OnExit, Go, States
  <1>3. CASE /\ state \notin {"disabled", "backoff", "idle"}
             /\ ~(state = "stopping" \/ reason = "shutdown")
             /\ reason = "spawn-failed"
    BY <1>0, <1>3, Edges DEF OnExit, Go, States
  <1>4. CASE /\ state \notin {"disabled", "backoff", "idle"}
             /\ ~(state = "stopping" \/ reason = "shutdown")
             /\ reason # "spawn-failed"
    BY <1>0, <1>4, Edges DEF OnExit, Go, States
  <1> QED
    BY <1>1, <1>2, <1>3, <1>4

LEMMA ProcessExitsStep == ASSUME IInv, NEW p \in Attempts, ProcessExits(p) PROVE IInv'
  <1>1. /\ procs' \in [Attempts -> Processes]
        /\ Unwatched(procs') = Unwatched(procs) \ {p}
        /\ \A q \in Attempts : procs'[q].life = "pending" => procs[q].life = "pending" /\ q # p
    BY Watched, GoneEffect DEF ProcessExits
  <1>2. CASE current # p
    <2>1. /\ UNCHANGED <<state, illegal, current, transport, timers, ping, crashes,
                        attempt, missed, quit, awaited, crossed>>
      BY <1>2 DEF ProcessExits, Stay
    <2>2. TypeOK'
      BY <1>1, <2>1 DEF IInv, TypeOK
    <2>3. illegal' = {} /\ RestsEmpty' /\ PendingIsStarting' /\ EpochsEnd' /\ WindowHasRoom'
      BY <1>1, <2>1 DEF IInv, RestsEmpty, PendingIsStarting, EpochsEnd, WindowHasRoom
    <2>4. NobodyUnwatched'
      BY <1>1, <2>1, Watched DEF NobodyUnwatched, Unwatched
    <2> QED
      BY <2>2, <2>3, <2>4 DEF IInv
  <1>3. CASE current = p
    <2>1. PICK reason : OnExit(reason)
      BY <1>3 DEF ProcessExits
    <2>2. UNCHANGED <<attempt, missed, quit, awaited, crossed>>
      BY DEF ProcessExits
    <2>3. /\ illegal' = {} /\ transport' = 0
          /\ timers' \subseteq {"hello", "activate", "beat", "stable", "restart"}
          /\ state' \in {"idle", "backoff", "disabled"} /\ current' \in {0, current}
          /\ state' = "disabled" => current' = 0 \/ state = "disabled"
          /\ crashes' \in 0 .. CrashLimit /\ (state' # "disabled" => crashes' < CrashLimit)
      BY <2>1, OnExitEffect
    <2>4. ping' \in BOOLEAN
      <3>1. ping' = FALSE
        BY <2>1, OnExitEffect
      <3> QED
        BY <3>1
    <2>5. TypeOK' /\ RestsEmpty' /\ WindowHasRoom'
      BY <1>1, <2>2, <2>3, <2>4 DEF IInv, TypeOK, States, RestsEmpty, WindowHasRoom
    <2>6. PendingIsStarting' /\ EpochsEnd'
      BY <1>1, <1>3, <2>2, <2>3 DEF IInv, PendingIsStarting, EpochsEnd, Attempts
    <2>7. NobodyUnwatched'
      <3>1. ~crossed => Unwatched(procs') = {}
        BY <1>1, <1>3, Watched
      <3> QED
        BY <2>2, <3>1 DEF NobodyUnwatched, Unwatched
    <2> QED
      BY <2>3, <2>5, <2>6, <2>7 DEF IInv
  <1> QED
    BY <1>2, <1>3

-----------------------------------------------------------------------------
LEMMA StepKeepsIInv == IInv /\ [Next]_vars => IInv'
  <1> SUFFICES ASSUME IInv, [Next]_vars PROVE IInv'
    OBVIOUS
  <1>0. /\ procs \in [Attempts -> Processes]
        /\ transport \in 0 .. MaxAttempts /\ awaited \in 0 .. MaxAttempts
        /\ ping \in BOOLEAN /\ missed \in 0 .. MaxMissed /\ crashes \in Nat
        /\ \A p \in Attempts : p \in 0 .. MaxAttempts
    BY Watched, SupervisorAssumption DEF IInv, TypeOK, Attempts
  <1>1. CASE Start
    BY <1>1, StartFromStep DEF Start
  <1>2. CASE Enable
    BY <1>2, EnableStep
  <1>3. CASE Disable
    BY <1>0, <1>3, DisableNowStep DEF Disable
  <1>4. ASSUME NEW p \in Attempts, FactoryResolves(p) PROVE IInv'
    BY <1>4, FactoryResolvesStep
  <1>5. ASSUME NEW p \in Attempts, FactoryFails(p) PROVE IInv'
    BY <1>5, FactoryFailsStep
  <1>6. ASSUME NEW p \in Attempts, Hello(p) PROVE IInv'
    BY <1>6, HelloStep
  <1>7. ASSUME NEW p \in Attempts, WrongHello(p) PROVE IInv'
    BY <1>7, WrongHelloStep
  <1>8. ASSUME NEW p \in Attempts, Activated(p) PROVE IInv'
    BY <1>8, ActivatedStep
  <1>9. ASSUME NEW p \in Attempts, ActivateFails(p) PROVE IInv'
    <2> DEFINE spoken == [procs EXCEPT ![p].said = "active"]
    <2>1. /\ spoken \in [Attempts -> Processes] /\ Unwatched(spoken) = Unwatched(procs)
          /\ \A q \in Attempts : spoken[q].life = procs[q].life
      BY <1>0, SpokenEffect
    <2>2. procs' = Killed(spoken, transport, "killed")
      BY <1>9 DEF ActivateFails
    <2> HIDE DEF spoken
    <2>3. ping' \in BOOLEAN /\ missed' \in 0 .. MaxMissed /\ timers' \subseteq timers
      BY <1>0, <1>9 DEF ActivateFails
    <2> QED
      BY <1>0, <1>9, <2>1, <2>2, <2>3, KillingStep DEF ActivateFails
  <1>10. ASSUME NEW p \in Attempts, Pong(p) PROVE IInv'
    <2>1. ping' \in BOOLEAN
      BY <1>10 DEF Pong
    <2>2. missed' \in 0 .. MaxMissed /\ crashes' \in 0 .. crashes
      BY <1>0, <1>10, SupervisorAssumption DEF Pong
    <2> QED
      BY <1>0, <1>10, <2>1, <2>2, QuietStep DEF Pong
  <1>11. ASSUME NEW p \in Attempts, TransportGivesUp(p) PROVE IInv'
    <2>1. ping' \in BOOLEAN /\ missed' \in 0 .. MaxMissed
      BY <1>0, <1>11 DEF TransportGivesUp
    <2> QED
      BY <1>0, <1>11, <2>1, KillingStep DEF TransportGivesUp
  <1>12. ASSUME NEW p \in Attempts, ProcessHangs(p) PROVE IInv'
    <2>1. /\ procs' \in [Attempts -> Processes]
          /\ \A q \in Attempts : procs'[q].life = procs[q].life
          /\ Unwatched(procs') = Unwatched(procs)
      BY <1>0, <1>12, SpokenEffect DEF ProcessHangs
    <2>2. ping' \in BOOLEAN /\ missed' \in 0 .. MaxMissed /\ crashes' \in 0 .. crashes
      BY <1>0, <1>12 DEF ProcessHangs, watch
    <2> QED
      BY <1>12, <2>1, <2>2, QuietStep DEF ProcessHangs, watch
  <1>13. ASSUME NEW p \in Attempts, ProcessExits(p) PROVE IInv'
    BY <1>13, ProcessExitsStep
  <1>14. ASSUME NEW timer, NEW during, DeadlinePasses(timer, during) PROVE IInv'
    <2>1. ping' \in BOOLEAN /\ missed' \in 0 .. MaxMissed
      BY <1>0, <1>14 DEF DeadlinePasses
    <2> QED
      BY <1>0, <1>14, <2>1, KillingStep DEF DeadlinePasses
  <1>15. CASE Beat
    <2>0. missed' \in 0 .. MaxMissed
      BY <1>0, <1>15, SupervisorAssumption DEF Beat
    <2>1. ping' \in BOOLEAN
      BY <1>0, <1>15 DEF Beat
    <2>2. procs' = procs \/ procs' = Killed(procs, transport, "killed")
      BY <1>15 DEF Beat
    <2> QED
      BY <1>0, <1>15, <2>0, <2>1, <2>2, KillingStep DEF Beat
  <1>16. CASE Stable
    <2>1. ping' \in BOOLEAN /\ missed' \in 0 .. MaxMissed /\ crashes' \in 0 .. crashes
      BY <1>0, <1>16 DEF Stable
    <2> QED
      BY <1>0, <1>16, <2>1, QuietStep DEF Stable
  <1>17. CASE CrashAges
    <2>1. ping' \in BOOLEAN /\ missed' \in 0 .. MaxMissed /\ crashes' \in 0 .. crashes
      BY <1>0, <1>17 DEF CrashAges, watch
    <2> QED
      BY <1>0, <1>17, <2>1, QuietStep DEF CrashAges, watch
  <1>18. CASE Restart
    BY <1>18, StartFromStep DEF Restart
  <1>19. CASE StopAll
    BY <1>19, StopAllStep
  <1>20. CASE GraceEnds
    <2>1. ping' \in BOOLEAN /\ missed' \in 0 .. MaxMissed
      BY <1>0, <1>20 DEF GraceEnds, watch
    <2> QED
      BY <1>0, <1>20, <2>1, KillingStep DEF GraceEnds, watch
  <1>21. CASE StopReturns
    BY <1>21, StopReturnsStep
  <1>22. CASE UNCHANGED vars
    BY <1>22 DEF vars, IInv, TypeOK, RestsEmpty, PendingIsStarting, EpochsEnd, WindowHasRoom, NobodyUnwatched
  <1> QED
    BY <1>1, <1>2, <1>3, <1>4, <1>5, <1>6, <1>7, <1>8, <1>9, <1>10, <1>11, <1>12, <1>13,
       <1>14, <1>15, <1>16, <1>17, <1>18, <1>19, <1>20, <1>21, <1>22 DEF Next

\* IInv holds throughout.
THEOREM SupervisorInvariant == Spec => []IInv
  BY InitIsIInv, StepKeepsIInv, PTL DEF Spec

\* However exits, timers, late arrivals and calls race, and for any limits, the state
\* machine of a plugin is only asked for edges that its table has.
THEOREM TableIsRespected == Spec => []TransitionsAreLegal
  <1>1. IInv => TransitionsAreLegal
    BY DEF IInv, TransitionsAreLegal
  <1> QED
    BY <1>1, SupervisorInvariant, PTL

\* A live process that has not been told to end is the one the supervisor holds, and
\* that only while it is starting or up, unless stop() has forgotten one.
THEOREM ProcessesAreWatched == Spec => []NobodyUnwatched
  <1>1. IInv => NobodyUnwatched
    BY DEF IInv
  <1> QED
    BY <1>1, SupervisorInvariant, PTL

-----------------------------------------------------------------------------
(***************************************************************************)
(* The calls between a plugin and the host: for every number of processes, *)
(* calls and slots an answer fits its call.                                *)
(***************************************************************************)

Asks == HostCallNumbers \X Nat
Entries == [status : {"none", "pending", "answered", "failed"}, id : Nat, by : 0 .. MaxHostCalls]
UpFrames == [kind : {"call"}, from : Lives, id : 1 .. MaxIds] \cup [kind : {"reply"}, from : Lives, call : Asks]
DownFrames == [kind : {"answer"}, call : Calls] \cup [kind : {"ask"}, call : Asks]

\* What is on a line is addressed from or to a process there is, or has been.
LineInv ==
  /\ DispatcherTypeOK
  /\ asked \in [HostCallNumbers -> Entries]
  /\ up \in Seq(UpFrames) /\ down \in Seq(DownFrames)
  /\ attachment => line # 0
  /\ line = 0 => down = <<>> /\ hooks = {}
  /\ \A i \in 1 .. Len(up) : up[i].from <= process

\* A call of the plugin is on its way, or being worked on, or answered: one of them.
IsCall(i) == up[i].kind = "call"
CallAt(i) == <<up[i].from, up[i].id>>
CallsFit ==
  /\ \A i \in 1 .. Len(up) : IsCall(i) =>
       /\ sdk[CallAt(i)] # "none" /\ replies[CallAt(i)] = 0
       /\ \A w \in work : w.of # CallAt(i)
       /\ \A j \in 1 .. Len(up) : IsCall(j) /\ CallAt(j) = CallAt(i) => j = i
  /\ \A w \in work :
       /\ sdk[w.of] # "none" /\ replies[w.of] = IF w.replied THEN 1 ELSE 0
       /\ w.of[1] = line \/ w.of \in outlived
       /\ \A v \in work : v.of = w.of => v = w
  /\ \A i \in 1 .. Len(down) : down[i].kind = "answer" => down[i].call[1] = line \/ down[i].call \in outlived
  /\ \A c \in Calls : /\ replies[c] <= 1 /\ (sdk[c] = "none" => replies[c] = 0)
                      /\ settledBy[c] \in {Nobody, c} \cup outlived

\* Of what a process has been asked, and is answering, an id names one call.
Circulates(h) ==
  \/ h \in hooks
  \/ \E i \in 1 .. Len(down) : down[i].kind = "ask" /\ down[i].call = h
  \/ \E i \in 1 .. Len(up) : up[i].kind = "reply" /\ up[i].from = line /\ up[i].call = h
AsksFit ==
  /\ \A k \in HostCallNumbers :
       /\ asked[k].by \in {0, k}
       /\ asked[k].status = "pending" => attachment /\ asked[k].id < nextId
  /\ attachment => \A h \in Asks : Circulates(h) =>
       /\ h[2] < nextId
       /\ \A k \in HostCallNumbers : asked[k].status = "pending" /\ asked[k].id = h[2] => h[1] = k

DispatcherInv == LineInv /\ CallsFit /\ AsksFit
-----------------------------------------------------------------------------
LEMMA Appended ==
  ASSUME NEW S, NEW s \in Seq(S), NEW e \in S
  PROVE  /\ Append(s, e) \in Seq(S) /\ Len(Append(s, e)) = Len(s) + 1 /\ Len(s) \in Nat
         /\ \A i \in 1 .. Len(s) : Append(s, e)[i] = s[i]
         /\ Append(s, e)[Len(s) + 1] = e
OBVIOUS

LEMMA TailTaken ==
  ASSUME NEW S, NEW s \in Seq(S), s # <<>>
  PROVE  /\ Tail(s) \in Seq(S) /\ Len(s) \in Nat \ {0} /\ Len(Tail(s)) = Len(s) - 1
         /\ \A i \in 1 .. Len(s) - 1 : Tail(s)[i] = s[i + 1] /\ i + 1 \in 1 .. Len(s)
         /\ Head(s) = s[1] /\ 1 \in 1 .. Len(s) /\ Head(s) \in S
OBVIOUS

LEMMA Frames ==
  /\ \A f \in UpFrames : /\ f.from \in Lives
                         /\ f.kind = "call" => f.id \in 1 .. MaxIds /\ <<f.from, f.id>> \in Calls
                         /\ f.kind # "call" => f.kind = "reply" /\ f.call \in Asks
  /\ \A f \in DownFrames : /\ f.kind = "answer" => f.call \in Calls
                           /\ f.kind # "answer" => f.kind = "ask" /\ f.call \in Asks
BY DEF UpFrames, DownFrames, Calls

LEMMA Constants == {MaxProcesses, MaxIds, MaxInFlight, MaxHostCalls} \subseteq Nat
BY DispatcherAssumption

LEMMA Sending ==
  ASSUME LineInv, NEW frame \in DownFrames, Sends(frame)
  PROVE  /\ down' \in Seq(DownFrames)
         /\ line = 0 => down' = <<>>
         /\ line # 0 => down' = Append(down, frame)
BY Appended DEF LineInv, Sends

LEMMA DispatcherStarts == DispatcherInit => DispatcherInv
<1> SUFFICES ASSUME DispatcherInit PROVE DispatcherInv
  OBVIOUS
<1>1. /\ asked \in [HostCallNumbers -> Entries] /\ process \in 0 .. MaxProcesses /\ nextId \in Nat \ {0}
      /\ replies \in [Calls -> Nat] /\ settledBy \in [Calls -> Calls \cup {Nobody}]
      /\ sdk \in [Calls -> {"none", "waiting", "over"}]
  BY Constants DEF DispatcherInit, Entries
<1>2. up \in Seq(UpFrames) /\ down \in Seq(DownFrames) /\ Len(up) = 0 /\ Len(down) = 0
  BY DEF DispatcherInit
<1>3. DispatcherTypeOK
  <2>1. \A k \in HostCallNumbers : asked[k] \in Entries
    BY <1>1
  <2>2. QED
    BY <1>1, <2>1 DEF DispatcherInit, DispatcherTypeOK, Entries
<1>3a. LineInv
  BY <1>1, <1>2, <1>3 DEF DispatcherInit, LineInv
<1>4. CallsFit
  BY <1>2 DEF DispatcherInit, CallsFit
<1>5. AsksFit
  BY <1>2 DEF DispatcherInit, AsksFit
<1>6. QED
  BY <1>3a, <1>4, <1>5 DEF DispatcherInv

-----------------------------------------------------------------------------
(* The lines.                                                              *)

LEMMA LineStep == LineInv /\ [DispatcherNext]_callVars => LineInv'
<1> SUFFICES ASSUME LineInv, [DispatcherNext]_callVars PROVE LineInv'
  OBVIOUS
<1> USE Constants DEF LineInv
<1>0. /\ process \in 0 .. MaxProcesses /\ line \in {0, process} /\ (line # 0 => line \in Lives)
      /\ nextId \in Nat \ {0}
  BY DEF DispatcherTypeOK, Lives
<1>1. CASE ProcessStarts
  <2>1. process' = process + 1 /\ line' = process' /\ process' \in 0 .. MaxProcesses
    BY <1>0, <1>1 DEF ProcessStarts
  <2>2. DispatcherTypeOK'
    BY <1>1, <2>1 DEF ProcessStarts, DispatcherTypeOK
  <2>3. UNCHANGED <<asked, up, down>> /\ line' # 0
    BY <1>0, <1>1, <2>1 DEF ProcessStarts
  <2>4. \A i \in 1 .. Len(up) : up[i].from <= process'
    <3>1. \A i \in 1 .. Len(up) : up[i] \in UpFrames
      OBVIOUS
    <3>2. \A i \in 1 .. Len(up) : up[i].from \in Nat
      BY <3>1 DEF UpFrames, Lives
    <3>3. QED
      BY <1>0, <2>1, <3>2
  <2>5. QED
    BY <2>1, <2>2, <2>3, <2>4
\* What becomes of the entries of the calls of the host.
<1>1a. ASSUME asked' \in [HostCallNumbers -> Entries]
       PROVE  \A k \in HostCallNumbers : asked'[k] \in
                [status : {"none", "pending", "answered", "failed"}, id : Nat, by : 0 .. MaxHostCalls]
  BY <1>1a DEF Entries
<1>1b. Detached => asked' \in [HostCallNumbers -> Entries] /\ attachment' = FALSE
  BY SMTT(30) DEF Detached, Entries
<1>2. CASE Stopping
  BY <1>2, <1>1a, <1>1b DEF Stopping, DispatcherTypeOK
<1>3. CASE PluginEnds
  <2>1. asked' \in [HostCallNumbers -> Entries] /\ attachment' = FALSE
    BY <1>1b, <1>3 DEF PluginEnds, DispatcherTypeOK
  <2>2. DispatcherTypeOK'
    BY <1>3, <2>1, <1>1a DEF PluginEnds, DispatcherTypeOK
  <2>3. QED
    BY <1>3, <2>1, <2>2 DEF PluginEnds
<1>4. CASE PluginCalls
  <2>1. PICK id \in 1 .. MaxIds :
          /\ sdk' = [sdk EXCEPT ![<<line, id>>] = "waiting"]
          /\ up' = Append(up, [kind |-> "call", from |-> line, id |-> id])
    BY <1>4 DEF PluginCalls
  <2>2. line # 0 /\ [kind |-> "call", from |-> line, id |-> id] \in UpFrames
    BY <1>0, <1>4 DEF PluginCalls, UpFrames
  <2>3. DispatcherTypeOK'
    BY <1>4, <2>1 DEF PluginCalls, DispatcherTypeOK, lineVars, hostSide
  <2>4. QED
    BY <1>0, <1>4, <2>1, <2>2, <2>3, Appended DEF PluginCalls, lineVars, hostSide
<1>5. ASSUME NEW c \in Calls, SdkGivesUp(c) PROVE LineInv'
  BY <1>5 DEF SdkGivesUp, DispatcherTypeOK, lineVars, hostSide
<1>6. CASE CallArrives
  <2>1. /\ up \in Seq(UpFrames) /\ up # <<>> /\ Head(up).kind = "call" /\ up' = Tail(up)
        /\ UNCHANGED <<process, line, attachment, sdk, settledBy, asked, nextId, hooks, outlived>>
    BY <1>6 DEF CallArrives, lineVars
  <2> DEFINE c == <<Head(up).from, Head(up).id>>
  <2>2. c \in Calls /\ [kind |-> "answer", call |-> c] \in DownFrames
    BY <2>1, TailTaken, Frames DEF DownFrames
  <2>3. \/ UNCHANGED <<work, down, replies>>
        \/ Reply(c) /\ UNCHANGED work
        \/ work' = work \cup {[of |-> c, replied |-> FALSE]} /\ UNCHANGED <<down, replies>>
    BY <1>6 DEF CallArrives
  <2> HIDE DEF c
  <2>3a. work' \subseteq [of : Calls, replied : BOOLEAN] /\ replies' \in [Calls -> Nat]
    <3>1. work \subseteq [of : Calls, replied : BOOLEAN] /\ replies \in [Calls -> Nat]
      BY DEF DispatcherTypeOK
    <3>2. [of |-> c, replied |-> FALSE] \in [of : Calls, replied : BOOLEAN]
      BY <2>2
    <3>3. work' \subseteq [of : Calls, replied : BOOLEAN]
      BY <2>3, <3>1, <3>2 DEF Reply
    <3>4. replies' = replies \/ replies' = [replies EXCEPT ![c] = @ + 1]
      BY <2>3 DEF Reply
    <3>5. QED
      BY <2>2, <3>1, <3>3, <3>4
  <2>4. DispatcherTypeOK'
    BY <2>1, <2>3a DEF DispatcherTypeOK
  <2>5. down' \in Seq(DownFrames) /\ (line = 0 => down' = <<>>)
    BY <2>2, <2>3, Sending DEF Reply
  <2>6. QED
    BY <1>0, <2>1, <2>4, <2>5, TailTaken
<1>7. ASSUME NEW w \in work, Deadline(w) \/ HandlerReturns(w) PROVE LineInv'
  <2>1. w \in [of : Calls, replied : BOOLEAN]
    BY DEF DispatcherTypeOK
  <2>2. [kind |-> "answer", call |-> w.of] \in DownFrames /\ w.of \in Calls
    BY <2>1 DEF DownFrames
  <2>3. Reply(w.of) \/ UNCHANGED <<down, replies>>
    BY <1>7 DEF Deadline, HandlerReturns
  <2>4. work' \subseteq [of : Calls, replied : BOOLEAN]
    <3>1. work \subseteq [of : Calls, replied : BOOLEAN] /\ [w EXCEPT !.replied = TRUE] \in [of : Calls, replied : BOOLEAN]
      BY <2>1 DEF DispatcherTypeOK
    <3>2. QED
      BY <1>7, <3>1 DEF Deadline, HandlerReturns
  <2>5. replies' \in [Calls -> Nat]
    BY <2>2, <2>3, SMTT(30) DEF Reply, DispatcherTypeOK
  <2>6. DispatcherTypeOK'
    BY <1>7, <2>4, <2>5 DEF Deadline, HandlerReturns, DispatcherTypeOK, lineVars
  <2>7. down' \in Seq(DownFrames) /\ (line = 0 => down' = <<>>)
    BY <2>2, <2>3, Sending DEF Reply
  <2>8. QED
    BY <1>7, <2>6, <2>7 DEF Deadline, HandlerReturns, lineVars
<1>8. CASE AnswerArrives
  <2>1. down \in Seq(DownFrames) /\ down # <<>> /\ down' = Tail(down) /\ Head(down).call \in Calls /\ line # 0
    BY <1>8, TailTaken, Frames DEF AnswerArrives
  <2>2. DispatcherTypeOK'
    BY <1>8, <2>1 DEF AnswerArrives, DispatcherTypeOK, lineVars, hostSide
  <2>3. QED
    BY <1>8, <2>1, <2>2, TailTaken DEF AnswerArrives, lineVars, hostSide
<1>9. ASSUME NEW k \in HostCallNumbers, HostCalls(k) PROVE LineInv'
  <2>1. <<k, nextId>> \in Asks /\ [kind |-> "ask", call |-> <<k, nextId>>] \in DownFrames
    BY <1>0 DEF Asks, DownFrames
  <2>1a. /\ [status |-> "pending", id |-> nextId, by |-> 0] \in Entries
         /\ [asked[k] EXCEPT !.status = "failed"] \in Entries
    BY <1>0 DEF Entries
  <2>1b. asked' \in [HostCallNumbers -> Entries]
    BY <1>9, <2>1a DEF HostCalls
  <2>1c. nextId' \in Nat \ {0} /\ UNCHANGED <<process, line, attachment, sdk, settledBy, replies, work, hooks>>
    BY <1>0, <1>9 DEF HostCalls, lineVars
  <2>2. DispatcherTypeOK'
    BY <2>1b, <2>1c, <1>1a DEF DispatcherTypeOK
  <2>3. down' \in Seq(DownFrames) /\ (line = 0 => down' = <<>>)
    BY <1>9, <2>1, Sending DEF HostCalls
  <2>4. QED
    BY <1>9, <2>1b, <2>2, <2>3 DEF HostCalls, lineVars
<1>10. ASSUME NEW k \in HostCallNumbers, CallTimesOut(k) PROVE LineInv'
  <2>1. asked' \in [HostCallNumbers -> Entries]
    BY <1>10 DEF CallTimesOut, Entries
  <2>2. QED
    BY <1>10, <2>1, <1>1a DEF CallTimesOut, DispatcherTypeOK, lineVars
<1>11. CASE AskArrives
  <2>1. down \in Seq(DownFrames) /\ down # <<>> /\ down' = Tail(down) /\ Head(down).call \in Asks /\ line # 0
    BY <1>11, TailTaken, Frames DEF AskArrives
  <2>2. DispatcherTypeOK'
    BY <1>11, <2>1 DEF AskArrives, DispatcherTypeOK, lineVars, hostSide, Asks
  <2>3. QED
    BY <1>11, <2>1, <2>2, TailTaken DEF AskArrives, lineVars, hostSide
<1>12. CASE ReplyArrives
  <2>1. up \in Seq(UpFrames) /\ up # <<>> /\ up' = Tail(up) /\ Head(up).call \in Asks
    BY <1>12, TailTaken, Frames DEF ReplyArrives
  <2>2. Head(up).call[1] \in 0 .. MaxHostCalls
    BY <2>1 DEF Asks, HostCallNumbers
  <2>3. asked' \in [HostCallNumbers -> Entries]
    BY <1>12, <2>2 DEF ReplyArrives, Entries
  <2>4. DispatcherTypeOK'
    BY <1>12, <2>3, <1>1a DEF ReplyArrives, DispatcherTypeOK, lineVars
  <2>5. UNCHANGED <<process, line, attachment, hooks, down>>
    BY <1>12 DEF ReplyArrives, lineVars
  <2>6. \A i \in 1 .. Len(up') : up'[i].from <= process
    BY <2>1, TailTaken
  <2>7. QED
    BY <1>0, <2>1, <2>3, <2>4, <2>5, <2>6, TailTaken
<1>13. ASSUME NEW h \in hooks, HookReturns(h) PROVE LineInv'
  <2>1. line # 0 /\ h \in Asks
    BY DEF DispatcherTypeOK, Asks
  <2>2. [kind |-> "reply", from |-> line, call |-> h] \in UpFrames
    BY <1>0, <2>1 DEF UpFrames
  <2>3. DispatcherTypeOK'
    BY <1>13 DEF HookReturns, DispatcherTypeOK, lineVars, hostSide
  <2>4. QED
    BY <1>0, <1>13, <2>1, <2>2, <2>3, Appended DEF HookReturns, lineVars, hostSide
<1>14. CASE UNCHANGED callVars
  BY <1>14 DEF callVars, lineVars, hostSide, DispatcherTypeOK
<1>15. QED
  BY <1>1, <1>2, <1>3, <1>4, <1>5, <1>6, <1>7, <1>8, <1>9, <1>10, <1>11, <1>12, <1>13, <1>14
     DEF DispatcherNext, PluginSide, HostSide, Attachment
-----------------------------------------------------------------------------
(* The calls of the plugin.                                                *)

LEMMA CallsStep == LineInv /\ CallsFit /\ [DispatcherNext]_callVars => CallsFit'
<1> SUFFICES ASSUME LineInv, CallsFit, [DispatcherNext]_callVars PROVE CallsFit'
  OBVIOUS
<1> DEFINE calls == <<sdk, settledBy, replies, work>>
<1>0. /\ process \in 0 .. MaxProcesses /\ line \in {0, process} /\ process \in Nat
      /\ up \in Seq(UpFrames) /\ down \in Seq(DownFrames) /\ Len(up) \in Nat /\ Len(down) \in Nat
      /\ sdk \in [Calls -> {"none", "waiting", "over"}] /\ settledBy \in [Calls -> Calls \cup {Nobody}]
      /\ replies \in [Calls -> Nat] /\ work \subseteq [of : Calls, replied : BOOLEAN]
  BY Constants DEF LineInv, DispatcherTypeOK
<1>0a. \A i \in 1 .. Len(up) : IsCall(i) => CallAt(i) \in Calls
  BY <1>0, Frames DEF IsCall, CallAt
<1>0b. \A c \in Calls : c[1] # 0
  BY DEF Calls, Lives
<1>1. CASE ProcessStarts
  <2>1. line = 0 /\ UNCHANGED <<calls, up, down, outlived>>
    BY <1>1 DEF ProcessStarts
  <2>2. down = <<>> /\ Len(down) = 0
    BY <2>1 DEF LineInv
  <2>3. \A w \in work : w.of \in outlived
    BY <2>1, <1>0, <1>0b DEF CallsFit
  <2>4. \A i \in 1 .. Len(up) : IsCall(i)' = IsCall(i) /\ CallAt(i)' = CallAt(i)
    BY <2>1 DEF IsCall, CallAt
  <2>5. 1 .. Len(down') = {} /\ sdk' = sdk /\ settledBy' = settledBy /\ replies' = replies /\ work' = work
        /\ up' = up /\ outlived' = outlived
    BY <2>1, <2>2
  <2>6. QED
    BY <2>3, <2>4, <2>5 DEF CallsFit
<1>2. CASE Stopping \/ UNCHANGED callVars
  BY <1>2 DEF Stopping, callVars, lineVars, hostSide, CallsFit, IsCall, CallAt
<1>3. CASE PluginEnds
  <2>1. /\ UNCHANGED <<calls, up>> /\ down' = <<>> /\ outlived' = outlived \cup {w.of : w \in work}
    BY <1>3 DEF PluginEnds
  <2>2. QED
    BY <2>1 DEF CallsFit, IsCall, CallAt
<1>4. CASE PluginCalls
  <2>1. PICK id \in 1 .. MaxIds :
          /\ sdk[<<line, id>>] = "none"
          /\ sdk' = [sdk EXCEPT ![<<line, id>>] = "waiting"]
          /\ up' = Append(up, [kind |-> "call", from |-> line, id |-> id])
    BY <1>4 DEF PluginCalls
  <2> DEFINE c == <<line, id>>
             frame == [kind |-> "call", from |-> line, id |-> id]
  <2>2. line # 0 /\ line \in Lives /\ UNCHANGED <<line, settledBy, replies, work, down, outlived>>
    BY <1>0, <1>4 DEF PluginCalls, lineVars, hostSide, Lives
  <2>3. c \in Calls /\ frame \in UpFrames
    BY <2>2 DEF Calls, UpFrames
  <2>4. /\ Len(up') = Len(up) + 1 /\ up'[Len(up) + 1] = frame
        /\ \A i \in 1 .. Len(up) : up'[i] = up[i]
    BY <1>0, <2>1, <2>3, Appended
  <2>5. /\ \A i \in 1 .. Len(up) : IsCall(i) => CallAt(i) # c
        /\ \A w \in work : w.of # c
        /\ replies[c] = 0
    BY <2>1, <2>3 DEF CallsFit
  <2>5a. PICK n \in Nat : n = Len(up) + 1
    BY <1>0
  <2>6. IsCall(n)' /\ CallAt(n)' = c /\ n \notin 1 .. Len(up)
    BY <1>0, <2>4, <2>5a DEF IsCall, CallAt
  <2>7. \A i \in 1 .. Len(up) : (IsCall(i))' = IsCall(i) /\ (CallAt(i))' = CallAt(i)
    BY <2>4 DEF IsCall, CallAt
  <2>8. \A x \in Calls : x # c => sdk'[x] = sdk[x]
    BY <1>0, <2>1, <2>3
  <2>9. sdk'[c] = "waiting"
    BY <1>0, <2>1, <2>3
  <2>10. \A i \in 1 .. Len(up') : i \in 1 .. Len(up) \/ i = n
    BY <1>0, <2>4, <2>5a
  <2> HIDE DEF c, frame
  <2>11. ASSUME NEW i \in 1 .. Len(up'), IsCall(i)'
         PROVE  /\ sdk'[CallAt(i)'] # "none" /\ replies'[CallAt(i)'] = 0
                /\ \A w \in work' : w.of # CallAt(i)'
                /\ \A j \in 1 .. Len(up') : IsCall(j)' /\ CallAt(j)' = CallAt(i)' => j = i
    <3>1. CASE i = n
      BY <2>2, <2>5, <2>6, <2>7, <2>9, <2>10, <2>11, <3>1
    <3>2. CASE i \in 1 .. Len(up)
      <4>1. IsCall(i) /\ CallAt(i)' = CallAt(i) /\ CallAt(i) \in Calls /\ CallAt(i) # c
        BY <2>5, <2>7, <2>11, <3>2, <1>0a
      <4>2. \A j \in 1 .. Len(up') : IsCall(j)' /\ CallAt(j)' = CallAt(i)' => j = i
        BY <2>6, <2>7, <2>10, <3>2, <4>1 DEF CallsFit
      <4>3. QED
        BY <2>2, <2>8, <3>2, <4>1, <4>2 DEF CallsFit
    <3>3. QED
      BY <2>10, <3>1, <3>2
  <2>12. \A w \in work : w.of \in Calls
    BY <1>0
  <2>13. QED
    BY <2>2, <2>3, <2>5, <2>8, <2>9, <2>11, <2>12 DEF CallsFit
<1>5. ASSUME NEW c \in Calls, SdkGivesUp(c) PROVE CallsFit'
  <2>1. /\ sdk[c] # "none" /\ sdk'[c] # "none" /\ \A x \in Calls : x # c => sdk'[x] = sdk[x]
        /\ UNCHANGED <<line, settledBy, replies, work, up, down, outlived>>
    BY <1>0, <1>5 DEF SdkGivesUp, lineVars, hostSide
  <2>2. \A x \in Calls : sdk'[x] = "none" <=> sdk[x] = "none"
    BY <2>1
  <2>3. \A w \in work : w.of \in Calls
    BY <1>0
  <2>4. QED
    BY <1>0a, <2>1, <2>2, <2>3 DEF CallsFit, IsCall, CallAt
\* The first frame up is taken: the others move up by one.
<1>5a. ASSUME up # <<>>, up' = Tail(up)
       PROVE  /\ Len(up') = Len(up) - 1 /\ 1 \in 1 .. Len(up) /\ Head(up) = up[1]
              /\ \A i \in 1 .. Len(up') :
                   i + 1 \in 1 .. Len(up) /\ i + 1 # 1 /\ IsCall(i)' = IsCall(i + 1) /\ CallAt(i)' = CallAt(i + 1)
  <2>1. /\ Len(up') = Len(up) - 1 /\ 1 \in 1 .. Len(up) /\ Head(up) = up[1]
        /\ \A i \in 1 .. Len(up') : i + 1 \in 1 .. Len(up) /\ i + 1 # 1 /\ up'[i] = up[i + 1]
    BY <1>0, <1>5a, TailTaken
  <2>2. QED
    BY <2>1 DEF IsCall, CallAt
\* An answer is sent to the process that asked, or it is one of those that have outlived theirs.
<1>5b. ASSUME NEW c \in Calls, c[1] = line \/ c \in outlived, Reply(c), UNCHANGED <<line, outlived>>
       PROVE  \A i \in 1 .. Len(down') :
                down'[i].kind = "answer" => down'[i].call[1] = line' \/ down'[i].call \in outlived'
  <2>1. [kind |-> "answer", call |-> c] \in DownFrames
    BY DEF DownFrames
  <2>2. CASE line = 0
    BY <1>5b, <2>1, <2>2, Sending DEF Reply
  <2>3. CASE line # 0
    <3>1. down' = Append(down, [kind |-> "answer", call |-> c])
      BY <1>5b, <2>1, <2>3, Sending DEF Reply
    <3>2. /\ Len(down') = Len(down) + 1 /\ down'[Len(down) + 1] = [kind |-> "answer", call |-> c]
          /\ \A i \in 1 .. Len(down) : down'[i] = down[i]
      BY <1>0, <2>1, <3>1, Appended
    <3>3. \A i \in 1 .. Len(down') : i \in 1 .. Len(down) \/ i = Len(down) + 1
      BY <1>0, <3>2
    <3>4. QED
      BY <1>5b, <3>2, <3>3 DEF CallsFit
  <2>4. QED
    BY <2>2, <2>3
<1>6. CASE CallArrives
  <2>1. /\ up # <<>> /\ Head(up).kind = "call" /\ up' = Tail(up)
        /\ UNCHANGED <<line, sdk, settledBy, outlived>>
    BY <1>6 DEF CallArrives, lineVars
  <2> DEFINE c == <<Head(up).from, Head(up).id>>
  <2>2. c = CallAt(1) /\ IsCall(1) /\ 1 \in 1 .. Len(up) /\ c \in Calls
    BY <2>1, <1>5a, <1>0a DEF CallAt, IsCall
  <2>3. \/ UNCHANGED <<work, down, replies>>
        \/ Head(up).from = line /\ Reply(c) /\ UNCHANGED work
        \/ /\ Head(up).from = line
           /\ work' = work \cup {[of |-> c, replied |-> FALSE]} /\ UNCHANGED <<down, replies>>
    BY <1>6 DEF CallArrives, Current
  <2>4. c[1] = Head(up).from
    OBVIOUS
  <2> HIDE DEF c
  <2>5. /\ sdk[c] # "none" /\ replies[c] = 0 /\ \A w \in work : w.of # c
        /\ \A i \in 1 .. Len(up') : IsCall(i)' => CallAt(i)' # c /\ CallAt(i)' \in Calls
    BY <1>0a, <1>5a, <2>1, <2>2 DEF CallsFit
  <2>6. \A x \in Calls : x # c => replies'[x] = replies[x]
    BY <1>0, <2>2, <2>3 DEF Reply
  <2>7. replies'[c] <= 1 /\ (replies'[c] = 1 => work' = work)
    BY <1>0, <2>2, <2>3, <2>5 DEF Reply
  <2>8. \A w \in work' : w \in work \/ (w = [of |-> c, replied |-> FALSE] /\ replies' = replies /\ c[1] = line)
    BY <2>3, <2>4 DEF Reply
  <2>9. ASSUME NEW i \in 1 .. Len(up'), IsCall(i)'
        PROVE  /\ sdk'[CallAt(i)'] # "none" /\ replies'[CallAt(i)'] = 0
               /\ \A w \in work' : w.of # CallAt(i)'
               /\ \A j \in 1 .. Len(up') : IsCall(j)' /\ CallAt(j)' = CallAt(i)' => j = i
    <3>1. i + 1 \in 1 .. Len(up) /\ IsCall(i + 1) /\ CallAt(i)' = CallAt(i + 1)
      BY <2>1, <2>9, <1>5a
    <3>2. CallAt(i)' # c /\ CallAt(i)' \in Calls
      BY <2>5, <2>9
    <3>3. sdk'[CallAt(i)'] # "none" /\ replies'[CallAt(i)'] = 0 /\ \A w \in work : w.of # CallAt(i)'
      BY <2>1, <2>6, <3>1, <3>2 DEF CallsFit
    <3>4. ASSUME NEW j \in 1 .. Len(up'), IsCall(j)', CallAt(j)' = CallAt(i)' PROVE j = i
      <4>1. j + 1 \in 1 .. Len(up) /\ IsCall(j + 1) /\ CallAt(j + 1) = CallAt(i + 1)
        BY <2>1, <3>1, <3>4, <1>5a
      <4>2. j + 1 = i + 1
        BY <3>1, <4>1 DEF CallsFit
      <4>3. QED
        BY <4>2
    <3>5. QED
      BY <2>8, <3>2, <3>3, <3>4
  <2>10. ASSUME NEW w \in work'
         PROVE  /\ sdk'[w.of] # "none" /\ replies'[w.of] = IF w.replied THEN 1 ELSE 0
                /\ w.of[1] = line' \/ w.of \in outlived'
                /\ \A v \in work' : v.of = w.of => v = w
    <3>1. CASE w \in work
      <4>1. w.of \in Calls /\ w.of # c
        BY <1>0, <2>5, <3>1
      <4>2. QED
        BY <2>1, <2>6, <2>8, <3>1, <4>1 DEF CallsFit
    <3>2. CASE w = [of |-> c, replied |-> FALSE] /\ replies' = replies /\ c[1] = line
      BY <2>1, <2>5, <2>8, <3>2
    <3>3. QED
      BY <2>8, <2>10, <3>1, <3>2
  <2>11. \A i \in 1 .. Len(down') :
           down'[i].kind = "answer" => down'[i].call[1] = line' \/ down'[i].call \in outlived'
    BY <2>1, <2>2, <2>3, <2>4, <1>5b DEF CallsFit
  <2>12. QED
    BY <2>1, <2>2, <2>5, <2>6, <2>7, <2>9, <2>10, <2>11 DEF CallsFit
<1>7. ASSUME NEW w \in work, Deadline(w) \/ HandlerReturns(w) PROVE CallsFit'
  <2>1. /\ w.of \in Calls /\ (w.of[1] = line \/ w.of \in outlived) /\ sdk[w.of] # "none"
        /\ replies[w.of] = IF w.replied THEN 1 ELSE 0
        /\ UNCHANGED <<line, sdk, settledBy, up, outlived>>
    BY <1>0, <1>7 DEF CallsFit, Deadline, HandlerReturns, lineVars
  <2>2. \/ w.replied /\ UNCHANGED <<down, replies>>
        \/ ~w.replied /\ Reply(w.of)
    BY <1>7 DEF Deadline, HandlerReturns
  <2>3. replies'[w.of] = 1 /\ \A x \in Calls : x # w.of => replies'[x] = replies[x]
    BY <1>0, <2>1, <2>2 DEF Reply
  <2>4. \A v \in work' : \/ v \in work /\ v # w /\ v.of # w.of
                         \/ v = [w EXCEPT !.replied = TRUE]
    BY <1>7 DEF Deadline, HandlerReturns, CallsFit
  <2>5. w \in [of : Calls, replied : BOOLEAN]
    BY <1>0
  <2>6. [w EXCEPT !.replied = TRUE].of = w.of /\ [w EXCEPT !.replied = TRUE].replied
    BY <2>5
  <2>7. ASSUME NEW v \in work'
        PROVE  /\ sdk'[v.of] # "none" /\ replies'[v.of] = IF v.replied THEN 1 ELSE 0
               /\ v.of[1] = line' \/ v.of \in outlived'
               /\ \A u \in work' : u.of = v.of => u = v
    <3>1. CASE v = [w EXCEPT !.replied = TRUE]
      BY <2>1, <2>3, <2>4, <2>6, <3>1
    <3>2. CASE v \in work /\ v # w /\ v.of # w.of
      <4>1. v.of \in Calls
        BY <1>0, <3>2
      <4>2. QED
        BY <2>1, <2>3, <2>4, <2>6, <3>2, <4>1 DEF CallsFit
    <3>3. QED
      BY <2>4, <3>1, <3>2
  <2>8. ASSUME NEW i \in 1 .. Len(up), IsCall(i)
        PROVE  replies'[CallAt(i)] = 0 /\ \A v \in work' : v.of # CallAt(i)
    <3>1. CallAt(i) \in Calls /\ replies[CallAt(i)] = 0 /\ \A v \in work : v.of # CallAt(i)
      BY <1>0a, <2>8 DEF CallsFit
    <3>2. CallAt(i) # w.of
      BY <3>1
    <3>3. QED
      BY <2>3, <2>4, <2>6, <3>1, <3>2
  <2>9. \A i \in 1 .. Len(down') :
          down'[i].kind = "answer" => down'[i].call[1] = line' \/ down'[i].call \in outlived'
    BY <2>1, <2>2, <1>5b DEF CallsFit
  <2>10. QED
    BY <2>1, <2>3, <2>7, <2>8, <2>9 DEF CallsFit, IsCall, CallAt
\* The first frame down is taken.
<1>7a. ASSUME down # <<>>, down' = Tail(down), UNCHANGED <<line, outlived>>
       PROVE  /\ \A i \in 1 .. Len(down') :
                    down'[i].kind = "answer" => down'[i].call[1] = line' \/ down'[i].call \in outlived'
              /\ Head(down) = down[1] /\ 1 \in 1 .. Len(down) /\ Head(down) \in DownFrames
  <2>1. /\ Head(down) = down[1] /\ 1 \in 1 .. Len(down) /\ Head(down) \in DownFrames
        /\ \A i \in 1 .. Len(down') : i + 1 \in 1 .. Len(down) /\ down'[i] = down[i + 1]
    BY <1>0, <1>7a, TailTaken
  <2>2. QED
    BY <1>7a, <2>1 DEF CallsFit
<1>8. CASE AnswerArrives
  <2>1. /\ down # <<>> /\ Head(down).kind = "answer" /\ down' = Tail(down)
        /\ UNCHANGED <<line, process, replies, work, up, outlived>>
    BY <1>8 DEF AnswerArrives, lineVars, hostSide
  <2> DEFINE h == Head(down).call
             c == <<line, h[2]>>
  <2>2. \/ UNCHANGED <<sdk, settledBy>>
        \/ /\ sdk[c] = "waiting" /\ sdk' = [sdk EXCEPT ![c] = "over"]
           /\ settledBy' = [settledBy EXCEPT ![c] = h]
    BY <1>8 DEF AnswerArrives
  <2>3. h \in Calls /\ (h[1] = line \/ h \in outlived)
    BY <1>7a, <2>1, Frames DEF CallsFit
  <2>4. line # 0
    BY <2>1 DEF LineInv
  <2>5. c \in Calls
    BY <1>0, <2>3, <2>4, Constants DEF Calls, Lives
  <2>6. h = c \/ h \in outlived
    BY <2>3 DEF Calls
  <2> HIDE DEF c, h
  <2>7. \A x \in Calls : sdk'[x] = "none" <=> sdk[x] = "none"
    BY <1>0, <2>2, <2>5
  <2>8. \A x \in Calls : settledBy'[x] \in {Nobody, x} \cup outlived
    <3>1. ASSUME NEW x \in Calls, x # c PROVE settledBy'[x] = settledBy[x]
      BY <1>0, <2>2, <3>1
    <3>2. settledBy'[c] \in {settledBy[c], h}
      BY <1>0, <2>2, <2>5
    <3>3. QED
      BY <2>5, <2>6, <3>1, <3>2 DEF CallsFit
  <2>9. \A w \in work : w.of \in Calls
    BY <1>0
  <2>10. QED
    BY <1>0a, <1>7a, <2>1, <2>7, <2>8, <2>9 DEF CallsFit, IsCall, CallAt
<1>9. ASSUME NEW k \in HostCallNumbers, HostCalls(k) PROVE CallsFit'
  <2>1. UNCHANGED <<calls, line, up, outlived>> /\ (UNCHANGED down \/ Sends([kind |-> "ask", call |-> <<k, nextId>>]))
    BY <1>9 DEF HostCalls, lineVars
  <2>2. nextId \in Nat
    BY DEF LineInv, DispatcherTypeOK
  <2>3. [kind |-> "ask", call |-> <<k, nextId>>] \in DownFrames
    BY <2>2 DEF DownFrames, Asks
  <2>4. down' \in {<<>>, down, Append(down, [kind |-> "ask", call |-> <<k, nextId>>])}
    BY <2>1, <2>3, Sending
  <2>5. \A i \in 1 .. Len(down') : (i \in 1 .. Len(down) /\ down'[i] = down[i]) \/ down'[i].kind = "ask"
    <3>1. CASE down' = Append(down, [kind |-> "ask", call |-> <<k, nextId>>])
      BY <1>0, <2>3, <3>1, Appended
    <3>2. QED
      BY <2>4, <3>1
  <2>6. QED
    BY <2>1, <2>5 DEF CallsFit, IsCall, CallAt
<1>10. ASSUME NEW k \in HostCallNumbers, CallTimesOut(k) PROVE CallsFit'
  BY <1>10 DEF CallTimesOut, lineVars, CallsFit, IsCall, CallAt
<1>11. CASE AskArrives
  <2>1. /\ down # <<>> /\ down' = Tail(down) /\ UNCHANGED <<calls, line, up, outlived>>
    BY <1>11 DEF AskArrives, lineVars, hostSide
  <2>2. QED
    BY <1>7a, <2>1 DEF CallsFit, IsCall, CallAt
<1>12. CASE ReplyArrives
  <2>1. /\ up # <<>> /\ up' = Tail(up) /\ UNCHANGED <<calls, line, down, outlived>>
    BY <1>12 DEF ReplyArrives, lineVars, hostSide
  <2>2. ASSUME NEW i \in 1 .. Len(up'), IsCall(i)'
        PROVE  /\ sdk[CallAt(i)'] # "none" /\ replies[CallAt(i)'] = 0
               /\ \A w \in work : w.of # CallAt(i)'
               /\ \A j \in 1 .. Len(up') : IsCall(j)' /\ CallAt(j)' = CallAt(i)' => j = i
    <3>1. i + 1 \in 1 .. Len(up) /\ IsCall(i + 1) /\ CallAt(i)' = CallAt(i + 1)
      BY <2>1, <2>2, <1>5a
    <3>2. ASSUME NEW j \in 1 .. Len(up'), IsCall(j)', CallAt(j)' = CallAt(i)' PROVE j = i
      <4>1. j + 1 \in 1 .. Len(up) /\ IsCall(j + 1) /\ CallAt(j + 1) = CallAt(i + 1)
        BY <2>1, <3>1, <3>2, <1>5a
      <4>2. j + 1 = i + 1
        BY <3>1, <4>1 DEF CallsFit
      <4>3. QED
        BY <4>2
    <3>3. QED
      BY <3>1, <3>2 DEF CallsFit
  <2>3. QED
    BY <2>1, <2>2 DEF CallsFit
<1>13. ASSUME NEW h \in hooks, HookReturns(h) PROVE CallsFit'
  <2>1. /\ up' = Append(up, [kind |-> "reply", from |-> line, call |-> h])
        /\ UNCHANGED <<calls, line, down, outlived>>
    BY <1>13 DEF HookReturns, lineVars, hostSide
  <2>2. line \in Lives /\ h \in Asks
    BY <1>0 DEF LineInv, DispatcherTypeOK, Lives, Asks
  <2>3. [kind |-> "reply", from |-> line, call |-> h] \in UpFrames
    BY <2>2 DEF UpFrames
  <2>4. /\ Len(up') = Len(up) + 1 /\ up'[Len(up) + 1].kind = "reply"
        /\ \A i \in 1 .. Len(up) : up'[i] = up[i]
    BY <1>0, <2>1, <2>3, Appended
  <2>a. \A i \in 1 .. Len(up') : i \in 1 .. Len(up) \/ i = Len(up) + 1
    BY <1>0, <2>1, <2>4
  <2>5. \A i \in 1 .. Len(up') : IsCall(i)' => i \in 1 .. Len(up) /\ IsCall(i) /\ CallAt(i)' = CallAt(i)
    <3> TAKE i \in 1 .. Len(up')
    <3>1. CASE i \in 1 .. Len(up)
      BY <2>4, <3>1 DEF IsCall, CallAt
    <3>2. CASE i = Len(up) + 1
      BY <2>4, <3>2 DEF IsCall
    <3>3. QED
      BY <2>a, <3>1, <3>2
  <2>6. QED
    BY <2>1, <2>5 DEF CallsFit
<1>14. QED
  BY <1>1, <1>2, <1>3, <1>4, <1>5, <1>6, <1>7, <1>8, <1>9, <1>10, <1>11, <1>12, <1>13
     DEF DispatcherNext, PluginSide, HostSide, Attachment
-----------------------------------------------------------------------------
(* The calls of the host.                                                  *)

\* Nothing that was not asked before circulates, and no call of the host begins to wait.
LEMMA AsksKept ==
  ASSUME AsksFit, UNCHANGED <<attachment, nextId>>,
         \A k \in HostCallNumbers : /\ asked'[k].by \in {0, k}
                                    /\ asked'[k].status = "pending" => asked'[k] = asked[k],
         \A h \in Asks : Circulates(h)' => Circulates(h)
  PROVE  AsksFit'
BY DEF AsksFit

LEMMA AsksStep == LineInv /\ AsksFit /\ [DispatcherNext]_callVars => AsksFit'
<1> SUFFICES ASSUME LineInv, AsksFit, [DispatcherNext]_callVars PROVE AsksFit'
  OBVIOUS
<1>0. /\ process \in Nat /\ line \in {0, process} /\ nextId \in Nat \ {0}
      /\ up \in Seq(UpFrames) /\ down \in Seq(DownFrames) /\ Len(up) \in Nat /\ Len(down) \in Nat
      /\ asked \in [HostCallNumbers -> Entries] /\ hooks \subseteq Asks
      /\ attachment \in BOOLEAN /\ (attachment => line # 0)
  BY Constants DEF LineInv, DispatcherTypeOK, Asks
<1>0a. \A k \in HostCallNumbers : asked[k] \in Entries /\ asked[k].by \in {0, k}
  BY <1>0 DEF AsksFit
<1>0b. ~attachment => \A k \in HostCallNumbers : asked[k].status # "pending"
  BY DEF AsksFit
<1>1. CASE ProcessStarts
  <2>1. /\ line = 0 /\ line' = process + 1 /\ UNCHANGED <<asked, hooks, up, down>>
    BY <1>1 DEF ProcessStarts
  <2>2. down = <<>> /\ hooks = {} /\ ~attachment
    BY <2>1, <1>0 DEF LineInv
  <2>3. \A i \in 1 .. Len(up) : up[i].from \in Nat /\ up[i].from <= process
    <3>1. \A i \in 1 .. Len(up) : up[i] \in UpFrames
      BY <1>0
    <3>2. \A x \in Lives : x \in Nat
      BY Constants DEF Lives
    <3>3. QED
      BY <3>1, <3>2, Frames DEF LineInv
  <2>4. \A h \in Asks : ~Circulates(h)'
    BY <1>0, <2>1, <2>2, <2>3 DEF Circulates
  <2>5. QED
    BY <1>0a, <1>0b, <2>1, <2>2, <2>4 DEF AsksFit
<1>2. ASSUME Detached PROVE AsksFit'
  <2>1. attachment' = FALSE
    BY <1>2 DEF Detached
  <2>2. ASSUME NEW k \in HostCallNumbers PROVE asked'[k].by \in {0, k} /\ asked'[k].status # "pending"
    <3>1. asked'[k] = IF asked[k].status = "pending" THEN [asked[k] EXCEPT !.status = "failed"] ELSE asked[k]
      BY <1>2 DEF Detached
    <3>2. QED
      BY <1>0a, <3>1 DEF Entries
  <2>3. QED
    BY <2>1, <2>2 DEF AsksFit
<1>3. CASE Stopping
  BY <1>2, <1>3 DEF Stopping
<1>4. CASE PluginEnds
  <2>1. CASE attachment
    BY <1>2, <1>4, <2>1 DEF PluginEnds
  <2>2. CASE ~attachment
    BY <1>0a, <1>0b, <1>4, <2>2 DEF PluginEnds, AsksFit
  <2>3. QED
    BY <2>1, <2>2
\* The steps that leave the calls of the host alone.
<1>5. ASSUME UNCHANGED <<attachment, nextId, asked>>, \A h \in Asks : Circulates(h)' => Circulates(h)
      PROVE  AsksFit'
  BY <1>0a, <1>5, AsksKept
<1>6. ASSUME UNCHANGED <<line, hooks, down>>, up' = Tail(up), up # <<>>, NEW h \in Asks, Circulates(h)'
      PROVE  Circulates(h)
  <2>1. \A i \in 1 .. Len(up') : i + 1 \in 1 .. Len(up) /\ up'[i] = up[i + 1]
    BY <1>0, <1>6, TailTaken
  <2>2. QED
    BY <1>6, <2>1 DEF Circulates
<1>7. ASSUME NEW c \in Calls, Reply(c)
      PROVE  \A h \in Asks, i \in 1 .. Len(down') : down'[i].kind = "ask" /\ down'[i].call = h =>
               i \in 1 .. Len(down) /\ down[i].kind = "ask" /\ down[i].call = h
  <2>1. [kind |-> "answer", call |-> c] \in DownFrames
    BY DEF DownFrames
  <2>2. CASE line = 0
    BY <1>7, <2>1, <2>2, Sending DEF Reply
  <2>3. CASE line # 0
    <3>1. down' = Append(down, [kind |-> "answer", call |-> c])
      BY <1>7, <2>1, <2>3, Sending DEF Reply
    <3>2. /\ Len(down') = Len(down) + 1 /\ down'[Len(down) + 1].kind = "answer"
          /\ \A i \in 1 .. Len(down) : down'[i] = down[i]
      BY <1>0, <2>1, <3>1, Appended
    <3>3. \A i \in 1 .. Len(down') : i \in 1 .. Len(down) \/ i = Len(down) + 1
      BY <1>0, <3>2
    <3>4. QED
      BY <3>2, <3>3
  <2>4. QED
    BY <2>2, <2>3
<1>8. CASE PluginCalls
  <2>1. PICK id \in 1 .. MaxIds : up' = Append(up, [kind |-> "call", from |-> line, id |-> id])
    BY <1>8 DEF PluginCalls
  <2>2. line # 0 /\ UNCHANGED <<line, attachment, nextId, asked, hooks, down>>
    BY <1>8 DEF PluginCalls, lineVars, hostSide
  <2>3. [kind |-> "call", from |-> line, id |-> id] \in UpFrames
    BY <2>2 DEF UpFrames, Lives, LineInv, DispatcherTypeOK
  <2>4. /\ Len(up') = Len(up) + 1 /\ up'[Len(up) + 1].kind = "call"
        /\ \A i \in 1 .. Len(up) : up'[i] = up[i]
    BY <1>0, <2>1, <2>3, Appended
  <2>5. \A i \in 1 .. Len(up') : i \in 1 .. Len(up) \/ i = Len(up) + 1
    BY <1>0, <2>4
  <2>6. \A h \in Asks : Circulates(h)' => Circulates(h)
    BY <2>2, <2>4, <2>5 DEF Circulates
  <2>7. QED
    BY <1>5, <2>2, <2>6
<1>9. ASSUME NEW c \in Calls, SdkGivesUp(c) PROVE AsksFit'
  BY <1>5, <1>9 DEF SdkGivesUp, lineVars, hostSide, Circulates
<1>10. CASE CallArrives
  <2>1. /\ up # <<>> /\ Head(up).kind = "call" /\ up' = Tail(up)
        /\ UNCHANGED <<line, attachment, asked, nextId, hooks>>
    BY <1>10 DEF CallArrives, lineVars
  <2>2. \A i \in 1 .. Len(up') : i + 1 \in 1 .. Len(up) /\ up'[i] = up[i + 1]
    BY <1>0, <2>1, TailTaken
  <2> DEFINE c == <<Head(up).from, Head(up).id>>
  <2>3. c \in Calls
    BY <1>0, <2>1, TailTaken, Frames
  <2>4. UNCHANGED down \/ Reply(c)
    BY <1>10 DEF CallArrives
  <2> HIDE DEF c
  <2>5. \A h \in Asks, i \in 1 .. Len(down') : down'[i].kind = "ask" /\ down'[i].call = h =>
          i \in 1 .. Len(down) /\ down[i].kind = "ask" /\ down[i].call = h
    BY <1>7, <2>3, <2>4
  <2>6. \A h \in Asks : Circulates(h)' => Circulates(h)
    BY <2>1, <2>2, <2>5 DEF Circulates
  <2>7. QED
    BY <1>5, <2>1, <2>6
<1>11. ASSUME NEW w \in work, Deadline(w) \/ HandlerReturns(w) PROVE AsksFit'
  <2>1. w.of \in Calls /\ (UNCHANGED down \/ Reply(w.of))
    BY <1>11 DEF Deadline, HandlerReturns, LineInv, DispatcherTypeOK
  <2>2. UNCHANGED <<line, attachment, asked, nextId, hooks, up>>
    BY <1>11 DEF Deadline, HandlerReturns, lineVars
  <2>3. \A h \in Asks, i \in 1 .. Len(down') : down'[i].kind = "ask" /\ down'[i].call = h =>
          i \in 1 .. Len(down) /\ down[i].kind = "ask" /\ down[i].call = h
    BY <1>7, <2>1
  <2>4. \A h \in Asks : Circulates(h)' => Circulates(h)
    BY <2>2, <2>3 DEF Circulates
  <2>5. QED
    BY <1>5, <2>2, <2>4
<1>12. ASSUME down # <<>>, down' = Tail(down)
       PROVE  /\ \A i \in 1 .. Len(down') : i + 1 \in 1 .. Len(down) /\ down'[i] = down[i + 1]
              /\ Head(down) = down[1] /\ 1 \in 1 .. Len(down)
  BY <1>0, <1>12, TailTaken
<1>13. CASE AnswerArrives
  <2>1. /\ down # <<>> /\ down' = Tail(down) /\ UNCHANGED <<line, attachment, asked, nextId, hooks, up>>
    BY <1>13 DEF AnswerArrives, lineVars, hostSide
  <2>2. \A h \in Asks : Circulates(h)' => Circulates(h)
    BY <1>12, <2>1 DEF Circulates
  <2>3. QED
    BY <1>5, <2>1, <2>2
<1>14. CASE AskArrives
  <2>1. /\ down # <<>> /\ Head(down).kind = "ask" /\ down' = Tail(down) /\ hooks' = hooks \cup {Head(down).call}
        /\ UNCHANGED <<line, attachment, asked, nextId, up>>
    BY <1>14 DEF AskArrives, lineVars, hostSide
  <2>2. \A h \in Asks : Circulates(h)' => Circulates(h)
    BY <1>12, <2>1 DEF Circulates
  <2>3. QED
    BY <1>5, <2>1, <2>2
<1>15. ASSUME NEW g \in hooks, HookReturns(g) PROVE AsksFit'
  <2>1. /\ up' = Append(up, [kind |-> "reply", from |-> line, call |-> g]) /\ hooks' = hooks \ {g}
        /\ UNCHANGED <<line, attachment, asked, nextId, down>>
    BY <1>15 DEF HookReturns, lineVars, hostSide
  <2>2. line # 0 /\ g \in Asks
    BY <1>0 DEF LineInv
  <2>3. [kind |-> "reply", from |-> line, call |-> g] \in UpFrames
    BY <2>2 DEF UpFrames, Lives, LineInv, DispatcherTypeOK
  <2>4. /\ Len(up') = Len(up) + 1 /\ up'[Len(up) + 1].call = g
        /\ \A i \in 1 .. Len(up) : up'[i] = up[i]
    BY <1>0, <2>1, <2>3, Appended
  <2>5. \A i \in 1 .. Len(up') : i \in 1 .. Len(up) \/ i = Len(up) + 1
    BY <1>0, <2>4
  <2>6. \A h \in Asks : Circulates(h)' => Circulates(h)
    BY <2>1, <2>4, <2>5 DEF Circulates
  <2>7. QED
    BY <1>5, <2>1, <2>6
\* The entry of the call that begins has an id of its own.
<1>16. ASSUME NEW k \in HostCallNumbers, HostCalls(k) PROVE AsksFit'
  <2>1. attachment /\ line # 0 /\ nextId' = nextId + 1 /\ UNCHANGED <<line, attachment, hooks, up>>
    BY <1>0, <1>16 DEF HostCalls, lineVars
  <2>2. \A j \in HostCallNumbers : j # k => asked'[j] = asked[j]
    BY <1>0, <1>16 DEF HostCalls
  <2>3. CASE asked' = [asked EXCEPT ![k].status = "failed"] /\ UNCHANGED down
    <3>1. asked'[k] = [asked[k] EXCEPT !.status = "failed"]
      BY <1>0, <2>3
    <3>2. asked'[k].status # "pending" /\ asked'[k].by = asked[k].by
      BY <1>0a, <3>1 DEF Entries
    <3>3. \A h \in Asks : Circulates(h)' => Circulates(h)
      BY <2>1, <2>3 DEF Circulates
    <3>4. \A j \in HostCallNumbers : asked[j].id \in Nat
      BY <1>0a DEF Entries
    <3>5. \A h \in Asks : h[2] \in Nat
      BY DEF Asks
    <3>6. \A j \in HostCallNumbers : asked'[j].by \in {0, j} /\ (asked'[j].status = "pending" => asked'[j] = asked[j])
      BY <1>0a, <2>2, <3>2
    <3>7. QED
      BY <1>0, <2>1, <3>3, <3>4, <3>5, <3>6 DEF AsksFit
  <2>4. CASE /\ Sends([kind |-> "ask", call |-> <<k, nextId>>])
             /\ asked' = [asked EXCEPT ![k] = [status |-> "pending", id |-> nextId, by |-> 0]]
    <3> DEFINE f == <<k, nextId>>
               frame == [kind |-> "ask", call |-> f]
    <3>1. f \in Asks /\ frame \in DownFrames
      BY <1>0 DEF Asks, DownFrames
    <3>2. f[1] = k /\ f[2] = nextId /\ frame.call = f
      OBVIOUS
    <3>3. down' = Append(down, frame)
      BY <2>1, <2>4, <3>1, Sending
    <3> HIDE DEF frame, f
    <3>4. /\ Len(down') = Len(down) + 1 /\ down'[Len(down) + 1] = frame
          /\ \A i \in 1 .. Len(down) : down'[i] = down[i]
      BY <1>0, <3>1, <3>3, Appended
    <3>5. \A i \in 1 .. Len(down') : i \in 1 .. Len(down) \/ i = Len(down) + 1
      BY <1>0, <3>4
    <3>6. \A h \in Asks : Circulates(h)' => Circulates(h) \/ h = f
      BY <2>1, <3>2, <3>4, <3>5 DEF Circulates
    <3>7. asked'[k].status = "pending" /\ asked'[k].id = nextId /\ asked'[k].by = 0
      BY <1>0, <2>4
    <3>8. \A j \in HostCallNumbers : asked[j].id \in Nat
      BY <1>0a DEF Entries
    <3>9. \A h \in Asks : h[2] \in Nat
      BY DEF Asks
    <3>10. ASSUME NEW j \in HostCallNumbers
           PROVE  asked'[j].by \in {0, j} /\ (asked'[j].status = "pending" => attachment' /\ asked'[j].id < nextId')
      <4>1. CASE j = k
        BY <1>0, <2>1, <3>7, <4>1
      <4>2. CASE j # k
        BY <1>0, <2>1, <2>2, <3>8, <4>2 DEF AsksFit
      <4>3. QED
        BY <4>1, <4>2
    <3>11. ASSUME NEW h \in Asks, Circulates(h)'
           PROVE  /\ h[2] < nextId'
                  /\ \A j \in HostCallNumbers : asked'[j].status = "pending" /\ asked'[j].id = h[2] => h[1] = j
      <4>1. CASE h = f
        <5>1. ASSUME NEW j \in HostCallNumbers, j # k, asked'[j].status = "pending" PROVE asked'[j].id # nextId
          <6>1. asked[j].status = "pending" /\ asked'[j].id = asked[j].id /\ asked[j].id \in Nat
            BY <2>2, <3>8, <5>1
          <6>2. asked[j].id < nextId
            BY <6>1 DEF AsksFit
          <6>3. QED
            BY <1>0, <6>1, <6>2
        <5>2. QED
          BY <1>0, <2>1, <3>2, <4>1, <5>1
      <4>2. CASE Circulates(h)
        <5>1. h[2] < nextId /\ h[2] \in Nat
          BY <2>1, <3>9, <4>2 DEF AsksFit
        <5>2. \A j \in HostCallNumbers : asked'[j].status = "pending" /\ asked'[j].id = h[2] =>
                j # k /\ asked'[j] = asked[j]
          BY <1>0, <2>2, <3>7, <5>1
        <5>3. QED
          BY <1>0, <2>1, <4>2, <5>1, <5>2 DEF AsksFit
      <4>3. QED
        BY <3>6, <3>11, <4>1, <4>2
    <3>12. QED
      BY <3>10, <3>11 DEF AsksFit
  <2>5. QED
    BY <1>16, <2>3, <2>4 DEF HostCalls
<1>17. ASSUME NEW k \in HostCallNumbers, CallTimesOut(k) PROVE AsksFit'
  <2>1. asked' = [asked EXCEPT ![k].status = "failed"] /\ UNCHANGED <<line, attachment, nextId, hooks, up, down>>
    BY <1>17 DEF CallTimesOut, lineVars
  <2>2. asked'[k] = [asked[k] EXCEPT !.status = "failed"] /\ \A j \in HostCallNumbers : j # k => asked'[j] = asked[j]
    BY <1>0, <2>1
  <2>3. asked'[k].status # "pending" /\ asked'[k].by = asked[k].by
    BY <1>0a, <2>2 DEF Entries
  <2>4. \A h \in Asks : Circulates(h)' => Circulates(h)
    BY <2>1 DEF Circulates
  <2>5. \A j \in HostCallNumbers : asked'[j].by \in {0, j} /\ (asked'[j].status = "pending" => asked'[j] = asked[j])
    BY <1>0a, <2>2, <2>3
  <2>6. QED
    BY <2>1, <2>4, <2>5, AsksKept
\* A reply is the one that its call waits for.
<1>18. CASE ReplyArrives
  <2>1. /\ up # <<>> /\ Head(up).kind = "reply" /\ up' = Tail(up)
        /\ UNCHANGED <<line, attachment, nextId, hooks, down>>
    BY <1>18 DEF ReplyArrives, lineVars
  <2> DEFINE h == Head(up).call
  <2>2. Head(up) = up[1] /\ 1 \in 1 .. Len(up) /\ h \in Asks
    BY <1>0, <2>1, TailTaken, Frames
  <2>3. Current(Head(up)) => attachment /\ Circulates(h)
    BY <2>1, <2>2 DEF Current, Circulates
  <2>4. \A k \in HostCallNumbers : asked'[k] =
          IF Current(Head(up)) /\ asked[k].status = "pending" /\ asked[k].id = h[2]
          THEN [asked[k] EXCEPT !.status = "answered", !.by = h[1]] ELSE asked[k]
    BY <1>18 DEF ReplyArrives
  <2> HIDE DEF h
  <2>5. ASSUME NEW k \in HostCallNumbers
        PROVE  asked'[k].by \in {0, k} /\ (asked'[k].status = "pending" => asked'[k] = asked[k])
    <3>1. CASE Current(Head(up)) /\ asked[k].status = "pending" /\ asked[k].id = h[2]
      <4>1. h[1] = k
        BY <2>2, <2>3, <3>1 DEF AsksFit
      <4>2. QED
        BY <1>0a, <2>4, <3>1, <4>1 DEF Entries
    <3>2. CASE ~(Current(Head(up)) /\ asked[k].status = "pending" /\ asked[k].id = h[2])
      BY <1>0a, <2>4, <3>2
    <3>3. QED
      BY <3>1, <3>2
  <2>6. \A g \in Asks : Circulates(g)' => Circulates(g)
    BY <1>6, <2>1
  <2>7. QED
    BY <2>1, <2>5, <2>6, AsksKept
<1>19. CASE UNCHANGED callVars
  BY <1>5, <1>19 DEF callVars, lineVars, hostSide, Circulates
<1>20. QED
  BY <1>1, <1>3, <1>4, <1>8, <1>9, <1>10, <1>11, <1>13, <1>14, <1>15, <1>16, <1>17, <1>18, <1>19
     DEF DispatcherNext, PluginSide, HostSide, Attachment
-----------------------------------------------------------------------------
(* The theorems.                                                           *)

\* A call of the plugin is on its way, worked on or answered; an id circulates for one call.
THEOREM DispatcherInvariant == DispatcherSpec => []DispatcherInv
<1>1. DispatcherInv /\ [DispatcherNext]_callVars => DispatcherInv'
  BY LineStep, CallsStep, AsksStep DEF DispatcherInv
<1>2. QED
  BY DispatcherStarts, <1>1, PTL DEF DispatcherSpec

\* One reply per id, ever, and the right one (dispatcher.ts:20), for every number of processes,
\* of calls either way, and of slots.
THEOREM AnswersAlwaysFit == DispatcherSpec => []AnswersFit
<1>1. DispatcherInv => AnswersFit
  BY DEF DispatcherInv, LineInv, CallsFit, AsksFit, AnswersFit
<1>2. QED
  BY DispatcherInvariant, <1>1, PTL
=============================================================================
