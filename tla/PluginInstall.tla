---------------------------- MODULE PluginInstall ----------------------------
(***************************************************************************)
(* One plugin as it is installed, asked for, updated, started, turned off  *)
(* and uninstalled, by several installs at once: what the store says of it,*)
(* which bundles are on disk, and which of them runs.  (wiring/            *)
(* plugin-host.ts, plugins/install, plugins/registry.ts, plugins/consent.ts*)
(* and the plugin statements of store/queries.ts.)                         *)
(*                                                                         *)
(* A build is what the pipeline makes of a directory: the version, the     *)
(* question its manifest asks (grantHash) and the hash of its bundle.  What*)
(* a grant allows, and which of several grants of a version counts, are    *)
(* left out; of the supervisor only whether a process is up, is to be      *)
(* restarted or is off (see PluginSupervisor).                             *)
(***************************************************************************)
EXTENDS Naturals, FiniteSets

CONSTANTS
  Builds,        \* records of version, question and bundle
  MaxInstalls,   \* bound: installs that are ever begun
  MaxLives       \* bound: times the daemon starts

ASSUME InstallAssumption == MaxInstalls \in Nat /\ MaxLives \in Nat \ {0}

VARIABLES
  row,        \* the row of the plugin: {} or one build
  off,        \* disabled_at is set
  grants,     \* the live rows of plugin_grants: version and question
  files,      \* the artifacts on disk
  installs,   \* each install: how far it is, and what it has built
  keeper,     \* the supervisor: "none", "idle", "up", "backoff" or "disabled"
  runs,       \* the bundle of the process that is up: {} or one
  lives,      \* how often the daemon has started
  booted,     \* startAll() has been called
  robbed,     \* history: artifacts removed while a row or an install was of them
  wish        \* history: the user wants it "on" or "off", or was not heard: "unheard"

hostVars == <<row, off, grants, files, installs, keeper, runs, lives, booted, robbed, wish>>

Ids == 1 .. MaxInstalls
Bundles == {b.bundle : b \in Builds}
Question(b) == [version |-> b.version, question |-> b.question]
NotBegun == [step |-> "new", build |-> {}]
To(i, step) == installs' = [installs EXCEPT ![i].step = step]
BundleOf(builds) == {b.bundle : b \in builds}
Installed == row # {}
\* liveGrant(): of the version of the row.
Granted == \E g \in grants, b \in row : g.version = b.version

HostInit ==
  /\ row = {} /\ off = FALSE /\ grants = {} /\ files = {}
  /\ installs = [i \in Ids |-> NotBegun]
  /\ keeper = "none" /\ runs = {} /\ lives = 1 /\ booted = FALSE /\ robbed = {} /\ wish = "on"

-----------------------------------------------------------------------------
(* The registry and what it asks of the supervisor.                        *)

DisableOf(k) == IF k = "none" THEN k ELSE "disabled"

\* start() of the row r, which is not disabled, with the artifacts fs, where the
\* supervisor is k and runs run: the artifact is loaded and verified, whatever the grants.
StartOf(r, fs, k, run) ==
  IF BundleOf(r) \cap fs = {} \/ k \notin {"none", "idle", "backoff"}
  THEN keeper' = k /\ runs' = run
  ELSE \/ keeper' = "up" /\ runs' = BundleOf(r)
       \/ keeper' = "disabled" /\ runs' = {}   \* the factory fails

\* registry.enable(): a disable is cleared, then start().
EnableOf(r, fs) ==
  /\ off' = FALSE
  /\ StartOf(r, fs, IF keeper = "disabled" THEN "idle" ELSE keeper, runs)

\* startAll(), at boot.
StartAll ==
  /\ ~booted
  /\ booted' = TRUE
  /\ IF off \/ ~Installed THEN UNCHANGED <<keeper, runs>> ELSE StartOf(row, files, keeper, runs)
  /\ UNCHANGED <<row, off, grants, files, installs, lives, robbed, wish>>

\* The process dies: it is to be restarted, or it has crashed too often.
PluginCrashes ==
  /\ keeper = "up"
  /\ runs' = {}
  /\ \/ keeper' = "backoff" /\ UNCHANGED off
     \/ keeper' = "disabled" /\ off' = Installed
  /\ UNCHANGED <<row, grants, files, installs, lives, booted, robbed, wish>>

\* The restart timer: the spawn is resolved again, and one that cannot be is a halt.
RestartFires ==
  /\ keeper = "backoff"
  /\ IF BundleOf(row) \cap files = {} THEN keeper' = "disabled" /\ UNCHANGED runs
     ELSE StartOf(row, files, keeper, runs)
  /\ UNCHANGED <<row, off, grants, files, installs, lives, booted, robbed, wish>>

UserEnables ==
  /\ EnableOf(row, files)
  /\ wish' = "on"
  /\ UNCHANGED <<row, grants, files, installs, lives, booted, robbed>>

\* Mutant: only what runs is turned off, and the row does not say so.
UserStops ==
  /\ keeper' = DisableOf(keeper) /\ runs' = {}
  /\ wish' = IF Installed THEN "off" ELSE "on"
  /\ UNCHANGED <<row, off, grants, files, installs, lives, booted, robbed>>

\* disable(), of the supervisor or, without one, of the row.  A supervisor that is off
\* already does nothing, also if that is for this life only (supervisor.ts:932).
UserDisables ==
  /\ keeper' = DisableOf(keeper) /\ runs' = {}
  /\ off' = IF keeper = "disabled" THEN off ELSE Installed
  /\ wish' = IF ~Installed THEN "on" ELSE IF keeper = "disabled" /\ ~off THEN "unheard" ELSE "off"
  /\ UNCHANGED <<row, grants, files, installs, lives, booted, robbed>>

-----------------------------------------------------------------------------
(* install(), in the steps between its awaits.                             *)

\* installPluginFromDirectory(): a failure leaves nothing, and the artifact is written
\* unless it is there.
Build(i) ==
  /\ installs[i].step = "new"
  /\ \/ To(i, "over") /\ UNCHANGED <<files, robbed>>
     \/ \E b \in Builds :
          /\ installs' = [installs EXCEPT ![i] = [step |-> "built", build |-> {b}]]
          /\ files' = files \cup {b.bundle}
          /\ robbed' = robbed \ {b.bundle}
  /\ UNCHANGED <<row, off, grants, keeper, runs, lives, booted, wish>>

\* The row is written; a question that has been answered is not asked again, and the
\* plugin is restarted: disabled, enabled.
Record(i) ==
  /\ installs[i].step = "built"
  /\ row' = installs[i].build
  /\ IF \E b \in installs[i].build : Question(b) \in grants
     THEN /\ To(i, "restarted") /\ off' = FALSE /\ wish' = "on"
          /\ StartOf(row', files, IF keeper = "none" THEN "none" ELSE "idle", {})
     ELSE To(i, "asked") /\ off' = (Installed /\ off) /\ UNCHANGED <<keeper, runs, wish>>
  /\ UNCHANGED <<grants, files, lives, booted, robbed>>

\* The restart is over: the install reports it, or it goes on and asks if the plugin has
\* been uninstalled meanwhile.
Report(i) ==
  /\ installs[i].step = "restarted"
  /\ To(i, IF Installed THEN "over" ELSE "asked")
  /\ UNCHANGED <<row, off, grants, files, keeper, runs, lives, booted, robbed, wish>>

\* Denied, timed out: nothing is undone.
Deny(i) ==
  /\ installs[i].step = "asked"
  /\ To(i, "over")
  /\ UNCHANGED <<row, off, grants, files, keeper, runs, lives, booted, robbed, wish>>

\* What another install has written and not yet put into a row, or the row itself.
NeededBesides(i) ==
  BundleOf((UNION {installs[j].build : j \in {j \in Ids \ {i} : installs[j].step = "built"}}) \cup row)

\* Approved: the grant is written (and cannot be without a row), every other artifact is
\* pruned, and the plugin is enabled, which does nothing to one that is up.
Approve(i) ==
  /\ installs[i].step = "asked"
  /\ To(i, "over")
  /\ IF ~Installed THEN UNCHANGED <<grants, files, off, keeper, runs, robbed>>
     ELSE \E b \in installs[i].build :
            /\ grants' = grants \cup {Question(b)}
            /\ files' = files \cap {b.bundle}
            /\ robbed' = robbed \cup (NeededBesides(i) \ {b.bundle})
            /\ EnableOf(row, files')
  /\ wish' = "on"
  /\ UNCHANGED <<row, lives, booted>>

\* uninstall(): killed, and then the grants, the row and the artifacts go.
Uninstall ==
  /\ wish' = "on"
  /\ keeper' = DisableOf(keeper) /\ runs' = {} /\ off' = FALSE
  /\ row' = {} /\ grants' = {} /\ files' = {}
  /\ robbed' = robbed \cup BundleOf(UNION {installs[j].build : j \in {j \in Ids : installs[j].step = "built"}})
  /\ UNCHANGED <<installs, lives, booted>>

\* The daemon stops, or dies, and starts again: an unanswered question is no.
Reboot ==
  /\ lives < MaxLives
  /\ lives' = lives + 1 /\ booted' = FALSE
  /\ installs' = [i \in Ids |-> IF installs[i].step = "new" THEN installs[i]
                                ELSE [installs[i] EXCEPT !.step = "over"]]
  /\ keeper' = "none" /\ runs' = {}
  /\ UNCHANGED <<row, off, grants, files, robbed, wish>>

HostNext ==
  \/ StartAll \/ PluginCrashes \/ RestartFires \/ UserEnables \/ UserDisables \/ Uninstall \/ Reboot
  \/ \E i \in Ids : Build(i) \/ Record(i) \/ Report(i) \/ Deny(i) \/ Approve(i)

HostSpec == HostInit /\ [][HostNext]_hostVars

-----------------------------------------------------------------------------
(* Properties.                                                             *)

NothingRunsUninstalled == runs # {} => Installed /\ ~off
ArtifactIsThere == BundleOf(row) \subseteq files \cup robbed
OffStaysOff == wish = "off" => runs = {}

\* The row, the disk and the process agree through installs, updates, crashes, boots and
\* uninstalls that overlap: what runs is installed and on; the bundle that the row names
\* is there to be started (artifact.ts:18), unless another install was approved, or the
\* plugin uninstalled, across the install that wrote it; and what the user has turned off
\* stays off over a restart of the daemon (registry.ts:186), unless the supervisor had
\* turned it off itself, for this life, before.
RowDiskAndProcessAgree == NothingRunsUninstalled /\ ArtifactIsThere /\ OffStaysOff

\* "It cannot start without a grant" (plugin-host.ts:771): a process begins only for a
\* version that somebody has agreed to.
StartsOnlyGranted == [][runs = {} /\ runs' # {} => Granted']_hostVars
=============================================================================
