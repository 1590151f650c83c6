---------------------------- MODULE UpdateApply ----------------------------
(***************************************************************************)
(* The in-app update: the executable, the files beside it, and the         *)
(* processes that run from them (updates/apply.ts, the guard and handover  *)
(* of updates/checker.ts, and the sweep at the start of index.ts).         *)
(*                                                                         *)
(* Nothing keeps a second copy of the program from being started: it takes *)
(* other ports.  So several processes may sweep and update one directory.  *)
(* Windows lets a running image be renamed, and not be deleted or          *)
(* overwritten.  What is downloaded is the one release; a file is "part"   *)
(* of it or an executable of a version.                                    *)
(***************************************************************************)
EXTENDS Naturals, FiniteSets

CONSTANTS
  MaxProcesses,   \* processes that are ever started
  MaxFaults       \* renames that fail for a reason of the disk's

ASSUME UpdateAssumption == MaxProcesses \in Nat /\ MaxFaults \in Nat

VARIABLES
  disk,      \* what is there under each name
  doing,     \* how far each process is
  image,     \* the name of the file that each process runs from
  sidecars,  \* the names that the sweep of each process has still to delete
  faults,
  losses     \* history: what may have taken the executable away

updateVars == <<disk, doing, image, sidecars, faults, losses>>

Pids == 1 .. MaxProcesses
Exe == <<"exe", 0>>
New(p) == <<"new", p>>
Old(p) == <<"old", p>>
Sidecars == {New(p) : p \in Pids} \cup {Old(p) : p \in Pids}
FileNames == {Exe} \cup Sidecars
Executables == {"current", "release"}

Running(p) == doing[p] \notin {"none", "gone"}
RunFrom(name) == \E p \in Pids : Running(p) /\ image[p] = name
\* Between the two renames.
Swapping(p) == doing[p] \in {"moved aside", "rolling back"}

UpdateInit ==
  /\ disk = [f \in FileNames |-> IF f = Exe THEN "current" ELSE "none"]
  /\ doing = [p \in Pids |-> "none"] /\ image = [p \in Pids |-> Exe]
  /\ sidecars = [p \in Pids |-> {}]
  /\ faults = 0 /\ losses = {}

Goes(p, stage) == doing' = [doing EXCEPT ![p] = stage]
Unlinked(name) == [disk EXCEPT ![name] = "none"]

\* A rename that does what it says: processes go on under the new name.
Renamed(from, to) ==
  /\ disk[from] # "none" /\ ~RunFrom(to)
  /\ disk' = [disk EXCEPT ![to] = disk[from], ![from] = "none"]
  /\ image' = [p \in Pids |-> IF image[p] = from THEN to ELSE image[p]]

\* One that throws: there is nothing, the target is in use, or the disk refuses.
Refused(from, to) ==
  /\ IF disk[from] = "none" \/ RunFrom(to) THEN UNCHANGED faults
     ELSE faults < MaxFaults /\ faults' = faults + 1
  /\ UNCHANGED image

-----------------------------------------------------------------------------
(* A process starts, and deletes what others have left.                    *)

\* By a shortcut, or handed over to by an update.
Starts(p) ==
  /\ doing[p] = "none" /\ \A q \in 1 .. p - 1 : doing[q] # "none"
  /\ disk[Exe] \in Executables
  /\ Goes(p, "started") /\ image' = [image EXCEPT ![p] = Exe]
  /\ UNCHANGED <<disk, sidecars, faults, losses>>

\* sweepSidecars: the directory is read once.
ListsSidecars(p) ==
  /\ doing[p] = "started" /\ Goes(p, "sweeping")
  /\ sidecars' = [sidecars EXCEPT ![p] = {f \in Sidecars : disk[f] # "none"}]
  /\ UNCHANGED <<disk, image, faults, losses>>

\* One of them is deleted, unless somebody runs from it.
Sweeps(p) ==
  /\ doing[p] = "sweeping"
  /\ \E f \in sidecars[p] :
       /\ sidecars' = [sidecars EXCEPT ![p] = @ \ {f}]
       /\ disk' = IF RunFrom(f) THEN disk ELSE Unlinked(f)
       /\ losses' = IF \E q \in Pids : f = Old(q) /\ Swapping(q) /\ ~RunFrom(f)
                    THEN losses \cup {"swept"} ELSE losses
  /\ UNCHANGED <<doing, image, faults>>

Serves(p) ==
  /\ doing[p] = "sweeping" /\ sidecars[p] = {}
  /\ Goes(p, "up")
  /\ UNCHANGED <<disk, image, sidecars, faults, losses>>

-----------------------------------------------------------------------------
(* install() and applyUpdate().  A process that is at it refuses another.  *)

\* Only an older version is offered the release; the download is being written.
Installs(p) ==
  /\ doing[p] = "up" /\ disk[image[p]] = "current"
  /\ Goes(p, "downloading")
  /\ disk' = [disk EXCEPT ![New(p)] = "part"]
  /\ UNCHANGED <<image, sidecars, faults, losses>>

\* It is all there, if nobody has deleted it meanwhile, or it is deleted.
DownloadEnds(p) ==
  /\ doing[p] = "downloading"
  /\ \/ /\ Goes(p, "checked")
        /\ disk' = IF disk[New(p)] = "none" THEN disk ELSE [disk EXCEPT ![New(p)] = "release"]
     \/ Goes(p, "up") /\ disk' = Unlinked(New(p))
  /\ UNCHANGED <<image, sidecars, faults, losses>>

MovesAside(p) ==
  /\ doing[p] = "checked"
  /\ \/ Renamed(Exe, Old(p)) /\ Goes(p, "moved aside") /\ UNCHANGED faults
     \/ Refused(Exe, Old(p)) /\ Goes(p, "up") /\ disk' = Unlinked(New(p))
  /\ UNCHANGED <<sidecars, losses>>

MovesIn(p) ==
  /\ doing[p] = "moved aside"
  /\ \/ Renamed(New(p), Exe) /\ Goes(p, "installed") /\ UNCHANGED faults
     \/ Refused(New(p), Exe) /\ Goes(p, "rolling back") /\ UNCHANGED disk
  /\ UNCHANGED <<sidecars, losses>>

\* Mutant: the update fails and the old file stays where it was put.
GivesUp(p) ==
  /\ doing[p] = "rolling back"
  /\ Goes(p, "up") /\ disk' = Unlinked(New(p))
  /\ UNCHANGED <<image, sidecars, faults, losses>>

\* The rollback; that it fails is nobody's concern.
RollsBack(p) ==
  /\ doing[p] = "rolling back"
  /\ \/ /\ Renamed(Old(p), Exe) /\ UNCHANGED <<faults, losses>>
     \/ /\ Refused(Old(p), Exe) /\ UNCHANGED disk
        /\ losses' = IF disk[Old(p)] = "none" THEN losses ELSE losses \cup {"not rolled back"}
  /\ Goes(p, "rolled back")
  /\ UNCHANGED sidecars

DownloadRemoved(p) ==
  /\ doing[p] = "rolled back"
  /\ Goes(p, "up") /\ disk' = Unlinked(New(p))
  /\ UNCHANGED <<image, sidecars, faults, losses>>

\* The process ends: handed over after an update, stopped by the user, or killed.
Exits(p) ==
  /\ Running(p) /\ Goes(p, "gone")
  /\ sidecars' = [sidecars EXCEPT ![p] = {}]
  /\ losses' = IF Swapping(p) THEN losses \cup {"killed"} ELSE losses
  /\ UNCHANGED <<disk, image, faults>>

UpdateNext ==
  \E p \in Pids :
    \/ Starts(p) \/ ListsSidecars(p) \/ Sweeps(p) \/ Serves(p) \/ Exits(p)
    \/ Installs(p) \/ DownloadEnds(p) \/ MovesAside(p) \/ MovesIn(p)
    \/ RollsBack(p) \/ DownloadRemoved(p)

UpdateSpec == UpdateInit /\ [][UpdateNext]_updateVars
-----------------------------------------------------------------------------
(* Properties.                                                             *)

UpdateTypeOK ==
  /\ disk \in [FileNames -> {"none", "part"} \cup Executables]
  /\ doing \in [Pids -> {"none", "started", "sweeping", "up", "downloading", "checked", "moved aside",
                         "installed", "rolling back", "rolled back", "gone"}]
  /\ image \in [Pids -> FileNames] /\ sidecars \in [Pids -> SUBSET Sidecars]
  /\ faults \in 0 .. MaxFaults /\ losses \subseteq {"swept", "not rolled back", "killed"}

\* There is an executable of one piece at the path that every shortcut names, but between the
\* two renames of an update ("a failed update that leaves no vrc.zip on disk is the one outcome
\* worth writing rollback code for", apply.ts:18), however updates, sweeps and ends of several
\* processes interleave.  What the code does not survive is an end between the renames, a
\* rollback that fails itself, and a sweep that deletes a file put aside by a process which
\* does not run from it.
AlwaysRunnable ==
  /\ UpdateTypeOK /\ disk[Exe] # "part"
  /\ disk[Exe] = "none" => losses # {} \/ \E p \in Pids : Swapping(p)
=============================================================================
