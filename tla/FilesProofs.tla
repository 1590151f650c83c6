---------------------------- MODULE FilesProofs -----------------------------
(***************************************************************************)
(* What is true of the daemon's files for any keys, processes, calls and   *)
(* crashes.                                                                *)
(***************************************************************************)
EXTENDS SecretsStore, UpdateApply, FiniteSetTheorems, TLAPS

(***************************************************************************)
(* The credential store. Without an overlap secrets.enc is one whole store *)
(* and the store is an atomic one; with overlaps, a file that decrypts is  *)
(* still what some call under way has serialised.                          *)
(***************************************************************************)
(* A call has a file open exactly between its open and its write.          *)
OpenFiles == \A f \in Flushers : stage[f] = "opened" <=> fd[f] # NoFile

DownIsIdle == ~up => \A f \in Flushers : stage[f] = "idle"

(* Whoever wrote a readable temporary file has yet to rename it.           *)
GenuineTmp ==
    (tmp # NoFile /\ content[tmp] \in Stores) =>
        \E g \in Flushers : stage[g] = "written" /\ snapshot[g] = content[tmp]

(* As long as calls have come one at a time: the one under way has         *)
(* serialised what memory holds, and the temporary file is its own.        *)
OneAtATime ==
    /\ \A f, g \in Flushers : (stage[f] # "idle" /\ stage[g] # "idle") => f = g
    /\ \A f \in Flushers : stage[f] # "idle" => snapshot[f] = data
    /\ tmp # NoFile => \E f \in Flushers : stage[f] \in {"opened", "written"}
    /\ \A f \in Flushers : stage[f] = "opened" => fd[f] = tmp /\ content[tmp] = Empty
    /\ \A f \in Flushers : stage[f] = "written" => tmp # NoFile /\ content[tmp] = snapshot[f]
    /\ OnDisk \in Stores

IInv ==
    /\ TypeOK /\ OpenFiles /\ DownIsIdle /\ GenuineTmp
    /\ ~overlapped => OneAtATime

USE FlushersAreFinite, VersionBound, CrashBound, NotStores

-----------------------------------------------------------------------------
(* A call that makes the temporary file finds an inode nobody uses.        *)
LEMMA UnusedIsUnused ==
    ASSUME TypeOK, tmp = NoFile
    PROVE  Unused \in Files /\ Unused \notin InUse
<1> DEFINE T == {fd[f] : f \in Flushers}
<1>1. Cardinality(Flushers) \in Nat
  BY FS_CardinalityType
<1>2. fd \in Surjection(Flushers, T)
  BY DEF Surjection, TypeOK
<1>3. IsFiniteSet(T) /\ Cardinality(T) <= Cardinality(Flushers)
  BY <1>2, FS_Surjection
<1>4. Cardinality(T) \in Nat
  BY <1>3, FS_CardinalityType
<1>5. IsFiniteSet(T \cup {target}) /\ Cardinality(T \cup {target}) <= Cardinality(Flushers) + 1
  BY <1>1, <1>3, <1>4, FS_AddElement
<1>6. \E i \in Files : i \notin InUse
  <2> SUFFICES ASSUME \A i \in Files : i \in InUse PROVE FALSE
    OBVIOUS
  <2>1. Files \subseteq T \cup {target}
    BY DEF InUse, Files, NoFile
  <2>2. Cardinality(Files) = Cardinality(Flushers) + 2
    BY <1>1, FS_Interval DEF Files
  <2>3. Cardinality(Files) <= Cardinality(T \cup {target})
    BY <1>5, <2>1, FS_Subset
  <2>4. Cardinality(T \cup {target}) \in Nat
    BY <1>5, FS_CardinalityType
  <2> QED
    BY <1>1, <1>5, <2>2, <2>3, <2>4
<1> QED
  BY <1>6 DEF Unused

LEMMA InitIsIInv == Init => IInv
<1> SUFFICES ASSUME Init PROVE IInv
  OBVIOUS
<1>1. Absent \in Stores
  BY DEF Absent, Stores
<1>2. TypeOK
  <2>1. 0 \in 0..MaxVersion /\ 0 \in 0..MaxCrashes
    OBVIOUS
  <2>2. content \in [Files -> Stores \cup {Empty, Torn}]
    BY DEF Init
  <2> QED
    BY <1>1, <2>1, <2>2 DEF Init, TypeOK, Stages, NoFile
<1> QED
  BY <1>1, <1>2 DEF Init, IInv, OpenFiles, DownIsIdle, GenuineTmp, OneAtATime, OnDisk, NoFile

(* The start of a flush.  If it overlaps none, none is under way, and the  *)
(* temporary file is gone.                                                 *)
LEMMA BeginFlushStep ==
    ASSUME IInv, NEW f \in Flushers, NEW store \in Stores, BeginFlush(f, store),
           version' \in 0..MaxVersion
    PROVE  IInv'
<1> USE DEF IInv, BeginFlush
<1>1. TypeOK'
  BY DEF TypeOK, Stages
<1>2. OpenFiles' /\ DownIsIdle'
  BY DEF OpenFiles, DownIsIdle, TypeOK
<1>3. GenuineTmp'
  BY DEF GenuineTmp, TypeOK
<1>4. ASSUME ~overlapped' PROVE OneAtATime'
  <2>1. ~overlapped /\ OneAtATime /\ \A g \in Flushers : stage[g] = "idle"
    BY <1>4
  <2>2. tmp' = NoFile
    BY <2>1 DEF OneAtATime
  <2>3. \A g \in Flushers : g # f => stage'[g] = "idle"
    BY <2>1 DEF TypeOK
  <2>4. stage'[f] = "writing" /\ snapshot'[f] = data'
    BY DEF TypeOK
  <2>5. OnDisk' \in Stores
    BY <2>1 DEF OneAtATime, OnDisk
  <2> QED
    BY <2>2, <2>3, <2>4, <2>5 DEF OneAtATime
<1> QED
  BY <1>1, <1>2, <1>3, <1>4

LEMMA ChangeStep == ASSUME IInv, NEW f \in Flushers, Change(f) PROVE IInv'
<1>1. data \in Stores /\ version \in 0..MaxVersion
  BY DEF IInv, TypeOK
<1>2. CASE \E k \in Keys : Put(f, k)
  <2>1. PICK k \in Keys : Put(f, k)
    BY <1>2
  <2>2. [data EXCEPT ![k] = version + 1] \in Stores /\ version' \in 0..MaxVersion
    BY <1>1, <2>1 DEF Put, Stores
  <2> QED
    BY <2>1, <2>2, BeginFlushStep DEF Put
<1>3. CASE \E k \in Keys : Remove(f, k)
  <2>1. PICK k \in Keys : Remove(f, k)
    BY <1>3
  <2>2. [data EXCEPT ![k] = 0] \in Stores /\ version' \in 0..MaxVersion
    BY <1>1, <2>1 DEF Remove, Stores
  <2> QED
    BY <2>1, <2>2, BeginFlushStep DEF Remove
<1>4. CASE \E ks \in SUBSET Keys : RemoveAll(f, ks)
  <2>1. PICK ks \in SUBSET Keys : RemoveAll(f, ks)
    BY <1>4
  <2>2. [k \in Keys |-> IF k \in ks THEN 0 ELSE data[k]] \in Stores /\ version' \in 0..MaxVersion
    BY <1>1, <2>1 DEF RemoveAll, Stores
  <2> QED
    BY <2>1, <2>2, BeginFlushStep DEF RemoveAll
<1>5. CASE \E from \in Keys, to \in Keys : Rename(f, from, to)
  <2>1. PICK from \in Keys, to \in Keys : Rename(f, from, to)
    BY <1>5
  <2>2. [[data EXCEPT ![from] = 0] EXCEPT ![to] = data[from]] \in Stores /\ version' \in 0..MaxVersion
    BY <1>1, <2>1 DEF Rename, Stores
  <2> QED
    BY <2>1, <2>2, BeginFlushStep DEF Rename
<1> QED
  BY <1>2, <1>3, <1>4, <1>5 DEF Change

(* A file is opened: it is empty, and it is not the one that is in use.    *)
LEMMA OpenTmpStep == ASSUME IInv, NEW f \in Flushers, OpenTmp(f) PROVE IInv'
<1> USE DEF IInv, OpenTmp
<1>1. tmp' \in Files /\ tmp' # target
  BY UnusedIsUnused DEF TypeOK, InUse, NoFile
<1>2. TypeOK'
  BY <1>1 DEF TypeOK, Stages
<1>3. OpenFiles' /\ DownIsIdle'
  BY <1>1 DEF OpenFiles, DownIsIdle, TypeOK, NoFile, Files
<1>4. content'[tmp'] = Empty
  BY <1>1 DEF TypeOK
<1>5. GenuineTmp'
  BY <1>4 DEF GenuineTmp
<1>6. ASSUME ~overlapped' PROVE OneAtATime'
  <2>1. OneAtATime /\ \A g \in Flushers : g # f => stage[g] = "idle" /\ stage'[g] = "idle"
    BY <1>6 DEF OneAtATime, TypeOK
  <2>2. OnDisk' = OnDisk
    BY <1>1 DEF OnDisk, TypeOK
  <2>3. stage'[f] = "opened" /\ fd'[f] = tmp'
    BY DEF TypeOK
  <2> QED
    BY <1>4, <2>1, <2>2, <2>3 DEF OneAtATime
<1> QED
  BY <1>2, <1>3, <1>5, <1>6

(* A store is written into whatever file the call has open.                *)
LEMMA WriteTmpStep == ASSUME IInv, NEW f \in Flushers, WriteTmp(f) PROVE IInv'
<1> USE DEF IInv, WriteTmp
<1>1. fd[f] \in Files /\ snapshot[f] \in Stores
  BY DEF TypeOK, OpenFiles
<1>2. content'[fd[f]] \in {snapshot[f], Torn} /\ content' \in [Files -> Stores \cup {Empty, Torn}]
  BY <1>1 DEF TypeOK
<1>3. \A i \in Files : i # fd[f] => content'[i] = content[i]
  BY DEF TypeOK
<1>4. TypeOK'
  BY <1>2 DEF TypeOK, Stages
<1>5. OpenFiles' /\ DownIsIdle'
  BY DEF OpenFiles, DownIsIdle, TypeOK
<1>6. GenuineTmp'
  <2>1. CASE tmp = fd[f]
    BY <1>2, <2>1 DEF GenuineTmp, TypeOK
  <2>2. CASE tmp # fd[f]
    BY <1>3, <2>2 DEF GenuineTmp, TypeOK
  <2> QED
    BY <2>1, <2>2
<1>7. ASSUME ~overlapped' PROVE OneAtATime'
  <2>1. OneAtATime /\ \A g \in Flushers : g # f => stage[g] = "idle" /\ stage'[g] = "idle"
    BY <1>7 DEF OneAtATime, TypeOK
  <2>2. fd[f] = tmp /\ content[tmp] = Empty
    BY <2>1 DEF OneAtATime
  <2>3. content'[tmp] = snapshot[f] /\ tmp # NoFile
    BY <1>1, <2>2 DEF TypeOK, Files, NoFile
  <2>4. OnDisk' = OnDisk
    BY <1>1, <1>3, <2>2, <2>3 DEF OnDisk, TypeOK
  <2>5. stage'[f] = "written"
    BY DEF TypeOK
  <2> QED
    BY <2>1, <2>3, <2>4, <2>5 DEF OneAtATime
<1> QED
  BY <1>4, <1>5, <1>6, <1>7

(* The temporary file replaces secrets.enc, or is not there any more.      *)
LEMMA RenameTmpStep == ASSUME IInv, NEW f \in Flushers, RenameTmp(f) PROVE IInv'
<1> USE DEF IInv, RenameTmp
<1>1. TypeOK'
  BY DEF TypeOK, Stages, NoFile, Files
<1>2. OpenFiles' /\ DownIsIdle' /\ GenuineTmp'
  BY DEF OpenFiles, DownIsIdle, GenuineTmp, TypeOK
<1>3. ASSUME ~overlapped' PROVE OneAtATime'
  <2>1. OneAtATime /\ \A g \in Flushers : stage'[g] = "idle"
    BY <1>3 DEF OneAtATime, TypeOK
  <2>2. OnDisk' \in Stores
    BY <2>1 DEF OneAtATime, OnDisk, TypeOK
  <2> QED
    BY <2>1, <2>2 DEF OneAtATime
<1> QED
  BY <1>1, <1>2, <1>3

LEMMA RenameFailsStep == ASSUME IInv, NEW f \in Flushers, RenameFails(f) PROVE IInv'
<1> USE DEF IInv, RenameFails
<1>1. TypeOK'
  BY DEF TypeOK, Stages
<1>2. OpenFiles' /\ DownIsIdle' /\ GenuineTmp'
  BY DEF OpenFiles, DownIsIdle, GenuineTmp, TypeOK
<1>3. overlapped'
  BY DEF OneAtATime
<1> QED
  BY <1>1, <1>2, <1>3

LEMMA CrashStep == ASSUME IInv, Crash PROVE IInv'
<1> USE DEF IInv, Crash
<1>1. Absent \in Stores
  BY DEF Absent, Stores
<1>2. TypeOK'
  <2>1. crashes' \in 0..MaxCrashes
    BY DEF TypeOK
  <2>2. /\ stage' \in [Flushers -> Stages] /\ snapshot' \in [Flushers -> Stores]
        /\ fd' \in [Flushers -> Files \cup {NoFile}]
    BY <1>1 DEF Stages
  <2> QED
    BY <1>1, <2>1, <2>2 DEF TypeOK
<1>3. OpenFiles' /\ DownIsIdle' /\ GenuineTmp'
  BY DEF OpenFiles, DownIsIdle, GenuineTmp
<1>4. ASSUME ~overlapped' PROVE OneAtATime'
  BY <1>4 DEF OneAtATime, OnDisk
<1> QED
  BY <1>2, <1>3, <1>4

LEMMA OpenStep == ASSUME IInv, Open PROVE IInv'
<1> USE DEF IInv, Open
<1>1. OnDisk \in Stores
  <2>1. CASE target = NoFile
    BY <2>1 DEF OnDisk, Absent, Stores
  <2>2. CASE target # NoFile
    BY <2>2 DEF OnDisk, TypeOK
  <2> QED
    BY <2>1, <2>2
<1>2. TypeOK'
  BY <1>1 DEF TypeOK
<1>3. OpenFiles' /\ DownIsIdle' /\ GenuineTmp'
  BY DEF OpenFiles, DownIsIdle, GenuineTmp
<1>4. ASSUME ~overlapped' PROVE OneAtATime'
  BY <1>4 DEF OneAtATime, OnDisk, DownIsIdle
<1> QED
  BY <1>2, <1>3, <1>4

LEMMA StepKeepsIInv == IInv /\ [Next]_vars => IInv'
<1> SUFFICES ASSUME IInv, [Next]_vars PROVE IInv'
  OBVIOUS
<1>1. ASSUME NEW f \in Flushers, Change(f) PROVE IInv'
  BY <1>1, ChangeStep
<1>2. ASSUME NEW f \in Flushers, FlushStep(f) PROVE IInv'
  BY <1>2, OpenTmpStep, WriteTmpStep, RenameTmpStep, RenameFailsStep DEF FlushStep
<1>3. CASE UNCHANGED vars
  BY <1>3 DEF vars, IInv, TypeOK, OpenFiles, DownIsIdle, GenuineTmp, OneAtATime, OnDisk
<1> QED
  BY <1>1, <1>2, <1>3, CrashStep, OpenStep DEF Next

-----------------------------------------------------------------------------
(* What a step does to memory and to the file.                             *)

(* Only a write into secrets.enc, or a rename over it, changes what a      *)
(* reader finds, and both have a call under way to answer for it.          *)
Genuine ==
    (OnDisk' # OnDisk /\ OnDisk' \in Stores)
        => \E f \in Flushers : stage[f] # "idle" /\ OnDisk' = snapshot[f]

LEMMA StepIsGenuine == IInv /\ [Next]_vars => Genuine
<1> SUFFICES ASSUME IInv, [Next]_vars PROVE Genuine
  OBVIOUS
<1>1. ASSUME NEW f \in Flushers, Change(f) PROVE OnDisk' = OnDisk
  BY <1>1 DEF Change, Put, Remove, RemoveAll, Rename, BeginFlush, OnDisk
<1>2. ASSUME NEW f \in Flushers, OpenTmp(f) PROVE OnDisk' = OnDisk
  <2>1. tmp' \in Files /\ tmp' # target
    BY <1>2, UnusedIsUnused DEF IInv, OpenTmp, TypeOK, InUse, NoFile
  <2> QED
    BY <1>2, <2>1 DEF IInv, OpenTmp, TypeOK, OnDisk
<1>3. ASSUME NEW f \in Flushers, WriteTmp(f) PROVE Genuine
  <2>1. fd[f] \in Files
    BY <1>3 DEF IInv, WriteTmp, TypeOK, OpenFiles
  <2>2. content'[fd[f]] \in {snapshot[f], Torn} /\ \A i \in Files : i # fd[f] => content'[i] = content[i]
    BY <1>3, <2>1 DEF IInv, WriteTmp, TypeOK
  <2>3. CASE target = fd[f]
    BY <1>3, <2>1, <2>2, <2>3 DEF Genuine, WriteTmp, OnDisk, Files, NoFile
  <2>4. CASE target # fd[f]
    BY <1>3, <2>2, <2>4 DEF Genuine, IInv, WriteTmp, OnDisk, TypeOK
  <2> QED
    BY <2>3, <2>4
<1>4. ASSUME NEW f \in Flushers, RenameTmp(f) PROVE Genuine
  BY <1>4 DEF Genuine, IInv, GenuineTmp, RenameTmp, OnDisk
<1>5. ASSUME NEW f \in Flushers, RenameFails(f) PROVE OnDisk' = OnDisk
  BY <1>5 DEF RenameFails, OnDisk
<1>6. CASE Crash \/ Open \/ UNCHANGED vars
  BY <1>6 DEF Genuine, Crash, Open, vars, OnDisk
<1> QED
  BY <1>1, <1>2, <1>3, <1>4, <1>5, <1>6 DEF Next, FlushStep, Genuine

(* Unless flushes have overlapped, a step is one of the atomic store.      *)
AtomicStep == overlapped' \/ Atomic!Next \/ UNCHANGED <<Memory, OnDisk>>

LEMMA StepIsAtomic == IInv /\ [Next]_vars => AtomicStep
<1> SUFFICES ASSUME IInv, [Next]_vars, ~overlapped' PROVE Atomic!Next \/ UNCHANGED <<Memory, OnDisk>>
  BY DEF AtomicStep
<1> USE DEF Atomic!Next
<1>0. ~overlapped /\ OneAtATime
  BY DEF IInv, TypeOK, Next, Change, FlushStep, Put, Remove, RemoveAll, Rename, BeginFlush, OpenTmp,
         WriteTmp, RenameTmp, RenameFails, Crash, Open, vars
<1>1. ASSUME NEW f \in Flushers, Change(f) PROVE Atomic!Change \/ UNCHANGED <<Memory, OnDisk>>
  BY <1>1 DEF Change, Put, Remove, RemoveAll, Rename, BeginFlush, OnDisk, Atomic!Change
<1>2. ASSUME NEW f \in Flushers, OpenTmp(f) PROVE UNCHANGED <<Memory, OnDisk>>
  <2>1. tmp' \in Files /\ tmp' # target
    BY <1>2, UnusedIsUnused DEF IInv, OpenTmp, TypeOK, InUse, NoFile
  <2> QED
    BY <1>2, <2>1 DEF IInv, OpenTmp, TypeOK, OnDisk, Memory
<1>3. ASSUME NEW f \in Flushers, WriteTmp(f) PROVE UNCHANGED <<Memory, OnDisk>>
  <2>1. fd[f] = tmp /\ tmp \in Files
    BY <1>0, <1>3 DEF OneAtATime, IInv, OpenFiles, TypeOK, WriteTmp
  <2> QED
    BY <1>3, <2>1 DEF IInv, WriteTmp, TypeOK, OnDisk, Memory, NoFile, Files
<1>4. ASSUME NEW f \in Flushers, RenameTmp(f) PROVE Atomic!Save
  <2>1. up
    BY <1>4 DEF IInv, DownIsIdle, TypeOK, RenameTmp
  <2>2. OnDisk' = data
    BY <1>0, <1>4 DEF OneAtATime, RenameTmp, OnDisk
  <2> QED
    BY <1>4, <2>1, <2>2 DEF Atomic!Save, RenameTmp, Memory
<1>5. ASSUME NEW f \in Flushers, RenameFails(f) PROVE FALSE
  BY <1>0, <1>5 DEF OneAtATime, RenameFails
<1>6. ASSUME Crash PROVE Atomic!Crash
  BY <1>6 DEF Crash, Atomic!Crash, Memory, OnDisk
<1>7. CASE Open \/ UNCHANGED vars
  BY <1>7 DEF Open, vars, Memory, OnDisk
<1> QED
  BY <1>1, <1>2, <1>3, <1>4, <1>5, <1>6, <1>7 DEF Next, FlushStep

-----------------------------------------------------------------------------
(* The theorems.                                                           *)

(* What is inductive about a store whose flushes may overlap.              *)
THEOREM StoreInvariant == Spec => []IInv
<1> QED
  BY InitIsIInv, StepKeepsIInv, PTL DEF Spec

(* For any keys, calls and crashes, secrets.enc can be opened at every     *)
(* moment, as long as no two calls of flush() have been under way at once. *)
THEOREM CrashesLeaveItWhole == Spec => []WholeUnlessOverlapped
<1>1. IInv => WholeUnlessOverlapped
  BY DEF IInv, OneAtATime, WholeUnlessOverlapped, NeverHalfWritten
<1> QED
  BY <1>1, StoreInvariant, PTL

(* However many calls flush at once, what a reader can decrypt is a store  *)
(* that one of them, still under way, had serialised.                      *)
THEOREM ReadableIsSerialised == Spec => ReadableIsGenuine
<1>1. IInv /\ [Next]_vars => [Genuine]_vars
  BY StepIsGenuine
<1> QED
  BY <1>1, StoreInvariant, PTL DEF Spec, ReadableIsGenuine, Genuine

(* The store implements an atomic one until two flushes overlap.           *)
THEOREM StoreIsAtomic == Spec => ImplementsAtomicStore
<1>1. Init => Atomic!Init
  BY DEF Init, Atomic!Init, Memory, OnDisk
<1>2. IInv /\ [Next]_vars => [overlapped' \/ Atomic!Next]_<<Memory, OnDisk>>
  BY StepIsAtomic DEF AtomicStep
<1> QED
  BY <1>1, <1>2, StoreInvariant, PTL DEF Spec, ImplementsAtomicStore

-----------------------------------------------------------------------------
(***************************************************************************)
(* The executable: for every number of processes and of faults, something  *)
(* whole is at its path but between the renames of an update.              *)
(***************************************************************************)

\* No half-written download reaches the path or is put aside; and what an update has put
\* aside is still there to be rolled back to, unless a sweep has deleted it.
UpdateInv ==
  /\ UpdateTypeOK
  /\ disk[Exe] # "part"
  /\ \A p \in Pids : disk[Old(p)] # "part"
  /\ \A p \in Pids : disk[New(p)] = "part" => doing[p] \in {"downloading", "gone"}
  /\ \A p \in Pids : Swapping(p) /\ disk[Old(p)] = "none" => losses # {}
  /\ disk[Exe] = "none" => losses # {} \/ \E p \in Pids : Swapping(p)

-----------------------------------------------------------------------------
LEMMA NamesDiffer ==
  /\ Exe \in FileNames /\ Sidecars \subseteq FileNames
  /\ \A p \in Pids : /\ New(p) \in Sidecars /\ Old(p) \in Sidecars
                     /\ New(p) # Exe /\ Old(p) # Exe
  /\ \A p, q \in Pids : /\ New(p) # Old(q)
                        /\ New(p) = New(q) => p = q
                        /\ Old(p) = Old(q) => p = q
  /\ \A f \in FileNames : f = Exe \/ \E p \in Pids : f = New(p) \/ f = Old(p)
BY DEF FileNames, Sidecars, Exe, New, Old, Pids

\* The stages a process goes through.
UpdateStages == {"none", "started", "sweeping", "up", "downloading", "checked", "moved aside",
           "installed", "rolling back", "rolled back", "gone"}
Contents == {"none", "part"} \cup Executables

LEMMA UpdateStarts == UpdateInit => UpdateInv
BY UpdateAssumption, NamesDiffer
   DEF UpdateInit, UpdateInv, UpdateTypeOK, Executables, Swapping

\* A rename and its refusal keep the types.
LEMMA RenameKeepsTypes ==
  ASSUME UpdateTypeOK, NEW from \in FileNames, NEW to \in FileNames
  PROVE  /\ Renamed(from, to) => /\ disk' \in [FileNames -> Contents]
                                 /\ image' \in [Pids -> FileNames]
         /\ Refused(from, to) => /\ faults' \in 0 .. MaxFaults
                                 /\ image' \in [Pids -> FileNames]
<1>1. Renamed(from, to) => disk' \in [FileNames -> Contents]
  BY DEF UpdateTypeOK, Renamed, Contents
<1>2. Renamed(from, to) => image' \in [Pids -> FileNames]
  BY ZenonT(60) DEF UpdateTypeOK, Renamed
<1>3. faults \in 0 .. MaxFaults /\ image \in [Pids -> FileNames]
  BY DEF UpdateTypeOK
<1>4. Refused(from, to) => faults' \in 0 .. MaxFaults
  BY <1>3, UpdateAssumption DEF Refused
<1>5. Refused(from, to) => image' \in [Pids -> FileNames]
  BY <1>3 DEF Refused
<1>6. QED
  BY <1>1, <1>2, <1>4, <1>5

LEMMA UpdateStep == UpdateInv /\ [UpdateNext]_updateVars => UpdateInv'
<1> SUFFICES ASSUME UpdateInv, [UpdateNext]_updateVars PROVE UpdateInv'
  OBVIOUS
<1> USE NamesDiffer DEF UpdateInv
<1>1. ASSUME NEW p \in Pids, Starts(p) PROVE UpdateInv'
  BY <1>1 DEF Starts, Goes, UpdateTypeOK, Swapping
<1>2. ASSUME NEW p \in Pids, ListsSidecars(p) PROVE UpdateInv'
  BY <1>2 DEF ListsSidecars, Goes, UpdateTypeOK, Swapping
<1>3. ASSUME NEW p \in Pids, Sweeps(p) PROVE UpdateInv'
  <2>1. PICK f \in sidecars[p] :
          /\ sidecars' = [sidecars EXCEPT ![p] = @ \ {f}]
          /\ disk' = IF RunFrom(f) THEN disk ELSE Unlinked(f)
          /\ losses' = IF \E q \in Pids : f = Old(q) /\ Swapping(q) /\ ~RunFrom(f)
                       THEN losses \cup {"swept"} ELSE losses
    BY <1>3 DEF Sweeps
  <2>2. f \in Sidecars /\ f # Exe
    <3>1. sidecars \in [Pids -> SUBSET Sidecars]
      BY DEF UpdateTypeOK
    <3>2. f \in Sidecars
      BY <3>1
    <3>3. QED
      BY <3>2 DEF Sidecars
  <2>3. UpdateTypeOK'
    BY <1>3, <2>1, <2>2 DEF Sweeps, UpdateTypeOK, Unlinked
  <2>4. UNCHANGED doing /\ losses \subseteq losses'
    BY <1>3, <2>1 DEF Sweeps
  <2>5. \A x \in FileNames : x # f => disk'[x] = disk[x]
    BY <2>1 DEF Unlinked, UpdateTypeOK
  <2>6. \A x \in FileNames : disk'[x] \in {disk[x], "none"}
    BY <2>1 DEF Unlinked, UpdateTypeOK
  <2>7. ASSUME NEW q \in Pids, Swapping(q), disk'[Old(q)] = "none" PROVE losses' # {}
    BY <2>1, <2>4, <2>5, <2>7
  <2>8. QED
    BY <2>2, <2>3, <2>4, <2>5, <2>6, <2>7 DEF Swapping
<1>4. ASSUME NEW p \in Pids, Serves(p) PROVE UpdateInv'
  BY <1>4 DEF Serves, Goes, UpdateTypeOK, Swapping
<1>5. ASSUME NEW p \in Pids, Exits(p) PROVE UpdateInv'
  BY <1>5 DEF Exits, Goes, UpdateTypeOK, Swapping
<1>6. ASSUME NEW p \in Pids, Installs(p) PROVE UpdateInv'
  BY <1>6 DEF Installs, Goes, UpdateTypeOK, Swapping
<1>7. ASSUME NEW p \in Pids, DownloadEnds(p) PROVE UpdateInv'
  <2>1. UpdateTypeOK'
    <3>1. /\ disk \in [FileNames -> {"none", "part"} \cup Executables] /\ UpdateTypeOK
          /\ UNCHANGED <<image, sidecars, faults, losses>>
      BY <1>7 DEF DownloadEnds, UpdateTypeOK
    <3>2. \E next \in {"checked", "up"} : doing' = [doing EXCEPT ![p] = next]
      BY <1>7 DEF DownloadEnds, Goes
    <3>3. disk' \in [FileNames -> {"none", "part"} \cup Executables]
      BY <1>7, <3>1 DEF DownloadEnds, Unlinked, Executables
    <3>4. doing' \in [Pids -> {"none", "started", "sweeping", "up", "downloading", "checked", "moved aside",
                               "installed", "rolling back", "rolled back", "gone"}]
      BY <3>1, <3>2 DEF UpdateTypeOK
    <3>5. QED
      BY <3>1, <3>3, <3>4 DEF UpdateTypeOK
  <2>2. disk \in [FileNames -> Contents] /\ doing \in [Pids -> UpdateStages]
    BY DEF UpdateTypeOK, Contents, UpdateStages
  <2>3. \A x \in FileNames : x # New(p) => disk'[x] = disk[x]
    BY <1>7, <2>2 DEF DownloadEnds, Unlinked
  <2>4. disk'[New(p)] # "part"
    BY <1>7, <2>2 DEF DownloadEnds, Unlinked
  <2>5. doing[p] = "downloading" /\ UNCHANGED losses /\ doing' \in {[doing EXCEPT ![p] = "checked"], [doing EXCEPT ![p] = "up"]}
    BY <1>7 DEF DownloadEnds, Goes
  <2>6. \A q \in Pids : (Swapping(q))' <=> Swapping(q)
    BY <2>2, <2>5 DEF Swapping
  <2>7. \A q \in Pids : q # p => doing'[q] = doing[q]
    BY <2>2, <2>5
  <2>8. QED
    BY <2>1, <2>3, <2>4, <2>5, <2>6, <2>7
<1>8. ASSUME NEW p \in Pids, MovesAside(p) PROVE UpdateInv'
  <2>1. CASE Renamed(Exe, Old(p)) /\ Goes(p, "moved aside") /\ UNCHANGED faults
    <3>1. UpdateTypeOK'
      BY <1>8, <2>1, RenameKeepsTypes DEF MovesAside, Goes, UpdateTypeOK, Contents
    <3>2. disk \in [FileNames -> Contents] /\ doing \in [Pids -> UpdateStages]
      BY DEF UpdateTypeOK, Contents, UpdateStages
    <3>3. /\ disk[Exe] # "none" /\ disk'[Old(p)] = disk[Exe] /\ disk'[Exe] = "none"
          /\ \A x \in FileNames \ {Exe, Old(p)} : disk'[x] = disk[x]
      BY <2>1, <3>2 DEF Renamed
    <3>4. doing' = [doing EXCEPT ![p] = "moved aside"] /\ doing[p] = "checked" /\ UNCHANGED losses
      BY <1>8, <2>1 DEF MovesAside, Goes
    <3>5. (Swapping(p))' /\ \A q \in Pids : q # p => doing'[q] = doing[q]
      BY <3>2, <3>4 DEF Swapping
    <3>6. QED
      BY <3>1, <3>3, <3>4, <3>5 DEF Swapping
  <2>2. CASE Refused(Exe, Old(p)) /\ Goes(p, "up") /\ disk' = Unlinked(New(p))
    <3>1. UpdateTypeOK'
      BY <1>8, <2>2, RenameKeepsTypes DEF MovesAside, Goes, UpdateTypeOK, Unlinked
    <3>2. QED
      BY <1>8, <2>2, <3>1, ZenonT(60) DEF MovesAside, Goes, UpdateTypeOK, Swapping, Unlinked
  <2>3. QED
    BY <1>8, <2>1, <2>2 DEF MovesAside
<1>9. ASSUME NEW p \in Pids, MovesIn(p) PROVE UpdateInv'
  <2>1. CASE Renamed(New(p), Exe) /\ Goes(p, "installed") /\ UNCHANGED faults
    <3>1. UpdateTypeOK'
      BY <1>9, <2>1, RenameKeepsTypes DEF MovesIn, Goes, UpdateTypeOK, Contents
    <3>2. QED
      BY <1>9, <2>1, <3>1, ZenonT(60) DEF MovesIn, Renamed, Goes, UpdateTypeOK, Swapping
  <2>2. CASE Refused(New(p), Exe) /\ Goes(p, "rolling back") /\ UNCHANGED disk
    <3>1. UpdateTypeOK'
      BY <1>9, <2>2, RenameKeepsTypes DEF MovesIn, Goes, UpdateTypeOK
    <3>2. QED
      BY <1>9, <2>2, <3>1 DEF MovesIn, Goes, UpdateTypeOK, Swapping
  <2>3. QED
    BY <1>9, <2>1, <2>2 DEF MovesIn
<1>10. ASSUME NEW p \in Pids, RollsBack(p) PROVE UpdateInv'
  <2>1. CASE Renamed(Old(p), Exe) /\ UNCHANGED <<faults, losses>>
    <3>1. UpdateTypeOK'
      BY <1>10, <2>1, RenameKeepsTypes DEF RollsBack, Goes, UpdateTypeOK, Contents
    <3>2. QED
      BY <1>10, <2>1, <3>1, ZenonT(60) DEF RollsBack, Renamed, Goes, UpdateTypeOK, Swapping
  <2>2. CASE /\ Refused(Old(p), Exe) /\ UNCHANGED disk
             /\ losses' = IF disk[Old(p)] = "none" THEN losses ELSE losses \cup {"not rolled back"}
    <3>1. UpdateTypeOK'
      BY <1>10, <2>2, RenameKeepsTypes DEF RollsBack, Goes, UpdateTypeOK
    \* What cannot be rolled back has been swept away, or is lost now.
    <3>2. losses' # {}
      BY <1>10, <2>2 DEF RollsBack, Swapping
    <3>3. QED
      BY <1>10, <2>2, <3>1, <3>2 DEF RollsBack, Goes, UpdateTypeOK, Swapping
  <2>3. QED
    BY <1>10, <2>1, <2>2 DEF RollsBack
<1>11. ASSUME NEW p \in Pids, DownloadRemoved(p) PROVE UpdateInv'
  BY <1>11 DEF DownloadRemoved, Goes, UpdateTypeOK, Swapping, Unlinked
<1>12. CASE UNCHANGED updateVars
  BY <1>12 DEF updateVars, UpdateTypeOK, Swapping
<1>13. QED
  BY <1>1, <1>2, <1>3, <1>4, <1>5, <1>6, <1>7, <1>8, <1>9, <1>10, <1>11, <1>12 DEF UpdateNext

\* The inductive invariant of the update.
THEOREM UpdateInvariant == UpdateSpec => []UpdateInv
BY UpdateStarts, UpdateStep, PTL DEF UpdateSpec

\* However many copies of the program update, sweep and end at once, there is a whole
\* executable at its path but between two renames (apply.ts:18).
THEOREM PathIsRunnable == UpdateSpec => []AlwaysRunnable
<1>1. UpdateInv => AlwaysRunnable
  BY DEF UpdateInv, AlwaysRunnable
<1>2. QED
  BY <1>1, UpdateInvariant, PTL
=============================================================================
