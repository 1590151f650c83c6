---------------------------- MODULE SecretsStore ----------------------------
(***************************************************************************)
(* The credential store: security/secrets.ts, class SecretsStore.          *)
(*                                                                         *)
(* Every change of the store is made in memory and then flushed: the whole *)
(* store is encrypted and written to a temporary file beside secrets.enc,  *)
(* which is renamed over it.  A flush is asynchronous and its steps run on *)
(* other threads, so those of two flushes interleave, and the process may  *)
(* die between any two of them.                                            *)
(*                                                                         *)
(* Simplifications:                                                        *)
(*  - a secret is a version number, and the size of an encrypted store is  *)
(*    the number of its keys; account rows and graph secrets are all keys; *)
(*  - write(2) of one store is one step; mkdir and chmod, whose result     *)
(*    changes nothing below, are left out;                                 *)
(*  - encryption is what makes a file that is not one whole store          *)
(*    unreadable (Torn), since the tag covers all of it.                   *)
(***************************************************************************)
EXTENDS Naturals, FiniteSets

CONSTANTS
    Keys,          \* account ids and graph secret keys
    Flushers,      \* concurrent calls of put, remove, rename, ...
    MaxVersion,    \* bound: versions of a secret
    MaxCrashes,    \* bound: crashes
    Empty, Torn    \* contents of a file that is not one whole store

ASSUME FlushersAreFinite == IsFiniteSet(Flushers)
ASSUME VersionBound == MaxVersion \in Nat \ {0}
ASSUME CrashBound == MaxCrashes \in Nat

VARIABLES
    up,            \* the process runs, with the store open
    data,          \* #data: the version of each key, 0 where there is none
    stage,         \* where each call of flush() is
    snapshot,      \* what each call of flush() encrypted
    fd,            \* the file each call of writeFile() has open
    content,       \* the content of each file
    tmp,           \* the file named secrets.enc.<pid>.tmp
    target,        \* the file named secrets.enc
    version,       \* the last version given to a secret
    crashes,       \* crashes so far
    overlapped     \* history: two calls of flush() have been under way at once

vars == <<up, data, stage, snapshot, fd, content, tmp, target, version,
          crashes, overlapped>>

Absent == [k \in Keys |-> 0]
Stores == [Keys -> 0..MaxVersion]

ASSUME NotStores == Empty \notin Stores /\ Torn \notin Stores /\ Empty /= Torn

(* Files are numbered.  Each call of flush creates at most one, and at most*)
(* one more is held as secrets.enc or as the temporary file.               *)
Files == 1..(Cardinality(Flushers) + 2)
NoFile == 0

Stages == {"idle", "writing", "opened", "written"}

Size(store) == Cardinality({k \in Keys : store[k] /= 0})

(* What a reader of secrets.enc finds: nothing on the first run.           *)
OnDisk == IF target = NoFile THEN Absent ELSE content[target]

InUse == {tmp, target} \cup {fd[f] : f \in Flushers}
Unused == CHOOSE i \in Files : i \notin InUse

Init ==
    /\ up = TRUE
    /\ data = Absent
    /\ stage = [f \in Flushers |-> "idle"]
    /\ snapshot = [f \in Flushers |-> Absent]
    /\ fd = [f \in Flushers |-> NoFile]
    /\ content = [i \in Files |-> Empty]
    /\ tmp = NoFile
    /\ target = NoFile
    /\ version = 0
    /\ crashes = 0
    /\ overlapped = FALSE

-----------------------------------------------------------------------------
(* Mutants carry the name of the definition they follow, and one mistake.  *)

(* Mutant: the store is serialised before the change, not after it.        *)
BeginFlushOfTheOldStore(f, store) ==
    /\ up
    /\ stage[f] = "idle"
    /\ data' = store
    /\ stage' = [stage EXCEPT ![f] = "writing"]
    /\ snapshot' = [snapshot EXCEPT ![f] = data]
    /\ overlapped' = (overlapped \/ \E g \in Flushers : stage[g] /= "idle")
    /\ UNCHANGED <<up, fd, content, tmp, target, crashes>>

(* A change and the synchronous part of the flush that follows it: the     *)
(* store is serialised and encrypted before the first await.               *)
BeginFlush(f, store) ==
    /\ up
    /\ stage[f] = "idle"
    /\ data' = store
    /\ stage' = [stage EXCEPT ![f] = "writing"]
    /\ snapshot' = [snapshot EXCEPT ![f] = store]
    /\ overlapped' = (overlapped \/ \E g \in Flushers : stage[g] /= "idle")
    /\ UNCHANGED <<up, fd, content, tmp, target, crashes>>

(* put, putGraphSecret                                                     *)
Put(f, k) ==
    /\ version < MaxVersion
    /\ version' = version + 1
    /\ BeginFlush(f, [data EXCEPT ![k] = version + 1])

(* remove, removeGraphSecret: flushed whether or not there was one.        *)
Remove(f, k) ==
    /\ BeginFlush(f, [data EXCEPT ![k] = 0])
    /\ UNCHANGED version

(* removeGraphSecrets: flushed only if there was one.                      *)
RemoveAll(f, ks) ==
    /\ \E k \in ks : data[k] /= 0
    /\ BeginFlush(f, [k \in Keys |-> IF k \in ks THEN 0 ELSE data[k]])
    /\ UNCHANGED version

(* rename                                                                  *)
Rename(f, from, to) ==
    /\ data[from] /= 0
    /\ BeginFlush(f, [[data EXCEPT ![from] = 0] EXCEPT ![to] = data[from]])
    /\ UNCHANGED version

(* Mutant: the temporary file is appended to instead of truncated, and a   *)
(* readable header hides what follows.                                     *)
WriteTmpKeepsOld(f) ==
    /\ stage[f] = "opened"
    /\ content' = [content EXCEPT ![fd[f]] =
            [k \in Keys |-> IF snapshot[f][k] = 0 THEN 1 ELSE snapshot[f][k]]]
    /\ stage' = [stage EXCEPT ![f] = "written"]
    /\ fd' = [fd EXCEPT ![f] = NoFile]
    /\ UNCHANGED <<up, data, snapshot, tmp, target, version, crashes,
                   overlapped>>

(* writeFile opens the temporary file: created, or truncated if it exists. *)
OpenTmp(f) ==
    /\ stage[f] = "writing"
    /\ tmp' = IF tmp = NoFile THEN Unused ELSE tmp
    /\ fd' = [fd EXCEPT ![f] = tmp']
    /\ content' = [content EXCEPT ![tmp'] = Empty]
    /\ stage' = [stage EXCEPT ![f] = "opened"]
    /\ UNCHANGED <<up, data, snapshot, target, version, crashes, overlapped>>

(* writeFile writes from the start of the file it has open and closes it.  *)
(* What another writer has put there and is longer sticks out at the end.  *)
WriteTmp(f) ==
    /\ stage[f] = "opened"
    /\ content' = [content EXCEPT ![fd[f]] =
            IF \/ @ = Empty
               \/ @ /= Torn /\ Size(snapshot[f]) >= Size(@)
            THEN snapshot[f] ELSE Torn]
    /\ stage' = [stage EXCEPT ![f] = "written"]
    /\ fd' = [fd EXCEPT ![f] = NoFile]
    /\ UNCHANGED <<up, data, snapshot, tmp, target, version, crashes,
                   overlapped>>

(* rename over the target: the call of flush resolves.                     *)
RenameTmp(f) ==
    /\ stage[f] = "written"
    /\ tmp /= NoFile
    /\ target' = tmp
    /\ tmp' = NoFile
    /\ stage' = [stage EXCEPT ![f] = "idle"]
    /\ UNCHANGED <<up, data, snapshot, fd, content, version, crashes, overlapped>>

(* ENOENT, another flush having renamed the temporary file away: the call  *)
(* of flush rejects, and with it the put.                                  *)
RenameFails(f) ==
    /\ stage[f] = "written"
    /\ tmp = NoFile
    /\ stage' = [stage EXCEPT ![f] = "idle"]
    /\ UNCHANGED <<up, data, snapshot, fd, content, tmp, target, version,
                   crashes, overlapped>>

-----------------------------------------------------------------------------
(* The process dies: memory and open files go, the files stay.             *)
Crash ==
    /\ up
    /\ crashes < MaxCrashes
    /\ crashes' = crashes + 1
    /\ up' = FALSE
    /\ data' = Absent
    /\ stage' = [f \in Flushers |-> "idle"]
    /\ snapshot' = [f \in Flushers |-> Absent]
    /\ fd' = [f \in Flushers |-> NoFile]
    /\ tmp' = NoFile    \* the next process has another pid, so another name
    /\ UNCHANGED <<content, target, version, overlapped>>

(* SecretsStore.open: decrypt throws unless the file is one whole store.   *)
Open ==
    /\ ~up
    /\ OnDisk \notin {Empty, Torn}
    /\ up' = TRUE
    /\ data' = OnDisk
    /\ UNCHANGED <<stage, snapshot, fd, content, tmp, target, version,
                   crashes, overlapped>>

Change(f) ==
    \/ \E k \in Keys : Put(f, k) \/ Remove(f, k)
    \/ \E ks \in SUBSET Keys : RemoveAll(f, ks)
    \/ \E from \in Keys, to \in Keys : Rename(f, from, to)

FlushStep(f) ==
    \/ OpenTmp(f)
    \/ WriteTmp(f)
    \/ RenameTmp(f)
    \/ RenameFails(f)

Next ==
    \/ \E f \in Flushers : Change(f) \/ FlushStep(f)
    \/ Crash
    \/ Open

Spec == Init /\ [][Next]_vars
-----------------------------------------------------------------------------
(* Every variable has its type, and no file has two names.                 *)
TypeOK ==
    /\ up \in BOOLEAN
    /\ data \in Stores
    /\ stage \in [Flushers -> Stages]
    /\ snapshot \in [Flushers -> Stores]
    /\ fd \in [Flushers -> Files \cup {NoFile}]
    /\ content \in [Files -> Stores \cup {Empty, Torn}]
    /\ tmp \in Files \cup {NoFile}
    /\ target \in Files \cup {NoFile}
    /\ tmp = target => tmp = NoFile
    /\ version \in 0..MaxVersion
    /\ overlapped \in BOOLEAN
    /\ crashes \in 0..MaxCrashes

(* "A crash mid-write must never leave a half-written credential store":   *)
(* secrets.enc can be opened at every moment.                              *)
NeverHalfWritten == OnDisk \notin {Empty, Torn}

(* It can as long as no two flushes have been under way at once, whatever  *)
(* the moment of a crash; and no file has two names (TypeOK).              *)
WholeUnlessOverlapped == TypeOK /\ (overlapped \/ NeverHalfWritten)

(* Whatever flushes race, a file that decrypts is the store as some call in *)
(* flight serialised it, never a mixture that happens to be readable.      *)
ReadableIsGenuine ==
    [][OnDisk' /= OnDisk /\ OnDisk' \in Stores
        => \E f \in Flushers : stage[f] /= "idle" /\ OnDisk' = snapshot[f]]_vars

(* As long as flushes do not overlap the store implements an atomic one:   *)
(* down, it is what is on disk, and a flush that resolves has saved what   *)
(* memory holds.                                                           *)
Memory == IF up THEN data ELSE OnDisk
Atomic == INSTANCE AtomicStore WITH mem <- Memory, disk <- OnDisk
ImplementsAtomicStore ==
    Atomic!Init /\ [][overlapped' \/ Atomic!Next]_<<Memory, OnDisk>>
=============================================================================
