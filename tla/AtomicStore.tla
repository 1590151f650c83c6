----------------------------- MODULE AtomicStore -----------------------------
(***************************************************************************)
(* What a credential store promises (security/secrets.ts, the comment of   *)
(* flush): the file on disk is always one whole state of the store, the    *)
(* last one saved; a crash falls back to it, and leaves nothing in between.*)
(***************************************************************************)
VARIABLES
    mem,     \* the store in memory
    disk     \* the store on disk

(* The store is opened from disk.                                          *)
Init == mem = disk

(* A change, in memory first.                                              *)
Change ==
    /\ mem' /= mem
    /\ UNCHANGED disk

(* The whole of memory replaces the whole of the file.                     *)
Save ==
    /\ disk' = mem
    /\ UNCHANGED mem

(* A crash and what the next start reads.                                  *)
Crash ==
    /\ mem' = disk
    /\ UNCHANGED disk

Next == Change \/ Save \/ Crash

Spec == Init /\ [][Next]_<<mem, disk>>
=============================================================================
