------------------------------ MODULE MCFiles ------------------------------
(***************************************************************************)
(* The files the daemon replaces by renaming, for TLC: the credential      *)
(* store and the executable.  A behaviour is about one of the two.         *)
(***************************************************************************)
EXTENDS SecretsStore, UpdateApply

VARIABLE part

mcVars == <<vars, updateVars, part>>

MCInit == part \in {"store", "executable"} /\ Init /\ UpdateInit
MCNext ==
  \/ part = "store" /\ Next /\ UNCHANGED <<updateVars, part>>
  \/ part = "executable" /\ UpdateNext /\ UNCHANGED <<vars, part>>
MCSpec == MCInit /\ [][MCNext]_mcVars
=============================================================================
