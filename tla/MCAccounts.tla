------------------------------ MODULE MCAccounts ------------------------------
(***************************************************************************)
(* The accounts and their pipelines for TLC, three machines in one state   *)
(* space: who is signed in and what is stored of it; the pipeline client   *)
(* under any caller (its start, restart and dispose in every order, its    *)
(* supplier free to refuse and to reject); and the client as the daemon    *)
(* wires it to an account.                                                 *)
(***************************************************************************)
EXTENDS Accounts, AccountPipeline, FiniteSets

CONSTANT
  MaxTurns     \* bound: calls begun and requests sent, where those for
               \* another name than that of the first count twice

VARIABLES
  part,        \* which of the three this behaviour is about
  turns        \* calls begun and requests sent so far

mcVars == <<accountsVars, allVars, part, turns>>

MCInit ==
  /\ part \in {"accounts", "client", "daemon"}
  /\ turns = 0
  /\ AccountsInit /\ AppInit
  /\ part = "daemon" \/ session = "none"

First == CHOOSE name \in Names : TRUE
Begun == {f \in Flows : flow[f] = Idle /\ flow'[f] /= Idle}
Others == {f \in Begun : inst'[flow'[f].of].name /= First}
TurnsTaken == IF crashes' /= crashes THEN 0 ELSE Cardinality(Begun) + Cardinality(Others)

InAccounts(action) ==
  /\ part = "accounts" /\ action
  /\ turns' = turns + TurnsTaken /\ turns' <= MaxTurns
  /\ turns = 0 => Others = {}
  /\ UNCHANGED <<allVars, part>>
InClient(action) ==
  part = "client" /\ action /\ UNCHANGED <<accountsVars, accountVars, socketToken, part, turns>>
InDaemon(action) == part = "daemon" /\ action /\ UNCHANGED <<accountsVars, part, turns>>

MCSpec ==
  /\ MCInit /\ [][InAccounts(AccountsNext) \/ InClient(Next) \/ InDaemon(AppNext)]_mcVars
  /\ \A f \in Flows : WF_mcVars(flow[f].kind = "call" /\ InAccounts(Advance(f)))
  /\ \A i \in Instances : WF_mcVars(InAccounts(Reauthenticate(i)))
  /\ WF_mcVars(InClient(TokenSettles))
  /\ WF_mcVars(InClient(SocketOpens \/ (openedAt = "none" /\ SocketCloses)))
  /\ WF_mcVars(InClient(ReconnectTimerFires))
  /\ WF_mcVars(InClient(socket \in silent /\ IdleTimerFires))
  /\ WF_mcVars(InDaemon(TokenSettlesInApp))
  /\ WF_mcVars(InDaemon(openedAt = "none" /\ socket /= NoSocket /\ ClientAlone))
  /\ WF_mcVars(InDaemon(reconnectTimer /\ ClientAlone))
  /\ WF_mcVars(InDaemon(socket \in silent /\ ClientAlone))
  /\ WF_mcVars(InDaemon(ReauthSucceeds)) /\ WF_mcVars(InDaemon(ConnectAtStartup))
=============================================================================
