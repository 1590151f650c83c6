----------------------------- MODULE MCGameLog -----------------------------
(* The instance of GameLog that TLC checks: what the client may write. *)
EXTENDS GameLog

\* A text: two of one kind and number are two lines that the store takes for one.
T(kind, says) == [kind |-> kind, says |-> says]

\* A client that logs one event twice in a second, before and after it authenticates;
\* one that authenticates first; or one that logs its environment, quits, and goes on
\* with shutdown noise; and the run after it, in another second.
MCScripts == <<
  {<<T("event", 1), T("auth", 1), T("event", 1)>>,
   <<T("auth", 1), T("event", 2)>>,
   <<T("env", 1), T("quit", 2), T("event", 3)>>},
  {<<T("auth", 4)>>}>>
=============================================================================
