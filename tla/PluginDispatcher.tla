-------------------------- MODULE PluginDispatcher --------------------------
(***************************************************************************)
(* The calls between one plugin and the host, both ways and over several   *)
(* processes of the plugin: plugins/dispatcher.ts with the SDK at the      *)
(* other end (packages/plugin-api/src/runtime.ts), the attachment that     *)
(* follows the supervisor's state (wiring/plugin-host.ts) and the          *)
(* supervisor's line to its process.                                       *)
(*                                                                         *)
(* A call of the plugin is known by its process and its id, which counts   *)
(* from one in every process; a call of the host by its place among all of *)
(* them, its id counting from one in every attachment.  What a call asks,  *)
(* and whether its answer is a result or an error, is left out.  How a     *)
(* process starts and ends is in PluginSupervisor.                         *)
(***************************************************************************)
EXTENDS Naturals, Sequences, FiniteSets

CONSTANTS
  MaxProcesses,   \* processes of the plugin, one after the other
  MaxIds,         \* calls that one process makes
  MaxInFlight,    \* maxInFlight
  MaxHostCalls    \* calls that the host makes

ASSUME DispatcherAssumption == {MaxProcesses, MaxIds, MaxInFlight, MaxHostCalls} \subseteq Nat

VARIABLES
  process,   \* the process that was started last, 0 before the first
  line,      \* the process that supervisor.send() reaches, 0 for none
  attachment, \* the dispatcher holds an attachment, for the process of the line
  sdk,       \* #pending of the SDK: what became of each call of the plugin
  settledBy, \* history: the call whose answer has settled each call of the plugin
  replies,   \* history: how often each call of the plugin has been answered
  work,      \* the invocations under way: whose they are, and whether they have been answered
  asked,     \* the calls of the host
  nextId,    \* nextId of the attachment
  hooks,     \* the calls of the host that the process is answering
  up,        \* the frames a process has sent that the host has not read, in order
  down,      \* the frames on the way to the process of the line, in order
  outlived   \* history: the invocations that were under way when their process ended

hostSide == <<work, asked, nextId>>
lineVars == <<process, line, attachment>>
callVars == <<lineVars, sdk, settledBy, replies, hostSide, hooks, up, down, outlived>>

Lives == 1 .. MaxProcesses
Calls == Lives \X (1 .. MaxIds)
HostCallNumbers == 1 .. MaxHostCalls
Nobody == <<0, 0>>

DispatcherInit ==
  /\ process = 0 /\ line = 0 /\ attachment = FALSE
  /\ sdk = [c \in Calls |-> "none"] /\ settledBy = [c \in Calls |-> Nobody]
  /\ replies = [c \in Calls |-> 0] /\ work = {} /\ nextId = 1
  /\ asked = [k \in HostCallNumbers |-> [status |-> "none", id |-> 0, by |-> 0]]
  /\ hooks = {} /\ up = <<>> /\ down = <<>> /\ outlived = {}

\* supervisor.send(): to the process there is now, whoever it was meant for.
Sends(frame) == IF line = 0 THEN UNCHANGED down ELSE down' = Append(down, frame)

-----------------------------------------------------------------------------
(* The attachment follows the state of the supervisor.                     *)

\* A process has been started: syncAttachment finds the supervisor starting.
ProcessStarts ==
  /\ line = 0 /\ process < MaxProcesses
  /\ process' = process + 1 /\ line' = process + 1 /\ attachment' = TRUE
  /\ nextId' = 1
  /\ UNCHANGED <<sdk, settledBy, replies, work, asked, hooks, up, down, outlived>>

\* detach(): the calls of the host fail; the work is aborted, and goes on as long as it likes.
Detached ==
  /\ attachment' = FALSE
  /\ asked' = [k \in HostCallNumbers |-> IF asked[k].status = "pending"
                                   THEN [asked[k] EXCEPT !.status = "failed"] ELSE asked[k]]

\* stop(): the process may still be reached, and is no longer heard.
Stopping ==
  /\ attachment /\ Detached
  /\ UNCHANGED <<process, line, sdk, settledBy, replies, work, nextId, hooks, up, down, outlived>>

\* The process ends, or is killed and forgotten, and with it what was on the way to it.
PluginEnds ==
  /\ line # 0
  /\ line' = 0 /\ down' = <<>> /\ hooks' = {}
  /\ IF attachment THEN Detached ELSE UNCHANGED <<attachment, asked>>
  /\ outlived' = outlived \cup {w.of : w \in work}
  /\ UNCHANGED <<process, sdk, settledBy, replies, work, nextId, up>>

-----------------------------------------------------------------------------
(* The plugin calls the host.                                              *)

\* #call of the SDK.
PluginCalls ==
  /\ line # 0
  /\ \E id \in 1 .. MaxIds :
       /\ sdk[<<line, id>>] = "none" /\ \A i \in 1 .. id - 1 : sdk[<<line, i>>] # "none"
       /\ sdk' = [sdk EXCEPT ![<<line, id>>] = "waiting"]
       /\ up' = Append(up, [kind |-> "call", from |-> line, id |-> id])
  /\ UNCHANGED <<lineVars, settledBy, replies, hostSide, hooks, down, outlived>>

\* The SDK's own timer: the promise ends without an answer.
SdkGivesUp(c) ==
  /\ sdk[c] = "waiting"
  /\ sdk' = [sdk EXCEPT ![c] = "over"]
  /\ UNCHANGED <<lineVars, settledBy, replies, hostSide, hooks, up, down, outlived>>

\* #onFrame: only the process whose epoch is current is heard.
Current(frame) == attachment /\ frame.from = line

\* The reply to a call of the plugin, from whichever turn it comes.
Reply(c) ==
  /\ Sends([kind |-> "answer", call |-> c])
  /\ replies' = [replies EXCEPT ![c] = @ + 1]

InFlight == Cardinality({w \in work : w.of[1] = line})

\* #dispatch: refused for its grant, its scope or its budget, refused because too many are
\* in flight, or invoked.
CallArrives ==
  /\ up # <<>> /\ Head(up).kind = "call"
  /\ up' = Tail(up)
  /\ LET c == <<Head(up).from, Head(up).id>>
     IN \/ ~Current(Head(up)) /\ UNCHANGED <<work, down, replies>>
        \/ Current(Head(up)) /\ Reply(c) /\ UNCHANGED work
        \/ /\ Current(Head(up)) /\ InFlight < MaxInFlight
           /\ work' = work \cup {[of |-> c, replied |-> FALSE]}
           /\ UNCHANGED <<down, replies>>
  /\ UNCHANGED <<lineVars, sdk, settledBy, asked, nextId, hooks, outlived>>

\* The deadline: the plugin is answered, and the handler has not returned.  The timer
\* outlives the attachment.
Deadline(w) ==
  /\ w \in work /\ ~w.replied
  /\ work' = (work \ {w}) \cup {[w EXCEPT !.replied = TRUE]}
  /\ Reply(w.of)
  /\ UNCHANGED <<lineVars, sdk, settledBy, asked, nextId, hooks, up, outlived>>

\* Mutant: the result is sent after the deadline, too.
ReturnsAnyway(w) ==
  /\ w \in work
  /\ work' = work \ {w}
  /\ Reply(w.of)
  /\ UNCHANGED <<lineVars, sdk, settledBy, asked, nextId, hooks, up, outlived>>

\* The handler returns or throws: what comes after the deadline is dropped.
HandlerReturns(w) ==
  /\ w \in work
  /\ work' = work \ {w}
  /\ IF w.replied THEN UNCHANGED <<down, replies>> ELSE Reply(w.of)
  /\ UNCHANGED <<lineVars, sdk, settledBy, asked, nextId, hooks, up, outlived>>

\* #settle of the SDK: the id is all it looks at.
AnswerArrives ==
  /\ down # <<>> /\ Head(down).kind = "answer"
  /\ down' = Tail(down)
  /\ LET c == <<line, Head(down).call[2]>>
     IN IF sdk[c] # "waiting" THEN UNCHANGED <<sdk, settledBy>>
        ELSE /\ sdk' = [sdk EXCEPT ![c] = "over"]
             /\ settledBy' = [settledBy EXCEPT ![c] = Head(down).call]
  /\ UNCHANGED <<lineVars, replies, hostSide, hooks, up, outlived>>

-----------------------------------------------------------------------------
(* The host calls the plugin.                                              *)

\* call(): the frame is handed over and the entry is pending, or it cannot be.
HostCalls(k) ==
  /\ attachment
  /\ asked[k].status = "none" /\ \A j \in 1 .. k - 1 : asked[j].status # "none"
  /\ nextId' = nextId + 1
  /\ \/ /\ Sends([kind |-> "ask", call |-> <<k, nextId>>])
        /\ asked' = [asked EXCEPT ![k] = [status |-> "pending", id |-> nextId, by |-> 0]]
     \/ asked' = [asked EXCEPT ![k].status = "failed"] /\ UNCHANGED down
  /\ UNCHANGED <<lineVars, sdk, settledBy, replies, work, hooks, up, outlived>>

\* #hostCall of the SDK: a hook begins.
AskArrives ==
  /\ down # <<>> /\ Head(down).kind = "ask"
  /\ down' = Tail(down)
  /\ hooks' = hooks \cup {Head(down).call}
  /\ UNCHANGED <<lineVars, sdk, settledBy, replies, hostSide, up, outlived>>

\* #answer: it has returned or thrown.
HookReturns(h) ==
  /\ h \in hooks
  /\ hooks' = hooks \ {h}
  /\ up' = Append(up, [kind |-> "reply", from |-> line, call |-> h])
  /\ UNCHANGED <<lineVars, sdk, settledBy, replies, hostSide, down, outlived>>

\* #settle: an id the attachment does not wait for is dropped.
ReplyArrives ==
  /\ up # <<>> /\ Head(up).kind = "reply"
  /\ up' = Tail(up)
  /\ LET frame == Head(up)
     IN asked' = [k \in HostCallNumbers |->
                    IF Current(frame) /\ asked[k].status = "pending" /\ asked[k].id = frame.call[2]
                    THEN [asked[k] EXCEPT !.status = "answered", !.by = frame.call[1]] ELSE asked[k]]
  /\ UNCHANGED <<lineVars, sdk, settledBy, replies, work, nextId, hooks, down, outlived>>

CallTimesOut(k) ==
  /\ asked[k].status = "pending"
  /\ asked' = [asked EXCEPT ![k].status = "failed"]
  /\ UNCHANGED <<lineVars, sdk, settledBy, replies, work, nextId, hooks, up, down, outlived>>

Attachment == ProcessStarts \/ Stopping \/ PluginEnds
PluginSide ==
  \/ Attachment
  \/ PluginCalls \/ CallArrives \/ AnswerArrives
  \/ \E c \in Calls : SdkGivesUp(c)
  \/ \E w \in work : Deadline(w) \/ HandlerReturns(w)
HostSide ==
  \/ Attachment
  \/ \E k \in HostCallNumbers : HostCalls(k) \/ CallTimesOut(k)
  \/ AskArrives \/ ReplyArrives
  \/ \E h \in hooks : HookReturns(h)

DispatcherNext == PluginSide \/ HostSide
DispatcherSpec == DispatcherInit /\ [][DispatcherNext]_callVars
-----------------------------------------------------------------------------
(* Properties.                                                             *)

DispatcherTypeOK ==
  /\ process \in 0 .. MaxProcesses /\ line \in {0, process} /\ attachment \in BOOLEAN
  /\ sdk \in [Calls -> {"none", "waiting", "over"}]
  /\ settledBy \in [Calls -> Calls \cup {Nobody}] /\ replies \in [Calls -> Nat]
  /\ work \subseteq [of : Calls, replied : BOOLEAN]
  /\ \A k \in HostCallNumbers :
       asked[k] \in [status : {"none", "pending", "answered", "failed"}, id : Nat, by : 0 .. MaxHostCalls]
  /\ hooks \subseteq HostCallNumbers \X Nat /\ nextId \in Nat \ {0}

\* "One reply per id, ever" (dispatcher.ts:20), and the right one, over the lives of the plugin's
\* process: no call of the plugin is answered twice; what settles it is the answer to it, unless
\* it is that of a handler that has outlived its process, whose id the next process uses again;
\* what settles a call of the host is the plugin's answer to that call; and no call of the host
\* waits for a plugin that is not attached.
AnswersFit ==
  /\ DispatcherTypeOK
  /\ \A c \in Calls : replies[c] <= 1 /\ settledBy[c] \in {Nobody, c} \cup outlived
  /\ \A k \in HostCallNumbers :
       asked[k].by \in {0, k} /\ (asked[k].status = "pending" => attachment)
=============================================================================
