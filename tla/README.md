# Formal models of the vrc.zip daemon

vrc.zip is a desktop companion for VRChat. Its daemon (`src/desktop-app/daemon`,
TypeScript on Bun) signs in to VRChat accounts, holds one event socket per
account, watches the game's log files, delivers events to webhooks, runs users'
automation graphs and plugins, and serves a user interface and local
applications. It is one thread driven by promises, socket callbacks and timers:
nothing is preempted, but everything is interleaved at every `await`.

This directory holds TLA+ models of the parts of the daemon in which those
interleavings, restarts and failures matter, the TLC configurations that check
them on small instances, and TLAPS proofs of the results that hold for every
value of the constants. Paths below are relative to
`src/desktop-app/daemon/src` unless they say otherwise.

- [Inventory](#inventory)
- [Modules](#modules)
- [Runs, bounds and what they show](#runs-bounds-and-what-they-show)
- [Fairness](#fairness)
- [Proofs](#proofs)
- [Disagreements between the code and what is said of it](#disagreements-between-the-code-and-what-is-said-of-it)
- [Assumptions](#assumptions)
- [Not modelled](#not-modelled)
- [Plan](#plan)

## Inventory

| Component | State | Operations | What is hard |
|---|---|---|---|
| Pipeline client, `pipeline/client.ts` | connection state, failure streak, generation, socket, three timers | start, restart, dispose; a token settles; the socket opens, delivers, closes; timers fire | five sources of steps in any order; promises that settle after they were superseded; peers that vanish without a close |
| Pipeline wiring, `app.ts` 255-300 | which account has a client | connect on `account.ready` and at startup, re-authenticate when the token is refused | the client outlives the session, and even the account |
| Accounts, `accounts/{account,manager,auth}.ts` | jar and state of every `Account`, registry by id, rows of the store | add, verify a code, load, remove, a request's 401, re-authentication, re-keying from a pending to a real id | every operation is a chain of awaits; two of them meet on one account, one registry key and one row |
| Secrets store, `security/secrets.ts` | the store in memory, the encrypted file, its temporary file | put, remove, rename, flush, open | flushes that overlap; a crash between truncating, writing and renaming |
| Rate limiter, `net/rate-limiter.ts`, `net/request.ts` | token buckets, the 429 breaker, gauges | acquire, 429, success, the retry loop | no queue: each call loops, sleeps and races; buckets are refilled lazily |
| Webhooks, `webhooks/{manager,delivery}.ts`, `store/queries.ts` | webhook rows, delivery rows, dispatch set, attempts under way | enqueue, claim, send, record, retry, dead-letter, auto-disable, edit, remove, prune, stop, start | the answer comes after the webhook was disabled or removed; crashes between sending and recording |
| Game logs, `game-logs/{watcher,tail,sessions,parser}.ts`, `wiring/{log-bridge,feed-writer}.ts` | a tail with its byte offset, an open block, a session and its buffer per file; offsets, session rows and events in the store | adopt, poll, read, ingest, finish, reap, flush, stop, start | an offset is a promise about what was ingested; files rotate and are truncated; clients die silently; what is held back dies with the process |
| Graph engine, `graphs/engine.ts` | rows of runs, the walks of this process, sweeps, the hour window | fire, walk, park, sweep, resume, pump the queue, stop, switch, restart | sweeps overlap; a parked run holds a slot and no walk; every path out of a run must pump the queue |
| Plugin install, `wiring/plugin-host.ts`, `plugins/{install,registry,consent}` | the row of a plugin, its grants, the bundles on disk, the user's disable | build, record, ask, approve, deny, update, enable, disable, uninstall, boot | each is a chain of awaits with a question to the user in the middle; two installs of one plugin meet |
| Plugin supervisor and transport, `plugins/{supervisor,process-transport}.ts` | state, epoch, transport, timers and crash window of each plugin; its process | start, stop, disable, enable, hello, activate, heartbeat, deadline, exit | a process arrives after it was given up; exits and calls race with a stop that awaits |
| Plugin dispatcher, `plugins/dispatcher.ts`, and the SDK's end of it | the calls under way in both directions, their deadlines, a number in flight | attach, detach, invoke, answer, time out; ask, reply | an answer that is late, or for another process than the one that asked |
| Plugin events bridge, `plugins/events-bridge.ts` | subscriptions, a bounded queue with credits for each, one flush timer | subscribe, credit, unsubscribe, emit, flush, attach, detach, a grant changes | slow consumers; a queue that is compacted under its index; a grant that is narrower when the event is delivered |
| Friend presence, `accounts/presence.ts`, with the profile read of `wiring/control-deps.ts` | the friends list in memory, a timer per account | refresh over several requests, frames of the socket, profile reads, stop | three sources of different age write one map, and a refresh replaces it |
| Notifications, `accounts/notifications.ts`, `wiring/notification-sink.ts` | rows of notifications, a timer per account | frames, a poll over pages and two generations, the user's mark | the frames' payloads, the pages and the user write the same rows in any order |
| Updates, `updates/apply.ts`, the guard and handover of `updates/checker.ts` | the executable and the files beside it | download, move aside, move in, roll back, sweep, hand over | an end between two renames; other copies of the program at work in the directory |
| App proxy: pairing, `proxy/*` | pending requests, codes, grants | request, approve, deny, expire | expiry against a late approval |
| Event bus, store, decoding, control API, forward proxy, user interface, operating-system integration, command line, packages, tools | see [Not modelled](#not-modelled) | | |

How they meet. The accounts own sessions. Every request goes through
`vrcFetch`, which waits for the limiter and asks the account to re-authenticate
on a 401; accounts persist through the secrets store and announce
`account.ready` on the bus. `app.ts` answers with a pipeline client whose token
supplier reads the account again at every attempt, and whose
`onReauthRequired` calls the account back. Decoded frames and game log events
go out on the bus, which calls its subscribers synchronously; webhooks turn
them into rows, graphs into runs, plugins into messages. Whatever must survive
a restart is in the SQLite store, through one synchronous connection (a call is
one atomic step of whoever makes it), or in `secrets.enc`.

What makes each part correct, in the terms the models use:

- *Pipeline client*: one live socket at most, current and owned; never waiting
  for what cannot come; stopped means stopped; flapping does not clear the
  streak; silence is noticed; connected once faults cease.
- *Accounts*: what is stored, what is registered and what is announced agree;
  device trust is never lost; a wave of 401s costs one login and always ends.
- *Secrets store*: the file is at every moment one whole store, the last one
  acknowledged, whatever crashed when.
- *Limiter*: the rate holds in every window under every race for tokens;
  nothing leaves while the server asks for silence; bulk work leaves its
  reserve; nobody waits for what a bucket cannot hold.
- *Webhooks*: each receiver gets its events in order, one at a time, and what is
  owed is neither lost nor owed for ever; a broken endpoint is disabled.
- *Game logs*: a line under the persisted offset is not lost; the open session rows
  are the sessions that are followed; events are stored once, in order, and under the
  account that wrote them; a file is read to its end.
- *Graph engine*: ceilings hold, parked runs counted; a row that says it runs is
  being walked; no node runs twice; a queue is served in order, and every run ends.
- *Plugins*: no process lives that nobody watches; the state machine keeps to its
  table; a process that hangs is ended. What the row says, what is on disk and what runs
  agree, and what runs has been agreed to. A call has one answer, and it is the answer to
  that call. A plugin is sent what its grant admits, in order, with every loss told, and
  nothing waits in a queue that nobody will flush.
- *Presence and notifications*: what is shown is true once the frames under way have
  arrived, and what was missed is put right by the poll.
- *Updates*: there is always a whole program at the path that every shortcut names.

The hazards behind these, each at its line, are in `PROJECT.json`.

## Modules

### PipelineClient, AccountsProofs

`PipelineClient` is class `PipelineClient` of `pipeline/client.ts`, complete:
its variables are the private fields, and one action is one call of its caller,
one settling of the token promise, one socket callback or one timer, with
everything that handler calls. A call of `#connect` is known by the generation
it captured. `TokenRejected` is deliberately not guarded by the generation: in
the code the `catch` clause comes before that check.

Frames are not looked at. They are of two kinds, "the token is dead" and any
other, and the second only re-arms the idle timer. Delays are left out, but
for the one that decides something (`stableConnectionMs`), which is a bit.

### AccountPipeline, AccountsProofs

Composes the client with the account it serves, as `app.ts` does: the supplier,
`onReauthRequired`, `account.ready`, the loop at startup, removal. A login is
one action here; its own steps are in `Accounts`.

### Accounts, AccountsProofs

`Account`, `AccountManager` and the login flow they share. What runs between
two awaits is one step. A *flow* is a call of the manager (`add`, `verify`,
`load`, `remove`, `add` of an account that exists) or a request (`call`) with
its `step`; a re-authentication belongs to its instance, for there is one at a
time (`#reauthInFlight`) and any number of requests wait for it. `inst` is the
jars and states, `accounts` the registry, `secrets` the rows as the store has
them in memory. The correspondence:

| Action | Code |
|---|---|
| `Add`, `LoginAnswered`, `LoginFails` | `manager.add`, `Account.login`; the login is sent no cookies (`net/request.ts:147`), so the device trust does not speak for it |
| `Verify`, `CodeAccepted`, `CodeRefused` | `verifyTwoFactor` of both classes, up to the answer of the POST: trust and session are in the jar |
| `ProfileLoaded`, `ProfileFails` | the `GET /auth/user` after it: `#adoptUser` and `#persist`, or the account goes on asking and nothing is stored |
| `Saved`, `Rekeyed`, `Announce` | `#persist`, `#rekeyIfNeeded`, `#announceReady` |
| `Remove`, `LoggedOut` | `manager.remove` |
| `Call`, `CallOk`, `Call401`, `ReauthRequired` | a request of the account, its 401, a refused socket |
| `ProbeLive`, `ProbeFails`, `ReauthAnswered`, `ReauthThrows`, `ReauthSaved`, `Settles` | `reauthenticate` and who waits for it |
| `DaemonRestarts`, `ResumeLive`, `ResumeFails` | the process ends; `loadAll` and `resumeFromCookies` in the next |
| `Expire` | VRChat ends a session |

A request is sent by any instance that is registered, online or not (`Call`), and the
hook of a refused socket is that of whoever has the real id (`ReauthRequired`). A
removal is `PUT /logout` and then, whatever else is at work on the account by then, the
end of its row and registration. Nothing is assumed of the user or of VRChat. What the
code has no answer to is recorded: an account is `removed`, or `dropped` after a failed
first sign-in, while something else is under way for it; the process ends `halfway`, when
the code has been accepted and the row still holds the session from before it; a protected
account is signed in to `unasked`, without a code. `unsaved`, in the instance, is shorter:
from the accepted POST to the next `#persist` of the instance.

### AtomicStore, SecretsStore, FilesProofs

`AtomicStore` is what a store of secrets should look like from outside: one
state, changed in one step, and after a crash the one that was last on disk.
`SecretsStore` is what the code does: a change in memory, then the four steps of
a flush (serialise and encrypt, open and truncate the temporary file, write,
rename). Files are inodes with names, so that a writer goes on writing into a
file another flush has renamed, as it does on disk. What is encrypted is
unreadable unless it is one whole store (`Torn`), since the tag covers all of
it.

### WebhookFeed, WebhookQueue, WebhookQueueProofs

`WebhookFeed` is the promise to one receiver: the events it subscribed to, in
order, the oldest one owed until it is settled, perhaps more than once.
`WebhookQueue` is `webhooks/manager.ts` with its tables: a row per webhook and
event, `Tick` (the head-of-line scan, the skip of webhooks being attempted, the
dead-lettering of disabled ones), the arrival of the request and, separately,
the end of the attempt, with the `WHERE delivered_at IS NULL AND dead_at IS
NULL` of the updates as `StillPending`. A stop leaves attempts under way; a
crash ends them; a row and its health counters are in the store and survive.

### RateContract, RateLimiter, RateLimiterHistory, RateLimiterProofs

`RateContract` gives each ceiling a meter that rises with a departure, drains
at the ceiling's rate and may not exceed its burst: that is the same as
saying that in every window of *t* milliseconds at most burst + rate × *t*
requests leave. `RateLimiter` is class `RateLimiter` with the loop of
`vrcFetch`: each call takes turns (`WaitForBreaker`, `WaitForTokens`,
`Depart`), the buckets hold tokens and the age of their last refill, and are
refilled when someone looks. The clock is what is left of each wait, so that
time needs no bound. `RateLimiterHistory` adds two histories
the code does not keep, for the properties that speak of the past.
`MCRateLimiterHistory` only defines the kinds of request.

### GameLog, MCGameLog, GameLogProofs

The path of a log line, from the client that writes it to the row in the store.
A line is two units on disk, so that a read can end inside it. It is of one of four
kinds: an event, the authentication line, the environment line that
only a session reads, the line that says the client quit; and it `says` something, by
which the store tells rows apart: the unique index of migration 007 compares kind, second,
session and some fields, so two lines may be one row (`Says`, `Recorded`). The code and its actions:

| Action | Code |
|---|---|
| `ClientStarts`, `ClientWritesHalf`, `ClientEndsLine` | the client: rotation (a new file), truncation (the same file anew), a line in two pieces |
| `Scan` | `#scan`: adopt a file that is new or came back under another identity, finish the one it replaces |
| `ReadTail` | `FileTail.read`: growth, truncation, the carry of an incomplete line |
| `IngestRead` | the rest of `#poll`: scanner, tracker, sink, then the offset |
| `AttributeFromHead`, in `Scan` and `IngestRead` | a session that begins in the middle of its file: the head is read once (`HeadSize`), may not hold the authentication line, or cannot be read |
| `TickWithoutRead` | a poll that reads nothing, and the reaper |
| `Flush`, `FlushFails` | the feed writer's batch |
| `DaemonStarts`, `DaemonStops`, `DaemonExits`, `DaemonKilled` | one life of the process |

The state of a read is kept between `ReadTail` and `IngestRead`, for there the code
awaits the file system: a stop that arrives there lets the read go on, as in the
code. The persisted offset is a *byte* offset, so the carry is part of what it
counts (`tail.ts:162`).

### GraphEngine, AutomationProofs

The runs of one graph: `fire` with its three concurrency modes and its ceilings,
the walk, Waits, breakpoints and the step debugger, the queue, `resumeDue` with its
awaits (a sweep is its list and the run it is on), `StopRun`, switching and
deleting the graph, and start (`EngineStart`) and end (`DaemonEnds`) of the process. The rows of `graph_runs` are
`rows`; `walk` is this process's `#walking`. A step reaches to the next node that
executes: the end of one run and the start of the next queued one are a single
step in the code as well, there being no await between them. The document is a
chain: branches, loops and values decide which node is next and nothing about slots,
queues or sweeps.

### PluginSupervisor, PluginHostProofs

One plugin's supervisor with the registry's calls, and the process behind its
transport. The code compares epochs that every start, stop and disable bumps; the
model numbers the attempts to start and says which one is still current, which is
the same test. Timers are a set, all of the current epoch. `Transitions` is the table
`SUPERVISOR_TRANSITIONS`, and `illegal` collects what `#transition` would throw for.
A process may be created late (`FactoryResolves`), hang, exit by itself, be killed, or
be asked to end by the end of its input. `Enable` has what the registry does before it
asks the supervisor: a bundle that is not there leaves a plugin idle that was disabled.

### Presence, PresenceProofs

What `PresenceService` believes of one friend of one account. `truth` is what VRChat
knows; frames are in flight on the socket, in order, and are lost with it; a refresh
reads the online half of the list and then the offline half, in separate requests,
and replaces the map when it has both; a profile read applies its answer after
further requests. The first refresh and the interval's are two processes, for
nothing keeps them apart. `Told` is the table of `#onBusEvent`: which kinds of frame
say that a friend is online, which say nothing, and that only `friend.added` adds.

### PluginInstall, PluginHostProofs

One plugin from the directory it is installed from to the process that runs: the row and
its disable, the grants, the artifacts on disk and how far each install is. A build is
what the pipeline makes of a directory: a version, the question its manifest asks, and a
bundle. `install()` is cut at its awaits: `Build`, `Record` (the row, and the restart of
one whose question is answered), `Report`, and the user's `Approve` or `Deny`. The
supervisor is here only "up", "backoff", "disabled" or idle. `StartOf`, `EnableOf` and
`DisableOf` are what registry and supervisor make of a call in each of these; a boot is
`Reboot` and then `StartAll`, which may come late.

### PluginDispatcher, PluginHostProofs

The calls of the plugin to the host and of the host to the plugin, over several
processes of one plugin. The pipes are sequences (`up`, `down`), for they keep their
order; a frame says which process sent it, for that is what the supervisor's epoch
tells. `attachment`, which `plugin-host.ts` makes and drops with the state of the
supervisor, is a variable of its own, because a handler that outlives it still answers
through the supervisor's line (`Sends`), to whichever process is there by then. The
SDK's end (`packages/plugin-api/src/runtime.ts`) is modelled with it: its pending calls
and the ids, which begin at one in every process.

### PluginFeed, EventsBridge, AutomationProofs

`PluginFeed` is what a subscription is promised, in the protocol's own terms
(`applyOverflow` of the shared package): a queue of at most `credits` events, one of four
ways to overflow, losses told, no more shown than was granted. `EventsBridge` is
`plugins/events-bridge.ts`: an array with a dead prefix that is compacted
when it is half dead (`Compact`), the index of coalesce keys (`slots`), credit and its
refusal, one flush for all subscriptions (`Flush`, `scheduled`) that sends a batch to each
and re-arms itself, and the authority (the compiled grant), refreshed by a subscribe and
by a flush, which purges what the new one does not admit. A filter that names kinds is refused if
none of them can be read, one without kinds never (`named`). `deaf` is a process that has
gone without the supervisor having noticed.

### NotificationMirror, PresenceProofs

The rows of a few notifications of both generations, which VRChat lists and pushes in
different ways: the first in pages and with a frame for each thing that happens, the
second in one answer and with updates. `PutNotification` is the upsert of the store;
`CarriedAs` is what decoder and bridge make of each lifecycle frame, which is what
`MarkSeen` then looks for. A refresh is a request (`PageServed`), and later the writing of
what it brought (`PageWritten`), so that a frame can come between.

### UpdateApply, FilesProofs

The directory of the executable and several processes that run from it. A file under a
name is part of the release or an executable; a process has the name of the file that it
runs from, for Windows lets that be renamed and not be deleted or replaced
(`Renamed`, `Refused`). One update is a download, two renames, and, when the second
fails, the rollback; each is a step, a process may end at each, and the sweep of
another that starts reads the directory and deletes file by file in between.

### The MC modules

Systems that do not interact are put side by side in one state space by a variable
`part`, chosen in the initial state: a behaviour is about one of them, and the others
stand still. That is a way of giving TLC several questions in one run and says nothing
about an interaction. `MCAccounts` has three parts: the accounts; the pipeline client
alone under any caller, with restarts, disposal and suppliers that reject, which the
daemon does not cause today; and the client as the daemon wires it. `MCAutomation` has
the four of the plugin host (with the calls of the plugin and those of the host
apart) and the graph engine, `MCPresence` friends and notifications, `MCFiles` the
credential store and the executable. `MCGameLog` gives the scripts of the game's
client, `MCRateLimiterHistory` the kinds of request.

## Runs, bounds and what they show

All passing runs explore their whole state space; no state constraint is used.

| Run | Distinct states | What it shows |
|---|---:|---|
| `accounts` | 76,633 | accounts, with sign-ins, codes, removals and a restart at any moment: no orphan row and no trust lost but for the named excuses, one login per expiry, an established instance is kept, every call ends. Client, under any caller and in the daemon: one live socket, no stall, flapping keeps the streak, and connected while the session stays good |
| `account_pipeline_reauth` | violation | finding 1 |
| `accounts_removed` | violation | finding 3 |
| `files` | 1,217,279 | with two calls at any distance and two crashes, a credential file that decrypts is one a call serialised, and without an overlap the store implements `AtomicStore`; with three processes that sweep and update, the executable is whole and at its path |
| `secrets_concurrent` | violation | finding 2 |
| `limiter` | 242,128 | the reserve is left alone, nothing leaves in silence, also when a header asks for more than the ceiling, implements `RateContract`, somebody departs |
| `webhooks` | 222,123 | nothing owed is lost, counters follow rows, implements `WebhookFeed`, every row settles |
| `game_log` | 442,902 | nothing that the file says is skipped, open rows are followed, in order and once, known accounts are stamped, files are read to the end |
| `automation` | 304,659 | plugins: row, disk and process agree, no process unwatched, what hangs is ended, nothing stranded in a queue, what is delivered is granted, implements `PluginFeed`, every answer is that of its call. Graphs: ceilings, rows and walks agree, no node runs twice, the queue is served in order, every run ends |
| `plugins_ungranted` | violation | finding 4 |
| `presence` | 1,351,883 | the friends list is true, or excused until the next undisturbed refresh; it settles on the truth, and so do the rows of notifications |
| `notifications_seen` | violation | finding 5 |

*Excuses.* Some properties are false of this code in histories that are rare and
that the model knows by name. Such a property is stated with an excuse, a history
variable that says exactly which event makes it false and, where something repairs
it, for how long; what the run shows is that nothing else does. They are listed
under [Disagreements](#disagreements-between-the-code-and-what-is-said-of-it), and
taking one out of the property makes TLC produce the history.

Bounds, and why they are enough:

- `MaxGeneration` (5; 4 in `account_pipeline_reauth`). Faults and restarts happen
  only while the generation is below it. The code compares generations for equality
  only, so what can go wrong needs two or three (the current call, one superseded,
  one to come); five leave room for a streak of failures, a stable connection and
  another streak in one behaviour. The proofs drop the bound.
- `MaxLogins` (3): the session is lost, renewed and lost again.
- `Keys`, `MaxVersion`, `MaxCrashes` of the store: two keys are needed for
  `rename` and for stores of different lengths, which is what makes one snapshot
  stick out behind another; two versions, in two calls, tell the acknowledged store
  from the one in flight; two crashes let the second meet what the first left. The
  proofs drop these.
- Updates: three processes (two that were started side by side and the one handed over to,
  or one more that sweeps) and one rename that the disk refuses. The proofs drop these.
- Webhooks: two hooks, because the scan, the batch limit (1) and the dispatch set
  are shared between them; two events, because order is about two rows of one
  hook; two attempts and a threshold of two, the least that have a retry and a
  first dead letter that must not disable; one crash, and stops. The proofs drop
  all of these.
- Limiter: two accounts and two calls, bursts of two, two and one token, a reserve of
  one, rates of one per tick, one retry, and Retry-After values of nothing, at the
  ceiling and above it: enough for every race for the last token and for a 429 that finds
  a sleeper. The proofs drop these, but for liveness.
- Accounts: one VRChat account with and without two-factor authentication
  (`protected`), two names for it and two pending ids, so that it can be signed in to
  twice at once; two instances, two flows at a time besides the re-authentications, one
  restart anywhere. `MaxTurns` (3) bounds the calls and requests that are begun, of
  which one under the second name counts twice: three are a sign-in, its code and a
  removal, a request or another sign-in against them. The proofs drop these.
- Game logs: two runs of the client at one path, the first with one of three scripts
  (two equal events in one second around the authentication line; an event behind it;
  environment, quit, and shutdown noise), the second rotated or truncated; a read of three
  units, so that it ends inside a line; a head of three, so that it holds the first line
  and not the second; a buffer of two, so that it overflows; two lives of the daemon.
- Graph engine: three runs, a document with two Waits and a breakpoint between
  them, ceilings of two parallel, one queued, two in the hour; two sweeps at once, two
  lives. Two restrictions are in the guards and named there: the last run is not
  fired while sweeps overlap, and the debugger is not used while they do
  (`MayInsert`, `MayOverlap`); the overlap itself is explored with two runs. The proofs drop
  the bounds.
- Plugin supervisor: two starts, two missed beats, two crashes to the loop: the second
  start is the one that meets what the first has left. Plugin install: two installs of
  three builds (two questions of one version, and another version), two lives of the
  daemon. The proofs drop these.
- Events bridge: two subscriptions, for they share the flush; four policies, with each
  way to overflow, one whose batch is less than its window, windows of one and two;
  two topics, so that a grant can be none, narrower or wider; one coalesce key; three
  events, which fill a queue, drop or supersede, and find a dead prefix to compact. The
  proofs drop these.
- Dispatcher: two processes, two calls of a plugin each, one in flight, so that the second
  is refused or comes after the first; three calls of the host, so that one can be made
  in each attachment and one after another. A behaviour has the calls of one
  direction; the two share only the pipes. The proofs have both and drop these.
- Presence: three events of the world (moves of the friend, lost sockets or
  sessions, failed requests, shifted pages) between any two steps of the service. The
  proofs drop this.
- Notifications: three happenings likewise (one arrives, is seen, hidden or revised; a
  failure; the user's mark), two notifications of the first generation on pages of one,
  and one of the second.

The runs say `CHECK_DEADLOCK FALSE` where a system may stop: a disposed client, a
bound on crashes or events that is used up. The limiter has no such state and
deadlock is checked there.

Every property of a passing run has a *mutant* in the module, a definition named
in `PROJECT.json` that changes the model as a plausible bug would change the
code; put in place of the original it makes TLC find the property violated.

## Fairness

Weak fairness, unless said otherwise, and only of what the code or the platform drives:

- *A promise settles, a timer fires.* Requests have time limits and writes end, so
  an await returns (`TokenSettles`, `Advance`, `Reauthenticate`, the halves of a
  friends list, a page of notifications, a node, a plugin factory). Of the accounts only
  requests and re-authentications are fair: sign-ins, codes and removals may never end.
  A backoff timer that is set fires (`ReconnectTimerFires`, `BackoffElapses`). The
  idle timer is re-armed by every frame, so it is entitled to fire only when the
  peer is gone.
- *A socket that is shaking hands opens or closes.*
- *The webhook loop ticks* while the process runs, *attempts end* (they have a
  timeout), and a daemon that went down is started again.
- *The clock of the limiter runs, and a call that is due takes its turn.* Which of
  the waiting calls is first is open, and so is what the server answers.
- *A loop that re-arms its timer comes round again*: the log poll, the feed writer,
  the sweep of the engine, the heartbeat, the intervals of presence and notifications.
  The log's scan and read get strong fairness, since the file may come and go between
  two rounds, and a file that can be read again and again is read.
- *A kill ends the process it is sent to*, and a deadline that stays armed passes.
- In the wiring, a re-authentication that VRChat lets succeed does succeed. It is
  there so that finding 1 cannot be blamed on a login that never ends.

Nothing is assumed of the user, of the caller, or of faults: none has to start,
to stop or to happen. Faults are bounded, not unfair: the liveness properties
speak about what follows when they cease.

## Proofs

`tlapm` checks eight modules to the last leaf: one each for the limiter, the webhook
queue, the game log and what is mirrored of VRChat (`PresenceProofs`), one for the
accounts and their pipelines (`AccountsProofs`), one for the files (`FilesProofs`: the
credential store and the executable), one for the plugin host (`PluginHostProofs`:
install, supervisor and dispatcher) and one for the events it is sent and the graphs
(`AutomationProofs`). Where a theorem names a property that a run checks, the run shows
it on a small instance, and `PROJECT.json` lists the pair. Some of the theorems state
what no run checks: `DisposedIsDisposed` (`ClosedForever`), `NothingIsInvented`,
`AccountsTyping` (`AccountsTypeOK`), `OneAttempt` (`OneAttemptPerWebhook`),
`ThresholdDisables` (`BrokenEndpointIsDisabled`), `TableIsRespected`
(`TransitionsAreLegal`) and `CrashesLeaveItWhole` (`WholeUnlessOverlapped`).

**AccountsProofs** - of accounts, for every set of names, pending ids, instances and calls, and
any number of restarts. Nothing is assumed of the user or of VRChat. There are two
invariants, the second on top of the first.

`AccountsInv`: a call is at a step of its kind and knows its account and
its key (`CallsFit`); whatever is referred to, by the registry, by a call or by its own
re-authentication, has a name and an id (`HeldAreNamed`), so that no await returns to an
instance that a restart has made anew; a request that waits has an attempt to wait for
(`WaitersAreHeard`); and an instance that has paid for a login has a live session, or no
credentials left to log in with (`LoginsAreEarned`). The last one gives `OneLogin`
(`OneLoginPerExpiry`): of the requests that were refused with the old cookie, those that come
late find the new one answered by the probe. `Established` (`EstablishedIsKept`) follows from
what each call may write into the registry: `Saved` is the only step that files an instance
under the real id, and it files it where nothing is or where it is already.

`StoredInvariant` relates instances, registry, calls and rows. The first half, `Known`, holds
always: an instance is registered once, under the id it goes by or the pending one it had, and
a pending id is of one instance (`Filed`); a call still has the id it began with, or its
instance has learnt the real one meanwhile (`Knows`). That is what every removal, every second
sign-in and every await can rely on, and it is what bounds the harm of a call that comes
late: it writes under the id of its own instance and nowhere else. The second half, `Stored`,
says what rows follow from that, each part as long as nothing has happened that breaks it: an
id that an instance goes by is registered (`Homes`), a row is of a registered instance or of
the call that is between the two writes of the re-keying (`RowsOwned`), the row of the real id
has been written before anything goes by that id (`RealStored`), trust under a pending id is
stored or not yet saved (`PendingStored`), and of a protected account only what is trusted has
the real id or a session past the second factor (`Trusted`); an unprotected one has no trust
to lose (`Unprotected`). `NoRowOrphaned` (`NoOrphanRow`) and `TrustKept` (`TrustSurvives`)
follow, with no hypothesis but the excuses that the properties themselves name; that the
excuses are needed is what TLC shows when one is taken out, and `accounts_removed` of the
first.

Of the client, for every bound, with or without idle detection:
`ClientTypeOK`, `AtMostOneSocket`, `NeverStalls`, `OneConnectPerGeneration` and
`DisposedIsDisposed`. The invariants are inductive only together (`IInv`). That a
token which arrives leaves one live socket needs that none is there yet
(`NoStall`); that holds only if the call whose token it is, is the current one and
the client is connecting (`NoDoubleConnect`); that in turn needs that no call
carries a generation still to come, which is part of `TypeOK`. `QuietWhenDown`
(no socket and no timer of one while down) is what the same argument needs at
each of `start`, `restart`, the backoff timer and the close handler.
`ScheduleReconnectKeepsIInv` and `HandleReauthKeepsIInv` treat the two ways out
of an attempt once, for every handler that ends in them. `DisposedIsDisposed` is
an action property: with the invariant, no disjunct of `Next` moves a closed
client. So is `StreakIsKept` (`FlappingKeepsTheStreak`). `WiredClientInvariant`
carries the invariant over to the client in the daemon: every step of
`AccountPipeline` that moves the client is one of its own, or ends in
`#handleReauth`. It is not stated as a refinement of `Spec`, since a refused or
missing session, which the wiring brings about, is not counted by the bound on
faults there.

**RateLimiterProofs** - for every set of accounts and calls, all rates, bursts,
reserves and backoffs:

- `NeverOverdrawn`: no bucket is below zero or above its capacity.
- `RateIsKept`: `Spec => ImplementsRateContract`, so that in every window each ceiling
  keeps its rate. The argument: what matters of a bucket is what it would hold
  if it were refilled now (`Filled`). Looking at a bucket refills it and leaves
  that amount as it is (`RefillKeeps`); a millisecond adds the rate, up to the
  capacity (`TickFills`); a departure takes one token (`DepartTakesOne`). Its
  distance from the capacity therefore moves exactly as the meter does, and no
  race of calls, no order of reads and no gauge can change it. The age of a
  refill saturates where the bucket is full, `FilledLater` being why that loses
  nothing. The invariant the mapping needs is only that buckets are within their
  capacity and that calls under way carry a request.

The second part of the module is about `RateLimiterHistory`, on top of this invariant:

- `ReserveIsLeft`: what low-priority calls took of a bucket within the time it takes to
  fill, and what it holds now, are never more than its capacity together (`BulkOK`), and
  what they took is nothing or leaves the reserve. A departure moves one token from the
  second to the first and looks at the reserve before it does (`DepartKeepsBulk`); time
  forgets at the rate at which the bucket fills (`TickKeepsBulk`).
- the gauge of every bucket is the number of calls that wait for it (`GaugeOK`, by the
  cardinality of the set of these calls, which every turn changes by one at most); it is
  the part of `HInv` that says the counter is not lost on any path out of a wait.
- `SilenceIsKept`: nothing leaves before each `Retry-After`, cut to the ceiling of the
  backoff (`Honoured`), has run out, whatever the server asks for. The breaker is never
  shorter than that, for `record429` takes the longer of header and backoff, adds to it,
  cuts it last, and never moves the breaker back; `OnlyDepartSends` reads the rest off the
  actions.

**FilesProofs** - of the credential store, for any keys, values, number of calls and of
crashes. The
invariant (`IInv`) has a part that holds always: whoever wrote a temporary file that
decrypts has yet to rename it (`GenuineTmp`), which gives `ReadableIsSerialised`. And
a part as long as no two flushes have overlapped (`OneAtATime`): the one under way has
serialised what memory holds, the temporary file is its own, and the file on disk is a
whole store, which gives `CrashesLeaveItWhole` and the refinement, `StoreIsAtomic`: all
steps of a flush but the rename are stutters of `AtomicStore`. That a call finds an inode
nobody uses is a counting argument (`UnusedIsUnused`).

Of updates, for any number of processes and refused renames: `PathIsRunnable`
(`AlwaysRunnable`). The invariant (`UpdateInv`) adds what the rollback depends on: a
half-written download is only ever under the name its own process downloads to, so that
neither the path nor what is put aside is one; what a process has put aside is there as
long as it may have to be put back, unless a sweep is on record as having deleted it; and
nothing at the path means that somebody is between its two renames. That two processes
never write one sidecar is a fact about the names (`NamesDiffer`).

**WebhookQueueProofs** - for every set of webhooks and every bound on events,
attempts, threshold, batch and crashes: `OneAttempt`, `ThresholdDisables`,
`OwedIsKept`, `HealthIsEarned`, and `FeedIsKept`, which is
`Spec => ImplementsFeed`. None of them is inductive. The invariant (`IInv`) adds
to the types that a removed webhook has no rows (`GoneIsEmpty`), that rows are of
published events (`RowsAreOld`), that an enabled webhook is below the threshold
(`BelowThreshold`), that what is being sent is the head of its line
(`HeadsAreSent`), and that nothing up to the last event a receiver saw settled is
still owed (`NothingOldIsOwed`). The last one is the heart of the refinement: an
answer is applied to a row that was chosen one or several steps ago, and
the feed only allows the *oldest* owed event to be settled. That it still is the
oldest needs `HeadsAreSent` across every step that adds, prunes, cancels or settles
rows meanwhile. Each action is mapped for one receiver at a time (`FeedStep`),
most of them by `UntouchedIsIdle`.

**PluginHostProofs** - of the supervisor, for any number of starts, missed beats and crashes:
`TableIsRespected` (`TransitionsAreLegal`) and `ProcessesAreWatched`
(`NobodyUnwatched`). The invariant says what each state holds: no transport at rest
(`RestsEmpty`), a process that is being created belongs to an attempt that is
starting, or to one that is no longer current and will be killed when it arrives
(`PendingIsStarting`), an epoch ends with the state that opened it (`EpochsEnd`), and
the crash window has room unless the plugin is disabled (`WindowHasRoom`). That a
transition is legal follows from the state in which each timer, frame and exit
can still be current; `Watched` then reads the safety property off the
invariant.

Of installs, for every set of builds and any number of installs and restarts:
`HostAgrees`. The invariant adds that a process *and its restart timer* belong
to a row that is on (`KeptOnlyIfOn`), that what an install has built is still there
or known to be robbed (`BuiltIsThere`), without which the row it writes later would name
nothing, and that the user's "off" is in the row (`OffIsWritten`). `StartLeaves` and
`EnableLeaves` say once what the registry's calls leave behind.

Of the dispatcher, for any number of processes, calls and slots: `AnswersAlwaysFit`
(`AnswersFit`). Three invariants, each inductive given those before it. `LineInv`: what is
in a pipe was sent by or is meant for a process there is or has been, and the pipe to a
process that is gone is empty. `CallsFit`, for the calls of the plugin: one is on its way,
or in the host's work, or answered, and never two of these, so that no interleaving of a
detach with a handler under way answers twice; an answer goes to the process that asked
unless its handler has outlived that process, which the property excuses. `AsksFit`, for
the calls of the host: ids begin again at one in each attachment, so an id must be shown to
name a single call among all that still circulates (asked, being worked on, or replied) as
long as something is attached; replies of an earlier process are still in the pipe, and
are told apart by who sent them.

**AutomationProofs** - of the bridge, for every set of subscriptions, topics, policies and grants:

- `NothingIsStranded` (`NeverStranded`). It is inductive with the shape of a registration
  and with the fact that a plugin without a channel has no subscription, for a flush that
  finds no channel forgets that it was scheduled. The work is in the lemmas on the queue: of
  its operations only `Lose` and a push make something to be sent or told, and wherever
  they are used a flush is scheduled (`DeliverKeeps`, `EmittedHasTold`).
- `KeepsToTheFeed`: `BridgeSpec => ImplementsPluginFeed`. The array with a dead prefix and
  an index of keys implements the promised queue: what a registration maps to is its live
  part (`Pending`). `RegistrationsInv` says that every registration is `Well`: the index
  names the place of each key that waits, and nothing else that waits (`Indexed`), the
  queue and what is outstanding are within the window, and it is closing only if it
  overflowed under `disconnect`. Each operation of the array has a lemma that says what it
  does to the live part (`CommitIs`, `SupersedeIs`, `PushIs`, `DropOldestIs`, `DeliverIs`),
  whether or not it compacts; `FlushTakesTurn` then finds in every flush the turn of each
  subscription that the abstract step asks for.
- `DeliveredIsAlwaysGranted` (`DeliveredIsGranted`): what waits is of the grant that was
  looked at last or was spared by a subscribe, and a flush that finds a narrower one
  purges before it sends (`GrantsInv`).

`Readable`, which purges, and `Halved`, which re-indexes, are recursive functions. What
they return for every queue is shown without an induction theorem: the lengths for which
the claim fails would have a least element, and the definition excludes it.

Of the graph engine, for every document and every ceiling, number of runs, sweeps and
starts: `SlotsAlwaysRespected`, `RunningIsAlwaysWalked`, `NodesAlwaysRunOnce` and the action
property `AlwaysFirstInFirstDone`. They hold together (`EngineInv`). Ceilings are
cardinalities of sets of rows, which a turn changes by one at most (`Counts`). That no node
runs twice needs that a sweep resumes a run that is still as it was listed (`ListedStill`),
which needs that nothing else resumes it meanwhile (`OneSweep`, as long as no two sweeps
have overlapped), and that a run stands where it has got to (`Behind`). That a queue is
served in order needs that one run at most has begun (`OneIsBegun`). `PumpIs`,
`AdvanceIs` and `TurnKeeps` describe once what a turn changes, however many runs of the
queue it starts, so that each action is a few lines.

**PresenceProofs** - for every number of events of the world and every length of the feed:
`ShownIsAlwaysTrue` (`ShownIsTrue`). The property speaks of the moment when no frame is
under way; the invariant has to say what is true while there are some. `FeedFits`: whatever
was last said or removed in the feed agrees with what VRChat knows. `Leads`: applying the
frames to a given record makes it true, or is excused because a friend was removed and
added with no word of whether he is online. What is shown leads to the truth, and
so does what every read that has not been overtaken is about to write (`ReadsLead`), which
is why replacing the map by it does no harm.

Of notifications, for every list of the first generation, every set of the second and any
number of happenings: `NothingIsInvented` (`NothingInvented`). Rows are written from frames
and pages that are older than they are, so the invariant says of everything under way what
the property says of rows (`FramesFit`, `PagesFit`), and that VRChat takes nothing back
(`Grows`) carries it over to the moment when it is written. It bounds what an empty update
can do: a notification of the first generation keeps its text and its type.

**GameLogProofs** - for every set of scripts, every number of starts and runs, every size of
a read and of the buffer in front of the authentication line:

- `OpenRowsFollowed` (`OpenRowsAreFollowed`). `LogTyped` says what a file of the watcher is:
  its session has a row of its own key, a finished file has an ended session, a session
  that runs has room in its buffer and an empty one once it is authenticated. With it the
  open rows are those of the live session at every step (`OpenIsFollowed`), a read that was
  under way when the daemon was told to stop included.
- `EventsInOrderOnce` (`InOrderOnce`). Followed is not what has left but the whole `Story`:
  what has left, then what the tracker holds, then the open block of the scanner. Every
  operation of the tracker and the scanner either leaves this sequence as it is (flushing the
  buffer, closing a block, authenticating) or appends the line it is given (`PushLineIs`), so
  ordering is a question of the lines only: those of a read are consecutive and begin where
  the tail was (`ReadFits`), and all of the story is behind the tail (`Following`).
- `AccountIsStamped` (`KnownAccountIsStamped`). A session without an account has not passed an
  authentication line, not even one of which another process has read the first half
  (`Waiting`); what a read from the top brings is all of the file so far (`TopFits`), so that
  only a session that begins behind it depends on the head of the file. Where the head does
  not give the line and it is behind the session already, the excuse "headless" is met, and
  the proof shows that it is met nowhere else: a head without a line that the session still
  has to read costs nothing.
- `LinesAreAccounted` (`NothingSkipped`). What a line says is stored; that a batch stores
  what each of its events says, if only by the row of another, is `RecordedSays`, by a least
  counterexample over the batch. Two invariants hand the lines over to each other:
  the lines under the stored offset are accounted for (`Kept`), and so are those under the
  offset of the tail, but for the ones `poll()` still holds and the half line in the carry
  (`Reading`). What ends a session accounts for its half line, which is the one the stored
  offset may be in the middle of; what the daemon takes with it when it goes is what the
  excuse "held" names and no more. The offset in the store is of the run it was taken in, and
  of no run that the watcher has not come to (`KeysFit`).

The lines of a read go through the scanner by a recursive function (`IngestLines`); what it
leaves is shown line by line (`LinesIngested`, `LinesFollow`), by the same argument from a
least counterexample as above (`Counting`).

The proofs assume what the `ASSUME`s of the modules say of the constants, which every run
of the module evaluates: that bounds, bursts and delays are naturals and rates positive,
that the calls of the limiter and the flushes of the store are finitely many, that
names which stand for nothing are not names of something.

Model-checked only:

- liveness, since the prover has neither fairness nor `ENABLED` within reach: `EveryRowSettles`,
  `SomeoneDeparts`, `EveryCallEnds`, `ValidSessionGetsConnected`, `ReadToTheEnd`, `HungIsEnded`,
  `EveryRunEnds`, `ListSettles` and `MirrorSettles`.

## Disagreements between the code and what is said of it

Each of the first five is a run that TLC finds violated.

1. **A pipeline stays down after a re-authentication**
   (`account_pipeline_reauth`). The client stops in `reauth-required` and
   `pipeline/client.ts:94` tells its owner to re-authenticate and then call
   `restart()`. `app.ts:283` does the first; nothing calls `restart()`, and
   `account.ready` does not help, since `connectPipeline` returns when a client is
   there (`app.ts:269`).
2. **Two flushes share one temporary file** (`secrets_concurrent`).
   `security/secrets.ts:266` truncates the file another flush is about to rename
   over `secrets.enc`, and a crash then leaves what :258 says must never be left.
   `loadAll` resumes accounts concurrently, and each persists. One flush at a time
   would be enough: that is what `CrashesLeaveItWhole` proves.
3. **A removed account's secret comes back** (`accounts_removed`). `remove()`
   deletes the row while a login of the same account awaits its answer; its
   `#persist` (`accounts/account.ts:339`) then stores it again, under an id no
   account has, and the next start loads the account (`accounts/manager.ts:135`
   says remove forgets its credentials).
4. **A plugin runs without consent** (`plugins_ungranted`). The row is written before the
   user is asked, and neither `startAll()` nor `enable()` nor a restart looks at the
   grants. A plugin that was denied, or whose question is open, is started by the next
   boot. It has no authority when it calls, but it runs, where `wiring/plugin-host.ts:771`
   says "It cannot start without a grant" and :779 tells the user that it will not run.
5. **A notification handled elsewhere stays unseen** (`notifications_seen`). The decoder
   turns the bare id of a lifecycle frame into `{ notificationId }` (`decode.ts:482`); the
   sink looks for a string or a field `id` (`notification-sink.ts:38`, whose comment says
   the frame carries the bare id). No such frame ever marks a row. The poll repairs it
   for as long as VRChat lists the notification; one that was hidden stays unseen.

Seen while modelling and kept in the models as the code has them:

- A rejected token promise of a *superseded* call still schedules a reconnect and
  so drops the newer connection (`pipeline/client.ts:307`). The client recovers.
- A `Retry-After` above `maxBackoffMs` is cut to it (`net/rate-limiter.ts:486`), which
  the comment at :39 allows and the one at :472 does not mention: requests leave before
  the server said they may. `NothingLeavesInSilence` is about the time that is honoured.
- The reserve of low-priority calls is one number, a quarter of the *account's*
  burst, in every bucket, where the comment at `net/rate-limiter.ts:117` says a quarter
  of each.
- A 2xx that answers an older request clears the 429 streak in the middle of a
  storm (`net/rate-limiter.ts:499`).
- An account that is asked for a code logs in again at each later wave of 401s, and
  the cookie the code will be checked against is replaced (`accounts/account.ts:253`).
  `OneLoginPerExpiry` is stated for accounts that are not asked.
- `add()` of an account that is still under its pending id passes `existing.id` to
  `#rekeyIfNeeded` after `login()` has changed it (`accounts/manager.ts:98`): nothing
  is re-keyed, and `account.ready` names an id nobody finds. Two concurrent
  calls of `add()` with one name share an instance, and the one that fails drops
  what the other signed in with.
- A second instance of an established account stores its own row over the first
  one's before it is dropped (`accounts/manager.ts:206`).
- An account whose code was accepted and whose `GET /auth/user` then fails
  (`accounts/account.ts:214-224`) has its device trust in memory only, goes on asking for
  a code, and loses the trust if the process ends before it persists (`unsaved`). If the row
  still holds the cookie the code was checked against, the session in it is past its
  second factor at the next start, and is resumed without the trust (`halfway`).
- An instance without device trust that VRChat lets in without a code, although the account
  has two-factor authentication, stores its row over that of an instance that has it
  (`unasked`).
- *Game logs: rows and accounts.* `store/queries.ts:91-95` says that a second copy of a game log row "is always a
  replay and never a second fact". The time in the index is that of the line, in seconds
  (`parser.ts:331`), so of two lines that agree in kind, second, session and the
  listed fields (`007_log_offsets.sql:91-112`) the second one is dropped, and the offset moves
  past it. `NothingSkipped` counts the row for both. The head of a file is read once and only
  its first 256 KiB (`watcher.ts:114`, `:371-376`): where that fails, or the
  authentication line is further behind or not written yet as a whole, a session that
  began behind it stays without an account (`headless`).
- *Game logs: what is lost.* What is under the persisted offset and still in the session's buffer, in
  the open block, in the carry or in the queue of the feed writer is lost when the
  process goes (`held`; `sessions.ts:285`, `tail.ts:162`), and so is a batch that cannot
  be written (`failed`). The comment at `watcher.ts:442` says that persisting after
  ingesting makes a crash replay a chunk rather than skip one; it does for what left
  the session, not for what is held. `setLogOffset` keeps the larger
  offset, so a file adopted from its top after a truncation keeps the old one in the
  store (`pinned`, `watcher.ts:305`; `#poll` does reset it, for the reason given at :402), and one that has grown past it again is resumed in
  its middle (`overgrown`). A truncation noticed inside a line glues two halves
  together (`cut`); a rotation between a scan and a read is read through the old file's
  tail (`swapped`).
- A session that quit and whose client goes on writing shutdown noise is reopened when
  the daemon restarts, and later reaped as a crash.
- A file that is dormant or truncated keeps the time it last grew; it can be given up at
  once, and is then not read again until a restart (`watcher.ts:442-463`).
- *Graph engine.* Two sweeps that overlap each resume runs by the rows they listed, so
  a run that the first has resumed and parked again is resumed from its old wait
  (`overlapped`, `engine.ts:261`). `#pumpQueue` counts only rows that say "running"
  (`engine.ts:1120`): after a restart a queued run starts past one that is parked
  (`jumped`). The queue of a graph that has been switched off is still pumped,
  although the comment at `engine.ts:1138` says its pending work stops, and
  `resumeRun` does not look whether the graph is on.
- *Plugins.* `stop()` sets `#transport` to null after its await (`supervisor.ts:600`).
  A disable, an enable and a start in between have put another process there, and
  nobody watches that one (`crossed`). The daemon's shutdown awaits `plugins.stop()`
  while its servers still answer.
- *Install.* An approved update of a plugin that is running leaves the old bundle running,
  while its artifact is pruned (`plugin-host.ts:806-812`: `enable()` does not touch what is
  up). Two installs of one plugin that overlap prune each other's artifact (`robbed`), and
  the row then names nothing that can be started until the next install. A plugin that the
  supervisor has turned off for this life only ignores the user's disable
  (`supervisor.ts:932`), and comes back at the next boot (`wish` is "unheard"). A grant
  is looked up by version, not by what was asked, so a build of the same version that asks
  for more runs under the former answer until it is answered itself. An install whose plugin is uninstalled during
  its restart goes on and asks the user about it.
- *Dispatcher.* A handler that is still at work when its process ends, or its deadline
  timer, which `detach()` does not clear, answers through the supervisor's current
  transport (`plugin-host.ts:580`, `supervisor.ts:633`): the next process, whose ids begin at one again, may
  take it for the answer to a call of its own (`outlived`), against "one reply per id, ever"
  (`dispatcher.ts:18`). A handler that never returns keeps its place among those in
  flight beyond its deadline.
- *Events bridge.* `#subscribe` reads the authority again before a flush has purged
  (`events-bridge.ts:545`), so what was queued under a wider grant is delivered
  after it was narrowed (`spared`), against what the comment at :41 says. A
  subscription that is closing counts events that it never wanted as lost.
- *Updates.* An end of the process between the two renames, a rollback that fails itself,
  or the sweep of another copy of the program that deletes what was put aside leave nothing
  at the path (`losses`). Nothing keeps a second copy from starting: it takes the next
  ports. The sweep looks for `.exe` only (`updates/apply.ts:51`).
- *Notifications.* An update of the second generation carries its changes in an object
  nobody reads: the upsert empties the text and un-sees the row until the next poll
  (`notification-sink.ts:101`), or makes a row whose type is "unknown" for good. The user's own mark is
  undone by the next poll, which knows nothing of it, and the poll's timer stays when
  the account goes.
- *Presence.* A refresh replaces the map with what VRChat said when each half was read
  (`presence.ts:372`), a profile is applied as "the freshest thing anyone has"
  (`control-deps.ts:3401`) after one or two further requests: either can
  overwrite a newer frame. A friend who comes online between the two halves is on
  neither, and disappears, frames and all, until the next poll; so does one who slips
  between two pages. Nothing keeps the first refresh and the interval's apart.
  `ShownIsTrue` excuses these until the next refresh that nothing overtakes.
- The list and the timer of a removed account stay (`listAll` still shows its friends),
  and an account that is signed in again gets no refresh of its own, for it has a
  timer. `friend_log.unfriended_at` is never set.

## Assumptions

The clock is not set back (the limiter reads the wall clock,
`net/rate-limiter.ts:185`); a request that is aborted does not arrive afterwards
(webhooks); SQLite transactions are atomic and durable; `rename(2)` is atomic and
completed writes survive a crash of the process, not of the machine.

## Not modelled

- *Functions of their input*: webhook filters and signatures, the regular expressions
  of the log parser, pipeline decoding (but for what it does to the frames of
  notifications), the graph nodes, templates and traces, plugin manifests, scopes
  and bundling, certificates, settings, the list of releases, the command line. They have
  unit tests over their inputs and no behaviour over time.
- *Stateless plumbing*: the app proxy's forwarding, the forward proxy's relay, the
  control API and the local servers.
- *The event bus*: a synchronous fan-out to a snapshot of its subscribers. Each
  model makes an emit part of the step that causes it.
- *The SQLite store, queries and retention* as a component: a call is atomic. What the
  webhook queue needs of it (head of line, guarded updates, cascade, pruning) is
  modelled there.
- *Caches and counters*: images, byte meter, jitter (a delay the models leave open),
  plugin budgets, the plugins' shared data.
- *The operating system*: keychain, tray, toasts, shortcuts, autostart, and the copy over
  an installed version (`os/install.ts`).
- *User interface, shared packages, tools*: no authority over state, or generated. Of the
  shared packages the SDK's end of the plugin protocol is in `PluginDispatcher` and
  `PluginFeed`.
- *App pairing*: see the plan.

The size of what is left out is mostly that of the first, third and last kinds: the
user interface, the generated API client and its types, the node library and the
control API are most of the repository's lines and have no behaviour of their own to
check.

Left out of the modelled components: `refresh()`, `goOffline()` and user names in
the accounts; the limiter's `reset()`, which nothing calls; `mkdir` and `chmod` in a
flush; discovery of log files; in the engine, branches, loops, scopes, an edit of the
document under a run, and a document that cannot be read or a run that has vanished, which
delete the row without a pump (`engine.ts:515-518`, `:1131-1134`); the length of a plugin's backoff and what a plugin's grant
allows beyond topics; sender, time and type of a notification; the check for a release and
what is asked of its digest; `listAll()` of presence;
headers, bodies and wording everywhere.

## Plan

The order so far was: the client and its wiring, accounts, store and limiter; webhooks;
game logs and graph engine; the plugin host; the mirrors of VRChat; updates. What would
come next:

1. **Pairing** - requests, codes, expiry and grants; one grant per approval.
2. **GraphEngine** with branches: scopes of parallel blocks, and an edited document
   under a parked run.
