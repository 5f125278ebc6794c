# Verification of v1

v1 is a self-hosted coding assistant: a Go server (`internal/`, `cmd/v1`), a Node
sidecar that runs the model's turns over a durable transcript (`sidecar/`), and a
React client (`web/`). This directory holds TLA+ modules of the server and of what the
sidecar promises it, TLC configurations that check them, and TLAPS proofs. All source
paths below are relative to `src/`.

Contents: [the system](#the-system), [modules](#modules), [runs](#runs),
[fairness and deadlock](#fairness-and-deadlock), [what the code breaks](#what-the-code-breaks),
[proofs](#proofs), [not modelled](#not-modelled), [next](#next),
[running it](#running-it).

## The system

A chat message becomes a *run*: `handleChat` asks the turn registry for the session,
and the request that wins executes `streamChatTurn` until the session's queue is
empty. A run is detached from its client; further clients attach to its event hub.
A turn inside the run is executed by the Go agent loop (`agent.RunChat`) or by the
sidecar (`runHarnessTurn`), which calls back into the server's tools.

| Component | State | Operations | Modules |
|---|---|---|---|
| Turn registry, `server/turns.go` | `runs`, `cancels`, `userRuns`, one mutex | `beginOrQueue`, `register`, `cancelRun`, `end` | `TurnManager` |
| Turn queue, `turns.go` | `pending`, `steers`, written through to `queued_messages` | `add`, `remove`, `edit`, `hold`, `steer`, `drain` | `TurnQueue` |
| Chat turns, `handlers_chat.go`, `handlers_queue.go` | locals of the run's goroutine and of each handler, the user rows | send, retry, resume, queue endpoints, follow up, wait for an edit | `ChatTurns` |
| Event hub, `turns.go` | ring of 512 events, a channel of 1024 per listener | `subscribe`, `publish`, `close` | `EventLog`, `RunHub` |
| Supervisor, `harness/supervisor.go` | `proc`, `conn`, `consecutive`, `stopping` | `Start`, `Call`, `Restart`, `Close`, `watch` | `Supervisor` |
| Connection, bridge, harness turn, `harness/rpc.go`, `bridge.go`, `server/harness_chat.go` | pending calls, event queue, the turn's text and steers | `Call`, read loop, `shutdown`; event loop, stop, steer, reconcile | `HarnessRPC`, `HarnessTurn` |
| Sidecar, `sidecar/src` | conversations, the session's entry, loaded extensions | ensure, rewind, submit, reload | `HarnessTranscript`, `Extensions` |
| Agent loop, `agent/agent.go`, `compaction.go` | the model's view, partial reply, the rows of a turn | rounds, resumes, truncations, compaction | `AgentLoop`, `Compaction` |
| Model client, `llm/llm.go`, `stall.go` | attempts, stream, producer goroutine | `ChatStream`, retries, watchdog | `ModelCall` |
| Tools, `agent/tools.go`, `handlers_mcp.go` | files, task list, permissions, processes | read, edit, write, command, permission | `Workspace` |
| Background commands, `agent/background.go` | jobs, processes | start, cancel, poll, stop, shutdown | `Background` |
| Questions, `handlers_ask.go` | registry, one row per session | ask, answer, time out | `Ask` |
| Previews and terminals, `preview`, `terminal` | dev servers under a cap; shells by project | start, stop, sweep; serve, delete | `Preview`, `Terminal` |
| MCP client, `mcp`, `handlers_mcp_oauth.go` | clients by server, pending calls, grants | `Sync`, call, exit; refresh, connect, disconnect | `ToolServers`, `Grants` |
| Sessions, `handlers_sessions.go`, `store.go` | rows, sessions, summaries | create, fork, delete, rewind, compact, merge | `Sessions` |
| Accounts, settings, `auth`, `handlers_auth.go`, `handlers_users.go` | users, logins, owners, providers and their mirror | sign up, roles, delete; `PUT /settings` | `Accounts`, `Settings` |
| Memories, `memory`, `embed`, `handlers_memories.go` | rows with vectors, the model's files | remember, capture, backfill, rank, fade, load | `Memories`, `Recall`, `NativeModel` |
| Push, `push`, `handlers_push.go` | key pair, subscriptions | subscribe, unsubscribe, deliver | `Push` |
| Git, `gitops`, `handlers_git.go` | working files, index, branches, remote | snapshot, stamp, commit, revert, push, pull | `Repo` |
| Deployment, `vercel`, `handlers_vercel.go` | rows, a slot per user, followers | deploy, follow, interrupted, connect | `Deploys` |
| Extensions and skills, `extensions`, `skills` | sources on disk, lists in the settings, manifests | install, save, toggle, remove, materialize | `Extensions`, `Skills` |
| Opening the store, `store.go` `migrate` | the database an earlier build left | its statements, stops between them | `Migration` |

What makes it hard: requests of several clients race the run's goroutine, whose
critical sections are short and many; a message exists in four places on its way
(row, queue object, local of a goroutine, transcript) and moves between them in
separate statements; handlers read under a lock, or a list from the store, and act
after it; two transcripts of one session, v1's and the sidecar's, must agree; the
queue, the deploys and the files survive a restart and the goroutines do not; processes
die while they are being started, stopped or replaced.

What makes each component correct is stated by its module's properties, listed
[below](#runs). `PROJECT.json` lists every component, the ones left out too, and the
hazards with the line at which each bites and the properties that watch it. A hazard that
the properties except, since the code does not guard against it, names no property; its note
names the excuse, and the definition that states the promise.

## Modules

### TurnManager

`turnManager` and the life of `streamChatTurn` as the registry sees it. A member of
`Runs` is one call of `streamChatTurn`; `pc` is where it is: `begun` (it won
`beginOrQueue`), `syncing` (registered, and on its way to the mutex of the MCP manager),
`listing` (it holds that mutex in `mcp.Sync`), `running`, `ending` (the deferred calls are left).
`mcpMu` is the mutex, which `Sync` takes whatever becomes of the context and keeps while it
talks to servers. `stuck` are the runs in a wait that the end of their context does not end: a
request to a jammed MCP server (the `mcp_jam` run), or the output of a command that a child
outside its process group holds after the kill (`tools.go:2249`). A run may get stuck and
come free at any moment of `listing` and `running`.
`runs`, `cancels` and `userRuns` are the maps of the code, an absent key being `None`
or 0. Each method holds `turnManager.mu`, so each is one action; `cancelRun` calls the
cancel function after the unlock, so a stop is `StopFetch` and later `StopCall`, and
`fetched` holds the functions in between. A run's identity is reused only when no stop
request still holds its function (a function value is never reused in Go).

### TurnQueue

The queue object as a value, each method an operator, with the conversion to rows
(`Snapshot`, the write-through) and back (`Hydrate`, `loadQueue`). No variables; no
recursion: the loops that filter a slice are `Select`, which takes the elements at the
positions that pass, in order. (`SelectSeq` says the same by recursion, which the provers
cannot unfold.)

### ChatTurns

One session, in detail. Its state:

| Variable | Code |
|---|---|
| `queues` | the `turnQueue` objects something still refers to |
| `live` | the queue of the entry in `turnManager.runs`, `None` when idle |
| `rows` | `queued_messages` of the session, in the order `ListQueuedMessages` returns |
| `run` | program counter and locals of `streamChatTurn` and `RunChat`: the turn's message, `LastUserID` (`mode`, `upto`), messages drained and not yet placed (`batch`) |
| `transcript` | the user rows of `messages`; assistant and tool rows are left out |
| `handlers` | handler goroutines between two of their steps |
| `accepted`, `sent`, `deleted`, `editing` | history, for the properties |
| `mishaps` | history: which of the causes the properties name has happened |

One action is one critical section of `turnManager.mu` or `turnQueue.mu`, or one
statement of the store. So `drain`, each `q.add` that puts a drained message back,
and the insert of the follow-up's row are separate actions, while a queue method and
its write-through are one. A queue endpoint is `QueueFor` (and `QueueLoad` when no run
is active: it works on an object of its own) and then `QueueApply`, on an object that
may not be the live run's any more. A resume is idle-check, list, delete, begin,
restore.

Messages are numbered in the order the server accepts them; ids are the least unused
ones, which stands for random ids since nothing compares two of them but equal
positions in `rows`, where both orders are tried. Text and attachments are the message
itself. `continue` turns may be merged into the reply they continue or not, as the
model's output decides.

`mishaps` is how the properties state their excuses without hiding them:

* `"crash"`: a restart came while an accepted message was only in memory
  (`turns.go:40`: the queue survives a restart; what has left it does not);
* `"fault"`: a store write failed in a way the goroutine does not undo;
* `"overlap"`: a handler wrote rows through an object, or from a list, that was stale.

The runs stop exploring behind an `"overlap"` (`NoOverlap`), since every property but
the types is excused there; what the overlaps do is shown by the violation runs.

### EventLog and RunHub

`EventLog` is what listeners of a run are promised: the run writes events 1, 2, ...; a
listener joins at most `Window` events back and reads on one by one; its stream ends at
the end of the log, or earlier for one that fell `Slack` events behind.

`RunHub` is the code: the ring with its head, a channel per subscriber, `publish`,
`subscribe`, `close`, the watch handler between finding the hub and returning, and the
`emit` of `streamChatTurn`. `runHub.mu` makes the hub's methods one step each. `emit`
is two, `Publish` and `EmitWrite`: the hub first, then, under its own mutex, the
client that started the run. The turn emits from one goroutine; a member of `Jobs` is a
detached command whose notify calls `emit` whenever it ends, after the run as well.
An event is its number. Because emit's halves are separate steps, the run's own client
may get the events of two emitters in another order than the watchers; nothing promises
otherwise and no property asks for it.

`RunHub!ImplementsLog` is the refinement: a listener's state is read off the handler
and the subscriber set (`LogState`), how far it has read off what it was sent or, before
that, the first event of its replay (`LogSeen`), and the end of its stream off the last
event left in its channel when that was closed (`LogLimit`), with the capacity of the
ring as `Window` and of the channel as `Slack`. A gap, a repetition, a wrong order over
a wrap of the ring or an event that arrives behind the close is a step `EventLog` does
not have.

### Supervisor

The sidecar's life cycle: `watch` by its program counter (`top`, `wait`, `forget`,
`loop`, `backoff`, the steps of `spawn`, `over`), `Restart` as called by `Call` when a
session is poisoned, `Close`, and a process that dies by itself (`Crash`). Processes
are numbered in the order they start, 0 is nil, and a connection is the number of its
process, since `spawn` dials once. A section under `Supervisor.mu` is a step; kills
and the steps of a spawn are steps of their own. A killed process is gone at once:
`watch` and `terminate` wait for the exit before they go on, and the kill is SIGKILL or
an escalation that ends in it. Time is nondeterminism: the process ran long enough for a
fresh budget or not, a spawn's steps succeed or time out.

Three variables are history: `failures`, the exits and failed starts since the last
healthy process or restart; `carried`, those of before a restart that came while `watch`
respawned with a count of its own, which the restart does not reset; and `midSpawn`, which
records that a restart was asked for while `watch` was between `cmd.Start` and its
bookkeeping.

### HarnessRPC

`conn` of `internal/harness/rpc.go`. A caller's request is `register`, `Write`, wait;
the read loop takes one line at a time, hands a reply to the channel its id names, runs a
request of the sidecar in a goroutine of its own and handles a notification in place.
The mutex makes registering, looking up and emptying the pending map single steps;
setting `closed`, failing the pending calls and closing `closeCh` are steps of their own,
so a call may register, write or be answered in the middle of a shutdown. An answer is
named by the caller whose request it answers, so that one that reaches another caller
shows. Contexts may end at any moment.

### HarnessTurn

One turn on the sidecar: `submit`, the loop of `consumeHarnessTurn` over the bridge's
`EventQueue` (whose token is a separate step from the append), the flush of streamed
text, `reconcile` of what was streamed with what the sidecar committed, the rows, the
user's stop with its abort, and `pollSteer`, which takes messages from the queue and
sends them one call at a time. The sidecar streams pieces, commits the same or other text,
faults, ends, or dies; any store write may fail.

### HarnessTranscript

The two transcripts of a session over several turns: v1's rows, and the sidecar's
conversations (`host.js`: ensure, rewind, fork, submit), brought together by
`runHarnessTurn`. A conversation is the sequence of its user turns. Turns are fresh,
retried, continued, steered, given a picture, or fail, and the sidecar may restart
between any two calls. A steer is two steps, since the sidecar takes the message before
`AddInjectedMessage` stores it (stage `record`): the answer of the first may be lost
(`SteerFails`: the conversation has the message, and the queue has it again), the second may
fail (`SteerNoRow`). Results of background commands that are steered into a turn
(`harness_chat.go:900-915`) have rows of their own beforehand and are left out here.

### Compaction and AgentLoop

`Compaction` has the pure functions of `compaction.go` as operators: `SafeHistory` drops
calls without results and results without calls, `Compacted` cuts a stretch and puts a
summary in its place; a message's size is one token. `AgentLoop` is `RunChat` over them:
a reply answers, calls tools, is cut off, drops, or comes with broken calls; the loop
resumes, slices, strips pictures and asks again, or gives up; steered messages and
rows of background commands come in between. A piece of text is named by the model call
that produced it, so doubling, loss and reordering show. Compaction is checked over every
history the loop reaches and every threshold.

### ModelCall

`ChatStream`: attempts with back-off and with options dropped that a provider refused,
then a stream read through `stallReader`, whose producer goroutine blocks in its read or
in its send while `Read` waits no longer than the stall time-out.

### Background, Ask

`Background` has a job's start (the process first, its entry in the map afterwards), its
goroutine (wait, `close(done)`, notify), its process as `up`, its output as `piped` while a
child that left the process group holds it, the cancel that marks under the mutex, the poll, the stop of a session and `KillAll`, and
a process that may ignore SIGTERM. `Ask` has one session's questions: the registry entry,
the row, the answer that is posted (row cleared, then sent to the channel), the time-out,
the cancelled turn and a restart.

### Preview, Terminal

`Preview` has `Start` behind `startMu` (evict, install, dial, set running), the kills
that follow, `Stop`, the sweep with the list it made before the unlock, and servers that
exit when they like. `Terminal` has a socket's handler (check the project, start the
shell, register, unregister) against the project's deletion.

### ToolServers, Grants

`ToolServers` is one MCP server over stdio as `Sync` keeps it: two turns or tests that
sync, call and give up, settings that change, the transport's reader and its pending map,
and processes that exit. The reader ends with its process or on a line over 8 MiB, and then
the process runs on with nobody to read it. `Grants` is the tokens: loaded, refreshed at the provider and
saved in separate steps, invalidated after a 401, replaced by a new flow, forgotten by
the user.

### Sessions

The sessions of a project: their rows, the row ids a summary covers, the endpoints that
create, fork, delete, rewind and compact them, and what `RunChat` reads (the snapshot
twice) and writes. `EnsureDefaultSession` lists, makes the session and claims the rows of
before in steps of its own; `stranded` records that the claim failed or was cut off. A row says the pieces of text it is made of, and a copy keeps their
names, so a view or a merge that doubles or drops text shows.

### Accounts, Settings

`Accounts`: sign-up in its three ways, roles, deletion, logins, projects with their
directories; each request checks, and acts later. `Settings`: the list of providers as
a `PUT` merges and stores it, and the single endpoint, key and model it mirrors, one
write each, in any order, any of which may fail; two tabs.

### Memories, Recall, NativeModel

`Memories`: what the tools, the capture after a turn, the page and the backfill write;
texts come in pairs that say the same, and a vector is known by the text and model it
was made of. `Recall`: what `ListMemories` fades and drops and what the ranker shows, the
relevance of a row left open. `NativeModel`: the files as they are fetched, one by one,
over failures and restarts, and the load.

### Push

The first use of an account's key (read, make, store), a browser's subscription under
the key it was shown, accounts that log in and out of one browser, and the deliveries
that remove what the push service no longer knows.

### Repo, Workspace, Deploys

`Repo`: the directory, the index, commits by number with tree and parent, branches and
the remote; a turn's snapshot is staging, commit, reading HEAD and stamping, beside the
same of another session and every git endpoint. `Workspace`: tool calls side by side on
files, the task list and commands; an edit leaves a mark, so that a lost one shows.
`Deploys`: a row that outlives the process, a slot read first, and a goroutine that polls.

### Extensions, Skills

`Extensions`: sources and their manifest, the list in the settings, requests without
a lock, the start that materializes the bundled ones, and the sidecar's reloads, which
span awaits. `Skills`: the same of skills, with the seed of a first start; the list is, per
skill, the switches of its entries in their order, since a bundled one can be listed twice.

### Migration

`migrate` statement by statement on the database of any earlier build, stopped between
any two and started again.

### MCServices, MCTools, MCStore, MCHarness, MCHistory

Each of the first four puts several components that share no variable into one run: `part` says whose
behaviour this one is, and the others stay as they began, so the states are the sum of
the parts' states and not their product. A property of such a run is the conjunction of
its part's properties, under the part's name. `MCChatTurns` and `MCHistory` have the
bounds of their runs, of `ChatTurns` and of `Sessions`; `TurnManager`, `RunHub` and `Supervisor` are checked as they are.

### The proof modules

`TurnManagerProofs`, `SupervisorProofs`, `RunHubProofs` and `ChatTurnsProofs` extend the
module they are about; `HarnessProofs` extends `MCHarness`, `ServicesProofs`, `ToolsProofs`
and `StoreProofs` the modules of the runs that check the same properties, and each of these
holds the proofs about that run's components. What they prove, and how, is
[below](#proofs).

## Runs

| Run | Configuration | Checks |
|---|---|---|
| `turn_manager` | `MCTurnManager.cfg` | `SlotAccounting`, `CapRespected`, `SingleFlight`, `CancelTargetsRun`, `StoppedRunEnds` |
| `chat_turns` | `MCChatTurns.cfg` | `StoreMirrorsQueue`, `NothingLost`, `NeverSentTwice`, `DeletedStaysDeleted`, `EditingIsHeld` |
| `run_hub` | `MCRunHub.cfg` | `ImplementsLog` (refinement of `EventLog`), `WatchersReturn` |
| `supervisor` | `MCSupervisor.cfg` | `OneSidecar`, `ConnIsCurrent`, `RestartIsFresh`, `GivesUpAfterBudget`, `DeathIsAnswered`, `RestartReturns`, `NothingLeft` |
| `harness` | `MCHarness.cfg` | `CallsMatched`, `TurnKept`, `ConversationKept`, `HarnessReturns` |
| `services` | `MCServices.cfg` | `UpIsListed`, `NoStaleCard`, `StreamHolds`, `AnswerIsStored`, `RoundsStay`, `WaitsEnd` |
| `history` | `MCHistory.cfg` | `ViewIsTranscript`, `RowsKept` |
| `tools` | `MCTools.cfg` | `ServersHeld`, `PreviewsHeld`, `WorkspaceHolds`, `AddedHold`, `RepoHolds` |
| `store` | `MCStore.cfg` | `AccountsHold`, `RecallHolds`, `DeploysHold`, `TokensHold` |
| `held_release` | `MCChatTurnsHeld.cfg` | violation of `SentOnce` |
| `rewind_miscount` | `MCHarnessRewind.cfg` | violation of `RewoundToRows` |
| `mcp_jam` | `MCToolsJam.cfg` | violation of `NeverJammed` |

What the named properties of the newer runs are made of (each conjunct is a definition of
its component's module, with a comment that says what it is about):

| Property | Parts |
|---|---|
| `CallsMatched` | `PendingExact`: the map holds exactly the calls without an answer; `AnswersMatch`: a call returns its own answer |
| `TurnKept` | `ShownIsStored`: what the client saw is what is stored, on every exit; `SteerKept`: a steered message is in the queue, on its way or heard; `NoLostWakeup` |
| `ConversationKept` | `HistoryKept`: plain turns leave the sidecar with v1's messages; `RunsOnStored` |
| `HarnessReturns` | calls end with their connection, notifications get through, a turn returns after a stop and after its run's end |
| `UpIsListed`, `NoStaleCard` | a live process can be found by a cancel, a stop and the shutdown; the card is the waiting question's |
| `StreamHolds` | `ShownOnce`, `NothingInvented`, `RequestsBounded` |
| `WaitsEnd` | doomed commands end, asking tools and responders return, a model call returns and its producer ends |
| `AnswerIsStored`, `RoundsStay` | the rows say what the user saw; `RoundsIntact` and `CompactionKeepsPairs` keep calls with their results |
| `ServersHeld` | `ServersOwned`, `PendingFailed`; `KeyFollows` of the settings |
| `PreviewsHeld` | `CapHolds`, `ServersReachable`; `ShellsHeld` of the terminals |
| `ViewIsTranscript`, `RowsKept` | the model is given the transcript once; rows say what was said once (`TextKept`), those of before the first session are claimed for it (`BeforeIsClaimed`) |
| `AccountsHold` | `AdminRemains`, `ListedHasDir`; `DevicesListed`, `DevicesReachable`; `OpenedWhole`, `RowsCarried`, `FailsOnlySo`, `NamesFresh` |
| `RecallHolds` | `KeptOnce`, `VectorOfText`; `PinnedLead`, `DropsOnlyFaded`; `LoadedWhole` |
| `RepoHolds` | `CheckpointHolds`: the revision a message names restores the turn's files; `CommitsKept` |
| `WorkspaceHolds` | `EditsKept`, `TodosShown`, `AllowedFirst`, `GroupGone` |
| `DeploysHold` | `BuildingIsAttended`, `ReadyIsOver`, `FlowOnce` |
| `AddedHold` | `LoadedIsEnabled`, `NewestStays`, `BundledHold`; `RemovedStays`, `ListedIsWhole`, `RefreshReaches` |
| `TokensHold` | `GrantUsable`, `SourceIsTokens` |

Several of these hold *unless* something the code does not guard against has happened;
a history variable (`crossed`, `mixed`, `raced`, `halved`, `clash`, ...) records exactly
that, the exception is part of the property's text, and the case is listed under
[what the code breaks](#what-the-code-breaks). A property with its exception still says
that nothing else breaks it.

Bounds, and why they suffice. `turn_manager`: three sessions, three runs and two users at
a cap of two, so that the cap refuses a session that is free, the slots of two users
interleave, and a stop can hold the function of a run that has ended while the session
has a new one; one stop request at a time is between its lookup and its call (`MaxStops`). `chat_turns`: three messages are a turn, a follow-up and a message that
arrives while the first two move; two handlers in flight, which need one queued message
to disagree on, and there no message is sent a second time; and with one handler any two of
a resume, a held re-run, a restart and a failed write, anywhere. `run_hub`: a ring of 2 and
channels of 3 (the code: 512 and 1024) against 5 events, so that the ring wraps fully and a
listener that joined with a full replay is still cut off. `supervisor`: two poisoned calls,
two crashes and a budget of two attempts; failed starts are not bounded, the budget bounds them. `harness`: two callers and two
calls each, so that an id is used while an older answer is on its way; three events of a
turn, four turns of a session. `services`: two commands; two questions with two
responders, one of which is late; three pieces of a stream and the three attempts
`chatRetries` allows; three model calls of a turn with one resume and one joined message, so
that a resume follows a round. `history`: five row ids, four with a second session that has rows, so that a fork of two
rows with a summary is compacted again, and a continued reply is merged into a row that a
summary covers; one request over sessions at a time, so two calls of
`EnsureDefaultSession` that overlap are not among the behaviours. `tools`: two
callers and two processes of a server; three projects under a cap of two; three puts of two
tabs, so that one follows two that met; two tool calls; two versions, two changes and two
starts; two sessions on one file of a repository with two writes and three requests. `store`: two accounts, one of which can be the last admin; a cap of one memory
against two made; two shards; two deploys of two users over a restart; two clients that
hold a token.

`CONSTRAINT Explored` says where a run stops exploring; the invariants are checked up to
there and at the states it stops at. Most of its parts are excuses of the properties
(`replaced`, `orphans`, `crossed`, `met`, `raced`, `clashed`, `rewritten`): what comes
behind them is excepted. The others are bounds: the third call of the model has nothing
that joined the turn, the third preview no idle sweep, the third put of the settings no
other beside it, a second session is a copy, the last request of the repository finds no
snapshot that was interrupted, the store refuses the writes of one deploy only, and an
account is connected to Vercel while no deploy is under way (they share the token's
presence only). No liveness property is checked of a part it cuts: in `services` it bounds
the loop alone, and `WaitsEnd` is about the other three.

## Fairness and deadlock

`TurnManager!FairSpec` assumes that a goroutine that can run does
(`Register`, `End`, `StopCall`), that a mutex which comes free again and again is had in
the end (Go's mutex hands itself over to a waiter that starves; hence strong fairness of
`SyncLocks`), and that a run which is not stuck ends once its context is cancelled: the
model call, the tools and the held wait all take that context. It does not assume that a
run ends otherwise, nor that a stuck one comes free, so `StoppedRunEnds` has two
exceptions: a run that is stuck again and again, and one that waits for the mutex of the
MCP manager for ever. `RunHub!FairSpec` assumes the steps of the watch handlers
only: a write to a watching client either succeeds or fails, and both are steps; a run may
go on for ever and its emitters may stop anywhere. `Supervisor!FairSpec` assumes
`WatchStep` (every wait in `watch` is timed, except the one for a live process, during
which no step of `watch` is enabled), the steps of a restart, and `CloseBegin` and
`CloseEnd`: after the signal `main` waits ten minutes at most for turns, and every wait in
`Close` has a time-out. `HarnessRPC!Fairness` assumes the read loop, the closing and each
caller's own steps, not that the sidecar answers; `HarnessTurn!Fairness` the loop, whose
waits are timed (250 ms), and that the submit returns. `Background` assumes the waiter of
a process that exits, the insertion after a start, the kill timers and the cancel's second
half, not that a process exits of itself, nor that a child lets go of the output; `Ask` the tool's goroutine and the responders, whose waits include a
time-out; `ModelCall` the goroutines and the timers, not that a provider sends. Nothing
makes a process die, a client cancel, a provider answer or the signal come.

`CHECK_DEADLOCK FALSE` in all configurations but `MCTurnManager.cfg`: a run that is over
with its listeners gone stops, so does a closed supervisor or connection, and a component
whose bounds are used up is idle for good.

## What the code breaks

Three runs show a violation by a trace:

* **A released hold re-runs the finished turn** (`held_release`,
  `handlers_chat.go:858`). When only held messages are left the goroutine waits, and on
  the release it `continue`s into `RunChat` with the params of the turn that is over.
* **The rewind counts from the wrong end** (`rewind_miscount`, `host.js:794`). Of n turns
  of which `keep` must stay the fork keeps n - keep.
* **An MCP reader and a request that gave up wait for each other** (`mcp_jam`,
  `stdio.go:191`): the reader sends on a full channel with the mutex held that the
  request needs to go away.

`PROJECT.json` lists them with the others, each with the line it disagrees with. Most of
the others are stated as definitions beside the properties of their module, named for
the promise; a configuration that lists the definition gives the trace:

| Promise | Module | What happens |
|---|---|---|
| `FollowUpsInOrder`, `SentOnce` | `ChatTurns` | a message sent while the drained ones are put back overtakes them; a resume whose row a new run has hydrated sends it twice |
| `EveryStopEnds` | `TurnManager` | a stopped run waits for another run's MCP server, or for the output of a command whose child left the group |
| `WriterNotUsedLate` | `RunHub` | a detached command's notify writes to a finished response |
| `RestartSparesFresh`, `RestartHasFullBudget` | `Supervisor` | the second of two restarts kills the first one's new sidecar; a restart during a respawn gives no fresh budget |
| `SteersHaveRows` | `HarnessTranscript` | a steer whose answer is lost, or whose row fails, leaves a turn of the conversation without a row |
| `DeathReturns` | `HarnessTurn` | a turn whose sidecar dies polls on until it is stopped |
| `CompactionNeverSplits`, `NothingSliced` | `AgentLoop` | a cut falls between two results; a later truncation slices off what the round wrote |
| `StopSeesAll`, `ToldHasText`, `NoneOutlives` | `Background` | a stop misses a command that is started and not yet in the map; a poll between `close(done)` and notify hands out an empty result; a deaf command outlives the process |
| `WaitingIsShown` | `Ask` | a late outcome clears the next question's row |
| `StopStops`, `RunningIsUp` | `Preview` | a preview stopped while it installs starts; one that exited reads as running |
| `NoneAfterDelete` | `Terminal` | a shell starts in a deleted project |
| `NoneReplaced`, `NoneUnread` | `ToolServers` | a replaced client is not closed; requests wait for a reader that ended on a long line |
| `DisconnectForgets` | `Grants` | a refresh under way saves the grant again |
| `EditsWait`, `NoneStranded` | `Sessions` | a refused edit has rewritten the row; a claim that fails or stops leaves the old rows to no session |
| `NoOrphans` | `Accounts` | a deleted user's archived projects stay |
| `ZeroIsStored` | `Settings` | a time-out of 0 brings the default back |
| `PinnedShown`, `PoolsAsPublished`, `FailureIsRetried` | `Recall`, `NativeModel` | pinned memories are cut; a failed optional file changes the pooling; a failed download is not retried |
| `ReadyIsReady` | `Deploys` | a failed build is stored as READY |
| `NeverDisabled` | `Extensions` | a restarted sidecar loads disabled extensions |
| `StartsAgain` | `Migration` | a stop between two statements of a rebuild, or a database from before sessions, fails every start |

Findings that name a property of a passing run (`AnswerIsStored`, `RoundsStay`,
`AddedHold`, `RecallHolds`, `AccountsHold`, `ServersHeld`, `TextKept`) are about what that
property excepts.

More excuses worth knowing: a restart between a drain and the follow-up's row loses the
drained messages; a failed `AddUserMessage` loses the follow-up it was for; a delete that
comes between the drain and the put-back finds nothing, is acknowledged, and the message
is sent; a stop between `beginOrQueue` and `register` is acknowledged and stops nothing; a
retry that read the transcript before another run began cuts the user rows that run
added; a restart asked for in the middle of a spawn kills the process being handshaken,
whose connection is then handed back (`midSpawn` of `RestartIsFresh`); between the signal
and `Close` a `watch` that sees the cancelled context returns without closing `stopped`,
so a restart waits until `Close` begins.

## Proofs

`TurnManagerProofs` proves, for all sessions, users, runs and caps, `TypeCorrect`,
`SlotsAccounted`, `CapHolds`, `RunsAreSingleFlight` and `StopIsPrecise`:
`Spec => []` of `TypeOK`, `SlotAccounting`, `CapRespected`, `SingleFlight` and
`CancelTargetsRun`. The inductive invariant is `IInv`: these but `SingleFlight`, and
`Registered`, which says that a session's entry in `runs` is an active call for that
session and that every active call is the entry of its session. None of the properties is
inductive without it: `end` gives back the slot of the *session's* run, and only
`Registered` makes that the slot the ending call took, which is also what makes
`SingleFlight` follow. The cardinalities change by one element, by `FS_AddElement` and
`FS_RemoveElement` on the finite set of a user's sessions; hence the assumption that
`Sessions` is finite. The other assumptions are that the cap is a natural number, that
there is a user, and that `None` is no run.

`SupervisorProofs` proves, for all callers, budgets and numbers of crashes, `TypeCorrect`,
`OneSidecarAtMost`, `ConnIsProcs` and `RestartsAreFresh` (`Spec => []` of `TypeOK`,
`OneSidecar`, `ConnIsCurrent`, `RestartIsFresh`) and `BudgetIsSpent`
(`Spec => GivesUpAfterBudget`, an action property). Its `IInv` has six parts.
`AliveIsProc`: only the installed process can run, which gives `OneSidecar`. `WatchKnows`
says what `watch` may rely on at each of its steps: that its local is the installed
process, that none runs before a spawn, that no connection is left while it respawns; it
makes `AliveIsProc` and `ConnIsCurrent` inductive. `CountsFailures` bounds `watch`'s count
and `consecutive` by the failures in a row, those carried over a restart included, which
gives `BudgetIsSpent` at the only step that gives up. `NewerComes` says that once a restart has chosen its victim every
connection still to be installed is a later process's, unless it came mid-spawn; it gives
`RestartIsFresh`. `TypeOK` and `ConnIsCurrent` complete it. The assumptions are that the
two bounds are natural numbers and that `None` is no caller.

`HarnessProofs` proves `CallsAreMatched`, `Spec => []CallsMatched`, for all callers,
requests and notifications. That an answer goes to the call it answers rests on what is
still on its way, so `IInv` adds `IdsDiffer` (no two calls under way share an id),
`AskedIsOwn` and `WireIsReal` (a request the sidecar has, and a reply on the wire, carries
the id of the caller it names, or of no call any more) and `SlotIsOwn` (a full channel
holds its own caller's answer). Ids are never reused, `nextID` only grows, and that is the
whole reason: a reply that comes after its caller gave up finds no entry.

`RunHubProofs` proves `HubImplementsLog`, `Spec => ImplementsLog`: the hub with its watch
handlers and emitters implements `EventLog`, for all watchers, jobs, events and
capacities, where a channel is at least as long as the ring (`RunHubAssumption`; the code:
1024 and 512), since `subscribe` fills a new channel with the whole replay under the lock.
The invariant, `RingAndChannels`, is `IInv`: `RingIsNewest` says that the ring holds the
newest events and that the oldest is the one after `head`, before and after it wraps;
`ChanFollows` that a channel holds exactly the events that follow what its watcher was
sent, without a gap, up to the newest while it is subscribed. Under it each step maps:
`Publish` to `Write`, `Close` to `Close`, a subscription to `Join`, or to `JoinLate` on a
closed hub, a forwarded event to `Read`, the end of the stream to `Finish`, a client that
leaves to `Leave`; every other step leaves the log as it is. The mapped state is read off
sequences, so `MappedNow` and `MappedNext` say what it is on the states the invariant
allows, once for each side of a step.

`HarnessProofs` also proves `TurnIsKept`, `PartsSpec => []TurnKept`, for any finite set of
steered messages, any pieces of text and any number of events (`HarnessAssumption`).
`TurnIInv` adds to the types: `OpenIsText`, the open round on the client's screen is
exactly the text that streamed since the last commit; `ShownSaved`, without a failed
write the client shows the rows and after them the open round; `ClosedAtEnds`; and, for
the steers, that every steered message is queued, taken or heard. `reconcile` is
what needs them: `ReconcileCompletes` shows that whatever text a commit brings, an
extension of what streamed or another, the client ends up with the text of the row.

Its last part is `ConversationIsKept`, `PartsSpec => []ConversationKept`, for any kinds and
numbers of turns, messages and conversations (`TranscriptAssumption`: the bounds are
numbers). `TranscriptIInv` follows the call the turn is at: `StraightHeld` says that between
turns and in a run the stored conversation `Agrees` with all the rows, and before the
submit with all but the last, the message that is about to be sent; between a steer and its
row the conversation is one message ahead (`LastSent`); `ConvsHeld`, that past
`ensure` the turn runs on the stored conversation and that the sidecar knows the session
by that one or not at all. That no plain turn is rewound is then `RewindKeeps`:
`KeepUserTurns` is the number of user rows before the new message (`KeepUser`), and what a
tool injected makes it larger than the conversation, never smaller. The rows of a role are
the library's `FlattenSeq` of one sequence per row; `FlattenNext` and `InRoleNext` say
what one row more adds. The function inside `FlattenSeq` is recursive, and a least
counterexample (`LeastOf`, from the library's `WFMin`) takes the place of the induction that
the prover cannot do.

`ServicesProofs` proves `CardIsFresh` (`NoStaleCard`) and `RunningCommandsAreListed`
(`UpIsListed`) for any questions, texts, responders, jobs and sessions. The first needs
that a question that was asked has a text, for the answers that are cached; the second
(`UpWaits`) that a command that runs is one its goroutine still waits for, or one that is
about to be listed.
`StreamIsOfOne` is `StreamHolds` for any number of retries and pieces
(`ServicesAssumption`: at least one request, a bound that is a number). Its invariant
`CallIInv` says that nothing of a response exists before a request is answered
(`Asking`), that the requests are the attempts and the fallbacks (`Counted`), that what
was shown is what was read but for the chunk that is held out (`ShownIsTaken`), and that
a call which returned has closed the body (`Scanning`), so what was read is final. The
lemmas are about the pieces of a kind among the first n, known by their number:
`OnlyOfNext`, one piece more, and `OnlyOfPrefix`.

`AnswerAlwaysStored` is `AnswerIsStored` for any number of model calls, resumes, joined
messages and background results (`LoopAssumption`: the bounds are numbers). `LoopIInv`
relates three pieces of state while the turn runs: what the rows of this turn say and after
it the kept text is exactly what was streamed and not abandoned (`TextHeld`).
`PiecesBefore` says that the pieces of a call under way are still to come, so a reply
without its pictures, asked for once more, takes back its own text only. `MineNext` and
`WithoutNext` say what one row and one piece more add; the steps of `RunChat` fall into those
that say nothing (`QuietStep`) and those that stream a piece (`StreamStep`).

`ChatTurnsProofs` proves all five invariants of `ChatTurns` for any number of messages, handlers, requests, resumes, restarts, failed
writes and second turns: `RowsMirrorQueue`, `AcceptedIsKept`, `SentAtMostOnce`,
`DeletedIsGone` and `EditIsNeverSent` are `Spec => []` of `StoreMirrorsQueue`,
`NothingLost`, `NeverSentTwice`, `DeletedStaysDeleted` and `EditingIsHeld`. The
assumptions are `ChatTurnsAssumption`: the bounds are natural numbers, there are finitely
many handlers (an id and a queue object that nobody holds must exist), and `None` is not a
number. The argument has three layers.

1. *Values.* A queue and the rows are described by their keys: id, message, and whether
   it waits free, held or steered. For every method, for the write-through and for the
   load, a lemma says that the result is well-formed (no id twice) and what became of the
   keys; `HydrateSnapshot` and `MirrorKeys` say that what is written is what is loaded.
2. *Steps.* `Types`, with `UptoIn` (a re-run starts from a part of the transcript), is
   inductive by itself, action by action; it includes that the goroutine holds a batch
   at exactly the steps that use one, that a request holds a queue object while it is
   applied, and that ids differ. `MirrorStep` is the first property: it needs `Types`
   only. With both, `Effects` shows that each of the thirty-two actions, unless it makes
   a state `"overlap"`, has one of fifteen effects on where messages are: one is queued,
   started, told to the agent, taken out, put back, injected, followed, dropped, changed
   by a request, picked, taken by a resume, started or put back by it, asked for again
   by a retry, or nothing moves. What depends on sequences ends here.
3. *Places.* `ChatInv` has these on top, each kept by every effect. `PicksApart`: the row
   a resume has deleted is not among the rows and no other resume has it, so the put-back
   and the run it starts do not double it. `EditingHeldInRows`: an edited message is held
   in the rows; no effect takes a held row out. `PlacesKept`: each message is in one place
   (waiting, with a resume, in the batch, or with the agent or deleted), and what is in
   the first three was accepted and not sent: deleted messages stay deleted because a
   place only receives what it takes from another. `TurnUnsent`: the turn that is about to
   start was not sent since it was last asked for, which with `PlacesKept` bounds the
   count by one. `NothingCut`: a turn that re-runs what is there has its message in the
   transcript and cuts nothing. `NoneMissing`: every accepted message is in some place.
   `NothingLost` is not inductive without `NothingCut`, since `Start` cuts the transcript,
   nor `NeverSentTwice` without `PlacesKept`.

`ToolsProofs` proves the five properties of the `tools` run, each as `PartsSpec => []` of the
conjunction over the parts it names.

* `WorkspaceIsHeld` (`WorkspaceHolds`), for any calls, paths and number of marks. To the
  four properties `ToolsIInv` adds the types, `ListIsStored` (while no two lists met, one
  call at most is about to tell the client, of the list that is stored) and
  `AnswersGranted` (an answer that allows is remembered as one), without which
  `TodosShown` and `AllowedFirst` are not inductive.
* `PreviewsAreHeld` (`PreviewsHeld`), for any finite set of projects, cap of at least one and
  number of previews (`ToolsAssumption`), and any sockets. `RoomForStart` says that the cap
  holds *and* that a start under way has its place below it: `evictLocked` runs under
  `startMu`, long before the preview counts as running. What it evicts is the least
  recently used; that there is always such a one is `LeastUsed`, an order kept as pairs.
  `UpIsRunning` says where a server that is up can be found, and `StartShape` what the start
  under way relies on. The terminals' `ShellsIInv` adds that an open socket's shell is
  registered or was late.
* `ServersAreHeld` (`ServersHeld`), for any finite set of callers, any versions and number of
  connections (`ServersAssumption`), any tabs and endpoints, and any number of ids, keys
  and puts (`EndpointAssumption`: "none" is no endpoint). For the servers `ReaderHeld` says,
  reader by reader: a request that waits is pending while the reader reads; when it fails
  them, it is on the list the reader walks or has its reply; afterwards its channel is not
  empty, unless it is in the pending map once more: it came later. For the settings `PutHeld` says what a request that had no other beside it relies
  on at each of its writes: the list is the one it merged, and what is still to be written,
  with what is, makes the endpoint, key and model those of a provider in the list; `clean`
  is false while any write is to come.
* `AddedAreHeld` (`AddedHold`), for any user's and bundled extensions that have different ids,
  any number of versions, changes and starts, any requests over skills, and a marketplace
  skill that is not the bundled one (`AddedAssumption`). Extensions: `BundledHeld` ties each
  bundled source to the manifest before, between and after the two writes of a start;
  `NewestHeld` says, while no two requests met on an extension, that the list has its newest
  version or the one request that is about to store the list has it, whatever request reads
  the list meanwhile; `ReloadHeld` and `RunsEnabled` follow one reload from the ids it read to
  what it installed, as long as no other overlaps it and nothing changes below it. Skills:
  `BootHeld` says what each step of the seed leaves on disk, so that it may be cut off
  anywhere; `ListedFit` and `ToListFit` that a listed skill, or the one a request is about to
  list, has the files it needs.
* `RepoIsHeld` (`RepoHolds`), for any sessions and files and any number of writes, commits,
  pushes and requests (`RepoAssumption`: "request" is no session). `Older` says that a
  commit's parent came before it, so that the history of a commit, the least set that has it
  and is closed under parents, exists and only grows (`HistoryGrows`), and that of a commit
  in it lies in it (`HistoryWithin`): a commit on the tip, a fast-forward, a push that is not
  forced and a pull lose nothing. `CommitsHeld` is `CommitsKept` over those histories;
  `SnapshotHeld` follows a session nobody met from what it staged over what HEAD has to what
  its message names.

`StoreProofs` proves the four properties of the `store` run.

* `AccountsAreHeld` (`AccountsHold`) has three parts. Accounts, for any number of users
  (`AccountsAssumption`): while no two requests over accounts met, the one there may be
  `Leaves` an admin and what it makes is `NotFirst` unless it is made an admin; `DirsHeld`
  says that a directory a request is about to take away is of no listed project, and that
  nobody else has to do with a project being made. Devices, for any keys and endpoints
  (`PushAssumption`): a page subscribes under the key its account signs with and posts what
  is subscribed under it (`KeyOf`). The opened database, for any numbers of users and of
  session names (`OpenedAssumption`): `OpenedIInv` says for each statement of `migrate` which
  columns, tables and rows are there before it, so a stop anywhere is covered; `TableHeld`
  says that a table that is gone is in its `_v2` between two statements of its rebuild, and
  `NamesHeld` that the counter is at least the names in use.
* `RecallIsHeld` (`RecallHolds`), under `RecallAssumption`: the bounds are numbers. `ReadOfRow`
  says that what a backfill or a caller has read of a row nobody rewrote is still what the
  row says, and that a caller's list has no row with the text it is about to keep.
  For the ranker the lemmas are about any order of the rows: what is shown when the limit
  or the budget cuts is a prefix of pinned ones, or contains them all.
* `DeploysAreHeld` (`DeploysHold`), for any owners and numbers of deploys and flows
  (`DeploysAssumption`). `SlotHeld` and `RowHeld` tie the user's slot and the row to the
  goroutine that is to settle them; `HasLatest`, that of a user's rows one is the latest, is
  what makes the deploy a page shows well defined.
* `TokensAreHeld` (`TokensHold`), for any clients and numbers of tokens and flows
  (`TokensAssumption`). While no two requests met and no write was lost, the copies requests
  hold are of the stored grant (`CopiesAgree`), what the one that saves has can be renewed
  (`SavedRenews`), and a forgotten grant is nobody's to refresh (`ForgottenStays`). `HalfWay`
  is the same for the token and its source.

TLC agreed on each invariant before it was proved. `CHOOSE` of a least or a latest element
needs that there is one: the library's `WFMin` over the naturals gives it for numbers, and an
invariant (`LeastUsed`, `HasLatest`) keeps it where the order is the model's own.

What stays with TLC: all liveness
(`StoppedRunEnds`, `WatchersReturn`, `DeathIsAnswered`, `RestartReturns`, `NothingLeft`,
`HarnessReturns`, `WaitsEnd`) and ENABLED, which are beyond the prover; the properties of
`Compaction` and `Sessions` (`RoundsStay`, `ViewIsTranscript`, `RowsKept`), which are about
what filters leave of rows and histories, renumbered, cut and joined, and would need
induction over data.

## Not modelled

Within the modelled components: event emission and wording; the text of an edited
message; failures of the queue's write-through (the code logs and goes on); the queue's
`takeQueued`, which the server does not call; the hub's accumulated text and the replay
count; the supervisor's probe for another server's sidecar, its handler and its plain
lookups; framing and JSON of the connection; the sidecar's compaction of a conversation;
prompts, planning and the encoding of tool results; command detection, logs and the proxy
of previews; discovery of OAuth metadata; hashing, signatures and rate limits of logins;
the arithmetic of scores and of the embedding network, which is over reals; diffs; the
GitHub API beyond push and link; the upload of a deploy's files; the texts of the built-in
extensions and skills.

Left out as a whole: `llm/providers.go`, which translates messages between formats and
keeps no state; scaffolding, web search and sanitizing, which have none either; uploads,
diagnostics and logs of the HTTP server; screenshots; and the web client, which the models
have as their environment, but for its push subscription and its settings form.

## Next

1. Theorems about `Sessions` and `Compaction`, in the way of `AnswerAlwaysStored`: the
   filters as joins, of which a lemma says what one row more adds.
2. The sidecar's own compaction against `rewindIfNeeded`.
3. The composition of `AgentLoop` with `Sessions`: both have the rows, at different grain.
4. Two requests over sessions at once in `history`, on fewer rows.

## Running it

    tlc -workers 2 -config MCTurnManager.cfg TurnManager
    tlc -workers 2 -config MCChatTurns.cfg MCChatTurns
    tlc -workers 2 -config MCRunHub.cfg RunHub
    tlc -workers 2 -config MCSupervisor.cfg Supervisor
    tlc -workers 2 -config MCHarness.cfg MCHarness
    tlc -workers 2 -config MCServices.cfg MCServices
    tlc -workers 2 -config MCHistory.cfg MCHistory
    tlc -workers 2 -config MCTools.cfg MCTools
    tlc -workers 2 -config MCStore.cfg MCStore
    tlc -workers 2 -config MCToolsJam.cfg MCTools
    tlapm TurnManagerProofs.tla
    tlapm SupervisorProofs.tla
    tlapm RunHubProofs.tla
    tlapm HarnessProofs.tla
    tlapm ServicesProofs.tla
    tlapm ChatTurnsProofs.tla
    tlapm ToolsProofs.tla
    tlapm StoreProofs.tla
