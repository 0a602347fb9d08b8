# PicoClaw in TLA+

This directory models the concurrent core of the PicoClaw gateway (the Go
program under `cmd/picoclaw` and `pkg/`): the message bus, the channels on both
sides of it, the rounds of the agent loop with their sessions, and the services
around them. Each module is translated from the code; `PROJECT.json` maps every
definition to its lines. TLC checks the modules on small instances, and TLAPS
proves theorems about twenty of them for every value of their constants.

- [The system](#the-system) – components, state, interaction, what is hard
- [The modules](#the-modules) – how state and actions correspond to the code
- [The runs](#the-runs) – what each run asks, bounds, fairness, result
- [Findings](#findings) and [Claims the code does not keep](#claims-the-code-does-not-keep)
- [The proofs](#the-proofs)
- [Not modelled](#not-modelled) and [What could follow](#what-could-follow)

To repeat a run: `tlc -config MCMessageBus.cfg MCMessageBus`. To repeat a proof:
`tlapm MessageBusProofs.tla`.

## The system

A gateway process connects chat platforms with LLM agents. A platform adapter
receives a message and calls `BaseChannel.HandleMessage`, which shows indicators
and publishes the message to the bus. The agent loop takes it, runs a *round*
(LLM calls, tool calls, an answer) on a session, and publishes answers. The
channel manager takes them off the bus and hands them to one worker per channel,
which waits for the rate limiter, ends the indicators, sends and retries. Cron
jobs, heartbeats and finished subagents start rounds of their own.

```
 platform ─▶ adapter ──HandleMessage──▶ bus.inbound ──▶ AgentLoop.Run ─▶ session, prompt,
              ▲  │ records indicators                   │  ▲              tools, LLM
              │  ▼                                      │  └── cron, heartbeat, subagents
              │ Manager maps ◀preSend─ worker ◀queue─ dispatcher ◀── bus.outbound / media
 platform ◀───┴──────Send──────────────┘                (Close, StopAll, Unregister…)
```

| Component (source) | State it keeps | What is hard | What makes it correct |
|---|---|---|---|
| Message bus (`pkg/bus`) | three channels of 64, `closed`, `done` | publishers race with `Close` without a lock; full channels block | lossless bounded FIFO; `Close` returns and releases everybody; it behaves like one atomic shutdown |
| Channel manager (`channels/manager.go`) | channels, workers, queues of 16, dispatch context | a worker found under the lock is used after it; shutdown at any wait; retries hold up a queue | order per chat, parts in order, no worker survives, every message is tried |
| Indicators (`base.go`, `manager.go`) | three `sync.Map`s keyed by chat | several messages of a chat share a key; the janitor reads, then deletes | the reply ends its own indicators; none becomes unreachable without an overlap |
| Agent rounds (`agent/loop.go`, `tools/message.go`) | one message tool per agent: target, `sentInRound` | flag and target are plain fields shared by rounds | the response is withheld exactly when the tool has sent; replies go to the round's chat; no round vanishes unless the gateway shuts down |
| Sessions (`pkg/session`, `loop.go`) | messages, summary, file; `summarizing` | read–modify–write over several atomic calls; background summaries; crashes | history in order; only late messages can be forgotten; the file never has a truncation without its summary |
| Requests (`agent/context.go`, `pkg/providers`) | messages of a round | histories are cut in the middle of a tool exchange; names are lost in the file | calls and results are paired in every wire format |
| Prompt cache (`agent/context.go`) | the prompt, baseline of files | files change while they are read; clock ticks are coarse | no old text is served, within the clock's resolution |
| Fallback (`providers/fallback.go`, `cooldown.go`) | cooldown entries over time | requests with different outcomes; windows and caps | a failed provider rests; a later failure never shortens its rest |
| Credentials (`pkg/auth`, launcher) | one file, one configuration | several processes rewrite the whole file; refresh tokens rotate | a stored token is accepted; a logout lasts; an OAuth state is used once |
| Cron (`pkg/cron`, `tools/cron.go`) | `jobs.json`, a copy in memory | jobs run outside the lock; crash after "claimed"; the CLI writes the same file | one-time jobs once; enabled jobs stay scheduled; a removed job comes back only from a store that still holds it |
| Subagents (`tools/subagent.go`) | tasks | the manager publishes with its lock held | spawning rounds go on; results come in order, at most once |
| MCP manager (`mcp/manager.go`) | sessions, wait group | `Close` under calls, server deaths | no session closed under a call, none left open unreported |
| Last chat, heartbeat (`pkg/state`, `pkg/heartbeat`) | `state.json` in three copies | crash between two steps of a save; stale copies | a restart knows the last saved chat |
| Media store (`media/store.go`) | three maps, files on disk | maps under the lock, files after it | the maps agree; a live reference has its file; no file leaks |
| Skills (`pkg/skills`, `tools/skills_*.go`) | a directory per skill, a search cache | tools of several agents and commands of other processes without a common lock; failures in the middle | an install is whole or leaves nothing; the listed skill is the loaded one; the cache is bounded and honest |
| Adapters, inbound (`pkg/channels/*`) | duplicate memory, reply tokens, downloads | the order of checks differs; events are repeated; the memory of ids is finite; a publish fails at the shutdown | nothing unwanted gets in, each message once while it is remembered, strangers cost nothing |
| Adapters, outbound | requests of one message, tokens | answers get lost after the request was carried out; parts fail one by one | what is reported as sent is visible; repeats have a cause; order |
| WeCom AI bot (`wecom/aibot.go`) | stream tasks | polls, replies, deadline and cleanup race | a polled stream can be answered; replies in order; `Send` returns |
| OneBot, WeCom duplicates | websocket, pending requests, ring | reconnection against `Stop`; ring and map | a held connection has its listener; the ring is a window; it dials again |
| Pico, MaixCam | connections | connect, break, broadcast and `Stop` race | counts and maps are right; connections end |
| WhatsApp (bridge and client) | websocket; client, wait group | reconnect goroutines against `Stop` | `Stop` waits for them; a lost connection is answered |

## The modules

| Module | Code | Kind |
|---|---|---|
| `MessageBus`, `BusContract` | `pkg/bus/bus.go` | the bus as goroutine steps, and what it promises; the first implements the second |
| `ChannelManager` | `pkg/channels/manager.go` | outbound side |
| `Indicators` | `base.go`, `manager.go`, `telegram.go` | the three indicator maps |
| `AgentRounds` | `loop.go`, `tools/message.go`, `tools/registry.go` | rounds and the message tool |
| `SessionHistory` | `loop.go`, `session/manager.go` | one session |
| `PromptMessages` | `loop.go`, `agent/context.go`, `pkg/providers` | a request from history to wire format |
| `PromptCache` | `agent/context.go` | the cached system prompt |
| `Fallback` | `providers/fallback.go`, `cooldown.go`, `loop.go` | candidates and cooldowns |
| `Credentials` | `pkg/auth`, auth commands, launcher | the credential file |
| `CronService` | `cron/service.go`, `tools/cron.go`, cron commands | jobs |
| `Subagents` | `tools/subagent.go`, `spawn.go`, `toolloop.go` | background tasks |
| `McpManager` | `mcp/manager.go` | tool servers |
| `ActiveChannel` | `pkg/state`, `pkg/fileutil`, `pkg/heartbeat`, `pkg/devices` | the last chat |
| `MediaStore` | `media/store.go`, `utils/media.go` | files and maps |
| `SkillSearch`, `SkillFiles` | `pkg/skills`, `tools/skills_*.go`, skills commands | searching; one skill's directory |
| `ChannelInbound`, `ChannelOutbound` | the adapters in `pkg/channels/*` | before and after the bus |
| `AIBotTasks`, `OneBotLink`, `SocketServers`, `WhatsAppLink` | `wecom/aibot.go`, `onebot`, `pico` and `maixcam`, `whatsapp*` | channels with state of their own |
| `MessageBusProofs`, `ChannelManagerProofs`, `IndicatorsProofs`, `AgentRoundsProofs`, `SessionHistoryProofs` | – | TLAPS proofs about the module of that name; the first also about `ChannelInbound` and `ChannelOutbound` |
| `ServicesProofs` | – | proofs about `McpManager`, `ActiveChannel`, `Fallback`, `CronService`, `Subagents`, `MediaStore` |
| `LinksProofs` | – | proofs about `AIBotTasks`, `OneBotLink`, `WhatsAppLink`, `SocketServers` |
| `FilesProofs` | – | proofs about `SkillFiles`, `PromptCache`, `Credentials` |
| `MC…` | – | small instances for TLC |

The modules meet at the bus. Each abstracts its neighbours to what they may do:
`ChannelManager.busQ` and `Indicators.inbox/outbox` are the bus as seen by one
consumer, `Indicators.AgentRound` is a round that publishes up to `MaxReplies`
replies, `AgentRounds` publishes into a set, `Subagents.inbound` is the bus's
bounded channel with the agent loop as its only reader, and the worker of
`ChannelOutbound` is the one of `ChannelManager` for a single message. Operators
named in a comment as *Mutant* are not part of a specification: each is a
plausible bug, used to show that a property notices it.

**MessageBus.** One step per place where a goroutine can be interrupted: a
publish is the `closed` load, the context check and the select; `Close` is the
compare-and-swap, `close(done)` and one step per message drained. `pub[p]` is the
program counter of a call. A context can end at any moment, so it is no variable;
a blocked select chooses among the ready cases, as Go does. A message is the
pair (publisher, number of its call). The history variables `accepted`, `taken`
and `late` do not influence a step.

**BusContract.** A bus with an atomic shutdown: asking is possible while it is
open, and after the shutdown every open call is answered. `MessageBus` maps
`open` to `~closed`, a debt to a call past the closed check, and the queues to
its buffers.

**ChannelManager.** Per lane (text, media) one dispatcher (`disp`) and per
channel one worker (`work`). The lookup under `RLock` and the use of the worker
after it are two steps (`DispatchLookup`, `DispatchEnqueue`), as are the closing
of the queues and the waits of `StopAll`. `WriteLocked` blocks lookups from the
first step of `StopAll` or `UnregisterChannel` to the last. `outcome[m][i]`
records how part `i` of message `m` ended: *sent*, *edited* into the placeholder,
*permanent* (an error that is not retried), *exhausted*, *dropped* (the context
ended). A send on a closed queue sets `panicked` and the system stops, as the
process does. The rate limiter is a wait with no rate; the platform's answer is a
choice.

**Indicators.** `entry[k][c]` is the map entry of kind `k` and chat `c`, named by
the message it was recorded for; `shown[k]` are the indicators visible on the
platform. `HandleMessage` shows and records, kind by kind, and then publishes.
`JanitorRead` is what `Range` sees and `JanitorDelete` what `LoadAndDelete`
removes: these can differ. `lost` records entries displaced by others.

**AgentRounds.** `round[t]` is a goroutine: the loop of `Run`, and one for each
cron or heartbeat round. `toolChat` and `toolSent` are the fields of the message
tool of each agent, of which there is one instance per agent. `SetContext` and
`Execute` are separate steps. The LLM's decisions (another tool, the message tool
with or without a target, an answer, an error, a context too large) are choices,
bounded by `MaxIterations` as in the code. `shutdown` follows the gateway: Run's context
ends, then the bus closes. From then on `PublishOutbound` returns an error, which the
rounds ignore; a response lost this way leaves the verdict `unsent`. The message tool and
the rounds of other goroutines have contexts of their own and fail only at the closed bus.
A publish that waits at a full channel is one that has not happened yet. What the
closing bus drains from its outbound channel counts as published here. `disturbed` are
the rounds during which another round of the same agent wrote to the tool: the properties
promise them no more than the shared fields can.

**SessionHistory.** A message is a number and a role; a summary is the set of
messages the model was shown for it. Each `SessionManager` call is one step, so
that another goroutine may come between reading a history and writing it back.
`Save` is a snapshot and a rename which may fail. A history may be too long for its
tokens at any length, so a summary may begin below the threshold. `excused` collects the losses
the code takes knowingly: what `forceCompression` drops, what a crash loses, and
what a summary in two batches leaves out – that path does not pass the previous
summary to the model, so it is lost, and a batch whose LLM call fails is left out
too. `late` counts the messages that arrive between the reading and the truncating
of a summary.

**PromptMessages.** The same session calls seen from the request: a message is
its role, its calls and the call it answers. `BuildMessages` sanitizes the
history, a round appends call by call, and `Wire(format, …)` is what a provider
package makes of the request: OpenAI-compatible, Codex and Antigravity differ in
which field they take a call's name from. `torn` is set when two rounds of one
session came between a call and its result.

**PromptCache.** Files are looked at one by one, first by existence, then by
modification time, against writers that change them at any step: the user in place, the
program by `WriteFileAtomic`, whose rename brings the time at which the temporary file was
written, any tick up to the present one. `log` is the history of writes by which the property
says which texts a call could have seen.

**Fallback.** A request walks its chain; `IsAvailable`, the call, and the marking of a
failure or success are separate steps under the tracker's lock. The clock jumps to
the next moment at which the code's comparisons change.

**Credentials.** Every operation is *load the file, change an entry, save the file*
with a step between, in two processes. The issuer accepts a set of refresh tokens
and replaces the one that is used. `lapsed` are the providers whose entry was
overwritten by a process that had not seen it, or whose new token was lost with a
failed write; `unsure` those whose `auth_method` could not be brought up to date.

**CronService.** `jobs` is the service's memory, `file` is `jobs.json`, `cli` a
command's copy. Collecting due jobs, each execution and each write-back are
separate steps; saves may fail and the process may crash and start again.

**Subagents.** Tasks finish by taking the manager's lock and publishing with it;
the agent loop is the only reader of the bus and may itself wait for that lock. The
publish gives up after five seconds (`TaskGivesUp`), which is what frees them.

**McpManager, ActiveChannel.** Connections and calls with the wait group that
`Close` waits for. `Run` closes the manager only after its context has ended, and
`exec.CommandContext` (`manager.go:315`) kills the stdio servers with that context:
`gone` are the servers lost under their session, then or earlier, and calls in flight
on them fail. So `CloseIsClean` does not promise a call its server, only that `Close`
takes no session from it, and `Close` may fail on any session (`closeErrs`). The
gateway does not wait for `Run`: a process that exits first runs no `Close` at all,
which ends the model's behaviour early. Then: the temporary file and the rename of a save with a crash
between, and the copies of `state.json` that other services loaded at the start.

**MediaStore.** `Store` checks the file, then inserts under the lock;
`ReleaseAll` and `CleanExpired` delete entries under the lock (`Release`,
`Clean`) and remove files one by one afterwards (`Remove`, which may fail). In
this commit nothing calls `ReleaseAll` (the call in `loop.go:250-265` is
commented out); it is modelled as the interface offers it. `DownloadFile` makes
names from eight hexadecimal digits of a UUID; the properties about files assume
these differ (`DistinctPaths`).

**SkillSearch, SkillFiles.** The fan-out to the registries with its limit on
concurrent requests, and the cache with its age, size and similarity rules: a
query is the set of its trigrams. In the directory of a skill, every file is
written in a step of its own. The lock is a field of each `InstallSkillTool`, of which
every agent has one in every process (`tool[i]`), so that calls of two agents may meet;
`met[i]` are the operations that were under way together with `i`, the ones for whose
mixtures the code takes no responsibility. A builtin skill whose copy failed ends as
`claimed`: `install-builtin` prints the error, and in the end that all are installed.

**ChannelInbound, ChannelOutbound.** `Stages` gives every handler's checks and
effects in the order of its code; a delivery walks them. The deduplicator may forget the
message at any time (`Forget`: QQ deletes any half of 10000 ids, WeCom keeps 1000), and once
the channel's context or the bus has ended (`Shutdown`) a publish may fail, which
`HandleMessage` logs and `lost` records. On the way out, an
adapter makes a few requests per message; each can be carried out although its
answer is lost, and what the adapter reports decides whether the worker repeats
the whole message. `shown` is what the user sees.

**AIBotTasks, OneBotLink, SocketServers, WhatsAppLink.** Connections or tasks
with their goroutines; `Start`, `Stop`, breaks, polls and timers at any step.
Locks are modelled by which steps are one. The code keeps a slice of tasks per chat,
appended to when a message arrives and only ever spliced; the model keeps the set
`chatTasks[c]` and the order in which tasks were `opened`, so that the head of the
slice is the `Oldest` of the set. In `OneBotLink`, `fresh` is the history of the
messages that passed the duplicate check, by which the property says what `ring` and
`dedup` must hold; `handled` only bounds the run.

**The sum modules.** `MCSafety`, `MCServices` and `MCChannels` each check several
components in one run. The components share no state; `part`, chosen in the
initial state, says which of them runs, and each property is about its part. The
components with proofs are extended (`SessionHistory`, `Fallback`, `McpManager`,
`ActiveChannel`, `PromptCache`, `Credentials`, `ChannelInbound`, `ChannelOutbound`,
`SocketServers` and `SkillFiles` in `MCSafety`; `MediaStore`, `CronService` and
`Subagents` in `MCServices`; `AIBotTasks`, `OneBotLink` and `WhatsAppLink` in
`MCChannels`), so that TLC evaluates the assumptions on their constants and checks the
very definitions the theorems name; `PromptMessages` and `SkillSearch`, and the `SocketServers` of
`MCServices`, are instances. Variables of a part that does not
run keep their initial values, or are 0 where the part is an instance in `MCSafety`. A behaviour of
the sum is a behaviour of one component, so its states are the sum of theirs, not
the product, and a property of the sum is a property of the component.

## The runs

Twelve runs; sizes are distinct states. A run that must find a violation is
described under [Findings](#findings).

| Run | Asks | Bounds | States |
|---|---|---|---|
| `bus` | `Conservation`, `StrandedAtMostOne`, `CloseReleases`, `Contracted` (refinement with fairness) | 2 publishers × 2 calls, 1 consumer, channels of 1 | 345k |
| `manager_send` | `DeliveredInOrder` | 2 channels, 4 messages, one of 2 parts, queues of 1, 1 retry | 372k |
| `manager_stop` | `ClosedQueuesAreDone`, `QueuesMove` | 1 channel, a text and a media message, a `SendToChannel`, `StopAll` and `UnregisterChannel` at any time | 77k |
| `manager_panic` | `NoSendOnClosedQueue` – violated | 1 channel, 2 messages | |
| `indicators` | `IndicatorsAccounted`, `ReachableIndicatorEnds` | 2 messages of one chat, 0–2 replies each, typing and placeholder | 175k |
| `rounds` | `VerdictsSound`, `UndisturbedTargets`, `EveryRoundEnds` | a chat message, a subagent report and a heartbeat of one agent; 1 tool call each; a shutdown at any time | 546k |
| `rounds_shared` | `DefaultTargetIsOwnChat` – violated | a chat message and a cron round of the same agent | |
| `session_crash` | `FileForgetsAtMostLate`, `SummaryGrows`, `GuardReleased` | 6 messages, 1 round, 2 summarizers, failing saves, crashes | 346k |
| `safety` | the properties of the next table | next table | 2.22M |
| `services` | `FilesAccounted`, `EverythingExpires`; `JobsKept`, `ReturnsOnlyFromStore`, `DueJobRuns`; `AnnouncedInOrder`, `SpawnReturns`; `ConnectionsEnd` | 3 files in 2 scopes, 1 releaser, the cleaner; 2 jobs (once, every), 2 ticks, 1 fault, a second process; 2 tasks, a bus of 1, 2 user messages; 1 client | 178k |
| `channels` | `BotSound`, `SendReturns`; `OneBotSound`, `Reconnects`; `WhatsAppSound` | 2 tasks of one chat, 3 replies; 2 dials, a ring of 2, 4 messages (one without id), 3 of them received, 2 requests; both WhatsApp channels, 3 breaks, 3 failing reads | 301k |
| `heartbeat_stale` | `BeatForLastUser` – violated | 2 chats, 3 rounds, 2 crashes | |

The parts of `safety`:

| Property | Says | Bounds |
|---|---|---|
| `HistoryKept` | whatever rounds, compressions and summaries do, a history stays in order and loses at most the messages that came while a summary was written | 5 messages, 2 rounds, 1 summarizer, two batches from 2 messages on |
| `RequestsPaired` | every request pairs calls with results and names the calls, except after the three cases in its comment; Anthropic's has no names for calls from the session file | 6 messages, 2 rounds, 2 calls, one without a name, all five formats |
| `PromptIsCurrent` | a file is served as it was during the call, except for three named gaps | 2 callers, a tracked file and a skill, 2 writes, 2 ticks |
| `CooldownHolds` | a failed provider is not called before its time unless another call has succeeded; a further failure never shortens it | 2 requests, 2 providers, clock to 1442 minutes (window 1440), 2 failures |
| `CloseIsClean` | `Close` takes no session from a call in flight; a closed manager has none but those whose error it reports | 2 servers, 2 calls, the context of `Run` ending and servers dying at any time |
| `RestartRemembers` | a new process knows the last saved chat | 2 chats, 3 rounds, 2 crashes |
| `CredentialsSound` | stored tokens are accepted, logouts last, states are used once, the configuration follows | 2 providers, 2 processes, 2 operations, 3 tokens |
| `InboundSound` | nothing unwanted, nothing for strangers, once unless forgotten, and whoever should be is heard unless the program shuts down | 15 handlers, all combinations of a message's features, 2 deliveries |
| `OutboundSound` | reported means visible, repeats have errors, order, one use of a token | 8 adapters, 2 parts, 1 retry, 2 messages |
| `ServersSound` | Pico's count is its loops, maps have no ghosts, a broadcast reaches whoever stayed | 2 clients, limit 1, 1 retry |
| `SearchSound` | the cache is ordered and bounded; answers are complete, sorted and found for a like query | 2 searches, 3 queries (two alike), 2 registries, one at a time, cache of 1 |
| `SkillsSound` | an install is whole or leaves nothing; mixtures need a meeting; flagged skills go; listed is loaded | 2 operations, 2 instances of the tool, archive of 2 files, 2 tries |

**Why the bounds are enough.** Channels and queues of one message are full after
one, so every blocking wait happens, and with two messages per publisher there is
one before and one behind the block. One retry distinguishes a first attempt, a
retry and an exhausted message. Two messages of a chat are what an overlap takes;
two rounds with a summary are what a lost update takes; the session constants
(keep 4, threshold 20, batch 10 in the code) are scaled to 2, 3 and 2 or 9 so that
a few messages reach a second summary, and the batch size decides per run whether
the two-batch path is taken. Three files give a scope with two files and one with
a single file. A second process with two operations is what a lost update of a
file takes, a clock of two ticks what "in the same tick" and "a tick later" take.
The failure window and the caps of the cooldown are the code's own numbers; the
clock jumps between them. A ring of two forgets its first message after the third.
The registries' answers do not depend on the query, and an archive of two files
tells a whole install from half of one. In `rounds` all three
rounds are of the default agent, so that each can take the tool from another; a second
call per round goes beyond what a run can hold and is left to the proofs, which are for
any number.

In `services`, `JobsKept` says that one-time jobs run once and enabled jobs stay scheduled,
`ReturnsOnlyFromStore` that a removed job
comes back only from a file or a copy that still holds it, and not into a process that serves, and `AnnouncedInOrder` that the
agent hears of its tasks in the order in which they ended. In `channels`, `BotSound` and
`OneBotSound` are what their rows of the first table say, and `WhatsAppSound` is that
`Stop` waits for all goroutines, a lost connection is answered and a stopped client is
offline.

**Types.** The type invariant of every module with proofs is proved, except for the two
adapter modules, whose inductive invariants say of the types what the proofs need; the
others are stated in their modules.

**Deadlock.** Every system here may come to rest (all messages handled, bus
closed, process stopped), so `CHECK_DEADLOCK FALSE` is set throughout and
progress is stated as liveness where the code promises it.

**Fairness.** Weak fairness is given to a goroutine that is inside a call and has
a ready step – the Go scheduler runs it. What the environment decides carries
none: nobody has to publish, stop, crash, poll, or let a context end.

- `MessageBus`: calls that have begun and `Close`; a ready message need not beat
  `done`.
- `ChannelManager`: dispatchers, workers (a `Send` returns, timers fire) and a
  `StopAll` or `UnregisterChannel` that has begun.
- `Indicators`: handlers, agent, worker, and the passing of time. The janitor's
  visit of a key is *strongly* fair: its ticker fires for ever and `Range` visits
  every entry that stays, while in the model it has to find the janitor idle,
  which comes and goes.
- `AgentRounds`: rounds that have started, and the return of `Run` after its context ended. Compressions do not count as progress
  (they are limited to two per LLM call by a counter the model leaves out).
- `SessionHistory`: the summarizer (its LLM calls have a 120 s timeout).
- `MediaStore`: the cleaner's ticker, time, and removals.
- `CronService`: the loop, whose ticker fires and whose jobs return.
- `Subagents`: a task's tool loop and the spawning call. The agent loop is not
  assumed to read the bus.
- `AIBotTasks`: a poll or a `Send` that has begun, the passing of time limits and the
  cleanup ticker; WeCom may stop polling.
- `OneBotLink`: the dialling loop, a listener that starts, and a read that fails on a
  broken connection.
- `SocketServers`: writers and read loops, whose reads fail on a closed connection.

## Findings

| Run | What the code does | What it says |
|---|---|---|
| `manager_panic` | A dispatcher reads the worker under `RLock`; `StopAll` closes its queue; the dispatcher's select, with `ctx.Done()` ready too, can choose the send on the closed channel and panics. `UnregisterChannel` has the same window. | README of the channels, line 1207: the worker queue is "inherently concurrent-safe" |
| `rounds_shared` | A cron or heartbeat round of the same agent replaces the tool's default target between `SetContext` and `Execute`; the message goes to the other chat. | `base.go:13`: tools "receive the current message context" |
| `heartbeat_stale` | A heartbeat asks a state manager of its own, which read `state.json` when the process started; rounds update another one. | `heartbeat/service.go:32`: "channel and chatID are derived from the last active user channel" |

### Claims the code does not keep

More statements of comments or documentation are written as properties and are
violated by the model. Six have a configuration of their own, outside the list of
runs, and two share that of another:

| Property (configuration) | Statement | What happens |
|---|---|---|
| `NothingLeftBehind` (`MCMessageBusDrain.cfg`) | `bus.go:121` "Drain buffered channels so messages aren't silently lost" | a publish that passed the closed check sends after its channel was drained; at most one per publisher, which is what `StrandedAtMostOne` proves |
| `StopDrains` (`MCManagerDrain.cfg`) | `manager.go:395` "wait for them to drain" | the workers' context is already cancelled, so they may leave with messages queued |
| `EveryIndicatorEnds` (`MCIndicatorsOverlap.cfg`) | README of the channels, line 766: the reply stops the typing indicator | a second message of a chat overwrites the stop function of the first; nobody can end that indicator |
| `NoSkipByEarlierRound` (`MCRoundsCommand.cfg`) | `loop.go:474` "so we don't skip publishing due to a previous round" | a command returns before the message tool is reset; if the previous round sent something, its response is withheld |
| `NoDuplicateAnswer` (`MCRoundsCommand.cfg` with this invariant and `Inbound <- RoutedChats`) | `loop.go:275` "message tool is shared" | each agent has its own tool, so a routed agent's round is answered twice |
| `CronResponseSent` (`MCRoundsCron.cfg`) | `tools/cron.go:340` "Response is automatically sent" | the text is returned to the cron service, which drops it |
| `SavesKnowTheirJobs` (`MCServices.cfg` with this property) | README of the repository, line 1247: jobs are "processed automatically" | a running gateway does not read `jobs.json` again, and its next save writes its own copy over it: what a cron command has added, removed or switched meanwhile is undone |
| `TriggerKept` (`MCSessionTrigger.cfg`) | `loop.go:1092` "keeping … last user message" | the last message after tool calls is a tool result; the user's can be dropped |

Three are stated beside the property that does hold: `FallbackTried` in `Fallback`
(README of the repository, line 917; a second model of the same provider is skipped
with the first, and a retry after a time-out finds every provider in cooldown),
`PromptIsAlwaysCurrent` in `PromptCache` (daily notes and removed files of a skill are
not compared; a file renamed into place may be older than the cache), and `StopClosesConnection` in `OneBotLink` (a dial under way stores its
connection after `Stop`).

Where a property holds only with an exception, its comment names the exception. What
these and the translation brought up besides:

- *Agent.* Anthropic's request uses `Name` and `Arguments` of a call, which a session
  does not store: an empty name after a restart. Calls without a name are skipped by
  the Codex and Antigravity formats while their results are not. `UpdateJob` stores a
  job its caller copied earlier.
- *Adapters.* WhatsApp's native client does not ask whether a message is the account's own
  (`whatsapp_native.go:343-396`): what its owner writes on another device comes to the agent. A
  message that could not be published is not taken again, since the deduplicator has marked it.
  A Slack mention is handled twice when groups need none. Slack, DingTalk
  and LINE keep acknowledgements, webhooks and tokens for messages they ignore;
  Telegram downloads attachments before it asks whether it was meant, LINE before the
  allow list. Telegram's `chatIDs` is a plain map written by concurrent handlers.
  LINE's events run on goroutines of their own and so in any order. The WeCom app
  reports success after failed uploads. A repeated media message repeats the parts
  that had arrived. A Discord send that timed out may still land. Errors without a
  class (no token, no session webhook, not connected) are retried.
- *Connections.* The WhatsApp bridge never reconnects: its listener goes on reading the
  broken connection, once every two seconds, until the websocket library panics. The
  native client can miss a lost connection that a goroutine has just restored, and a
  `Connect` that races `Stop` leaves it online. Pico's limit is checked before the
  connection is counted.
- *Skills.* The search cache ignores the limit, takes all queries under three bytes as
  alike, and keeps a partial answer when a registry failed. A forced reinstall removes
  the old skill before anything that can fail. A flagged skill is in place between
  extraction and removal, and stays after a crash. Commands take no lock, and a
  tool only its own: forced installs of two agents with one workspace can mix.
  `install-builtin` prints "All builtin skills installed!" whatever it failed to copy
  (`skills/helpers.go:159-164`). A failed
  write of a GitHub skill leaves an empty directory that blocks the next install. The
  example `install --registry clawhub github` is refused (`install.go:22` wants two
  arguments).
- *Credentials.* A logout by the name "antigravity" deletes a key that is never in the
  file and says it has logged out.

## The proofs

Eight modules of proofs about twenty modules. Each theorem is about every value of the
constants that the named assumption allows. Most inductive invariants were also
checked by TLC on small instances before they were proved.

`MessageBusProofs` (every set of publishers and consumers, every capacity and number
of calls; assumption: the capacity is a positive number):

- `TypeCorrect`: `Spec => []TypeOK`.
- `ConservationHolds`: each channel is a bounded FIFO. `Conservation` is
  inductive together with `TypeOK`; the argument is associativity of `\o` for a
  send and `s = <<Head(s)>> \o Tail(s)` for a receive or a drain.
- `StrandedBound`: `StrandedAtMostOne` is not inductive; `StrandedInv` is. It adds
  that the flag and `Close`'s position agree (`ClosePhase`), that a buffered message
  belongs to a call that is over (`BufferedCallsOver`) and is in one place only
  (`NoDuplicates`), that a publisher with a message sent after the swap has no call
  left and only one such message (`LateOnce`), and that a drained channel holds
  only such messages (`BehindDrain`).
- `Refinement`: every step of the bus is a step of `BusContract` or leaves its
  variables alone. Fairness is left to TLC.
- `InboundSoundHolds` (*ChannelInbound*: any of the adapters, any number of deliveries;
  `InboundAssumption`: the adapters are among those modelled) states `InboundSound`. The
  tables of stages are looked up once, in lemmas that say in which order each adapter checks;
  the rest of the proof reasons about "the stages behind a run". `AllChecked`: what they have
  found out holds. `HandedOn`: where every error path removes what was fetched, the
  downloads are as many as the runs that hold one, as long as nothing was lost. `Deduplicated`:
  what has been published and the runs past the deduplicator are no more than the times it
  forgot, and one if it knows the message. `Hearing`: whoever has to be heard has been
  published, met the shutdown, or has a run on its way that no stage can drop, past the
  deduplicator if the message is known to it.
- `OutboundSoundHolds` (*ChannelOutbound*: any of the adapters, any number of parts, retries
  and messages; `OutboundAssumption`: these are numbers) states `OutboundSound`. The lemmas
  say what each adapter asks for and that an attempt only goes forward through the parts
  (`TurnLeads`, with the three requests the WeCom app makes for a part) and leaves behind what it has
  shown (`AskAhead`). `OutInv`: an item was shown, or may yet be by a request given up, at most
  once per error, and once more only when no request for it is ahead (`Counted`), which bounds the
  repetitions of all attempts together; at first the parts shown are those before the present
  one (`Ordered`); what an attempt has gone through is visible as far as it is due (`Done`);
  a refusal ends the message (`Refusal`); a token that is kept or just taken is unused
  (`Tokens`).

`ChannelManagerProofs` (every set of channels and callers, every queue size and number
of retries; assumption `ManagerAssumption`: callers' messages are texts, differ from
each other and from what is on the bus, and the names of channels are none of the
three reserved ones):

- `TypeCorrect`. `Typed` adds to `TypeOK` that what a queue, a dispatcher or a busy
  worker holds is meant for its lane and channel, and that an idle one holds nothing.
- `ClosedQueuesDone`. Two more invariants: `Closing` says how far `StopAll` and
  `UnregisterChannel` have come with the workers and queues, and that a worker that has
  exited stays so; `Served`, that a message which has entered a queue is done with, in its
  queue, or in its worker's hands, as long as nobody has cancelled the workers. A worker
  leaves only a closed and empty queue, so nothing is left when it has.
- `InOrder`. The worker's message, its queue, the dispatcher's message and the bus
  form one *line* per chat; `Line` says that along it messages are in the order of
  their publication, `Untried` that nothing but the worker's message has been tried,
  and that one only up to its part. Every step but `Publish` moves messages along the
  line or takes them off it (`Moves`), and `Publish` adds one at the end. `NotOvertaken`
  – a message that was tried has nothing earlier on the line – follows: the one
  being tried is at the front.

`IndicatorsProofs` (any messages, chats, capabilities and number of replies):
`TypeCorrect`, and `Accounted`, which states `IndicatorsAccounted`. `IndicatorsInv`
adds to it that the handler of a message is past the step of a map that holds it, or
of the entry the janitor has read (`RecordedIsPast`), and done when the message is in a
queue, with the worker or answered (`QueuedIsDone`), so that no indicator of a message
appears after its reply; that the worker has ended what the steps before it end
(`WorkerEnds`); and that an entry is displaced by a message already past that map
(`LostIsDisplaced`), where `LossNeedsOverlap` alone would not survive the next step.

`AgentRoundsProofs` (any agents, chats, messages, direct rounds and iterations):

- `TypeCorrect`.
- `VerdictsHold`: `VerdictsSound`. `VerdictsInv` adds that a message is on the bus or
  with `Run` once and not over (`OneEach`), that only a started round has called the tool
  (`CalledIsStarted`), that the tool's flag is about the round `Run` has in hand unless
  that round is disturbed (`FlagIsOfRound`), and that what counts as sent was published
  (`SentIsTraced`).
- `TargetsHold`: `UndisturbedTargets`, by `TargetsSet`: the target a call sets is still
  the one it uses, or the round is disturbed. Without that exception it is false, which
  the run `rounds_shared` shows; the two together say what the shared `MessageTool` costs.

`SessionHistoryProofs` (any rounds, summarizers, thresholds and number of messages;
`SessionAssumption`: at least one message is kept and `CompressMin` is two or more, as in
the code):

- `SessionTypeCorrect`.
- `HistoryIsKept` states `HistoryKept`, `FileIsKept` states `FileForgetsAtMostLate`. Neither
  is inductive. `ProcsInv` says which steps a goroutine can be at and that the guard
  admits one summarizer at a time; `DataInv` that every session anywhere – in memory, in
  the file, in a goroutine's copy – is in order and numbers only messages there have been;
  `CountInv` counts: what the memory, the file and each copy about to be renamed have
  forgotten, and what a summary under way is about to make them forget, is at most `late`.
  The heart is one lemma about cardinalities: a truncation behind a summary drops the
  messages summarized, which the new summary has, and those that came since.
- `SummaryAlwaysGrows`: `SummaryGrows`, if `MaxMessages <= MultiPart`, that is, if one batch
  holds all messages. The assumption is that of the code path: with two batches the
  previous summary is not passed on and the property is false. `GrowInv` says that the
  summary which a summarizer has read stays in place until it sets its own.

`ServicesProofs`, one component after the other:

- *McpManager* (any servers and calls): `McpTypeCorrect`, and `CloseIsCleanHolds` by
  `McpInv`: a session belongs to a connected or stored server, a stored server keeps its
  session until the manager is closed, and closing begins only when no connection is under
  way and ends only when no call is. Servers that end, and sessions that fail to close, do
  not matter to the argument.
- *ActiveChannel* (any chats, rounds and restarts; `AcAssumption`: the old file names a chat
  or none): `AcTypeCorrect`, and `RestartRemembersHolds`, inductive as it stands because
  only the rename changes what a new process would read.
- *Fallback* (any requests, chains, retries and number of failures; `FbAssumption`: the
  failure window is a day or more, as `defaultFailureWindow` is): `FbTypeCorrect`, and
  `CooldownsHold`, an action property. `FbInv` says that an entry bars its provider for as
  long as its counters say. The lemmas compute the two tables of cooldowns and show that
  they grow with the counter (`Longer`) and never exceed a day, so that when the window has
  passed and the counters start again every earlier cooldown is over (`MarkedLater`). This
  is where the window matters: a shorter one would make the property false.
- *CronService* (any jobs, schedules, ticks and faults; `CronAssumption`: jobs are positive
  numbers): `CronTypeCorrect`; `JobsAreKept` by `CronInv`: the stores in memory, in the file
  and in every copy hold only jobs that were added (`StoresOK`), and for each job how often it ran
  agrees with its next run, with the batch and with the copies that may be written over it (`RunsOK`,
  `ClaimOK`, `CopyOK`, `ScheduledOK`); `RemovedReturnOnlyFromStores`, the action property, for
  which every step is shown to add no job but one whose id is new or that the store it reads has. `CronInv` was also checked by
  TLC with jobs that an earlier process left behind, to a depth of 18 (12.9M states).
- *Subagents* (any tasks and rounds; `SaAssumption`: two reserved names are no tasks):
  `SaTypeCorrect`, and `AnnouncementsInOrder` by `SaInv`: a task is spawned by one round and
  ends once (`SpawnsOK`, `EndedOK`); whoever holds the manager's lock is publishing and was
  the last to end (`LockOK`); what was announced ended before it (`InOrder`).
- *MediaStore* (any calls, files, scopes and releasers; assumptions: the cleaner is not a
  releaser and `NoScope` not a scope): `TypeCorrect`. `MapsAgreeHolds` is inductive together
  with `EntriesStored` (an entry belongs to a call that has returned), without which an
  insertion could leave a second entry. `ResolvesHolds` is by `FileInv`: between the check of the
  file and the insertion the file stays (`FoundThere`), and what a deleter has still to
  remove belonged to an entry that is gone (`DoomedDead`), so the removal without the lock
  touches no live entry. `NoLeakHolds` is inductive together with `TypeOK`: the step that
  takes an entry out of the maps hands its file to a deleter, and the step that takes it
  from a deleter removes it or records the failure. `FilesAccountedHolds`: the three.

`LinksProofs`, likewise:

- *AIBotTasks* (any tasks, chats and replies; `BotAssumption`: `NoTask` is no task):
  `BotTypeCorrect`, and `BotSoundHolds`, which states `BotSound`. That replies arrive in
  order although each takes one of two ways needs to know where a reply can be. Call an
  answer *live* if the end of no stream has overtaken it. `LiveOK`: it lies in the channel
  of the oldest task of its chat, whose stream is open. `LatestOK`: what other tasks of
  the chat hold came before it, and nothing live waits beside a reply on its way; for had
  another task a live answer it would be the oldest, and `Send` would have chosen it.
  `NumbersOK`: it is later than all that were delivered. `QueueOK`, about the maps, carries
  the other two conjuncts: a task is in its queue as long as its stream can be polled, and
  beyond that only if its stream has been closed.
- *OneBotLink* (any connections, messages, requests and ring; `ObAssumption`: the ring has
  a place): `ObTypeCorrect`, and `OneBotSoundHolds`. `RingOK` says what lies at each place of
  the ring, by how many new messages ago it was written, across the wrap of the index;
  that the map is the window of the last `RingSize` new messages follows. `DialOK`: nobody
  dials over a connection.
- *WhatsAppLink* (any number of breaks; `WaAssumption`: the websocket library panics only
  after two failed reads or more – it does after a thousand): `WaTypeCorrect`, and `WhatsAppSoundHolds`.
  `WaInv` adds what has not begun before `Start` (`FreshOK`), how the bridge's listener and the
  client's goroutine stand to `Stop` (`BridgeOK`, `NativeOK`), and who knows of a lost
  connection (`LostOK`).

- *SocketServers* (any finite set of clients, any limit and number of retries;
  `ServersAssumption` says so): `ServersTypeCorrect`, and `ServersSoundHolds`, which states
  `ServersSound`. `LoopsFit`: Pico's counter is the number of read loops between their increment
  and decrement, although the two are steps apart from the map's, and a loop whose
  connection is in a map has not left. `Delivery`: a client that stayed since before the message is
  still to be visited or has been shown it, and has been shown it at most once for each
  attempt that has come to it.

`FilesProofs`, likewise:

- *SkillFiles* (any number of operations, files of an archive and tries;
  `SkillsAssumption`: operations are numbered, and `NoTool` is no tool): `SkillsSoundHolds`.
  The invariant has four parts besides types: which steps an operation of each kind can be
  at (`Path`), that operations under way have met and calls of a tool hold its lock (`Ordered`), whose files
  can lie in the directory (`Sorted`), and what an operation that met no other has done so
  far (`Whole`).
- *PromptCache* (any files, callers, writes and clock): `PromptTypeCorrect`, and
  `PromptIsCurrentHolds`. The disk is what the log says (`DiskIsLog`) and a writer of the cache is alone
  (`LockHolds`). `CacheReadFrom` and `BuiltReadFrom` are the heart: each text, in the cache or being
  built, was read from the disk at a moment of the log, and nothing was written after that moment
  before the time of the baseline, because the baseline is taken before the files are read. A
  write after a text was read therefore shows, unless it fell into the very tick of the
  baseline, was a rename that brought an earlier time than its own, or removed a file the
  baseline does not know: the three gaps the property names, and the proof needs no fourth.
- *Credentials* (any providers, processes, OAuth states and tokens; `AuthAssumption`: providers
  that rotate tokens or have projects are providers, and what is stored at first has tokens):
  `CredentialsTypeCorrect`, and `CredentialsSoundHolds`. `CredPath` says what an operation of each kind
  has in hand at each of its steps; `TokensApart`, that no token belongs to two providers;
  `TokensStored`, that what is about to be stored is the token the operation began with or one that
  is accepted and that nobody else has seen (`FreshToken`); `FileTokens`, that a token in the file is
  accepted, or its successor is in the hands of a process on its way to the file. A provider
  leaves this rule only by `lapsed`, at the write that overwrites an unseen entry or fails.

**Model-checked only.** All liveness and the fair part of the refinement, which TLAPS does
not reason about here (fairness is stated with ENABLED), and two safety properties.
`RequestsPaired` (`PromptMessages`) is about what `sanitizeHistoryForProvider` makes of a
history, a fold: that its result is paired, for a history of any length, is an induction over
data. So is `SearchSound` (`SkillSearch`): the results are ranked by a recursive function, as
`sortByScoreDesc` does, and the cache's keys filtered by `SelectSeq`, which is one too. Both
need an induction theorem with an operator for a parameter, which the installed provers
cannot instantiate. No module with a proof uses a RECURSIVE operator.

## Not modelled

- Data: texts, media metadata, token counts, formatting, encryption. The
  oversized-message guard of the summary and file name sanitizing are left out of
  `SessionHistory`.
- Time: TTLs, rates, backoffs and timeouts are steps that may happen at any
  moment once due; only the cooldowns have a clock.
- Data races on plain fields inside one step: the message tool's fields are read
  and written as wholes, in any order of the goroutines.
- Constructors and start-up of the manager (HTTP server, adapters), media
  publication and the reasoning channel in the agent loop, `ExecuteImage`.
- The gateway's start and shutdown as a whole: each part may be stopped at any moment
  in its own module; the product of the parts is too large to check.
- Pure functions with tests beside them: message splitting, routing, session keys,
  allow lists.
- HTTP exchanges with LLM providers, operating system and hardware tools,
  configuration, migration, voice, devices' events, command line and launchers:
  sequential I/O behind one call, represented by its possible results.
- In the skills: `RemoveAll` itself does not fail, and a file is written in one step.
- In the native WhatsApp client: the library's own reconnection.
- `UMPSAHLLM/`: a separate JavaScript web application without a link to the Go
  program.

`PROJECT.json` lists every component with the reason.

## What could follow

- Proofs of the two properties listed under *Model-checked only*, in a prover with
  induction over sequences.
- `SplitMessage`, `sanitizeHistoryForProvider` and `ResolveRoute` as functions
  against reference definitions over bounded inputs.
- The gateway's shutdown over contracts of its parts in place of the parts.
