# OtterLink in TLA+

OtterLink connects Feishu chats to coding agents on the local machine.  A
JavaScript gateway (`gateway/`) talks to Feishu, a Rust core (`src/`) keeps
sessions and turns in SQLite and runs agents (Claude Code over ACP, Codex over
its app-server), and the two talk HTTP to each other.  This directory holds a
model of the parts where order, failure and concurrency decide whether the
program is right: TLA+ modules, TLC runs and TLAPS proofs.

Paths below are relative to the repository.  `PROJECT.json` lists, for every
definition, the lines it is translated from.

## 1. Inventory

### Components

| component | code | state it keeps | operations |
|---|---|---|---|
| Turn service | `src/core/service.rs` 46-338, 640-805 | `SessionLocks` (a FIFO mutex per session), `ActiveTurns` (one entry per session), spawned tasks | `handle_inbound`, `try_steer_active_codex_turn`, `accept_turn`, `run_turn`, `request_stop` |
| Control and selection | `service.rs` 340-638, 833-941, `commands.rs` | rows of `runtime_selections`, `session_runtime_bindings` | `/ot new, use, pick, cwd, load, proxy, list, show, stop` |
| Session registry | `src/core/registry.rs` | a map of sessions with parent and runtime state, beside the rows | `resolve`, `replace_runtime_state` |
| Persistence | `src/core/persistence.rs` | SQLite: `core_sessions`, `core_turns`, `runtime_instances`, `runtime_selections`, bindings | one statement per function |
| Runtime trait and router | `src/agent/runtime/types.rs`, `router.rs` | cancel handles | `start_turn`, `steer_turn`, list and history |
| ACP worker | `src/agent/runtime/acp.rs` | a worker per runtime key: child process, loaded sessions, current turn | `run_worker`, `handle_turn`, `ensure_session`, cancel with an 8 s deadline |
| Codex worker | `codex_app_server.rs` | a worker per key: child process, pending RPC map, current turn | `start_turn`, `steer_turn`, `run_worker`, `handle_notification` |
| Fallback, one-shot exec | `fallback.rs`, `exec_json.rs` | a child process per turn | `start_turn` |
| Turn rendering | `service.rs` 1647-1900, `normalized.rs` | `TurnRenderState` per turn | `apply_event`, progress, todo and final messages |
| HTTP and event sink | `src/api/http.rs`, `src/app.rs` | none | `POST /internal/core/inbound`, `/turn`; publish to the gateway |
| Gateway, inbound | `gateway/src/service.js` 33-111, `feishu/dedup.js` | `sessionQueues` (a chain of promises per session), deduper, `turnContexts` | `handleFeishuEvent`, `enqueueForSession`, `handleSessionEvent` |
| Gateway, cards | `service.js` 113-179, 262-356, `feishu/client.js` | per turn: `slotStates`, `cardFallbackSlots`, heartbeat timers | `handleCoreEvent`, `sendCardHeartbeat`, `fallbackSlotToMessages` |
| Gateway, progress and notices | `service.js` 181-260 | the progress slot | `handleProgressEvent`, `handleNotify`, `replyMessage` |
| Gateway, pairing | `store/pairings.js`, `feishu/auth.js` | a set of open ids, in memory and in a file | `pair`, `load`, `save` |
| Feishu client, watchdog | `feishu/client.js`, `ws-watchdog.js`, `index.js` | token cache, last-seen time | requests, reconnect |
| Configuration, CLI, deployment | `src/config.rs`, `scripts/`, `deploy/` | files | start, stop, install |

### How they interact

1. Feishu pushes an event, at least once.  The gateway drops duplicates, chains
   the handler behind those of the same session and submits the message to the
   core (`core-client.js`).
2. The core parses it.  A control command is executed at once; a text is
   steered into a running Codex turn or becomes a turn: a row in `core_turns`
   and a spawned task.  The response names the turn.
3. The task takes the lock of its session, starts the agent, records the agent
   session and the answer in three places (registry, `core_sessions`,
   `runtime_instances`), and publishes events to the gateway one by one.
4. The gateway finds the turn in `turnContexts` and renders the event into a
   card or a message.  Cards in streaming mode get heartbeats from a timer.

### What is hard about it

* **Interleaving.**  Tasks of one session against each other, against `/ot stop`,
  `/ot pick` and a message that wants to be steered; in the gateway, events of
  the core against heartbeats that read the same entry before an await and write
  it after.
* **Failure in the middle.**  `run_turn` is left by `?` at a dozen places; each
  leaves a different part of the bookkeeping done.  A Feishu update is two
  requests, of which the second may fail.
* **Crash.**  Rows survive, locks, active turns, queues and contexts do not.
* **Order.**  Promise chains and lock queues keep the messages of a chat in
  order; the event of a turn may still overtake the response that makes the turn
  known.
* **Delivery.**  Feishu pushes again; requests to the core have no timeout.

### What makes each component correct

* Turn service: one turn of a session at a time, at the agents too unless one was
  given up or deserted; the active turn is the one in the critical section; a stop
  that was acknowledged reaches its turn and no other; an answer is recorded before it is seen; a steer that was accepted is
  heard; every accepted turn ends.
* Registry and persistence: the agent session of a runtime was opened or imported
  there; what a completed turn left behind is not wiped.
* Gateway, inbound: a message is handled once per window, in the order of its
  session, and a failed one does not block the next; nothing is left in the queue
  table; a turn that its user was told could not be started shows no answer.
* Gateway, cards: one timer per slot; a live card keeps its timer; the next
  sequence number is one Feishu takes; no card shows an older version again;
  a slot that fell back stays so; what the core believes delivered was shown.
* Workers: what they are asked for is answered, with an error if need be; events
  reach the turn they belong to, and all of them do; an interrupt, a steer or a
  refused permission hits the turn it is meant for and no other; a stopped turn
  ends, at the ACP worker by its deadline.
* Selection: a turn goes where the last answer of the chat said, whatever other
  chats do meanwhile; what is selected is stored; the session of a runtime belongs
  to its agent and directory.
* Rendering: no text is sent twice, as progress and as final, none is lost between
  them, but for what a final message has no room for, or comes out of order; the plan that is shown is the last one.

`PROJECT.json` lists the hazards one by one, with line and property.

## 2. Plan

| order | module | content | state |
|---|---|---|---|
| 1 | `TurnLifecycle` | abstract: what the core promises about a turn | done |
| 2 | `TurnService` | inbound text, steering, turn tasks, lock, active turns, stop, records, crash | done |
| 3 | `TurnServiceSafety`, `TurnServiceSessions` | proofs about 2: locks and stops; that 2 implements 1, and what is kept of the agents | done |
| 4 | `GatewayInbound`, `GatewayInboundProofs` | deduper, session queues, contexts, restart | done |
| 5 | `GatewayCards`, `GatewayCardsProofs` | slots, heartbeats, fallback | done |
| 6 | `RuntimeContract` | abstract: what the core may expect of an `AgentRuntime` | done |
| 7 | `CodexWorker` | command channel, request in flight, notifications, steer and interrupt against completion, death of the process; implements 6 | done |
| 8 | `AcpWorker` | a worker shared by chats, update channel, cancel and deadline, permissions, session load and replay; implements 6 | done |
| 9 | `RuntimeSelection` | control commands statement by statement, import of listed sessions, turns that use what is selected | done |
| 10 | `TurnRender`, `TurnStream` | the two normalizations and `TurnRenderState` as operators; the exec and the relayed runtime, the stop and the event loop around them | done |
| 11 | `CodexWorkerProofs`, `AcpWorkerProofs`, `RuntimeSelectionProofs`, `TurnStreamProofs` | proofs about 7, 8, 9 and 10: every safety and action property of their runs, the two refinements of `RuntimeContract` among them | done |
| 12 | `CoreGateway` | `TurnLifecycle` composed with the gateway's two modules: what the user sees of a turn | planned |
| 13 | `Pairing` | the store written by overlapping saves | planned |

`MC...` modules hold the instances for TLC.  `TurnService` assumes of the runtimes
what `RuntimeContract` says; `RuntimeSelection` takes `ActivateRuntime` and
`ClearSelection` of `TurnService` apart into their statements.  Every safety and action
property of a passing run is proved (section 5).

## 3. Modules and code

### TurnLifecycle

The abstract specification: `row` follows the diagram of `docs/design.md` (queued,
running, completed or failed), a session is owned by one turn, only the owner
moves its row and is announced, a crash frees the sessions and leaves the rows.

### TurnService

A turn is named by the message that asks for it.  `pc[t]` is the position of its
handler and then of its task; every await of `run_turn` is a step.

| model | code |
|---|---|
| `Receive`, `SteerFallsBack`, `SteerAccepted`, `SteerRefused` | `handle_inbound`, `try_steer_active_codex_turn`: the active entry is read, then the agent is called |
| `CopySession`, `CopySelection`, `CopyRuntime` (`Accept`), `CreateTurn`, `CreateFails` | `accept_turn`: three reads, one after the other (`snap`), the row, the spawn |
| `RequestLock`, `ReleaseLock` (`holder`, `waiting`) | the tokio mutex of the session, handed over in order |
| `SetStarting`, `AttachCancel`, `ClearActive`, `RequestStop` (`active`) | `ActiveTurns` |
| `MarkRunning`, `StartReturns`, `StartFails` | the row, and `start_turn` of the runtime |
| `RecordMemory`, `RecordSession`, `RecordRuntime` | `replace_runtime_state` and the two statements, at the start and at the end of a turn |
| `SessionReady`, `JoinCompletion` | the events of the agent into `TurnRenderState`, the join of its completion |
| `CompleteTurn`, `PublishFinal`, `PublishFailure`, `FailTurn` | the tail of `run_turn` |
| `Abort` | every `?` of the block |
| `AgentFinishes`, `AgentFails`, `AgentInterrupted` | the environment behind the trait |
| `WorkerGivesUp`, `StrayEnds` (`adrift`) | the worker has ended the turn and the agent goes on with it: the ACP worker after its deadline, the Codex worker when it reads a turn/completed that another turn has left (`LeftOver`) |
| `ActivateRuntime`, `ClearSelection` | control commands, as single steps; `RuntimeSelection` takes them apart |
| `Crash` | the process dies; the registry is loaded from the rows |

Abstractions.  Texts are named by the turn that produced them, agent sessions by
the turn that opened them, or are `Foreign`: runtimes may have been imported with one
(`ImportedAs`), two of them with the same one, as concurrent imports do; imports while
turns run are in `RuntimeSelection`.  `build_prompt`, labels, proxy and workspace are left
out: nothing here depends on them.  `/internal/core/turn` enters `accept_turn`
directly and adds nothing to `Accept`.  A publication is one step; "announced"
means that the gateway acknowledged, which it also does when it drops the event.
A panic of the completion task is not modelled.

### GatewayInbound

JavaScript runs one callback at a time, so an action is what happens from one
await to the next.  `phase[p]` is the handler of push `p`, `after[p]` the promise
it is chained behind, `tail[s]` the entry of `sessionQueues`.

| model | code |
|---|---|
| `Pruned`, `Ignore`, `Take` | `MessageDeduper`, `handleFeishuEvent`, `enqueueForSession` |
| `Begin`, `Respond`, `RespondFails`, `React`, `Reply`, `Reject` | `handleSessionEvent` |
| `Cleanup`, `Dies` | `next.finally(...)`; the second promise, when it is rejected and nobody is chained behind it, ends the process |
| `CoreTakes`, `PublishFinal` | the core as the gateway sees it |
| `StartAgain`, `Restart` | a new process: queues, contexts and deduper are empty |

`told` are the turns that the core has and whose user got a rejection: the response was
lost.  A command or a steered message whose reply fails is answered in the same words,
and the property about `told` does not speak of it.

Pushes are text messages with an identity from authorized users; the pair
command and the hint to unauthorized users are not modelled.

### GatewayCards

One turn, its card slots and their heartbeats.  `version[k]` counts the events of
a slot, and what an event shows is its version.  An event may be a text
(`PlanIsEmptied`, `texts`): it is sent plainly and the slot has no card until the next
plan makes one, so cards are named by the version they were made for.  The core waits for the answer to
one event before it posts the next, so it is one handler, `CoreEvent`; heartbeats
are further handlers.  `slot` is the gateway's entry, `card` is Feishu's side with
the last sequence number it took.  Both requests of `updateCard` are steps
(`UpdateContent`, `UpdateSettings`); `Fail` is a refused number or a failed
request; `SendReason` and `SendBody` are the two messages of the fallback.  A step
of a handler contains the server's acceptance and the local continuation, which
nothing can tell apart but the handler itself.  Two streaming slots or more work
the same: `Slot` and `Streaming` are parameters, in the program `todo` streams and
`final` does not (`todo_message`, `final_message`).  The progress slot never has a
card and is left to `TurnRender`.

The environment's rule that Feishu takes only rising sequence numbers is external:
`updateCard` is built on it (`sequence`, `sequence + 1`, `+ 2` per update).  Each request
also carries a `uuid` made of card and number, so that a request with a number that was
used may pass for a repetition instead of being refused (`RepeatContent`,
`TakeSettings`): a success that changes nothing.

`mixed` holds the slots in which the code does lose track: a card was made while an
update of an earlier card of the slot was under way (a slow heartbeat, an emptied plan,
the next plan; the heartbeat then writes the old plan and its number into the entry of
the new card), or a request passed for a repetition.  `CardNeverGoesBack` and
`NextUpdateFits` leave these slots out, and `AnsweredIsSeen` the versions in `repeated`.

### RuntimeContract

The abstract specification behind the trait `AgentRuntime`: a start is answered once,
an agent works on one turn at a time, a turn that was accepted is completed at most
once and only when it is the one at work, or when the worker collapses with all it
has; and a worker cannot lay a turn down without completing it.  That an answer
comes at all is left to the liveness properties of the workers.

### CodexWorker

One worker with its key and its callers, who hold the lock of the session.  The
position of `run_worker` is `worker`; `call` is the request it waits for, during
which it takes no command, notification or cancel.

| model | code |
|---|---|
| `AskStart`, `AskSteer`, `Enqueue` | `start_turn`, `steer_turn`, `worker_for_key`: the entry of a worker that has ended stays in the map |
| `Cancel`, `Drop` | `RuntimeCancelHandle.cancel`; a `run_turn` that leaves by `?` and drops all it has of the turn |
| `Spawn`, `Initialized`, their failures, `Exit` | `spawn_process`, `initialize_app_server`, the end of the worker's future with everything it owned |
| `Request`, `Granted`, `Denied` | `RpcConnection::request`, answered, or failed by the process or by the writer |
| `Prepare`, `Launch`, `Launched`, `StartFails`, `RefuseStart` | thread/start or thread/resume, then turn/start |
| `ForwardSteer`, `Steered`, `RefuseSteer` | turn/steer for the turn the command names |
| `Interrupt`, `Interrupted` | the fired cancel handle: turn/interrupt once, its answer ignored |
| `Matches`, `TakeNote`, `StreamCloses` | `handle_notification` with its filters, `finish_active_turn`, the closed pipe |
| `ServerStarts`, `Delta`, `Fail`, `Finish`, `Die` | the app-server (external) |

The app-server is assumed to send no requests of its own, since approvals are switched
off (`approvalPolicy`, `never`): `reader_task` would take one for an answer if its number
is pending.

`Finish` is turn/completed with the thread and `turn.id` but without `turnId`, which
is how `handle_notification` reads it.  `server[t]` is what the process has come to
with a turn: an error leaves it `failing` until its turn/completed is written, then
`failed`.  `AnswerIsComplete` excepts turns whose thread has another turn that failed
(`Failed`): with three turns of a thread, the turn/completed left over by the first
ends the second early, and the real end of the second then ends the third, although
nothing failed in either (section 6, `EndGoesByOwnCompleted`).  What a delta says is left out: `sent` and
`heard` count.  `thread/list` and `thread/read` start a process of their own per call
and share nothing with the worker; they are left out.

### AcpWorker

One worker serves all chats with the same adapter, directory and proxy.  `current`
is the command in hand, `updates` the one channel of updates with their origin (the
turn whose prompt wrote them, or the session whose replay did), which the code does
not keep; `astray` remembers what was given up while updates of it may still come.

| model | code |
|---|---|
| `AskStart`, `AskQuery`, `Enqueue`, `NoEntry` | `start_turn`, `list_sessions`, `load_history`, `worker_for_key` |
| `Connect`, `ConnectFails` | `connect_worker`, the end of the thread |
| `TakeTurn`, `TakeHopelessTurn`, `NewSession`, `LoadSession`, `SessionFails`, `Prompt` | `handle_turn` up to the prompt: `ensure_session`, `capture_replayed_history`, `ensure_session_mode` |
| `SeeCancel`, `Deadline`, `TakeUpdate`, `PromptAnswered`, `PromptFails` | the `select!` of `handle_turn` |
| `TakeQuery`, `AskAgent`, `Listed`, `HistoryRead` | `list_sessions`, `load_history`, with the cached history |
| `RequestPermission`, `Update`, `Replay`, `AgentEnds`, `Die` | the client callbacks, the agent (external) |

A caller that drops its turn can no longer stop it and is not told apart from one
that never does.  A prompt asks for a permission once.

### RuntimeSelection

Every statement of a control command is a step of its own (`pc[c]`), with the
commands and turns of other chats between them.  `hand[c]` is what the handler
carries, `told[c]` what its last answer said; `rows` are shared.

| model | code |
|---|---|
| `Ensure` | `ensure_runtime_selection` |
| `Show`, `Reselect`, `New`, `Pick`, `SetProxy` | the branches of `handle_control` for show and list, use, cwd and load, new, pick, proxy |
| `Create`, `Save`, `Bind` | `create_runtime`, `replace_runtime_selection` |
| `List`, `ListFails`, `Find`, `Store` | the discovery of sessions and `import_runtime`, a SELECT and an INSERT or UPDATE for each session |
| `Answer`, `StatementFails`, `Crash` | the summary; any failing statement; the process |
| `Accept`, `CreateSession`, `Record`, `End` | a turn, as far as it reads the selection and writes the row of its runtime |

`home[s]` is where the agent keeps session `s`.  That an agent lists only sessions of the
directory it was asked for is assumed (`Discovered`): the code imports what is listed.
`Accept` is the second of two reads; the first is of the chat's own selection, which
nobody else writes.  Messages that are steered start no turn and are in `TurnService`.  Directories have two names for one
place (`Canonical`), as a link in `/tmp` does; labels, tags, previews and orderings
are left out.

### TurnRender and TurnStream

`TurnRender` has no variables: it is the two normalizations and `TurnRenderState`, over
texts that are sequences of numbered words with `Space` for white space.  `TurnStream`
drives it: the agent says something, the task of the runtime reads it (`exec_json`
directly, `fallback` from the stream of the primary runtime), `run_turn` takes the
events and publishes plan, progress and final message.

| model | code |
|---|---|
| `NormalizeAcpUpdate`, `NormalizeExecJsonEvent`, `ApplyEvent`, `Finalize`, `Fail`, `OrderedTodos` | the functions of the same names |
| `Starts`, `ReadNext`, `EndOfStream`, `SeeStop`, `Join` | the task of `exec_json`, and of the relay, whose cancel handle is in `slot`; after `EndOfStream` no stop is heard, and `Join` waits for the exit and for the end of stderr |
| `AgentEnds`, `OutputEnds`, `ErrorsEnd`, `MuteExits` (`open`) | the process: it may close its output before it exits, and what it has started may hold its pipes longer (external) |
| `Stop`, `PassOn` | `request_stop`; the relay's watcher, which wakes up once |
| `Receive`, `Conclude` | the event loop and the tail of `run_turn`; a failing publication leaves it |

`Shorten` is the limit of the final message (2200 characters, `MaxFinal`), `CutOff` what it
drops.  The count of active tools, usage, card layout and the other limits (of an error
text, of a tool's name) are left out: no step reads them and no property speaks of them.

## 4. Runs

| run | bounds | question |
|---|---|---|
| `turn_core` | 2 messages, 1 chat, a Codex and an ACP runtime, all faults, workers that give up, 1 crash | the safety invariants, one turn at work per chat, and that every step is one of `TurnLifecycle` |
| `turn_steer` | 3 messages, 1 imported Codex runtime, no faults | steering, nobody ends in silence or waits for nobody (deadlock) |
| `turn_live` | 2 messages, 1 ACP runtime, all faults, 1 crash | a stopped turn ends if cancels take effect; every accepted turn ends if its agent does |
| `inbound_core` | 3 pushes of 2 messages, 1 chat, window 1, clock to 2, all faults, 1 restart | once per window, in order, queue freed, a rejected turn is not shown, nobody is stuck behind a failed message |
| `cards_core` | 3 events per slot, 2 heartbeats, 2 heartbeat handlers, all faults | timers, sequence numbers, fallback, delivery |
| `codex_core` | 2 turns of 1 thread, 1 message to steer, 1 chunk per turn, all faults but a deaf process | streams, steers and interrupts are not mixed up, the contract is kept, starts and stops come to an end, a death is noticed |
| `acp_core` | 2 turns, 1 query, 1 session from before, 1 update per turn and replay, an agent that loads and lists or one that has modes only, all faults | updates stay apart, permissions follow the stop, the contract is kept, only an unstopped prompt keeps others waiting |
| `selection` | 2 chats, 3 runtimes, 2 sessions (one from before), 2 names of a directory, 2 agents, 3 commands, 2 turns, 1 failure or crash | a turn goes where the answer said, to a session of that place; choices are stored |
| `turn_stream` | both runtimes, 3 things said, 3 plans, room for 2 words in a final message, all faults | text and plan are shown once, in order and whole but for that limit; a stop ends the turn |
| `doc_final_shown` | 3 pushes, no faults | a final event is shown: **violated** |
| `doc_rejection_dies` | 2 sessions, Feishu fails | a failed event is logged and the others go on: **violated** |
| `doc_one_session` | 2 messages, 1 ACP runtime, no faults | a runtime stands for one session: **violated** |

Why the bounds are enough.  Two tasks of one chat already contend for the lock,
the active entry and all three copies of the runtime state; the third message of
`turn_steer` is one that waits while a second one is steered.  Two runtimes are
needed for a switch between the copy and its use.  A second chat shares nothing
with the first one but the rows of a runtime that both selected, which
`ActivateRuntime` reaches within one chat as well.  In the gateway three takes in
one session are what a foreign cleanup needs to let one overtake; a clock beyond
the window lets a message be taken twice.  Three events are a plan, its end as a text
and the plan that makes a new card, or an update between two others; two heartbeats
overlap with an event and with each other, and one of an old card meets a new one.

At the workers two turns are what it takes for one to meet what another has left
behind: an open turn, an interrupt, a notification, a flag, an update in the
channel, a loaded session.  The steered message can come before, during and after its turn,
the query before, between and behind the turns; one chunk already arrives before
turn/start is answered, after the stop, or not at all.  In `selection` two chats
can list the same directory at once, one can pick the row the other has just made,
and three commands are a change, another one, and one of the other chat in
between.  In `turn_stream` three things said are text, tool and text, or a plan among
them, in every order, which fill and empty both texts of `TurnRenderState`; three words
are one more than a final message has room for.

`MaxCrashes`, `MaxRestarts`, `MaxTime`, `MaxVersion`, `MaxBeats`, `MaxDeltas`,
`MaxUpdates`, `MaxCommands`, `MaxTurns`, `MaxFaults` and `MaxSaid` are the only bounds on
counters; they stand in guards.  The proofs do not depend on any of them.

Symmetry is used over messages in `turn_core` and `turn_steer` and over chats and
runtimes in `selection`, which check no liveness.  Deadlock is checked in the turn
runs; the others switch it off, because a gateway whose pushes and beats are used up,
a worker that nobody asks anything any more or a turn that is over really stops.

The type invariants are not listed in the runs; they are proved.  So are
`WaitersHaveAHolder`, `NextUpdateFits` and `FallbackIsForGood`, which the listed
properties go beyond.

### Fairness

`TurnService.FairSpec`: weak fairness of each task's own steps (the tokio executor
runs what is ready, statements and publications return) and of `start_turn` returning,
well or badly.  Of agents nothing is assumed.  `StoppedTurnEnds` has as its hypothesis
that cancels take effect, `AcceptedTurnEnds` that agents finish; an agent never has to
finish by itself for a stopped turn to end.  The workers' modules show how far the code
grants the first: at the ACP worker the deadline starts when the cancel is seen, which is
with the prompt in hand (`OnlyPromptsKeepWaiting`): a stopped turn that is queued behind
another chat's prompt, or waits for session/new or session/load, waits without a
deadline.  At the Codex worker a cancel takes effect as long as the process lives and
takes the one interrupt it is sent (`LiveProcessServes`), or dies while no request is in
flight (`DeathIsNoticed`).  A request that a dying process had read is never answered
(`RpcConnection.request`), and publication has no timeout; then the lock is held for
good.

`CodexWorker.FairSpec`: the worker's thread runs; the process, while it lives, answers
requests and ends a turn it took an interrupt for.  `AcpWorker.FairSpec`: the worker's
thread runs, the timer of the deadline included, and the agent answers everything but
a prompt, with an error if its process is gone; a prompt may go on for ever.
`TurnStream.FairSpec`: the tasks run.  `StoppedTurnEnds` names the rest as its hypothesis
(`Cooperation`): an agent that was killed, or whose own cancel handle was fired, ends;
one that has closed its output exits; and what it has started lets its errors go.  `RuntimeSelection` is checked for safety only.

`GatewayInbound.FairSpec`: callbacks run, the core answers a request.  `fetch` has
no timeout, so this too is an assumption.  `GatewayCards.FairSpec`: requests to
Feishu return, with or without an error; no event and no heartbeat has to come.

### Mutants

Each property of a passing run has a slip of the code that breaks it, written
above the definition it replaces (`Slip:` in the comment) and listed in
`PROJECT.json`.  The slips are no part of `Next`.

## 5. Proofs

All theorems hold for every value of the constants that satisfies the assumption
of the module (`ConstantsAssumption`: sets, functions between them, names that
are not members; nothing about sizes).

**Turn service.**  `TypeOK` is inductive by itself (`TurnServiceSafety.TypeCorrect`).
`TurnServiceSafety` adds, one on top of the other:

1. `LockInv`: whoever is inside the critical section holds the lock, whoever holds
   it is inside, and a queue holds each waiting task once.  It gives
   `MutualExclusion` and `WaitersHaveAHolder`.  Neither is inductive alone: a
   release hands the lock to the head of the queue, which must be a task that
   waits.
2. `EntryInv`: a task that has registered and not cleared is the active turn of its
   session.  It gives `ActiveTurnHoldsLock`.
3. `StopInv`: a stopped turn is starting with its entry marked, or was cancelled,
   or is past waiting; no task before `set_starting` is stopped.  It gives
   `StopReachesItsTurn`.

`TurnServiceSessions` adds `RowInv` (which statuses the row can have at each
position of the task) and proves `Spec => Lifecycle!Spec` with the holder of the
lock as owner, step by step; `AnswerInv` gives `AnswerIsRecordedBeforeSeen`.

Its second half looks at a step from one turn: it is the turn's own, leaves the turn alone but for handing it the lock, or is the crash (`Seen`).  `SessionsInv` says
which agent sessions a runtime may ever name: the one it was imported with, or those
its own turns have opened (`Named`).  Rows, copies, agents and what is about to be
recorded keep to it, the ref of another runtime that `TurnRenderState` starts from
included, because an ACP turn only gets to record its end with the session its agent
announced.  This gives `RuntimeNamesItsSession`; with the fact that `COALESCE` wipes
nothing (`NothingIsWiped`), `CompletedTurnIsRemembered`.  Both hold whatever fails and
crashes.  `OwnedInv` (a worker holds a turn only under its task or after the task has
deserted it) and `AdriftInv` (an agent goes on only with what was given up after a stop,
or next to a turn that left something behind) give `ChatHasOneTurnAtWork`, for all faults:
the exceptions are in the property.  `BusyInv` (where no task deserts its turn, the first
without the exception) and `SteerInv` (a message that waits to be steered names a turn
past `attach_cancel`) give `AcceptedSteerIsHeard`, which needs `EventsGoThrough`, no
failing statement and no event refused: a task that leaves by `?` drops its turn with the
agent at work.  `SilenceInv` gives `NoTurnEndsInSilence`, which is about `Faults = {}`
by its words.

**Gateway, inbound.**  `ChainInv` says that tickets grow along the chain, that the
tail of a session is its last unfinished push, and that a handler past its turn
has all earlier ones over; it gives `InOrder` and `QueueIsFreed`.  `WindowInv`
relates the deduper's time stamps to the clock and gives `TakenOnce`; `KnownInv`, which
says where the handler of a known turn can still be, gives `RejectedTurnIsNotShown`: a
rejected turn has no context, and the handler that could enter one is over.

**Gateway, cards.**  `CardInv` is the conjunction of `Stages` (what a handler's step
says of its slot), `Reading` (an event updates the card of the entry), `Versions`, `Cards`
(a card that was not made has taken nothing), `Numbers` (as long as the entry can be
trusted, `InStep`, every update under way is of its card, whoever can still get through
has the next number, and only one is between its two requests), `Repeats` (between
updates such an entry repeats the card), `Order` (what can still get through is not older
than its card, even after a fallback), `Timers` and `Answers`.  A slot in `mixed` is in
none of `Numbers`, `Repeats` and `Order`.  `CardNeverGoesBack` needs `Order` for slots that
fell back and `Numbers` with `Repeats` for the others: a heartbeat that starts reads
the version the card shows, unless another is in the middle of its update, and then
its number is already too small.  From `CardInv` follow `OneTimer`,
`StreamingCardIsArmed`, `NextUpdateFits`, `AnsweredIsSeen`, `CardNeverGoesBack` and
`FallbackIsForGood`.

**Codex worker.**  `WorkerInv` ties the place of the loop to its callers: what the
command in hand is at each `await`, that the open turn is the one that was granted and
has not ended, and that each queued command has a caller who waits.  It gives
`OnlyStoppedIsInterrupted`, `SteeredTurnIsOpen` and, step by step, `KeepsContract`.
`NoteInv` is about notifications: none follows the end of its turn, the chunks of the open
turn are those heard and those on their way (`Counted`, a cardinality over the channel),
and only a thread with a failed turn has anything left over (`Orderly`).  It gives
`AnswerIsComplete` and, stronger where it applies, `OwnEndsAreComplete`: a turn ended by
its own turn/completed was heard in full whatever failed.

**ACP worker.**  `WorkerInv` is the same for a worker that all chats share, with the flag:
it belongs to the prompt in hand, and whatever else the agent works on was stopped and
given up (`PromptInv`).  It gives `PermissionFollowsStop` and `KeepsContract`.
`UpdatesInv` adds the channel: until something is given up, all that is in it comes from
what the worker waits for (`ApartInv`), and the updates of the prompt in hand are those
passed on and those in the channel, wherever strays stand between them (`CountInv`).
They give `UpdatesStayApart` and `AnswerIsComplete`.

**Selection.**  `SelectionInv`: a session from before stays where it was (`Homes`); the ref
of a row is of the agent and directory of the row, or absent in a row that was made there
(`RowsServe`); and, per chat, a choice is stored and works where the selection says
(`ChoiceOf`), the sessions an import has still to store are of its place and the row it
found for one still fits (`ImportOf`), and what a turn copied is still true (`TurnOf`).
What holds this against other chats is `Steady`: a row keeps its place and its
directory, a session its home.  It gives `ChoiceIsStored`, `SessionIsAtHome`,
`TurnGoesWhereTold` and `RowsAreKept`.  It assumes that canonical names are canonical
(`Canonical` is idempotent) and that the default directory is given by its canonical name.

**Turn rendering.**  The texts of `TurnRender` are concatenations (`FlattenSeq`, a
recursive function), so their laws need induction.  The library states induction for an
operator, which the provers cannot instantiate; `TurnStreamProofs` has it for a set
instead, from the theorem that `<` is well founded on `Nat` (`Induction`).  From it come
what `FlattenSeq` does with an append and a concatenation (`FlattenConcat`), that `Words`
distributes over a text (`WordsLaws`), and that a set of positions has a last one
(`MaxIsIn`).  `NormalizedLaw` and `ApplyEventLaw` say what the two normalizations and
`TurnRenderState` make of anything an agent says.

`StreamInv` is the conjunction of the types (`DataInv`, `TypeOK`), of `ControlInv` (a
task that saw no stop reads to the end of the stream, `run_turn` ends after the task and
with the channel empty) and of one part for each property:

* `ChunksInv`: as long as `run_turn` has lost nothing, what the agent wrote is what is
  shown, then what is buffered or, at the end, cut off (`Kept`), then the channel, then the
  stream.  A tool moves the
  buffer into a progress message, an event the head of the channel into the buffer.
  `ChunksAreShownInOrder` alone is not inductive: it says nothing of where the rest is.
  The prefix outlives a refused message, because what is sent before it carries no text
  (`CutShort`).
* `AnswerInv`: the last message said is the answer in `TurnRenderState`, unless a later
  one is in the channel or in the stream, and with exec_json no text ever becomes
  progress.  It gives `AnswerIsWhole`, with `ChunksInv` for the relayed runtime and the law
  that a text is what is shown of it and what is cut off (`CutLaw`).
* `PlanInv`: the same for plans, and the plan the user sees is the one `run_turn` holds.
  It gives `LastPlanIsShown`, in which the order of the entries (`OrderedTodos`) is
  whatever the operator makes of them.

**Only model-checked.**  Liveness (`StoppedTurnEnds`, `AcceptedTurnEnds`,
`NobodyIsStuck`, `EveryEventIsDelivered`, `LiveProcessServes`, `DeathIsNoticed`,
`OnlyPromptsKeepWaiting`), which needs fairness and `ENABLED`.  Every other property of
a passing run is a theorem.

## 6. Where code and documents disagree

With a run of their own:

* `doc_final_shown`: the final event of a short turn can reach the gateway before the
  response that makes its context known, and is dropped with a success.
* `doc_rejection_dies`: the promise stored in `sessionQueues` is not the one that is
  caught; if the rejection message itself fails, Node ends the process.
* `doc_one_session`: a second turn that was accepted before the first one recorded its
  agent session opens another one and replaces the ref of the runtime
  (`docs/design.md` line 37: a runtime is one particular session).

Stated in the modules under "What the documentation says and the code does not do";
TLC finds each one violated when its line is added to a run of the module (with
the constants named here):

* `StartFailureIsRecorded` (`TurnService`): when `start_turn` fails, `run_turn` leaves at
  the `?` and the row stays `running`.
* `ActiveCodexTurnTakesMessage` (`TurnService`): between `set_starting` and
  `attach_cancel` a message is queued as a turn of its own.
* `ZeroWindowIgnoresNothing` (`GatewayInbound`, `Ttl = 0`): a window of 0 remembers
  every message for good instead of switching the deduper off.
* `FallbackTellsThePlan` (`GatewayCards`): a failed heartbeat hands a rendered card to
  `renderFallbackMessage`, which wants blocks and throws; the plan is never sent.
* `EndGoesByOwnCompleted` (`CodexWorker`): a turn/completed is matched by thread alone.
  After an error has ended one turn, the turn/completed that follows it ends the
  next turn of the thread, whose own turn/completed may then end a third one: both end
  well though they were not heard in full.  `AnswersAreComplete` and
  `OwnEndsAreComplete` confine this to turns of a thread that has a failed turn, and to
  turns that another one's end has ended.
* `StopEndsTurn` (`CodexWorker`): an interrupt is sent once; if it fails, or if the process dies
  with a request in flight, the stop has no effect.
* `NoPermissionAfterCancel` (`AcpWorker`): the flag of a turn that was given up is
  replaced by that of the next one, and its agent is granted permissions again.
* `RuntimeIsOneSession` (`RuntimeSelection`): two chats that list the same directory at
  once import the same session twice.
* `EveryStopEndsTheTurn` (`TurnStream`): a stop that comes while the primary runtime of
  the relay starts is lost.

Met while modelling: the start of a turn writes NULL over `last_assistant_message` of
its session (`docs/data-model.md` line 11 calls it the latest final output).

Observations that no document contradicts: an event and a heartbeat that draw the
same sequence number make the slot fall back although nothing failed; heartbeats of
a todo card go on after the final card; `turnContexts` is never emptied; two chats
that selected the same runtime can run two turns in one agent session; updates of an
ACP prompt or load that was given up are passed on by the next turn of the worker,
possibly that of another chat; the worker gives a prompt up eight seconds after a stop
while its agent may go on, and the next turn of the chat then works in the same session
beside it; after a plan that was emptied, a slow heartbeat of its card writes the old plan
and number into the entry of the next card, and the next heartbeat shows it there; a
stopped turn that is queued behind another chat's ACP prompt waits for it; the one-shot
exec runtime waits for the errors of a process it has killed, and hears no stop once the
output is closed; a command or a steered message whose reply fails is answered as if the
turn could not be started, though it was carried out; a worker that has ended keeps its place in the map,
and the turns of its key fail until the core is restarted; `/ot load` gives up the
choice even when it names the directory that is selected; when a cancel handle is
dropped before a turn ends, `changed()` returns at once and the loop turns without
pause.

## 7. What is not modelled

* `thread/list` and `thread/read` of the Codex runtime, and the discovery of sessions
  in the files agents leave on disk: they read, in processes and files of their own,
  and their result is the set of sessions in `RuntimeSelection.List`.
* Parsing of commands (`commands.rs`) and of Feishu events: pure functions whose
  results are the choices the models make.
* The progress slot and notices of the gateway: each is one reply and keeps nothing.
* The pairing store: planned.
* `SessionRegistry.resolve` and the parent's last answer in a prompt: the text of a
  prompt is nothing the properties tell apart.
* Markdown and card layout, tokens, HTTP plumbing, the watchdog of the Feishu
  connection, configuration, the CLI, installation and deployment.
