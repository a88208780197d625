# Verification of SR2 and Spectre

`sr2` is a library that turns an LLM into a conversational turn engine: it
composes the prompt from layers, runs the tool loop, and keeps the history and
its provenance. `spctr` is an agent built on it: sessions, tools, hand-offs
between agents, Discord and Zulip interfaces, reminders and schedules. Both run
on one asyncio event loop; SQLite calls run in worker threads.

This directory holds TLA+ models of the parts where the order of events
matters, the TLC configurations that check them on small instances, and TLAPS
proofs. Source paths below are relative to `packages/sr2/src/sr2/` and
`packages/spctr/src/spctr/`.

    tlc -config turn_loop.cfg MCTurnLoop      # any run: its cfg, its MC module
    tlapm TurnLoopProofs.tla                  # a proof module, about a minute

## 1. The system

### sr2

| part | state | operations | what is hard |
|---|---|---|---|
| Turn loop (`orchestrator.py`, `SR2.turn`) | `_pp_task`, the turn's locals, `_turn_seq` of the engine and of the archivist | `turn`, `_run_tool_iteration`, `_forced_final_answer`, `_finalize_turn`, `aclose` | an async generator: its caller may cancel or drop it at each await and yield; `post_process` runs as a task that only the *next* turn joins |
| Repeat guard (`orchestrator.py`, `_RepeatGuard`) | two runs of calls: identical calls, and identical calls with the same result | `observe`, once per executed call | two counters with different resets and two thresholds; walks the calls of a message paired by position |
| Circuit breaker (`degradation/circuit_breaker.py`) | `closed`/`open`/`half_open`, failures, time opened | `allow_request`, `record_success`, `record_failure` | shared by all turns; a cancelled call records nothing |
| Pipeline engine and bus (`pipeline/engine.py`, `event_bus.py`) | queue, errors, turn sequence | `start_turn`, `continue_turn`, `end_turn`, `run_loop`, `drain` | cascades of events bounded by depth and drain limits; errors kept in band |
| Layers and resolvers (`pipeline/layer.py`, `resolvers/`) | buffered events, resolved history | `begin_turn`, `on_event`, `compile` | what an aborted turn leaves buffered |
| Degradation (`degradation/`) | ladder level per layer, failure counters | `record_failure`, `record_success`, level choice | several layers moving one ladder |
| Turn archive, provenance (`pipeline/provenance.py`, `stores/sqlite.py`) | append-only entries with parent links, turn sequence | `archive_*`, `continue_archive`, reads by lineage | a failed write is skipped and the next entry linked past it; resuming an archive restarts its sequence |
| Continuity (`continuity/`) | ledger of items, supersession | consolidation in `post_process`, policy selection | runs after the turn, on the archivist's current turn |
| Continuity indexes (`continuity/indexes/`) | vectors, graph | add, query | numeric ranking |
| Compaction, summarization (`compaction/`, `pipeline/transformers/`) | none (pure, or one LLM call) | rule application, summary splice | keeping tool-call pairs together |
| Memory (`memory/`) | rows | extract, resolve conflicts, retrieve | storage |
| Configuration, plugins (`config/models.py`, `plugins/`) | none | validation, registration | static |
| LLM integration (`integrations/`) | none | stream conversion | wire format |

### spctr

| part | state | operations | what is hard |
|---|---|---|---|
| Reminders (`reminders/`) | rows `pending`/`sending`/`delivered`/`failed`/`cancelled` with attempts and due times; one loop per interface | create, cancel, list; `claim`, `mark_delivered`, `due_with_retry`, `reset_sending_to_pending`; `DeliveryLoop.start`/`stop` | crash between send and mark; reloads; transactions that outlive a cancelled caller; several loops on one store |
| Schedules (`schedules/`) | rows with `next_run_at`, or a sentinel while claimed | poll, `claim`, recovery, catch-up, `execute_now` | a due list that is a snapshot; a claim that overwrites the time it claims |
| Session (`session.py`, `resume.py`) | history, its SR2, one lock, log | `turn`, `_refresh_sr2_if_stale`, resume | history appended before the turn; SR2 rebuilt after a reload while its task is pending |
| Agent, runtime, live LLM (`agent.py`, `runtime.py`, `live_llm.py`) | configuration, run context shared by sessions, retry state | reload, `stream` with retry | live reload under running turns |
| Hand-off and frames (`tools/builtins/handoff.py`, `dispatch.py`, `framerouter.py`) | the hand-off in progress, with its target's Session | hand off, end, cancel, close | a second agent inside a tool of the first one's turn; cancellation reaches both |
| Discord (`interfaces/discord/`) | active run, placeholder and history per channel, one pending edit, areas | message, slash command, `/stop`, `/reset`, streamed edits | two messages in one channel; state per interface rather than per channel; one Session for all channels |
| Zulip (`interfaces/zulip/`) | a Session and a chain of tasks per topic, event queue id | poll, dispatch, stop a topic, restore a topic | cancel of a chain while it grows; queue re-registration; a topic with a past |
| Direct mode (`interfaces/zulip/direct.py`) | one Session | poll, handle a batch | no tasks: a batch is worked off in the loop |
| REPL, TUI (`interfaces/repl.py`, `tui.py`) | the Session, the listing | a turn, Ctrl-C, `/reset`, `/resume`, `/change-model` | Ctrl-C at any await; session keys shared with the past and with other processes |
| Planning (`planning/`, `tools/builtins/complete_step.py`) | plan and task files, verify commands | `complete_step`, plan layers of a prompt | files read, a command awaited, files written, while people and other sessions edit them |
| Tools, skills (`tools/`, `skills/`) | tool registry, skill catalog | one function per tool; discover, register | many files claim one name |
| Log (`run_log.py`) | a file and its lock per session | emit, close, sweep | a log in use must outlive the sweep of another process |
| Configuration, CLI (`config*.py`, `cli.py`) | files of four tiers, `extends` | merge, validate, reload | which file wins; a file that fails half way |

### How they interact

An interface receives a message, stamps the shared run context, and calls
`Session.turn` under the session's lock. The session appends the message,
seeds its SR2 with the prior history and iterates `SR2.turn`. That calls the
engine (`start_turn`, `continue_turn`, `end_turn`), whose bus buffers events in
the layers until a drain, the LLM through the circuit breaker, and the tools
through the executor; a tool may itself hand off to another agent's session.
When the reply is complete the turn is finalized and a task is started that
consolidates it through the archivist; the next `SR2.turn` waits for it.
Beside this, the chat interfaces run a `DeliveryLoop` on the shared reminder
store, and Discord runs the schedule engine. Each inbound message or batch first
reloads the configuration and the skills; what changed is applied to the
registry, the delivery blocks, the model and the sessions in place.

### What makes each part correct

* Turn loop: the session history stays a conversation (calls paired with
  results, nothing twice, nothing reordered) whatever was aborted; an answer
  shown is an answer kept; the work of a turn is bounded; deferred work runs
  once, on the right turn, before the next one; the event stream has its
  documented shape; a turn returns.
* Repeat guard: its counters are those of the run of calls; its notes are true;
  its limits are not passed.
* Breaker: it opens at its threshold and never sits closed past it.
* Bus: a cascade ends, errors are reported once. Layers: a turn's budget holds.
* Degradation: the level follows the failures and comes back.
* Archive: the lineage of entries is a tree in turn order. Continuity: one live
  item per slot.
* Reminders: each is sent at least once or recorded as failed, by one sender,
  with bounded duplicates; terminal states are final.
* Schedules: an occurrence runs once or is skipped by policy, and a schedule is
  not left claimed.
* Session: a turn has its Session to itself, its history is that of its own
  conversation, and its number is new in the archive whatever was rebuilt.
* Hand-off: it lives inside its caller's turn and ends with it.
* Runtime: after any sequence of edits, what runs is what the files say.
* Interfaces: answers come in the order of messages; a late progress edit does
  not overwrite an answer; no task waits for ever on another.
* Planning: a step is completed once, and nothing outlives the call that ran it.
* Model call: a caller sees one whole attempt; the log tells of it.

## 2. Modules

| module | models | role |
|---|---|---|
| `CircuitBreaker` | `degradation/circuit_breaker.py` | operators on a breaker value |
| `TurnLoop` | `SR2.turn` and what it calls, the deferred task, `aclose` | state machine; uses `CircuitBreaker` |
| `TurnContract` | the event stream `turn()` promises | abstract specification that `TurnLoop` implements |
| `RepeatGuard` | `_RepeatGuard` and the zip of `_run_tool_iteration` | details the guard's verdict that `TurnLoop` leaves open |
| `Pipeline` | engine, layers, resolvers, summarization, degradation of a request | operators on an engine value |
| `Archive` | `_TurnArchivist`, continuation, lineage | operators on an archivist and its entries |
| `Continuity` | rules, ledger, views, cache, policy | operators on a ledger |
| `Conversation` | turn after turn of one SR2 | state machine; composes `Pipeline`, `Archive`, `Continuity` |
| `Store` | the SQLite provenance store, statement by statement | state machine under several sessions |
| `Config` | the merge of the configuration files | operators on a file tree |
| `SkillFiles` | discovery of skill files, the tiers of the catalog | operators on a library of files |
| `Runtime` | one reload and what it applies | operators on a Runtime value, edits of the files |
| `Session` | Sessions, the turns through them, the hand-off tool | state and actions of a turn |
| `Interface` | what the interfaces share | state and helpers |
| `Zulip`, `Direct`, `Discord`, `Repl` | one interface each | actions of an interface |
| `Chat` | a process behind one of the interfaces | composes `Config` to `Repl`; the properties |
| `Planning` | plans on disk, `complete_step`, plan layers | state machine |
| `RunLog` | a session's log file | operators on a log |
| `ModelCall` | a model call through the LLM wrappers | state machine; uses `RunLog` |
| `Reminders` | the reminder store, loops, tool, interface start and stop | state machine |
| `Schedules` | the schedule store, the engine, the tool, the interface's start and stop | state machine |
| `TurnLoopProofs`, `RepeatGuardProofs`, `RemindersProofs`, `SchedulesProofs`, `PlanningProofs`, `ModelCallProofs`, `ConversationProofs`, `ChatProofs` | | theorems about the module each is named after, and `TurnLoopProofs` about `CircuitBreaker` |
| `MC...` | | instances for TLC |

Operators whose name ends in `Mutant` are wrong on purpose: each is a plausible
bug of the operator that follows it, and replacing that operator by it makes
TLC report the property named in `PROJECT.json`. No run uses them as they are.
Modules state a `TypeOK`, of which no run spends its time; those of five modules
are proved (section 4).

The three layers do not repeat one another: `TurnLoop` has the control of one
turn and abstracts its data, `Conversation` has the data of many turns and runs
each of them without interleaving, and `Session` sees a turn as one interval
("streaming") that ends in an answer, an error or a cancellation.

### The turn loop

`pc` names the await or yield at which `turn()` stands; one action is the code
from there to the next one.

| action | code |
|---|---|
| `Call`, `Join`, `JoinFailed`, `AfterJoinError`, `JoinCancelled` | the barrier at the top of `turn()` |
| `StartTurn`, `TurnOpened`, `NoInput`, `QueueInput`, `SettleInput` | `engine.start_turn` and the input's drain |
| `Request`, `LlmFails`, `EmptyReply`, `TextReply`, `ForcedToolReply`, `ToolReplyRaises`, `LimitReached`, `ToolReply` | the stream through the breaker and the branches on its reply |
| `ToolsExecuted`, `ShowTools`, `GuardStops`, `ContinueTurn` | the tool iteration |
| `EndTurn`, `SchedulePostProcess`, `Answer`, `SurfaceErrors`, `EndEvent` | `_finalize_turn` and the last events |
| `PostProcessStarts`, `PostProcessEnds`, `Close`, `Cooldown` | the task, `aclose`, the clock |
| `Abort`, `AbortAtBarrier` | cancellation, `aclose` of the generator, exceptions |

`buf` is what the session layer has buffered and `hist` what its resolver has
taken; `turnSeq` and `archSeq` are the engine's and the archivist's counters,
which differ between `start_turn` and its drain; `pp` is `_pp_task` with the
turn that scheduled it and the turn it read when it ran. `tally`, `finalized`
and `processed` are history variables.

Abstracted: message contents (a message is its kind, turn and iteration), the
tool calls of one message (one pair stands for them), text and usage events
before the final text, archive writes and their failures. The guard's verdict
is any of the three wherever a guard watches. `hist` is the resolver's own
history; `Session.turn` seeds it again before each turn, so `PairedHistory`
is what SR2 guarantees to a caller that does not.

`TurnContract` knows three phases and the events of the turn. The refinement
maps `pc` to a phase ("settled" from `SchedulePostProcess` to the end) and `out`
to the events; it says the answer, at most one error, and one end come in this
order, only once the turn is settled, that a deferred error can only be the
first event, and that there is one retry.

### The repeat guard

`guard` has the fields of `_RepeatGuard`; `calls`, `contents` and `next` are the
zip; `event` is the last action of the message. `log` and `told` record the
executed calls with their real results and what the model was given. A call is
a key and a result is one value (content and `is_error` together). At most one
malformed call is put in a message; `MixedMessages` says whether valid calls may
stand beside it.

### Conversation: pipeline, archive, continuity

`eng` is the engine: its queue, and for each layer its buffered events, content,
resolver history, executions in this turn, and level of the ladder. `run` is the
place of `run_loop` (layer, cycle, whether anything changed) and what follows it.

| action | code |
|---|---|
| `ProcessLayer`, `BatchRejected`, `ComponentFails`, `EndCycle` | `run_loop` over the layers: `process_pending` with resolvers, transformers, budget, truncation, flush; a batch the store rejects; a component that raises; the cycle and its limit |
| `StartTurn`, `QueueInput`, `CompileRequest`, `ToolIteration`, `Answer`, `LlmRaises`, `Finish` | the runs of a turn, with what each archives |
| `PostProcess` | consolidation of the turn's entries |
| `Forget`, `Restart` | a suppression event appended to the ledger; a new process on the old stores |

A text is the phrase the rules type it by, the object words it is about, and the
words of the subject it names outright ("subject-..."), at most one and made of
such words, not the digest of a typed record. A subject's name is its words in
order, or for a typed record its kind and a digest; `KindWord` is the kind's name
as a word, which a claim may use (`Begins`, `Joins`). The `meta` links
`about_subject` and `supersedes_subject`, which only `consolidation.py` reads and
nothing under `src` sets, are left out. A layer's weight is one token per item.
`log`, `lost`, `written`, `owed` and `forked` are history variables: what should
be in the session's history, which turns a failure cut off, what was archived,
which statements were consolidated without a fault, and whether turn numbers may
repeat. `turnSeq` is the engine's number of the turn, which a restart continues
from the archive. The operators of `Archive` and `Continuity` that a proof is
about say which entry stands at a position, and which positions replace or
suppress a record, instead of folding over the sequence. Only layers subscribe to
the bus and their handler only buffers, so its delivery is one step.

### Store

One step is one statement of one write (`InsertEntryRow`, `InsertSource`,
`Commit`, `Rollback`); the writes of several sessions interleave on the one
connection, whose uncommitted statements are `open`. `Cancelled` and `Restart`
leave statements behind. Layer rows carry the session "default", summaries
their own. A row carries its layer: a continuation reads the rows of the archive only
(`ArchivedIn`). Left out: a second process on the file, writes of an id that
exists.

### Runtime and configuration

A file tree says for each tier what its file sets, names (tools, layers) and
extends; `ResolveTiers` and `MergeConfigs` give one `ConfigOf` it, or none.
`runtime` holds the registry, the catalog with the signature it was built from,
and for each delivery block the handle (`seat`) and the stamp of its last change.
A skill file is its place, its form (flat or bundled) and the name its frontmatter
has, if any; `CatalogOf` registers the claims of the tiers in order, and the last
one on a name has it. A directory is open, unreadable or missing: discovery skips
what it cannot read, the strict pass of a rescan raises and keeps the catalog
(`DiscoveryRaises`). `Reloaded` is one reload in the code's order; `ReloadRaises`
is the raise half way, after which the earlier parts stay applied.

### Session and the chat interfaces

`calls[m].pc` names the await at which message `m` stands on its way through
its interface; `sessions` are the Session objects made so far with their lock's
queue, history, SR2 (stale, ready, pipeline, turn) and log; `archive` is what
outlives the process. `Chat` takes one interface per behaviour:

| interface | pc before the turn | actions |
|---|---|---|
| Zulip | unread, queued, restoring, probing, syncing, stopping, placing; after it delivering | `Poll`, `Dispatch`, `StopTopic`, `Restore`, `Probe`, `Adopt`, `Sync`, `Place`, `Delta`, `Settle`, `Deliver`, `Unwind`, `QueueExpires`, `Register`, `StrangerWrites`, `Shutdown`, `Restart` |
| direct | unread, queued | `PollDirect`, `HandleDirect`, `Reply`, `RegisterDirect`, `PeerWrites` |
| Discord | threading, syncing, stopping, routing, placing, starting, locking; after it delivering, finalizing; anchoring for a slash command | `Receive`, `CreateThread`, `SyncBlock`, `StopCommand`, `ResetCommand`, `ModelCommand`, `PostPlaceholder`, `TakeTurn`, `AgentTurn`, `Progress`, `ShowAnswer`, `ShowError`, `FinalizeCancelled`; `ReceiveSlash`, `Acknowledge`, `SlashCommand` |
| REPL | starting | `Enter`, `Interrupt`, `TurnShown`, `Reset`, `Resume`, `ChangeModel`, `ReplRestart` |
| all | waiting, opening, seeded, streaming, handing, closing, left | `Acquire`, `ContinueArchive`, `BeginTurn`, `StreamEnds`, `StreamRaises`, `StartHandoff`, `TargetEnds`, `TargetCloses`, `UnwindHandoff`, `UnwindTurn` |

In Discord the tool lines of a running turn are rendered on the channel's newest
placeholder (`_flush_tool_lines`, `session.pending_message_id`), which may be that
of a message waiting behind it; `Progress` edits the turn's own message only. A
newer placeholder is that of a message that still waits for the agent's lock, so
no answer stands or is being delivered there. `ShowError` is one step, so a
`/stop` while its edit is awaited is left out.

Faults and operators' acts are the `Extras` of an interface: crash, model error,
unreadable archive, failing send or probe, hand-off, edits of the configuration
and the skills, an expired queue, a stranger's message, shutdown, Ctrl-C.

### Planning

`plan` and `task` are the statuses of the files, with "broken" for one whose
frontmatter does not parse. `StartTurn`, `QueueInput`, `Finish`
are a turn as far as the plan layers and the stamped frame go; `CallTool`,
`Spawned`, `SpawnFails`, `VerifyFails`, `VerifyTimesOut`, `VerifySucceeds`,
`Cancel` are `complete_step` around its two awaits, of the process's start
("spawn") and of its end ("verify"), and `QueueResult` is its result in the
conversation. `EditPlan`, `EditTask`, `Reload` are people and other tools. The
processes of a command are not followed once its call is over: one that ends by
itself has nothing killed that it left in the background. Left out: several `complete_step` calls at once in one session,
children of a verify command that detach from its group (`setsid`), an error of
the awaited `communicate()` other than a time limit or a cancellation (it ends the
call and kills nothing), files whose number differs from their order.

### The model call

A call passes the retry, guard and log wrappers around a target that a reload
may replace (`Retarget`). `Attempt` binds the target and its limits and cuts the
request to its context (`Fit`); `Raise`, `TransportFails`, `OtherError`,
`Overflow`, `Retry` are what an attempt ends in; `Chunk`, `ToolDelta`, `Tick`,
`GuardAborts`, `StreamEnds`, `Completes`, `Yield` are a stream under its call
and stall limits. `log` is one session's file with its lock and its last write;
`Crash` opens a new one, `ADayPasses` and `Sweep` are the clean-up.

### Reminders

A row's `status` and `attempts` are its columns; `ready` says that its
`COALESCE(next_attempt_at, due_at)` has come. A loop's `at` is the await it
stands at; `todo` is the rest of its due list, a snapshot. `owner` is the loop
each interface holds. Each store method is one transaction and one step. When a
caller is cancelled during `asyncio.to_thread`, its transaction goes on in the
thread: `orphans` holds those, and each may commit at any later step or, if the
process dies, never. `accepted` counts the platform's acceptances and `cuts`
the times a row's sender was cut off or lost its claim to a
reset. `orderly` is a history variable too: it is true until a store call raises,
a cancelled caller leaves a transaction to commit, or a loop is let go of during
its `start()`. Which due row is taken next is left open (the
code sorts by time), and the platform scope of `claim` is that of the due list.
Parsing of times and targets is left out.

### Schedules

`next` is `next_run_at`; the claim's far-future sentinel is a time later than
any other. An engine's `at` is the await it stands at; `fire` is the one "now"
of its pass over the snapshot `todo`; `polls` holds the engines whose `start()`
is over, so that recovery, catch-up and polls are one set of actions: recovery
is `ReadClaimed`, `Release`, `ReleaseDone`, a pass over due rows is `ReadDue`,
`TakeNext`, `Skip`, `Claim`, `ClaimFails`, `RunEnds`, `PassDone`. A payload runs
from `Claim` to `RunEnds`, for any length of time, whatever its outcome: the
row advances alike. `run_now` runs beside the engine (one at a time). A cron
expression is an occurrence every `Period` ticks. Left out: store errors and
late transactions (as in `Reminders`), the payloads' own work, `last_status`.
`last`, `again`, `early`, `moved` and `alone` are history variables: an
occurrence claimed twice, one claimed before its time, a row that `run_now` has
written, and whether an engine was let go of while it was starting.

## 3. What the runs show

| run | instance | states | checks |
|---|---|---|---|
| `turn_loop` | 3 turns, 1 tool iteration, no final answer at the limit (it raises), threshold 2, cancellations anywhere | 394 k | `AnswerIsCaptured`, `BreakerCountsFailures`, `ConsolidatesOwnTurn` |
| `turn_loop_barrier` | 2 turns, 2 iterations, all options, cancellations anywhere but at the barrier | 183 k | `PairedHistory`, `BoundedTurn`, `EveryTurnProcessed`, refinement `KeepsContract`, `PostProcessBeforeNextTurn`, `TurnReturns` |
| `repeat_guard` | 2 calls × 2 results, messages of up to 3, turns of up to 6; malformed calls in messages of their own | 14 k | `CountersMatchLog`, `NotesAreTruthful` |
| `repeat_guard_mixed` | the same, malformed and valid calls in one message | | **violates** `ObservesOwnResult` |
| `conversation` | 3 turns of up to 1 tool iteration on three layers, one conditional, one budgeted and summarized; both stores; 1 fault or restart | 102 k | `RequestIsRecent`, `LoopSettles` |
| `continuity` | 3 turns on one layer: claims, corrections and confirmations about 2 words, one of them the name of a kind, or naming a subject, 1 fault or restart, 1 suppression | 702 k | `ArchiveReadsBack`, `StatementsReachTheLedger`, `CorrectionsDoNotFork`, `ForgottenStaysForgotten` |
| `rejected_writes` | 2 sessions on one connection, 1 shared content, 6 ids | | **violates** `RejectedLeavesNothing` |
| `chat` | any interface, 2 places, 3 messages, 2 to 6 messages and events together, 4 file trees with one skill | 1.23 M | `ConversationsStayApart`, `TurnsAreFresh`, `RuntimeFollowsConfig`, `FilesDecide`, `AnswersInOrder`, `AnswersStay`, deadlock |
| `planning` | 2 sessions on 2 plans of 2 tasks (one unverifiable), 2 turns, 2 calls, 2 edits, 1 fault | 688 k | `StepsCompleteOnce`, `PromptFits`, `CallsReturn` |
| `model_call` | 2 calls, a target that retries once and one with a context limit, 3 requests, 1 retarget, 1 fault | 170 k | `AttemptIsWhole`, `RequestStaysPaired`, `LogFollowsCall`, `CallsEnd`, deadlock |
| `reminders` | 1 row, 2 loops of its platform and one of another, store errors, late transactions, reloads during `start()`, crashes, 2 interrupts | 363 k | `DeliveredWasSent`, `BoundedDuplicates`; while `orderly`: `SendingIsClaimed`, `TerminalIsFinal`, `EventuallySettled` |
| `schedules` | 2 rows, one of which skips, 1 engine, clock to 2, 1 reload or crash, manual runs | 462 k | `ClaimsHaveRunners`, `FiresOnce`, `EventuallyServed` |

Some properties are conjunctions of named parts that are about the same thing:
`CountersMatchLog` is `RunMatchesLog`, `ChainMatchesLog` and `StopsAtLimits`;
`FiresOnce` includes that nothing fires early; `SendingIsClaimed` includes the
retry budget; `ConversationsStayApart` is `OwnHistory`, `OwnSession` and
`OwnHandoff`; `RuntimeFollowsConfig` includes `PlanHasItsTool`, and `Seats` and
`Served` of each delivery block; `FilesDecide` is `ConfigIsWhole`,
`NearestFileWins` and `StrongestClaimWins`.

**Bounds.** Two turns are the shortest case in which one turn leaves something
to the next, and three the shortest in which a barrier that failed meets a
third; two iterations let a limit, a retry and a stop follow a completed
iteration. `MaxCalls = 6` of the guard exceeds every threshold by two, so that
runs of both kinds start, break and start again; more keys or results add no
comparison that two do not. Three turns of the conversation pass the
summarization and the budget of the third layer and restart on the result. Two
words let a statement be about one, the other, or both. In `chat`, a message and
the message that overtakes, stops or follows it leave a third for what comes
after; two places are what can be mixed up (they are symmetric). `MaxEvents`
bounds messages and faults together, interface by interface, at what the size of
each one's state allows: threads (2) and Discord and Zulip (3) have a task per
message, direct mode (5) and the REPL (6) do one thing at a time, and their
histories must be longer to say anything. The four trees move every part of the
Runtime, take the skill directory away, break a block after the skills were
applied, and include one whose `extends` is circular; the tiers are also
compared with their reference, `NearestFileWins`, over 432 more trees, and the
catalog with its own, `StrongestClaimWins`, over every subset of seven files in
two directories, every list of up to three directories, with and without
built-in and declared skills. In the states of `chat` one file comes and goes.
Messages the filters drop appear only with an edit to be read before them,
without which they change nothing; strangers' messages only as the past of a
topic. Discord has one channel and one thread to come. In `planning` two edits
make a step pending again, or a second plan open, while a command runs. In
`model_call` one context limit is below the longest request by two turns, so
that a request is cut twice. Two interrupts allow a crash during the recovery
from a crash, or a reload after it; `MaxSendAttempts = 2` has a retry and a last
attempt. `MaxTime = 2` has two occurrences, so that one comes while the other's
payload runs. All bounds stand in the guards of the actions they bound.

**Deadlock** is checked where a task that waits for ever would be an error and
the rest is accounted for: `chat` stutters only in `Settled`, when no call is on
its way, and `model_call` only lets days pass. Elsewhere it is not checked: an
SR2 whose callers are done, a guard whose turn is over, plans without calls and a
store whose reminders are settled rightly stop.

**Fairness.** `TurnLoop`: `WF(Advance)`, since the LLM call is bounded by
`llm_timeout_seconds` and tools and stores are assumed to return, and
`WF(PostProcess)`, since the event loop runs its tasks. Nobody has to call
`turn()`, cancel it or close it, and the breaker's clock need not advance.
`Conversation`: `WF(RunStep)`, the run loop goes on. `Planning`:
`WF(Spawned)`, the system starts a process in bounded time, and
`WF(VerifyTimesOut)`, the timer of `asyncio.wait_for` fires; the command itself
may hang. `ModelCall`: weak fairness of `Tick` (time passes), `GuardAborts` and
`Retry` (timers fire) and `Yield` (the caller reads what it asked for); the model
need never answer. `Reminders`: each loop goes on, due times come, and an
interface that holds no loop starts one; no fairness for the tool, for reloads
or for crashes. `Schedules`: engines go on (payloads have timeouts) and an
interface without an engine starts one; the clock need not advance.

### Findings

`rejected_writes`: `write` and `write_batch` say that a rejected write leaves no
residue, but all sessions share one connection and so one transaction. A commit
of one session between another's row inserts and its failing link insert makes
the rows of the rejected batch permanent, and a row of origin "transformer"
without links makes the reads that select it raise. Continuations and archive
reads select the rows of the archive only and go on; `resume.py:59` reads a whole
session. The other way round, one session's rollback discards what another one
inserted and then "commits". Rejections are routine: a summary names generated
sources that are no rows, so its batch is rejected every time and stays in
`_pending_writes`.

`repeat_guard_mixed`: `_run_tool_iteration` says that its zip "pairs each executed
block with its own result", but it zips the executed blocks with all results, the
malformed ones first. A message with one malformed and one valid call shows the
guard the valid call with the malformed call's error, and what the guard counts
and puts a note on from then on is not what happened.

### Where the passing runs stop

What holds is stated for these conditions, outside of which the code does
something else:

* A caller cancelled at the barrier cancels the previous turn's deferred task
  (`orchestrator.py`, `turn`): that turn is never consolidated and every later
  turn raises until `aclose()`. `turn_loop` allows it, `turn_loop_barrier` and the
  theorems that need it say `~CancelAtBarrier`.
* A message that mixes malformed and valid calls pairs them with each other's
  results in the repeat guard (`repeat_guard_mixed`), so that its counters and its
  notes are about other calls' results; of several verdicts in a message only the
  last is acted on. `repeat_guard` keeps malformed calls apart (`MixedMessages`),
  as the theorems about `CountersMatchLog` and `NotesAreTruthful` do.
* `DeliveryLoop.stop` does not find a loop whose `start()` awaits its reset, and
  that loop then sends beside its successor; a transaction that outlives its
  cancelled caller may take a row into `sending` with no sender, or reopen one that
  was delivered; a store error ends the loop for good. `reminders` has all three, and
  bounds the duplicates with them; `SendingIsClaimed`, `TerminalIsFinal` and
  `EventuallySettled` say nothing once one of them has happened (`orderly`).
* `run_now` writes the next occurrence after its own start when it ends, over an
  occurrence that fired meanwhile: `FiresOnce` leaves out rows that it wrote.
* `RuntimeFollowsConfig` is for configs that declare no tool the Runtime injects:
  the trees of `chat` declare none, and the theorem says `NoneIsDeclared`. If one
  declares `complete_step` beside a plan resolver and an edit drops the
  declaration, the tool goes with it, and nothing injects it again while the
  pipeline stays: the two are no "feature unit" until the next start.
* In Zulip a task that is stopped while it waits for the old reminder loop to end
  swallows the cancellation (`_sync_reminders`, "except CancelledError: pass") and
  goes on, while `_stop_topic` has already forgotten the topic's chain: a message
  sent after the `!stop` runs beside it, and its answer may come first, although
  "follow-ups in one topic keep their order" (`zulip/interface.py:806`).
  `AnswersInOrder` therefore says nothing of two answers with such a stop between
  their messages. It takes four events, one more than `chat` allows Zulip.
* A faulty read of the archive lets turn numbers repeat: `TurnsAreFresh` and
  `ArchiveReadsBack` leave those places out (`forked`), as `StatementsReachTheLedger`
  leaves out consolidations that failed. Two corrections of turns with one number
  may then replace the same record, so `CorrectionsDoNotFork` leaves them out too;
  its other part, that a correction replaces an earlier record of its own
  subject, holds there as well.
* The module says that a correction "names the current record id of its subject"
  (`consolidation.py:31-32`). Where neither the ledger nor the cache knows the
  subject, `_subject_current_id` looks for a subject whose name begins like it and
  returns that subject, not the record's id (`consolidation.py:835-839`). A
  correction that matches nothing is about "subject-correction-" and a digest; once
  a claim is named "subject-correction", each such correction has
  "subject-correction" in its `supersedes`, which is no record's id and supersedes
  nothing. `continuity` reaches this (the second word of its texts is that name),
  and `CorrectionsDoNotFork` excepts exactly these (`NamesSubject`).
* `_run_verify` says that on a time limit or a cancellation the whole group is
  killed, "so verify children cannot outlive the tool call"
  (`complete_step.py:264-266`). A cancellation in `await create_subprocess_shell`
  (`:260`) is raised before the `try` that kills: asyncio's own clean-up kills the
  shell, and a child it has started by then goes on. `Planning` has the cancellation
  at that await and claims nothing of the processes; `CallsReturn` is about the
  calls.

### Behaviour of the code met while modelling

Each of these is modelled as it is where it falls into a module.

*sr2.* The generated sources of a summary; ids that are the hash of a content are
shared by all sessions, and links are added to a row that was there first; a
resolver's row with links cannot be read. Memory extraction saves nothing from a
streamed answer, since iterating it yields its fields. Degradation shapes no
request: the ladder steps down when a turn ends, after its requests were
compiled, and the next turn resets it. A suppression is undone by a correction that
supersedes it; a correction may match what the assistant repeated rather than
what the user said; the consolidator's cache keeps records whose append failed.
`end_turn` runs the session resolver again. Truncation by count can part a result
from its call. `CompactionTransformer` fails on messages, and a summary of them
is made of the text "[Message]". Compaction rules, the degradation controller,
the fallback provider, suppression events and `FrameRouter` have no caller under
`src`. The in-memory store lists sessions of one time in another order than
SQLite.

*Sessions and interfaces.* Two REPLs started within a second share a key, and
`/resume` can give a key two writers; an explicit session id that ends in
"-default" is replaced; after a takeover an index selects from a new order;
`/load` fails. Discord routes every channel through one agent and stamps the area
before the lock is held; queued messages are twice or out of order in a prompt;
a run cancelled before it starts adds an answer without a message;
`_finalize_cancelled` writes on the channel's current placeholder; a command in a
channel with automatic threads acts on the new thread; leftover events of a
hand-off go into the next turn. A stop that arrives in `_sync_reminders` is
swallowed. A message after "!stop" in one batch is cancelled with the rest. A
probe that fails, answered with an error, makes a topic look populated for ever.
A time zone that does not parse kills the Zulip poller and direct mode's loop. In
direct mode a model error has no answer. Only Discord runs schedules, whoever
made them. A scheduled command that times out or is cancelled leaves its
children.

*Runtime and configuration.* An edit applied while a skill file cannot be read
shrinks the catalog, and the unchanged signature never restores it; skills of a
removed directory stay. A tool whose new form does
not construct is gone, although CONFIG-REFERENCE.md says that "the previous
registration (if any) stays". A broken
schedules block re-seats the reminders at each message. An agent file that is also
a tier file keeps the lower place, although "wins over all"; named lists cannot
be shrunk; a tier that extends another applies it again over what came between;
relative resolver paths belong to the agent's directory whichever file has them.

*Planning.* The frame a completed step closes is spelled by directory and number,
the one its blocks carry by slug and name: nothing is burned; the transformer
would raise on the first message if it were. More than one open plan, or a
resolver removed under a turn, makes turns raise. The status is not read again
after the verify command. A file that became malformed is reported complete. A
failed write of findings leaves a completed task without them, and an unreadable
file is overwritten. The layer of findings is more protected than the current
task.

*Model calls.* Chunks of tool calls do not reset the stall timer. Cutting the
context in a tool loop drops the question of the turn itself. A message with
results loses its text. The call limit is per attempt. A cancelled completion is
logged as an error of the model.

## 4. What is proved

The theorems hold for every value of the constants that the modules' assumptions
allow (types, and finiteness where something is counted); where a theorem assumes
more, the table says so.

| module | theorem | property |
|---|---|---|
| `TurnLoopProofs` | `CountStaysBelow` | a closed breaker's count is below the threshold after any operation |
| | `TypeCorrect` | `TypeOK` |
| | `BreakerCorrect` | `BreakerCountsFailures` |
| | `TurnIsBounded` | `BoundedTurn` |
| | `OwnTurnConsolidated` | `ConsolidatesOwnTurn` |
| | `TurnsProcessed` | `EveryTurnProcessed`, assuming `~CancelAtBarrier` |
| | `ProcessedBeforeNextTurn` | `PostProcessBeforeNextTurn`, assuming `~CancelAtBarrier` |
| | `ShownAnswersAreKept` | `AnswerIsCaptured` |
| | `HistoryStaysPaired` | `PairedHistory` |
| | `StreamKeepsContract` | `KeepsContract`: `TurnLoop` implements `TurnContract` |
| `RepeatGuardProofs` | `TypeCorrect` | `TypeOK` |
| | `CountersFollowLog` | `CountersMatchLog`, assuming `~MixedMessages` |
| | `NotesTellTheTruth` | `NotesAreTruthful`, assuming `~MixedMessages` |
| `RemindersProofs` | `TypeCorrect` | `TypeOK` |
| | `NoneIsDeliveredUnsent` | `DeliveredWasSent` |
| | `DuplicatesAreExplained` | `BoundedDuplicates` |
| | `SendersHaveClaims` | `SendingIsClaimed` (while `orderly`) |
| | `TerminalStays` | `TerminalIsFinal` (while `orderly`) |
| `SchedulesProofs` | `TypeCorrect` | `TypeOK` |
| | `ClaimsAreServed` | `ClaimsHaveRunners` |
| | `OccurrencesFireOnce` | `FiresOnce` |
| `PlanningProofs` | `StepsAreCompletedOnce` | `StepsCompleteOnce` |
| | `PromptAlwaysFits` | `PromptFits` |
| `ModelCallProofs` | `TypeCorrect` | `TypeOK` |
| | `AnswersAreWhole` | `AttemptIsWhole` |
| | `CutsKeepPairs` | `RequestStaysPaired` |
| | `LogKeepsStep` | `LogFollowsCall` |
| `ConversationProofs` | `Inductive` | the inductive invariant `IInv` |
| | `ArchiveReadsBackAlways` | `ArchiveReadsBack` |
| | `StatementsAlwaysReachTheLedger` | `StatementsReachTheLedger` |
| | `CorrectionsNeverFork` | `CorrectionsDoNotFork` |
| | `TheForgottenStayForgotten` | `ForgottenStaysForgotten` |
| `ChatProofs` | `RuntimeIsInForce` | `RuntimeFollowsConfig`, assuming `NoneIsDeclared` |
| | `ConfigStaysWhole` | `ConfigIsWhole`, of `FilesDecide` |
| | `AnswersAreFinal` | `AnswersStay` |
| | `AnswersComeInOrder` | `AnswersInOrder` |
| | `ConversationsAreApart` | `ConversationsStayApart` |
| | `TurnsAreAlwaysFresh` | `TurnsAreFresh` |

`~CancelAtBarrier`, `~MixedMessages` and `NoneIsDeclared` are the
conditions of the runs that check the same properties; outside of them the code
does something else ("Where the passing runs stop").

**Turn loop.** `TypeOK` is not inductive: `turnSeq' = turnSeq + 1` stays in
`TurnIds` only because turns started are at most turns called (`SeqInv`),
`loc.iter + 1` stays in range only because a tool reply is executed below the
limit (`IterInv`), and the breaker's and the streak's ranges depend on each other
(`BreakerInv`). Over `TypeInv`:

* `BoundInv`: tool runs are at most the iterations completed, plus one where the
  tools have been run; LLM calls are at most the iterations plus one for each of
  the retry and the forced answer used.
* `TaskInv`: a task that has not read its turn yet was scheduled by the turn the
  archivist still stands at, which is what the barrier is for. `JoinInv`: a
  finalized turn is processed or its task is in `_pp_task`, and past the barrier
  there is none but the turn's own.
* `StreamInv`: which events have been yielded at each `pc`, whence each action is
  a step of `TurnContract` or leaves its phase and its events as they are.
* `AnswerInv`: an answer on its way to the user is the end of `hist` and its turn
  is finalized, so that no cancellation can drop what is shown.
* `HistoryInv`: what is buffered and what the resolver has taken are one paired
  sequence (`PairedIn`), and of the current turn it holds only messages of
  iterations that are over (`CurrentIn`), so that none comes twice.

**Repeat guard.** The counters are inductive with what is known of the message
at hand: results the guard has not come to are the real ones (`MessageInv`), the
guard remembers the last call with its own result (`PrevInv`), and a run at its
limits has stopped the turn or is about to (`LimitInv`).

**Reminders.** `AcceptedInv`: a loop that is marking, and a late transaction that
will, had the platform's acceptance. `CreditInv`: acceptances and the senders on
their way are paid for by cuts, recorded failures, and one for a row that is
held; a loop that vanishes moves its sender from one side to the other.
`OrderInv`: while `orderly` no transaction is late, an active loop is its interface's
own, and it has claimed what it sends.

**Schedules.** Where no engine was let go of while it started (`AloneInv`): the
interface's engine is the only one, a pass has its time behind it, and a row waits
for a time after its last occurrence and behind the pass, so that a row on a
stale list is still due when it is claimed.

**Planning.** `FilesInv` counts flips against the times a task became pending, for any number
of completions that verify at once. For `PromptAlwaysFits` the shown layers are
looked at by rank: the rank of a layer is the number of layers dropped before it,
so what is left after `n` drops is the layers of rank `n` or more, in the order
offered (`RankFacts`, `KeptFacts`, `RestFacts`); the size of distinct layers is a
sum over the five there can be, which knows no order (`CharsAre`); and the least
number of drops that is enough gives what `LayerBudget` promises (`AllocateFits`).

**Model call.** A cut of a cut is a cut: `CutKeeps` shows that cutting keeps the
system prompt, an end that begins with no result, and hence every pair, and the
invariant carries it through rejections and retries. Folds and `Min` over the
request are reached by the least number principle.

**Conversation.** Six parts, each proved over the ones before: where in a turn the
run stands and what it still writes (`ControlInv`), types (`TypeInv`), the order
of the archive, whose newest entries are those of the turn (`OrderInv`), what the
consolidator's cache knows before the ledger does (`CacheInv`), unique ids that
tell which entry a record comes from (`LedgerInv`), and what was owed and is there
(`FactsInv`). That a statement is never refused rests on all of them: the ids of a
turn's records name its entries, the entries are new because turn numbers are, and
the cache names only turns that are over. What a record supersedes is `Sound`:
an earlier record of its subject, or for a correction that begins a subject the
name of one, which is no record's id, whence `CorrectionsNeverFork`. `TheForgottenStayForgotten` compares
two states: a step only adds to the end of the ledger, a record added lifts a
suppression only when it replaces it, and the views are functions of the ledger.

**Chat.** What the Runtime must have in common with its config is stated for every
point of a reload (`RuntimeParts`), since a block that raises ends it half way with
the earlier parts applied: a seat moves only together with its stamp
(`SeatsMove`), so a delivery loop that saw the stamp serves the seat, and a
session is told of the new pipeline in the same step that puts it in force. The
four interfaces then have to show for each of their actions only that a Session is
opened, changed by one of the operations of `Session`, or told. For
`AnswersAreFinal` each call is looked at by itself (`CallOk`): no edit is pending
while its answer is being delivered or stands, so the code that drops a pending
edit before it delivers is what the property rests on. For `AnswersComeInOrder`
the chain of a topic is stated for every pair of its tasks (`ChainInv`): of two
with no replied stop between them the earlier one (`Ahead`) is over before the
later one runs, and the later one's place in the chain, or the tail it will find
(`TailInv`), leads back to it; a stop goes before the messages after it
(`StopInv`), so that one that swallowed it is no longer ahead of them. In direct
mode the loop has one message in hand, before all that it has admitted
(`HandOrder`).

For `ConversationsAreApart` (over the invariant of the last one, `Ordered`) a
history, a Session's or a Discord channel's, holds only messages that have their
place for good (`Placed`, past the steps in `Early`, of which one may still give a
message a thread of its own); a Session's queue names turns of that Session, each
once, and who is past `"waiting"` comes first in it (`QueueOk`, `TurnApart`), so
that `RemoveFirst` by a turn that leaves, from wherever it stands, gives the lock
to nobody who did not wait for it (`QueueWithout`); an archive holds entries of its
place, so what `load_resumable_history` makes of it does too (`ResumedHistory`); and
a Session's hand-off has a caller that is `"handing"` or `"closing"` there. Each
interface adds what makes it open or choose the right Session: in Zulip the one a
topic owns is its own, and one yet to be adopted is its task's alone (`ZulipApart`);
in direct mode there is one peer, and the Session of the moment is the peer's
(`DirectApart`); in the REPL whatever runs has the Session of the moment
(`ReplApart`); in Discord the lock of the agent is a queue like a Session's
(`DiscordApart`). A step of an interface is then one of a few: calls move that no
Session knows of (`TalksStay`), a Session is opened (`TalkOpens`), a turn queues
(`TurnEnters`), or it goes on (`TurnApartStep`).

`TurnsAreAlwaysFresh` stands over that invariant. A Session in use is the one its
topic owns, or the one the process has (`Used`), and there is one per place
(`UseInv`). Once it is `ready`, that is has continued the archive, no entry of its
place has a higher turn than its own, and of the turn that runs the archive has
the question at most (`NumbersInv`). What the numbers rest on is that a Session
that comes into use, and an SR2 that was rebuilt, is not `ready` and so continues
the archive before its first turn (`UseGoes`); a place where that read failed is in
`forked` and nothing is promised of it.

`ConfigStaysWhole` needs none of this and no assumption: every operation between
`reload()` and the end of `apply_config` keeps `source` and `config` (`PartsKept`),
so the config in force changes in the one assignment at the end, after whatever
could raise, and only to one that was loaded (`ApplyWhole`, `WholeStep`).

Induction over the data of a model, which the prover has no rule for, is replaced
throughout by `LeastExists`: a set of numbers that is not empty has a least
element (from the well-foundedness of `<`), so the first position where something
fails would have to follow one where it holds.

An update of several fields of one entry is written as one nested `EXCEPT`
(`[calls EXCEPT ![m] = [@ EXCEPT !.pc = "done", !.edit = FALSE]]`), in the modules
as in the proofs: several updates at the same index in one `EXCEPT` mean the same,
but the prover's encoding of them is not to be relied on.

**Only model-checked.**

* Liveness under fairness (`TurnReturns`, `LoopSettles`, `CallsReturn`, `CallsEnd`,
  `EventuallySettled`, `EventuallyServed`), which is outside what the prover
  supports.
* `RequestIsRecent`, which is about the layers as the run configures them and not
  about every list of layers, through folds and filters over a layer's resolvers
  (`SelectSeq`), which the prover does not expand.
* Of `FilesDecide` all but `ConfigIsWhole`: it is about functions of the files
  alone, folds and filters over the tiers of a tree, the claims of a library and
  their orders.
* The findings, which are counterexamples.

## 5. What is not modelled, and the plan

Not modelled:

* The continuity indexes (vectors and graphs) are numeric ranking; the
  validation of SR2's configuration and its plugin registry are static.
* Rendering: the TUI, the terminal, chunking and formatting of messages,
  attachments, notices; parsing of times, cron expressions and destinations.
* Tools that only read or write files, MCP servers, workspace roots.
* Code without a caller under `src`: compaction rules, `DegradationController`,
  `FallbackProvider`, `FrameRouter` and `dispatch`, suppression events other than
  the one `continuity` appends; and two planning parts that cannot work as wired
  (the working-set resolver, whose dependency is never supplied, and the burning
  of steps beyond its first failure).
* The evaluation harnesses, migrations and scripts.

What the plan has left:

1. A store whose writes take a lock, to show `RejectedLeavesNothing` for it.
2. The functions behind `FilesDecide` and `RequestIsRecent` by recursion on the
   length of a sequence, once there are lemmas about `SelectSeq` and the folds that
   the prover can use.

`PROJECT.json` lists every hazard found in the code with the properties that
cover it, or why none does.
