# DeepX: a verification project

DeepX is a coding agent. A daemon (`src/crates/deepx-daemon`) hosts the runtime
(`deepx-runtime`): it keeps sessions ("seeds"), spawns one worker process per
active session (`deepx-msglp`, the agent loop), and serves clients over local
HTTP and server-sent events. Shells (`apps/winui`) use the client library
(`deepx-client`). Two kinds of ordered data flow from a worker to a client:

* the **timeline**: the transcript of one seed, as turns, rounds and blocks that
  are opened, extended and sealed by numbered entries; it is persistent;
* the **event channels** (conversation, tool, control): events of a
  seed, some of them reliable (journalled and replayed), some not.

The modules here describe what happens to these when threads interleave, processes
die, connections break and leases run out; how a command gets to a worker once; what the
worker does with a turn, from the stream of the model provider to the tools it runs and the
files it keeps; and how an installation is replaced by the next one.

## Inventory

| component | code | state | operations | what is hard |
|---|---|---|---|---|
| Timeline appender | `deepx-runtime/src/timeline.rs`, `deepx-domain/src/timeline.rs` | transcript, `next_seq`, journal, fragment counters, per seed | one per intent: open turn, open block, append text, replace or extend a tool, seal block, round, turn | turn ids come back after a worker restart; seals in any order; updates of blocks that are already sealed |
| Timeline persistence | `ringing/hub.rs` 258–880, `timeline_store.rs` | pending set, saver channel, store lock, record on disk | publish, request checkpoint, checkpoint at a seal, load, seal orphans, flush at a stop | four threads write one record; crash anywhere; pruned journal; numbers may not be given out twice |
| Worker lifecycle | `registry.rs`, `worker.rs`, `workspace_supervisor.rs`, `activity.rs` | instance per seed, back-off, activity | spawn, respawn, shut down, stop if idle | a worker dies with a turn open; a command races the stop |
| Timeline stream | `ringing_http.rs` (`handle_timeline_sse`, `RingingLeaseStore`), `deepx-client/src/timeline.rs` | broadcast receiver, `Last-Event-ID`, cursor, lease, attached seeds | subscribe, replay, live, gap recovery, renew, renegotiate | replay overlaps live delivery; lagging receivers; restart reuses numbers |
| Shell recovery | `apps/winui/src/bridge.rs`, `deepx-client/src/client.rs` | client object, active seed, stall timers | connect, attach, activate, detect a stall, rebuild | one failed step of the rebuild |
| Event channels | `ringing/hub.rs` 960–1180, `sequencer.rs`, `journal.rs`, `journal_store.rs`, `router.rs`, `deepx-client/src/sse.rs` | stream and event counters, journal per channel, subscribers | publish, fan out, replay since, load lazily, compact | numbering outside the lock; eviction; sequence numbers after a restart |
| Snapshot projection | `ringing/projection.rs`, `hub.rs` 656–757, `ringing_http.rs` 1789–1835 | active turn, running tools, pending permission and interaction | fold an event, seal orphaned channel state | who decides that a turn is an orphan |
| Commands | `ringing_http.rs` 110–375, 1172–, `service.rs` | pending commands, receipts by idempotency key, leases | submit, dedupe, complete, expire | retry of a command whose answer was lost |
| Agent loop | `deepx-msglp/src/ringing_v1` | phase of the turn, tool calls, queue of inputs, goal, context | input, model stream, tool calls, permissions, cancel, compact | input that arrives during a turn; cancellation between two awaits |
| Message store, sessions | `deepx-message/src/store.rs`, `deepx-session/src/manager.rs` | messages and rounds of a session, on disk | append, truncate, compact, recover | assistant tool calls and their results must stay paired over a crash |
| Content store | `ringing/content_store.rs` | blobs by hash with an owner, bytes used | put, get, evict | the same bytes put by two seeds |
| Updates | `deepx-update`, `apps/installer`, `apps/updater` | installed files, one kept copy of each, install-state.json, the staged operation | plan, stage, apply, wait for the health receipt, commit, roll back, recover | a process killed between two file operations; an operation that fails for good; a plan older than what is installed |
| Model providers | `deepx-gate`, the lap in `engine_turn.rs` | what a stream has accumulated, the blocks shown of it | post, retry, read an event, cancel, end | text, calls as fragments, calls as items and calls as markup in one answer, cut anywhere |
| File tools | `deepx-workspace/src/file_*.rs` | the ledger of what a tool saw last, shared by all agents of a service; the file | read, edit, write, delete, patch | others change the file between two calls and inside one; the ledger moves without the caller |
| Workspace service, process table | `serve.rs`, `backend.rs`, `exec.rs`, `process_registry.rs`, `process_inspect.rs`, `workspace_supervisor.rs` | queue of calls, session and workspace of the service, table of children, pending ledger changes | execute, hand over a long command, check, kill, cancel, replace the service | calls of several agents, a process call beside the worker, time limits, a service that dies, or outlives its wsl.exe |
| Sub-agents | `deepx-subagent`, `agent_progress.rs` | handles, reports | spawn, report | not modelled |
| Skills, configuration | `deepx-skills`, `deepx-config` | files | load, save | data conversion and I/O: not modelled |
| Views, markdown, Fluent | `apps/winui`, `markdown-*`, `deepx-fluent` | widgets | render | presentation: not modelled |

What makes each part correct:

* **appender**: seals nest (sealed turn ⇒ sealed rounds ⇒ sealed blocks), nothing
  changes a sealed block, orders and numbers have no holes, replaying the journal
  gives the materialized transcript;
* **persistence**: a seal a client may have seen survives every crash, no
  streamed entry is forgotten by the saver, numbers are unique within a run of the
  daemon and increase across runs, no turn stays running without a worker;
* **stream and shell**: the listener has been told exactly the log up to the
  cursor, once and in order, and catches up after any failure;
* **channels**: a reliable event is delivered once and in order or the client is
  told to start over; a replay never shows an old run's events as new;
* **projection**: the snapshot agrees with the events, live work is not declared dead, a
  prompt of a worker reaches the user;
* **commands**: one effect per idempotency key, an answer for every command;
* **agent loop**: every tool call gets exactly one result, a tool runs once and only if it
  was approved, every turn ends, an interrupt is heard;
* **message store**: what a process finds after a crash is what its predecessor had saved, with
  an answer for every call and numbers that nobody else used;
* **updates**: what is recorded as installed is installed, no file is lost, a rollback restores;
* **gate**: the message that is kept is the one that was shown, with the calls that were sent;
* **file tools**: an edit changes what it names, on a text its caller knew;
* **workspace service**: a call runs at most once, in the workspace of its agent, and the table
  of children tells the truth.

## Modules

| module | models | state and actions |
|---|---|---|
| `TimelineAppender` | `TimelineAppender` of timeline.rs | the nested vectors are three maps (`turns`, `rounds`, `blocks`) keyed by identity; one action per intent (`OpenTurn`, `OpenBlock`, `AppendText`, `ReplaceTool`, `AppendToolProgress`, `SealBlock`, `SealRound`, `SealTurn`); a rejected intent is no step. Text is the number of its fragments. |
| `TimelineReplay` | the reader of timeline entries | `Reduce` applies one entry to a view: the reference definition the appender's own transcript is compared with |
| `TimelinePersistence` | hub.rs, timeline_store.rs, registry.rs | extends the appender with the reader, saver, loader and stopper threads as program counters, the pending flag, the saver's channel, the record on disk, worker death, spawn, load, the stop and the end of the process |
| `EpochLog` | what a client may rely on | a log whose entries remember the run of the daemon that wrote them and a number up to which they are acknowledged; a restart cuts the log no lower than that |
| `TimelineStream` | ringing_http.rs, deepx-client, bridge.rs | the log of `EpochLog` followed by one shell: broadcast receiver, replay, live delivery, gaps, leases, the watchdog and the rebuild |
| `TimelinePersistenceProofs`, `TimelineStreamProofs`, `EventChannelProofs`, `CommandReceiptsProofs`, `WorkspaceServeProofs`, `AgentLoopProofs`, `SessionProjectionProofs`, `FilesProofs` | – | theorems and their proofs, each about the module it is named for; those about the appender are in `TimelinePersistenceProofs`, those about the abstract log in `TimelineStreamProofs`, those about `FileTools`, `MessageStore` and `UpdateApply` in `FilesProofs`, those about `GateStream` in `AgentLoopProofs` |
| `EventChannel` | hub.rs, sequencer.rs, journal.rs, router.rs, `handle_sse`, sse.rs | one counter for all seeds, a journal and a replaceable slot per seed, one connection (`Subscribe`, `Replay`, `ServeLive`) and the client's cursor. `DrawNumber` and the publication are two actions because the code takes the channels lock between them. `owed` is a ghost: the reliable events the client has not read yet |
| `AgentLoop` | deepx-msglp `ringing_v1` | one worker: the reader thread (`Receive`, `Forward`) with the cancel flag it raises ahead of the queue, the main loop as a program counter (`idle`, `lap`, `gate`, `tools`, `stopped`), the tool threads of a round, the suspended turn, the permissions being asked, a compaction in the background. One action per handler and per step of a lap between two reads of the flag |
| `TurnHistory` | deepx-message store.rs, in memory | the conversation as a value: turns, steps, calls, answers; one operator per operation of the store |
| `CommandReceipts` | ringing_http.rs (`PendingCommandStore`, `RingingLeaseStore`, `handle_command`), the observers of server.rs, registry.rs `send_ringing` | the receipts in memory and on disk, sessions and leases, the requests in the daemon as tasks (`Post`, receipt, dispatch, settle), the worker with its pipe, one bus per channel to the observers. Time is the order of acceptance: receipts up to `horizon` have expired |
| `SessionProjection` | registry.rs, activity.rs, projection.rs, the bootstrap of ringing_http.rs, the panel of bridge.rs | the worker and its two pipes, the reader thread (publish, then observe), the registry's lock from the death of a worker to the next command, the snapshot, the activity, the wire to the shell and `InteractionMachine` |
| `MessageStore` | deepx-message store.rs, deepx-session, lifecycle.rs | `TurnHistory` with its files: archive, compact context, meta.json, index lock. `io` is the list of file operations the agent still has to do; it may die between any two. The next process reads back what is there |
| `UpdateApply` | deepx-update, installer, updater | the installed file, its kept copy, install-state.json, pending.json. `work` is the list of file operations a process still has to do; each may be the last, or fail for good |
| `EditEngine` | file_edit.rs | how one edit operation finds its place in a file and what the file is afterwards: pure operators on sequences of lines |
| `FileTools` | the tools on one file, file_state.rs | `EditEngine` under the ledger: a tool reads, decides, and changes the file in a later step; others change it in between (`Foreign`). The ledger is shared: other agents of the service change file and ledger (`FellowWrites`), and a read may move the ledger without telling this caller (`ReadUntold`: another agent's, or one of several items of a request that fails later), or tell it and move nothing (`ReadNotModified`). `told` is what the caller was told last, `told.apart` that the ledger has left it. A file with mixed newlines has two views, that of `read` (`ReadView`) and that of the other tools |
| `WorkspaceServe` | serve.rs, backend.rs, exec.rs, the process table, workspace_supervisor.rs | agents and their calls by phase, for each service its queue, its session and workspace, its pending ledger changes and its table of children, with each child itself and its reader thread; the supervisor as a program counter. The service (`alive`) and the daemon's child (`clients`) are two things: in WSL mode the child is wsl.exe, and ending it (`ClientEnds`, `StartFails`, `Stop`) leaves the service. A command is started and entered (`Exec`) and can be reached only after `AttachChild` |
| `GateStream` | deepx-gate openai.rs, responses.rs, tool_parser.rs, the lap of engine_turn.rs | what the provider sent as pieces, what the gate has accumulated, what the lap shows. One action per event of the stream and per way it can end |
| `MCTimelineAppender`, `MCEventChannel`, `MCCommandReceipts` | – | the symmetries and payloads of the runs |
| `MCUpdateApply`, `MCFileTools`, `MCWorkspaceServe` | – | releases and their files; texts and edit operations; owners and kinds of calls |

`TimelinePersistence` EXTENDS the appender (its threads take the appender's own
actions) and implements `EpochLog` (`ImplementsEpochLog`). `TimelineStream` EXTENDS
`EpochLog`: the daemon seen from a client is the abstract log plus the journal in
memory and the broadcast. The stream is thus checked against everything the
persistence layer may do, without its threads.

`AgentLoop` EXTENDS `TurnHistory`, and its variable `timeline` is what its own
`TurnOpened` and `TurnSealed` intents leave of a turn, the input of `TimelineAppender`.
`MessageStore` EXTENDS `TurnHistory` as well: the loop is checked on a history without files, the
files on a history without a loop. `FileTools` EXTENDS `EditEngine`. `CommandReceipts`,
`SessionProjection` and `WorkspaceServe` each have the worker as far as their part of the daemon
sees it; `GateStream` is the one model request that `AgentLoop` takes in one step.

Facts of the code shaped the models. `ensure_timeline_loaded` seals the turns
left running in the same critical section that makes the seed visible, so `Load`
is one action. A daemon draws its port, token and epoch when it starts
(server.rs 29–33), so one client object never sees two epochs: the branch of
`connect_once` that starts again from zero when the epoch changes is unreachable,
and recovery from a restart is the rebuild by the shell.
In the agent loop the two flags of an interrupt (the loop's token and the one tools read)
are set together and cleared together and are one variable, and `poll_interrupts`, which
would refuse commands while a turn runs, has no caller: commands wait in the queue.

## Runs

| run | question | instance |
|---|---|---|
| `appender` | do all orders of intents, valid or not, keep the transcript well formed, also when a turn id is used again? | one turn, two blocks, two rounds, one tool call, 7 entries |
| `persistence` | do the threads that write one record break the abstract log? does every entry reach the disk, every orphan get sealed? | one turn, one block, 4 entries, two runs of the daemon |
| `stream` | is what the listener was told the log, once and in order, and does it catch up? | 3 entries, 2 runs of the daemon, one fault of each kind but a failed restore, a receiver of capacity 1 |
| `events` | does every reliable event reach the client or a reset does, once per connection, and can a replay show the checkpoint of a finished round? | two seeds, 4 stream numbers, journal of 2, receiver of 2, one broken connection, one event of an earlier run per seed |
| `agent` | is the model only ever asked about calls that have answers, does no tool run twice or unasked, is an interrupt heard and does it end the turn it hits? | two user messages, four commands of any kind, two calls, one round of calls per turn |
| `receipts` | is an id run at most once while its receipt is young, and does every receipt without a result have one coming? | a message, a close and a resume with retries, two requests at a time, two receipts kept of three, two sessions, two faults |
| `session` | is a turn seen as work, does the registry seal only what a dead worker left, do prompts reach the shell, does the turn of a dead worker end? | one permission and two questions, two turns, two clicks, one death or failed spawn, pipe and wire of one event |
| `store` | does a process find what its predecessor had, answered, with fresh numbers, and is what was shown as sent in the archive? | three turns, two calls, two crashes, one compaction, one undo |
| `update` | is what is committed installed, do plans keep the protocols compatible, is no file lost, does a rollback restore? | four releases, one installation, two staged updates, two crashes or failures, one rollback command |
| `files` | does an edit change only what it names, on a text its caller knew, and is no call refused without reason? | two calls, two changes by others, one restart, 23 kinds of operations on three texts, one with a blank last line and one with mixed newlines |
| `serve` | does a call run once and in its workspace, does the table of children tell the truth, is the service current? | two agents with one call each, two services, one crash, one restart or cancel, a queue of one; in local mode, in WSL mode, and in local mode beside what a failed WSL attempt left |
| `gate` | is the message that is kept what was shown, are its calls those that were sent, can the round be sealed? | two tool names, two fragments per call, two posts, five pieces, two calls of each kind |

All of them pass. Each property is also known to fail under a plausible change of the code
(the `mutants` in `PROJECT.json`), so each bound is large enough for its case to occur.
Each module also defines its type invariant (`TypeOK` and the like); those of the appender, the
abstract log and the stream are theorems, those of the receipts, the workspace service and the agent loop
follow from the `Shapes` of their proofs, the others can be put into a cfg. `NothingSlipsBehind`,
`OncePerConnection` and `StreamingFragmentsContiguous` are named parts of properties that are listed.

`TimelinePersistence` and `TimelineStream` have a switch for each of three causes that are known to
break a property (`CrashInReplace`, `SpawnAfterStop`, `FaultKinds`), so that a
run shows what holds apart from them. The runs set `CrashInReplace` to FALSE, leave
`"restore"` out of `FaultKinds`, and set `SpawnAfterStop` to what the code does. What
happens otherwise is described under "Divergences".

**Bounds.** All constants named `Max...` stop counters;
each stands in the guard of the actions it limits. Text, progress and permissions
are counted, not stored. The values were chosen by the shortest history that
breaks each property under a plausible change of the code (the `mutants`), plus
room. Two runs of the daemon are enough for a number to be given out again; three
entries are enough for one that is acknowledged, one that a crash takes back and
one that takes its number; capacity 1 makes every second undelivered entry lag.

The code's limits are 8192 journal entries and 1024 undelivered events per receiver; with 2
and 2 every third event of a seed evicts one and every third undelivered event lags. Four
numbers and two seeds give an eviction, a folded round and two workers that overtake each
other in one behaviour; the seeds are interchangeable and the run checks invariants only, so
symmetry over them is sound. `EventChannel` is narrowed in five places:

* an event published after a larger number is exempt from `NothingSlipsBehind`
  (it is marked `late`), and so is one whose number a history has that is read into memory
  later: a cursor may have passed either. Without the exemptions the property is violated;
* what is published before the first replay of a client without a cursor is not in the ledger `owed`:
  the replay leaves reliable events to the bootstrap, and its checkpoints may pass those that come
  live (see "Divergences");
* `BreakMidReplay` is FALSE: a connection does not break between the events of a replay
  and the resets behind them. With TRUE, `NothingSlipsBehind` is violated: the events move
  the cursor, and the next replay is no longer refused. The hazard is listed;
* a client that breaks off before its first event comes back without a cursor. By the
  design stated in `replay_channel_since`, the bootstrap gives it what it missed, so the
  ledger `owed` is cleared;
* of an earlier run only reliable, completed rounds are kept.

`AgentLoop`: two turns and three commands are the shortest way to a message, a
message that supersedes a suspended turn, and a late permission; the fourth lets a cancel,
an undo or a compaction meet them. Two calls give a parallel and a serial one, or a
permission and a call that waits with it. One round of calls per turn is enough for a
round after a resumed suspension. Calls have numbers of their own, as the
models give their calls ids; the order of a round is the order of the numbers. A tool that
is running is not cut off in the middle: it read the flag or it did not.

`CommandReceipts`: two receipts of three make every third one evict another; two sessions are the
shortest way to a post under a lease that was replaced. The requests are interchangeable and the
properties are invariants, so symmetry over them is sound. The two faults may be any of: the worker
dies, the daemon restarts, a lease runs out. `AtMostOnce` counts only what was run under a receipt that has neither
expired nor been evicted: forgetting those is what the code says it does. `ResultIsComing` excepts
the ids in `lost`, each put there by one action that is named in the module (a death, a restart, an
observer that was overrun, a turn that was suspended), and those in `evicted`: a request whose receipt
was evicted settles the receipt that a retry of the same id has made since. The run is too small for
that; the proof met it.

`SessionProjection`: pipe and wire of one event make every writer wait for its reader. One
permission and two questions give a round that waits for two answers of different kinds, and a
second question after it. `PromptsReachTheShell` excepts the prompts in `swept`.

`MessageStore`: three turns are one that is compacted, one that is kept and one that is opened
after a restart; two crashes let a process die on what another one had half written. A write is whole or absent.

`UpdateApply`: of the four releases one changes the frontend alone and adds a file to it, one changes both
sides of the protocol, one leaves the frontend out. Two troubles are a killed apply and a
failure in the apply that follows. `RestoresWhenUndone` is about a run that began without
older kept copies (`CleanEntry`). `ProtocolsAgree` is about plans that are still true of the side they do not replace
(`OtherSidesSpeakAsPlanned`): whatever else was installed, rolled back or applied since the plan was made, that side must speak the protocol
it spoke then. Without this premise the property is violated, see "Divergences".

`FileTools`: the 23 operations are one for each way of naming a place (line numbers, text, lines,
anchors, regular expression, loose match, line numbers with an empty or blank text) and each of its error paths; the texts hold equal lines, a line that
agrees only when trimmed and one only when folded, a blank line at the end, and a lone CR. Two calls and two foreign changes give
told – changed – edited – changed again. Three exceptions are stated in the properties, each with what the code does under "Divergences":
where the ledger has left the caller (`told.apart`), a call without a hash is decided on a text its caller may not have seen, and may be refused; a file with mixed newlines
may be refused although nobody changed it; and an edit that carries an empty hash or a blank text is not checked at all. With the hash the caller was told,
`DecidesOnWhatWasTold` has no exception. An operation that replaces all or matches by an expression is given a text to
replace (`EditsAssumption`), and its lines are counted from 1.

`WorkspaceServe`: an edit or a long command of one agent beside an edit or a process call of the other are what
the service can confuse; the number in a process call is any, also one the caller was never given. One crash with a supervisor that starts a second service is enough for
an agent with an old endpoint, and in WSL mode for two services with calls in each. An error of the system call that looks for the exit of the child
(`workspace_supervisor.rs:192`), after which the attempt ends without killing it, is not modelled.

`GateStream`: five pieces give two calls whose fragments are mixed, with a text or a reasoning
around them. The provider is assumed to send indices from 0 without gaps, complete markup
outside code fences, items with an id and a name, and events that end in a newline; see "Divergences" for the rest. `RoundCloses` depends on the second and the third:
a block is opened at the first sign of a call, and only a complete one becomes a call.

**Fairness.** Threads of the daemon, the tasks of the client and the periodic
checks (respawn, watchdog) take the steps they can take: weak fairness on each.
In `AgentLoop` the main loop, the reader's second step and the tool threads are fair: a
model request ends or times out, a tool ends, and the compaction inside a lap ends.
`InterruptIsHeard` needs no bound on the rounds the model asks for. Nothing is assumed of a compaction in the
background. In `SessionProjection` the thread that reads a worker is fair, and so is each channel's delivery to the shell, and
the registry: its check runs every 3 seconds (server.rs:133), takes the lock, and finishes
what it does under it. `DeadTurnEnds` follows from these alone.
Nothing is assumed of workers, users, faults, crashes and stops: no fairness.
A request that is refused is retried by a loop, so a failure that would repeat for ever
is modelled by the condition that causes it, and the others are bounded by `MaxFaults`.

Deadlock is not checked in these runs: the bounded counters, a stopped
daemon and a shell that is up to date are legitimate ends.

## Proofs

A run checks a property on one small instance; a theorem holds for every value of the constants. Each
specification has one inductive invariant, `IInv` unless named otherwise, a conjunction of named facts (TLC checked each conjunct on the
instance of the run first), one lemma per action that shows the action preserves it, and the theorems that follow
from it. All that is assumed is what the modules state with `ASSUME`: that bounds and capacities
are natural numbers (`BoundsAssumption`, `BurstAssumption`, `StreamAssumption`,
`ReceiptAssumption`, `AgentAssumption`, `SessionAssumption`, `StoreBounds`), that every call has an owner (`OwnerAssumption`), that the service
is no agent (`ServeIsNoAgent`), that an edit is a list of operations with a flag (`EditsAssumption`), and that the calls which need the user are finitely many, permissions apart from
questions, and "no call" none of them (`SessionAssumption`); and of what the updater is given, that a release names one
catalog whose artifacts agree with it (`CatalogsAssumption`), and that a bundle names a file once and no two components ship the
same file (`PayloadAssumption`, see "Divergences").

`TimelinePersistenceProofs` begins with the appender. For any sets of turns, blocks and tool calls and any
bounds, its specification keeps `AppenderTypeOK`, `SealedOutsideIn`,
`StreamingFragmentsContiguous` and the action property `SealedBlockImmutable`.
None but the first is inductive. `IInv` consists of `TranscriptIsSound`, which the proofs about restarts use
again, and `CountersAreSound`. It adds two facts:
a fragment counter only exists for a block that exists (`CountersHaveBlocks`, without
which reusing a turn id could meet a counter of an earlier life), and the transcript
is finite (`FinitelyManyBlocks`, without which the number of a new round, a
cardinality, means nothing). The seals are the hard part: a round is
opened by its first block, and it must lie in an unsealed turn, which is the guard
of `OpenBlock` and not of the round. `JournalIsTheTranscript` proves that the reader's fold over the journal gives
the appender's own transcript. What a recursive function computes is out of the prover's reach for every
input; here the input grows by one entry per step, so it is enough that the reading of the longer journal is that of the
shorter one followed by the new entry. That two readings of a common prefix agree is shown by the least place at
which they would not.

`TimelinePersistenceProofs` goes on to show that reader, saver, loader and stopper with their crashes and restarts
implement that log (`ImplementsEpochLog`), so that no announced seal is lost or replaced (`AnnouncedSurvivesCrashes`).
Both theorems assume `~CrashInReplace`: it is false of a crash between `remove_file` and `rename`, see
"Divergences". `SealedOutsideIn` and the exclusion of the writers hold of the same system without that assumption.
The invariant, `PInv`, has four parts. `ThreadsInStep`: a thread that is replacing the file is the only one.
`RecordsAreSound`: the transcript in memory, the record on disk and the one replacing it are each well formed, none ahead
of the numbers given out. `NumbersAreTheLog`: once loaded the log is as long as the last number; before,
it is what the disk has, and no thread has anything to write. `AnnouncedIsDurable`: what was announced is on disk, or
in the record that is replacing the one on disk, and no thread holds an older record; the reader announces only what is.
`RecordPlusTailIsTheTranscript` says that at any time, a crash in the middle of a replacement included, the record on disk
and the entries after its number give the transcript in memory.
A burst of seals is bounded because an entry opens at most a round and a block (`FewParts`):
the orphans are owed at most twice as many seals as there were intents, the `MaxBurst` of the refinement.

`TimelineStreamProofs` first proves of the abstract log that it is well typed, that epochs never decrease
along it, and that no step, restarts included, takes an acknowledged entry back; then `ViewIsLogPrefix` and `BroadcastReachesClient`. A shell that was told a
prefix of some log has seen nothing of this run's log unless its client object is of this run:
`ConnectionIsCurrent` ties every open connection to the epoch of the daemon, and `RebuildIsQuiet` says that
nothing is on the wire while the shell is rebuilt. What is on the wire, in the page and in the receiver is each a
piece of the log (`WireIsLog`, `PageIsUpTo`, `JournalHasTheRest`), and the pieces meet: what live delivery
skips as already sent was sent (`ReplayedIsSent`). `StreamKeepsTheLog` is a refinement: every step of
daemon, stream and shell is a step of `EpochLog` or leaves its variables alone, so the theorems about the log hold of the
stream (`StreamKeepsAcknowledged`).

`EventChannelProofs` proves `ExactlyOnce` and `NoStaleCheckpoint`, for any capacities, histories and number of
breaks. A number that a worker holds is its own and above all that its seed has published (`NumbersAreDrawn`,
`JournalIsPublished`), so what it publishes is nowhere yet, and what live delivery brings a second time is what the
replay had (`OverlapIsReplayed`): no event is shown twice (`NoEventTwice`). An event that is `Due`, one the client is owed
and nobody overtook, is the only one with its number (`NumberIsItsOwn`), in the journal or dropped below
`evicted` (`Kept`), and nothing on the wire with a number as large comes before it (`NonePasses`). So the cursor stays
behind it until it is read; a replay has it or refuses the cursor; and what is not on the wire once the replay is made
is still in the receiver and will not be skipped (`ComesLive`). `EveryEventReaches` assumes `~BreakMidReplay`; the other two theorems do not.

`CommandReceiptsProofs` proves `AtMostOnce` and `ResultIsComing`. An id that was run has a receipt or lost
it to expiry or eviction (`RanIsReceipted`); that survives a restart because what the file gives back is what
memory had (`DiskIsCurrent`). A request has the receipt it recorded, and runs its command only after (`RequestsHold`).
The receipt evicted is the oldest
of those that are settled; that there is an oldest one is a well-founded minimum. A receipt without
a result has a request, a command in the pipe, a run, or a result on the bus (`ResultIsComing`), and
what is on its way is so once (`SentIsInFlight`).

`WorkspaceServeProofs` proves `RunsAtMostOnce`, `RunsInItsWorkspace`, `TableIsTrue` and `ServeIsCurrent`, for any number of agents, calls and
services that run beside each other, in either mode. A call has one place, by its phase: with its agent, in the queue of its service, at that service's worker, or beside it
(`CallsAreSound`, `QueueIsSound`), and while a worker has a call, the workspace that is set there is that of the call's owner (`WorkerIsBound`): no step that
could set another one is open to the other calls of the service until the worker is done. By `TableIsSound` an entry belongs to the call that started the child and to no other, the thread that
enters an exit has seen it, and a child that runs without a handle is one its call is about to attach; what a kill does before that the handle does not undo
(`early`), which is the exception in `TableIsTrue`. `SupIsSound` orders the numbers of services by the steps of the supervisor: what agents are given is the last one that was
healthy, or the one about to be shown. Of the services that run it says what the mode allows: in local mode the child and what a failed WSL attempt left, in WSL mode nothing.

`AgentLoopProofs` proves `RunsOnlyApproved`, `GateSeesAnsweredCalls` and `InterruptEndsTurn`. Only the last step of the last turn may have
open calls (`HistoryIsSound`), and each open call is with the batch that runs, the suspended turn or a question to
the user (`OpenIsWorked`), so that when none of these is left the model may be asked again. A call waits in one of these
places only (`WaitsOnce`), what waits for a permission has not run
(`NewHaveNotRun`, `DeferredWaitForPermission`), and what is handed to a thread may run
(`WaitersMayRun`). The lemmas about `TurnHistory` say what each operation of the message store does to the open
calls and the numbers of the turns; they hold of any history, not only of those the loop makes.

The same module proves the three invariants of `GateStream`, the request inside the loop's gate step, for any number of
pieces, fragments, retries and calls. The invariant is `GateInv`. The gate has kept every piece once and in order (`AnswerKept`),
and of each call as many fragments as were sent (`CallsCounted`); while nothing is cancelled, the blocks of a
kind, put one behind the other, read as what the gate has kept of it (`Showing`). A delta is written to the block at the end of
the round or opens a new one behind it, so to append it there is to append it to the whole; a block of a call that is opened in between has no text
(`ShownOpened`). What is open is the block being written to and those of the calls seen so far (`Fits`), and each
of these is a call of the message to come (`ToolsKnown`): a fragment's call is in the accumulator, a name shown because of markup is one of the markup
calls, as there are at most as many names as calls of that kind (`NamesCounted`). So no block is left that stands for nothing
(`RoundCloses`). As to which calls are kept (`CallsAsSent`): the calls that are read off the text are as many as the text has pieces of their kind
(`MarkupCounted`), of which all or none are taken, by the kinds found before them (`KindsAreFound`). Two folds over the same text are compared as for the journal: by the least place at which they would differ.

`SessionProjectionProofs` proves `SealsOnlyOrphans`, `WorkIsSeen` and `PromptsReachTheShell`. Only the worker
that the registry has, and whose reader the tracker believes, can have a turn (`WorkersAreSound`), so a seal by the
registry meets an idle one. The tracker knows of a running turn, or the last boundary it is still to
observe is that turn's start (`WorkIsAnnounced`): late events of other workers come before it. The prompts are followed
along what the shell will hear of a channel, the wire and then the pipe (`Coming`). A permission that is
waited for is asked for there or shown already, with no result of its call behind
(`PermissionsAreComing`); no question is resolved behind the worker's back (`AsksAreOpen`), and the
one that is up is the last the shell will hear of (`ActiveAskIsComing`). A reader's step moves an event of that
sequence without a trace, a bootstrap's seal puts one in its middle, which is where the exception (`swept`) comes from.

`FilesProofs` proves `DecidesOnWhatWasTold` and `NoFalseAlarm`, for any texts and operations. The ledger has what
the caller was told last or what a patch left (`LedgerIsTold`), so has what a running call read of it
(`KnownIsTold`), and a call with a hash runs on the text the hash is of (`HashIsTold`). A destructive call without a hash has
compared the ledger with what it read: at each operation by line numbers (`BlindIsChecked`), or when it began
(`MutatorsAreChecked`). That holds until the ledger leaves the caller; from then on (`told.apart`) only what carries the caller's hash is bound to its text. For `NoFalseAlarm` the lemmas about `EditEngine` show that locating and splicing report nothing about the ledger.

`FilesProofs` also proves `NumbersAreFresh`, `SentIsArchived` and `RestoresAnswered` of the message store, for any number of
turns, calls, compactions, undos and crashes. The invariant is `StoreInv`. A turn is announced only once its message is in
the archive, or its line is ahead of the announcement in `io` (`WrittenFirst`); what is announced, or will be, has
a number below the next (`NumbersAreUsed`), also after a restart, where the next number is above all that the
timeline, meta.json and the history know. What could still lose a message is a rewrite of the archive from memory. It is only made
of a history that is not compacted and has nothing left to announce (`RewrittenFromAll`), and until it is compacted memory has
every turn that was announced and not undone (`Remembered`). That outlives the process because reading back gives a turn for every user message
(`FromMessagesHas`: at the least message for which it did not, one more step of the reader would). `RestoresAnswered` needs no
invariant: the repair answers every call of whatever it is given.

And it proves `NothingLost` of `UpdateApply`, for any payloads, releases and bounds. Most of the work is to say what the queue of
file operations is. The lemmas about the bundles go from one file to a bundle, a run and a rollback: which steps there are,
what each is about, which comes before which and which directly after which (`Precedes`, `Linked`). `Queue` says so of any suffix
of such a list, which is what a process still has to do, and `UpdateShapes` that `work` is one in every mode. What is
inductive then is `LossInv`: a file that was not the update's own is installed or kept as such (`NotLost`), and is
still as it was found while its first step is ahead; going back, it is kept, or installed and not to be cleared any more. The copy an
interrupted run kept is there until the old file is set aside, and from then on the new one is (`StillKept`); that this takes two steps in a
row is what `Linked` is for.

The other three theorems about `UpdateApply` go on from `UpdateShapes`. `CommittedIsInstalled` and `ProtocolsAgree` rest on
`CommitInv`: while an update is applied, each file of each artifact has its new build or is still to be placed (`ItemsPlaced`); each
component has its new build in the state file, or its artifact's commit is ahead, and a component that is not a target has the build it had
(`Committing`); and from the step that finishes on, only the state is written (`Concluding`). The state file is not there between the two calls that
write it, so the invariant speaks of the state as it is or is about to be (`Recorded`), which needs that a commit in progress is the only one (`WritesAtOnce`).
No file is placed twice with different builds because an operation ships a file once. That the protocols agree follows from the planner:
one side alone is replaced only where the plan has compared it with the other (`OneSided`), and that one still speaks as it did then (`OtherSidesSpeakAsPlanned`, the premise of the property).

`RestoresWhenUndone` rests on `RestoreInv`, which follows each file of the update through three states: as it was found (`Pristine`), set aside
(`SetAside`) and replaced (`Replaced`), with the old copy kept in the latter two. Going forward, the queue tells which one it is (`ForwardOf`): a file
that is set aside is the next to be placed, one that is replaced belongs to an artifact that no step of an earlier one follows. So when a step
fails, its own file is put back or was not touched, and the way back clears each of the replaced ones (`BackwardOf`). When the state is renamed, nothing of the way
back is left, so all of them are as they were. The one failure that costs no fault, no `DeepX.exe` in place, can only
meet the first artifact, before anything has changed (`AppThere`, `Opening`).

Only model-checked:

* liveness under fairness (`OrphansEventuallySealed`, `InterruptIsHeard` and the like), out of its reach, too;
* `FilesMatchMemory`: memory would have to be what is read back from its own messages, call by call; only the
  user messages are followed there so far;
* `TouchesOnlyWhatWasNamed`: it compares the search with its reference definition, through filtered sequences
  of which nothing can be proved.

No module declares a RECURSIVE operator, so each of them can be proved about.

## Divergences

Where the code does something else than its comments, its documents or a user would expect, the
modules follow the code, and no property denies it. What we met:

*Timeline and channels.*
* `timeline_store.rs:57` removes the old record and then renames the new one: a process that dies
  between the two calls finds no timeline, although line 1 says "One atomically replaced record per session" (`CrashInReplace`).
* `hub.rs:766` `seal_all_orphans` seals in memory at a graceful stop; nothing writes it, and the
  flush that follows writes only pending seeds. The next load seals the turns again.
* `bridge.rs:3223`: if attaching or activating fails while the client is rebuilt, the shell is
  left without a timeline stream, and the watchdog does not miss one that never opened (`FaultKinds`).
* `hub.rs:976`: the number of an event is drawn before the lock under which it is published, so
  two workers may publish in the other order; a client that reconnects between the two never gets the one with the smaller number.
* `hub.rs:1178` takes the stream number to be unique in a channel; but a history that is read into memory late has
  numbers this run has given out to other seeds meanwhile (the counter starts from what is loaded). A client whose cursor
  follows such an event may pass over another one of that number.
* `ringing_http.rs:2394` subscribes before it replays, so that what is published in between is not lost. For a client
  without a cursor it waits in the receiver behind the replayed checkpoints, whose numbers may be larger: if the connection breaks
  there, the cursor has passed it.
* No `TimelineIntent` takes a turn back: an undo (`engine_misc.rs:32`) shortens the messages only, and the
  shell's refresh after it (`bridge.rs:2396–2441`) shows the turn again.

*Agent loop, commands, session.*
* An answer that repeats a tool-call id ends the lap without a terminal event (`engine_turn.rs:1572`),
  as does a cancel of a suspended turn (`loop_core.rs:1051`): the turn stays running for every client.
* A message supersedes a suspended turn without resetting the permission it waits for
  (`engine_input.rs:16`); granted afterwards, the call runs although the history reports it as not executed.
* Several permissions of a round are open at a time; answering one publishes nothing, and the panel
  goes on showing it (`bridge.rs:315`).
* The end of a tool settles a message's receipt as succeeded; the turn may fail later.
* Undo takes a turn's number for its position (`store.rs:1157`): after a compaction or an earlier undo it cuts elsewhere.
* A killed agent that holds `.index.lock` leaves it behind, and every later save waits for it.

*Updates.*
* A plan is made when the update is staged (`planner.rs:67` compares protocols only then) and not looked at again when it is applied: if the
  side it does not replace was meanwhile updated or rolled back to another protocol, frontend and backend are paired that do not speak the same one.
* `rollback_bundle_zip` takes back every `.previous` of the manifest, also one that an earlier update
  left (`apply.rs:69`): those files are then older than the restored state says.
* Two failures in a row can leave no `DeepX.exe`; when the check of the second artifact fails, the
  first one stays; a full bundle that fails restores the state and not the files.
* `BundleManifest::validate` (`model.rs:175`) does not look for a file that is named twice, nor does anything compare the manifests of
  two artifacts. Undoing such a bundle would clear a file whose kept copy it has just put back. The script that
  collects a bundle walks a directory tree (`collect-payload-winui.ps1:80`), which names a file once.

*Tools.*
* `apply_patch.rs:81` enters a file in the ledger under its relative path, the other tools look it up under the absolute one.
* An empty `expected_hash` passes as if it were right (`file_edit.rs:965`, `:1015`).
* A line edit with an empty or white-space `old_string` counts as verified (`file_edit.rs:1014` asks only whether there is one), while
  the comparison (`:431–451`) has nothing to compare: it is a blind edit without the check of one.
* The ledger belongs to the process and is kept by path (`file_state.rs:25`, `:180`): all agents of the service (`serve.rs:268`) share it, so the read or edit of one
  makes the other's blind edit pass on a text that it never saw.
* A request that reads several files records each one (`file_query.rs:252`) before it fails as a whole on a later one or on its size (`:27–47`): the ledger
  moves, and the caller has only an error. A read that answers "not modified" (`:160–163`) records nothing.
* `normalize_newlines` (`file_shared.rs:164–172`) leaves a lone CR where there are CRLF too, against its comment (`:149–163`), and `read` (`file_query.rs:158`) takes
  both for newlines: an unchanged file with both is refused as `STALE_FILE`.
* The splice of an edit joins the lines and adds a newline only if none is there (`file_edit.rs:851–854`, `:861–864`): a blank line at the end of the file is lost.
* A child that is to be killed between its entry in the table (`exec.rs:615`) and its handle (`:688`) is shown as killed and goes on.
* In WSL mode killing wsl.exe leaves the service running (`workspace_supervisor.rs:389–391`), but the watchdog (`:244–255`) and a failed start (`:193`, `:197`, `:219`) do just that
  and start another one: agents of the first go on using it, and calls of one workspace may run in both at a time.
* A single-line match with a replacement of several lines replaces the whole line.
* A change by others between a tool's read and its write is lost.
* An inline `process` call sets the session of the whole service: a call of another agent that is
  admitted and not yet started is refused as a mismatch.
* Ledger changes go out with whichever call answers next, possibly to another agent.

*Model streams.*
* A terminal event on a last line without a newline makes `emit_done` run twice, and the empty second
  message clears the text; `[DONE]` without `response.completed` loses the calls that were complete.
* `openai.rs:508` parses markup calls without stripping code fences, which `tool_parser.rs:226` says a caller must do.
* Markup that is not closed opens a block that no call stands for: the round, and with it the turn, cannot be sealed.
* Markup calls are numbered anew in every round, and may meet native calls whose indices have gaps.
* A stream that is closed in the middle of a call runs it with null arguments.
* Markup calls are looked for only when there are no others (`util/mod.rs:327–349`): beside a call that is no markup, those of the second kind (XML), and in `responses`
  those of either kind, are in the text and never run; the second kind is dropped beside the first, too.
* An item of `responses` without id or name opens a block for a call that is not kept (`responses.rs:701–714`), with the effect of markup that is not closed.

*Transcript of the shell* (read, not modelled).
* A running round that a snapshot restores is taken as final: its deltas are ignored until it is complete.
* A snapshot made before events and applied after them overwrites what they brought; a page that was
  fetched before a restore is put in front of the restored text with a gap.

## Plan

Done: the timeline from worker to screen, the event channels, the agent loop and the model
stream, commands and receipts, the session as daemon and shell see it, the message store, the
tools and their service, updates. Next:

1. Proofs. `MessageStore`: `FilesMatchMemory`.
2. `ShellTranscript`: the transcript the shell shows, fed by snapshots, pages, live entries and its
   cache, as operators (apply, coalesce, prepend, restore, window) and a pump. To check: a
   frame of coalesced events does what the events do one by one; the index and the window agree with the turns and
   show no fragment twice; at rest the screen shows the completed rounds; loading ends.
3. `ContentStore`: owners, limits and eviction. `Subagents`: a child's reports against its handle.

## Not modelled

* Failing disk writes in the daemon (the saver logs and goes on).
* Pagination of the timeline, and its rendering.
* More than one client per seed; more than one seed of the timeline: the streams share nothing but
  the broadcast channel, whose capacity other seeds use up; capacity 1 stands for that.
* In the agent loop: switching sessions inside a worker (the daemon keeps a worker per session and
  does not forward those commands), tools invoked by a client (no shipped client does), plan
  review and goal automation (frozen in the code), panics and their recovery.
* Sessions: forks, imports, titles, the statistics in meta.json, stop-if-idle, closing and deleting.
* Updates: download and verification, uninstalling, registry and shortcuts. An artifact is taken to be what its manifest says.
* Model providers: request bodies and the conversion of messages, usage figures, `chat_sync`.
* Tools: moving, listing and searching files, terminals, the rules by which a call is admitted, checks of paths.
* The content store and sub-agents (in the plan); skills and configuration: file formats without a protocol.
* Sessions: an undo whose number no turn in memory has (the code takes any number). The other way round, in `CommandReceipts` a client instance
  may open again, which the shipped client does not do (`session.rs:62–68` draws a new one each time).
* Views, widgets, markdown, Fluent bindings, the conversion of events to text, configuration
  forms and the tests that stand in the source files: most of the lines of the repository, and the
  reason why the map stays a modest share of them. They keep no state that other parts decide on.
