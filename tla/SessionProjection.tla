--------------------------- MODULE SessionProjection ---------------------------
(***************************************************************************)
(* What a worker does, as the daemon and the shell believe it: the thread  *)
(* that reads a worker's events, the projection bootstraps are built from, *)
(* the activity tracker, the registry that replaces a dead worker and      *)
(* seals what it left open, a bootstrap that seals as well, and the panel  *)
(* the shell puts up for a permission or a question (deepx-runtime         *)
(* registry.rs, activity.rs, ringing/projection.rs, ringing/hub.rs,        *)
(* deepx-daemon ringing_http.rs, apps/winui bridge.rs).  One seed, one     *)
(* shell.  Timeline entries are not in this module.                        *)
(*                                                                         *)
(* The reader publishes an event and then lets the tracker observe it; the *)
(* seal reads a snapshot and then publishes; the registry holds its lock   *)
(* from the death of a worker to the command for the next one.  Everything *)
(* else runs in between.                                                   *)
(***************************************************************************)
EXTENDS Naturals, Sequences, SequencesExt, FiniteSets

CONSTANTS
    Permissions,    \* calls that need the user's permission
    Asks,           \* calls that ask the user
    MaxTurns,       \* bound: turns started
    MaxClicks,      \* bound: answers, cancels, compactions and bootstraps
    MaxFaults,      \* bound: deaths of the worker and workers that cannot be started
    PipeSize,       \* bound: a worker waits until fewer events than this are unread
    WireSize        \* bound: events on the way to the shell

Calls == Permissions \cup Asks
NoCall == "no call"

ASSUME SessionAssumption ==
    /\ Permissions \cap Asks = {} /\ NoCall \notin Calls /\ IsFiniteSet(Calls)
    /\ {MaxTurns, MaxClicks, MaxFaults, PipeSize, WireSize} \subseteq Nat

VARIABLES
    worker,     \* the process: alive, stage, turn, and the prompts of a suspended round
    inbox,      \* its stdin
    pipe,       \* its stdout
    reader,     \* the thread that reads it
    registry,   \* the holder of the registry lock
    instance,   \* the registry has an entry for the seed
    bootstrap,  \* a request that answers with the snapshots
    projection, \* SnapshotProjector, the fields a seal reads
    activity,   \* SessionActivityTracker
    wire,       \* events on the way to the shell, by channel
    shell,      \* ComposerActivity.active_turn and InteractionMachine
    commands,   \* commands of the shell, each in a task of its own
    used,       \* bounds: turns, clicks, faults, and the calls made so far
    swept       \* ghost: prompts a bootstrap or a refused answer took from the shell

workerVars == <<worker, inbox>>
daemonVars == <<registry, instance, bootstrap>>
vars == <<workerVars, pipe, reader, daemonVars, projection, activity, wire, shell,
          commands, used, swept>>

None == [none |-> TRUE]
Channels == {"control", "conversation", "tool"}

E(type, id) == [type |-> type, id |-> id]
EventTypes == {"Ready", "TurnStarted", "TurnEnded", "CompactStarted", "CompactFinished",
               "PermissionRequested", "ToolFinished", "AskRequested", "AskResolved", "Rejected"}

ChannelOf(type) ==
    CASE type \in {"TurnStarted", "TurnEnded", "CompactStarted", "CompactFinished"} -> "conversation"
      [] type \in {"PermissionRequested", "ToolFinished"} -> "tool"
      [] OTHER -> "control"

----------------------------------------------------------------------------
(* What the three consumers make of an event.                              *)

\* SnapshotProjector::fold; one slot for the permission, one for the question.
Fold(p, e) ==
    CASE e.type = "TurnStarted" -> [p EXCEPT !.turn = e.id]
      [] e.type = "TurnEnded" -> [p EXCEPT !.turn = 0]
      [] e.type = "PermissionRequested" -> [p EXCEPT !.permission = e.id]
      [] e.type = "ToolFinished" -> [p EXCEPT !.permission = NoCall]
      [] e.type = "AskRequested" -> [p EXCEPT !.ask = e.id]
      [] e.type = "AskResolved" -> [p EXCEPT !.ask = NoCall]
      [] OTHER -> p

\* Mutant: a compaction that is done leaves the session idle.
AfterCompactIdle(a) == "Idle"

AfterCompact(a) == IF a.turn = 0 THEN "Idle" ELSE "Working"

\* domain_activity_observe and SessionActivityTracker::observe
ActivityAfter(a, e) ==
    CASE e.type \in {"Ready", "TurnEnded"} -> [a EXCEPT !.state = "Idle", !.turn = 0]
      [] e.type = "TurnStarted" -> [a EXCEPT !.state = "Working", !.turn = e.id]
      [] e.type \in {"PermissionRequested", "AskRequested"} -> [a EXCEPT !.state = "WaitingUser"]
      [] e.type \in {"AskResolved", "ToolFinished", "CompactStarted"} ->
            [a EXCEPT !.state = "Working"]
      [] e.type = "CompactFinished" ->
            [a EXCEPT !.state = AfterCompact(a)]
      [] OTHER -> a

\* Mutant: a question that is resolved closes whatever panel is up.
AskLeftNone(ask, resolved) == NoCall

AskLeft(ask, resolved) == IF ask = resolved THEN NoCall ELSE ask

\* Vec::retain: what is pushed was taken out before, so there is one of it at most.
Without(prompts, call) ==
    IF call \in ToSet(prompts) THEN RemoveAt(prompts, CHOOSE i \in DOMAIN prompts : prompts[i] = call)
    ELSE prompts

\* ComposerActivity::apply, InteractionMachine::apply and apply_tool
View(s, e) ==
    CASE e.type = "TurnStarted" -> [s EXCEPT !.streaming = TRUE]
      [] e.type = "TurnEnded" -> [s EXCEPT !.streaming = FALSE]
      [] e.type = "PermissionRequested" ->
            [s EXCEPT !.permissions = Append(Without(@, e.id), e.id)]
      [] e.type = "ToolFinished" ->
            [s EXCEPT !.permissions = Without(@, e.id)]
      [] e.type = "AskRequested" -> [s EXCEPT !.ask = e.id]
      [] e.type = "AskResolved" -> [s EXCEPT !.ask = AskLeft(@, e.id)]
      [] e.type = "Rejected" -> [s EXCEPT !.ask = NoCall]
      [] OTHER -> s

\* The panel: the oldest permission, else the question.
Shown(s) == IF s.permissions # <<>> THEN Head(s.permissions) ELSE s.ask

\* publish_with_causation (numbering and journal: EventChannel)
Publish(e) ==
    /\ Len(wire["control"]) + Len(wire["conversation"]) + Len(wire["tool"]) < WireSize
    /\ projection' = Fold(projection, e)
    /\ wire' = [wire EXCEPT ![ChannelOf(e.type)] = Append(@, e)]

----------------------------------------------------------------------------
(* The worker (in full: AgentLoop).                                        *)

CountClick == used.clicks < MaxClicks /\ used' = [used EXCEPT !.clicks = @ + 1]

NoRound == [permissions |-> {}, approved |-> {}, asks |-> <<>>, calls |-> {}]
Stopped == [alive |-> FALSE, stage |-> "idle", turn |-> 0, round |-> NoRound, compacting |-> FALSE]
Started == [Stopped EXCEPT !.alive = TRUE]

Emit(events) == pipe' = pipe \o events
Finished(S) == LET order == SetToSeq(S) IN [i \in DOMAIN order |-> E("ToolFinished", order[i])]

\* Every step of the worker but its death.
Work ==
    /\ worker.alive /\ Len(pipe) < PipeSize
    /\ UNCHANGED <<reader, daemonVars, projection, activity, wire, shell, commands>>

Receive(kind) == inbox # <<>> /\ Head(inbox).kind = kind /\ inbox' = Tail(inbox)

StartTurn ==
    /\ Work /\ Receive("message") /\ worker.stage = "idle"
    /\ used' = [used EXCEPT !.turns = @ + 1]
    /\ worker' = [worker EXCEPT !.stage = "busy", !.turn = used.turns + 1]
    /\ Emit(<<E("TurnStarted", used.turns + 1)>>)
    /\ UNCHANGED swept

EndTurn ==
    /\ Work /\ worker.stage = "busy"
    /\ worker' = [worker EXCEPT !.stage = "idle", !.turn = 0]
    /\ Emit(<<E("TurnEnded", worker.turn)>>)
    /\ UNCHANGED <<inbox, used, swept>>

\* A round whose calls need the user: every permission is asked for at once, the
\* questions wait until the permissions are decided, and are asked one at a time.
Suspend(permissions, asks) ==
    /\ Work /\ worker.stage = "busy"
    /\ ToSet(permissions) \cup ToSet(asks) # {}
    /\ (ToSet(permissions) \cup ToSet(asks)) \cap used.calls = {}
    /\ worker' = [worker EXCEPT !.stage = "waiting",
                     !.round = [permissions |-> ToSet(permissions), approved |-> {}, asks |-> asks,
                                calls |-> ToSet(permissions) \cup ToSet(asks)]]
    /\ Emit(IF permissions # <<>>
            THEN [i \in DOMAIN permissions |-> E("PermissionRequested", permissions[i])]
            ELSE <<E("AskRequested", Head(asks))>>)
    /\ used' = [used EXCEPT !.calls = @ \cup ToSet(permissions) \cup ToSet(asks)]
    /\ UNCHANGED <<inbox, swept>>

\* Nothing of the round is left to decide: its results are announced, the turn goes
\* on.  Else the next question is asked, after the events before it.
GoOn(events, asks) ==
    IF asks = <<>>
    THEN /\ worker' = [worker EXCEPT !.stage = "busy", !.round = NoRound]
         /\ Emit(events \o Finished(worker.round.calls))
    ELSE /\ worker' = [worker EXCEPT !.round.asks = asks, !.round.permissions = {}]
         /\ Emit(events \o <<E("AskRequested", Head(asks))>>)

\* ask_rejected, interaction_not_found
Refuse ==
    /\ Emit(<<E("Rejected", NoCall)>>)
    /\ UNCHANGED worker

\* The last permission of the round runs the calls that were permitted; one before
\* the last is only noted.
RespondPermission ==
    /\ Work /\ worker.stage # "busy" /\ Receive("permission")
    /\ LET call == Head(inbox).id
           left == worker.round.permissions \ {call}
           approved == worker.round.approved \cup (IF Head(inbox).yes THEN {call} ELSE {})
       IN  IF call \notin worker.round.permissions THEN Refuse
           ELSE IF left # {}
           THEN /\ worker' = [worker EXCEPT !.round.permissions = left, !.round.approved = approved]
                /\ UNCHANGED pipe
           ELSE GoOn(Finished(approved), worker.round.asks)
    /\ UNCHANGED <<used, swept>>

IsActiveAsk(call) ==
    worker.round.permissions = {} /\ worker.round.asks # <<>> /\ Head(worker.round.asks) = call

RespondAsk ==
    /\ Work /\ worker.stage # "busy" /\ Receive("ask")
    /\ LET call == Head(inbox).id
       IN  IF ~IsActiveAsk(call) THEN Refuse
           ELSE IF Head(inbox).yes THEN GoOn(<<E("AskResolved", call)>>, Tail(worker.round.asks))
           ELSE /\ worker' = [worker EXCEPT !.stage = "idle", !.turn = 0, !.round = NoRound]
                /\ Emit(<<E("AskResolved", call), E("TurnEnded", worker.turn)>>)
    /\ UNCHANGED <<used, swept>>

\* ConversationCancel: a running turn has ended itself, a suspended one is dropped
\* without a word about its prompts.
Cancel ==
    /\ Work /\ worker.stage # "busy" /\ Receive("cancel")
    /\ worker' = [worker EXCEPT !.stage = "idle", !.turn = 0, !.round = NoRound]
    /\ Emit(<<E("TurnEnded", worker.turn)>>)
    /\ UNCHANGED <<used, swept>>

\* ConversationCompact; the summary comes from a thread of its own.
Compact ==
    /\ Work /\ UNCHANGED <<inbox, swept>>
    /\ \/ /\ ~worker.compacting /\ CountClick
          /\ worker' = [worker EXCEPT !.compacting = TRUE]
          /\ Emit(<<E("CompactStarted", NoCall)>>)
       \/ /\ worker.compacting
          /\ worker' = [worker EXCEPT !.compacting = FALSE]
          /\ Emit(<<E("CompactFinished", NoCall)>>)
          /\ UNCHANGED used

WorkerDies ==
    /\ worker.alive /\ used.faults < MaxFaults
    /\ worker' = Stopped /\ inbox' = <<>>
    /\ used' = [used EXCEPT !.faults = @ + 1]
    /\ UNCHANGED <<pipe, reader, daemonVars, projection, activity, wire, shell, commands, swept>>

----------------------------------------------------------------------------
(* The thread that reads the worker's events.                              *)

Read ==
    /\ reader.pc = "read" /\ pipe # <<>>
    /\ pipe' = Tail(pipe)
    /\ Publish(Head(pipe))
    /\ reader' = [reader EXCEPT !.pc = "observe", !.event = Head(pipe)]
    /\ UNCHANGED <<workerVars, daemonVars, activity, shell, commands, used, swept>>

\* An observation of an earlier generation does not count.
Observe ==
    /\ reader.pc = "observe"
    /\ activity' = IF reader.generation = activity.generation
                   THEN ActivityAfter(activity, reader.event) ELSE activity
    /\ reader' = [reader EXCEPT !.pc = "read"]
    /\ UNCHANGED <<workerVars, pipe, daemonVars, projection, wire, shell, commands, used, swept>>

\* End of file
Disconnect ==
    /\ reader.pc = "read" /\ pipe = <<>> /\ ~worker.alive
    /\ activity' = IF reader.generation = activity.generation
                   THEN [activity EXCEPT !.state = "Disconnected", !.turn = 0] ELSE activity
    /\ reader' = [reader EXCEPT !.pc = "ended"]
    /\ UNCHANGED <<workerVars, pipe, daemonVars, projection, wire, shell, commands, used, swept>>

----------------------------------------------------------------------------
(* seal_orphan_channel_state: for each channel a look and, when something is *)
(* open, a publication.  `seals` is what is left to do.                     *)

SealSteps == <<"conversation", "tool", "control">>

Open(channel) ==
    CASE channel = "conversation" -> {projection.turn} \ {0}
      [] channel = "tool" -> {projection.permission} \ {NoCall}
      [] OTHER -> {projection.ask} \ {NoCall}

Seal(channel, found) ==
    CASE channel = "conversation" -> E("TurnEnded", found)
      [] channel = "tool" -> E("ToolFinished", found)
      [] OTHER -> E("AskResolved", found)

Look(s) == s.seals # <<>> /\ s.found = {} /\ UNCHANGED <<projection, wire>>

\* A look that finds nothing goes on to the next channel.
AfterLook(s) ==
    IF Open(Head(s.seals)) = {} THEN [s EXCEPT !.seals = Tail(@)]
    ELSE [s EXCEPT !.found = Open(Head(s.seals))]

PublishSeal(s) == \E found \in s.found : Publish(Seal(Head(s.seals), found))

AfterSeal(s) == [s EXCEPT !.seals = Tail(@), !.found = {}]

----------------------------------------------------------------------------
(* The registry.                                                           *)

FreeRegistry == [pc |-> "free", command |-> None, seals |-> <<>>, found |-> {}]
Registry(pc) == registry' = [registry EXCEPT !.pc = pc]

\* send_ringing takes the lock.
TakeCommand ==
    /\ registry.pc = "free"
    /\ \E c \in commands :
          /\ commands' = commands \ {c}
          /\ registry' = [registry EXCEPT !.pc = IF instance THEN "write" ELSE "spawn", !.command = c]
    /\ UNCHANGED <<workerVars, pipe, reader, instance, bootstrap, projection, activity, wire, shell,
                   used, swept>>

\* respawn_dead_agents takes the lock.
FindDead ==
    /\ registry.pc = "free" /\ instance /\ ~worker.alive
    /\ instance' = FALSE
    /\ Registry("join")
    /\ UNCHANGED <<workerVars, pipe, reader, bootstrap, projection, activity, wire, shell,
                   commands, used, swept>>

\* The command reaches the pipe; or the worker is gone, and its instance is removed.
Write ==
    /\ registry.pc = "write"
    /\ IF worker.alive
       THEN /\ inbox' = Append(inbox, registry.command)
            /\ registry' = FreeRegistry
            /\ UNCHANGED instance
       ELSE /\ instance' = FALSE
            /\ Registry("join")
            /\ UNCHANGED inbox
    /\ UNCHANGED <<worker, pipe, reader, bootstrap, projection, activity, wire, shell,
                   commands, used, swept>>

\* AgentInstance::shutdown waits for the reader, which waits for the last event.
Join ==
    /\ registry.pc = "join" /\ reader.pc = "ended"
    /\ Registry("spawn")
    /\ UNCHANGED <<workerVars, pipe, reader, instance, bootstrap, projection, activity, wire, shell,
                   commands, used, swept>>

\* begin
NextGeneration == [generation |-> activity.generation + 1, state |-> "Starting", turn |-> 0]

\* Mutant: the command is written first, what the old worker left is sealed behind it.
SpawnAndWrite ==
    /\ registry.pc = "spawn"
    /\ worker' = Started /\ instance' = TRUE
    /\ inbox' = IF registry.command = None THEN <<>> ELSE <<registry.command>>
    /\ pipe' = <<E("Ready", NoCall)>>
    /\ activity' = NextGeneration
    /\ reader' = [pc |-> "read", generation |-> NextGeneration.generation, event |-> None]
    /\ registry' = [registry EXCEPT !.pc = "seal", !.seals = SealSteps, !.command = None]
    /\ UNCHANGED <<bootstrap, projection, wire, shell, commands, used, swept>>

\* Mutant: nothing is sealed.
SpawnUnsealed ==
    /\ registry.pc = "spawn"
    /\ worker' = Started /\ instance' = TRUE /\ inbox' = <<>>
    /\ pipe' = <<E("Ready", NoCall)>>
    /\ activity' = NextGeneration
    /\ reader' = [pc |-> "read", generation |-> NextGeneration.generation, event |-> None]
    /\ registry' = [registry EXCEPT !.pc = "seal"]
    /\ UNCHANGED <<bootstrap, projection, wire, shell, commands, used, swept>>

Spawn ==
    /\ registry.pc = "spawn"
    /\ worker' = Started /\ instance' = TRUE /\ inbox' = <<>>
    /\ pipe' = <<E("Ready", NoCall)>>
    /\ activity' = NextGeneration
    /\ reader' = [pc |-> "read", generation |-> NextGeneration.generation, event |-> None]
    /\ registry' = [registry EXCEPT !.pc = "seal", !.seals = SealSteps]
    /\ UNCHANGED <<bootstrap, projection, wire, shell, commands, used, swept>>

\* The command is lost, nothing is sealed, and nobody tries again before the next one.
SpawnFails ==
    /\ registry.pc = "spawn" /\ used.faults < MaxFaults
    /\ used' = [used EXCEPT !.faults = @ + 1]
    /\ activity' = NextGeneration
    /\ registry' = FreeRegistry
    /\ UNCHANGED <<workerVars, pipe, reader, instance, bootstrap, projection, wire, shell,
                   commands, swept>>

RegistrySeals ==
    /\ registry.pc = "seal" /\ registry.seals # <<>>
    /\ \/ Look(registry) /\ registry' = AfterLook(registry)
       \/ PublishSeal(registry) /\ registry' = AfterSeal(registry)
    /\ UNCHANGED <<workerVars, pipe, reader, instance, bootstrap, activity, shell, commands, used, swept>>

Sealed ==
    /\ registry.pc = "seal" /\ registry.seals = <<>>
    /\ registry' = IF registry.command = None THEN FreeRegistry ELSE [registry EXCEPT !.pc = "write"]
    /\ UNCHANGED <<workerVars, pipe, reader, instance, bootstrap, projection, activity, wire, shell,
                   commands, used, swept>>

RegistryNext ==
    \/ TakeCommand \/ FindDead \/ Write \/ Join \/ Spawn \/ SpawnFails \/ RegistrySeals \/ Sealed

----------------------------------------------------------------------------
(* A bootstrap, of a seed whose worker may be alive.                       *)

Bootstrap ==
    /\ bootstrap.seals = <<>> /\ CountClick
    /\ bootstrap' = [seals |-> SealSteps, found |-> {}]
    /\ UNCHANGED <<workerVars, pipe, reader, registry, instance, projection, activity, wire, shell,
                   commands, swept>>

BootstrapSeals ==
    /\ \/ /\ Look(bootstrap) /\ bootstrap' = AfterLook(bootstrap)
          /\ UNCHANGED swept
       \/ /\ PublishSeal(bootstrap) /\ bootstrap' = AfterSeal(bootstrap)
          /\ swept' = swept \cup (bootstrap.found \cap Calls)
    /\ UNCHANGED <<workerVars, pipe, reader, registry, instance, activity, shell, commands, used>>

----------------------------------------------------------------------------
(* The shell and its user.                                                 *)

Deliver(channel) ==
    /\ wire[channel] # <<>>
    /\ LET e == Head(wire[channel])
       IN  /\ shell' = View(shell, e)
           /\ swept' = IF e.type = "Rejected" THEN swept \cup ({shell.ask} \ {NoCall}) ELSE swept
    /\ wire' = [wire EXCEPT ![channel] = Tail(@)]
    /\ UNCHANGED <<workerVars, pipe, reader, daemonVars, projection, activity, commands, used>>

UserVars == <<workerVars, pipe, reader, daemonVars, projection, activity, wire, shell, swept>>

\* Bound: one message at a time, and none over a suspended turn (AgentLoop has it).
SendMessage ==
    /\ ~shell.streaming /\ Shown(shell) = NoCall
    /\ worker.stage = "idle"
    /\ ~\E c \in commands \cup ToSet(inbox) \cup {registry.command} : c # None /\ c.kind = "message"
    /\ used.turns < MaxTurns
    /\ commands' = commands \cup {[kind |-> "message", id |-> NoCall, yes |-> TRUE, n |-> 0]}
    /\ UNCHANGED <<used, UserVars>>

Click(kind, id, yes) ==
    /\ CountClick
    /\ commands' = commands \cup {[kind |-> kind, id |-> id, yes |-> yes, n |-> used.clicks + 1]}
    /\ UNCHANGED UserVars

\* The buttons of the panel; nothing stops a second click before the first one counts.
Answer ==
    /\ Shown(shell) # NoCall
    /\ \E yes \in BOOLEAN :
          Click(IF shell.permissions # <<>> THEN "permission" ELSE "ask", Shown(shell), yes)

Stop == shell.streaming /\ Click("cancel", NoCall, TRUE)

----------------------------------------------------------------------------
Init ==
    /\ worker = Stopped /\ inbox = <<>> /\ pipe = <<>>
    /\ reader = [pc |-> "ended", generation |-> 0, event |-> None]
    /\ registry = FreeRegistry /\ instance = FALSE
    /\ bootstrap = [seals |-> <<>>, found |-> {}]
    /\ projection = [turn |-> 0, permission |-> NoCall, ask |-> NoCall]
    /\ activity = [generation |-> 0, state |-> "Idle", turn |-> 0]
    /\ wire = [c \in Channels |-> <<>>]
    /\ shell = [streaming |-> FALSE, permissions |-> <<>>, ask |-> NoCall]
    /\ commands = {}
    /\ used = [turns |-> 0, clicks |-> 0, faults |-> 0, calls |-> {}]
    /\ swept = {}

WorkerNext ==
    \/ StartTurn \/ EndTurn \/ RespondPermission \/ RespondAsk \/ Cancel \/ Compact \/ WorkerDies
    \/ \E P \in SUBSET Permissions, A \in SUBSET Asks :
          \E permissions \in SetToSeqs(P), asks \in SetToSeqs(A) : Suspend(permissions, asks)

ReaderNext == Read \/ Observe \/ Disconnect

ShellNext == SendMessage \/ Answer \/ Stop \/ \E channel \in Channels : Deliver(channel)

Next == WorkerNext \/ ReaderNext \/ RegistryNext \/ Bootstrap \/ BootstrapSeals \/ ShellNext

Spec == Init /\ [][Next]_vars

\* Threads run, the periodic check of the workers runs, and what was published
\* arrives; workers, users and faults owe nothing.
Fairness ==
    /\ WF_vars(ReaderNext)
    /\ WF_vars(FindDead \/ Write \/ Join \/ Spawn \/ RegistrySeals \/ Sealed)
    /\ \A channel \in Channels : WF_vars(Deliver(channel))

FairSpec == Spec /\ Fairness
----------------------------------------------------------------------------
SessionTypeOK ==
    /\ worker.stage \in {"idle", "busy", "waiting"} /\ worker.turn \in 0 .. MaxTurns
    /\ worker.stage = "idle" <=> worker.turn = 0
    /\ worker.round.permissions \subseteq Permissions
    /\ \A i \in DOMAIN pipe : pipe[i].type \in EventTypes
    /\ reader.pc \in {"read", "observe", "ended"}
    /\ registry.pc \in {"free", "write", "join", "spawn", "seal"}
    /\ activity.state \in {"Starting", "Idle", "Working", "WaitingUser", "Disconnected"}
    /\ projection.turn \in 0 .. MaxTurns /\ projection.permission \in Calls \cup {NoCall}
    /\ ToSet(shell.permissions) \subseteq Calls /\ shell.ask \in Calls \cup {NoCall}
    /\ instance /\ worker.alive => reader.pc # "ended"

AllRead == pipe = <<>> /\ reader.pc = "read"
Delivered == AllRead /\ \A c \in Channels : wire[c] = <<>>

\* A worker that has a turn, running or suspended, is seen as active work once its
\* events have been read, so that nobody stops the daemon over it: no late event of
\* the round, of a compaction or of an earlier worker makes it look idle.
WorkIsSeen ==
    worker.stage # "idle" /\ AllRead => activity.state \in {"Working", "WaitingUser"}

\* The registry seals what a dead worker left before the next one has a command: it
\* never ends a turn that runs.
SealsOnlyOrphans ==
    registry.pc = "seal" => worker.stage = "idle" /\ inbox = <<>>

\* A prompt the worker waits for reaches the shell and stays there, unless a bootstrap
\* or the refusal of another answer took it away.
PromptsReachTheShell ==
    worker.stage = "waiting" /\ Delivered =>
        /\ worker.round.permissions \subseteq ToSet(shell.permissions) \cup swept
        /\ worker.round.permissions = {} => Head(worker.round.asks) \in {shell.ask} \cup swept

\* The turn of a worker that died stops being shown as running, unless a new worker
\* could not be started.
DeadTurnEnds ==
    (shell.streaming /\ ~worker.alive)
        ~> (~shell.streaming \/ (~instance /\ registry.pc = "free"))
=============================================================================
