------------------------------- MODULE AgentLoop -------------------------------
(***************************************************************************)
(* One worker process: the reader thread that takes commands from stdin    *)
(* and raises the cancel flag, and the main loop that dispatches them and  *)
(* drives turns through model requests and tool calls                      *)
(* (crates/deepx-msglp/src/ringing_v1: loop_core.rs, engine_input.rs,      *)
(* engine_turn.rs, engine_tool.rs, engine_compact.rs).                     *)
(*                                                                         *)
(* A turn runs in laps: check the flag, ask the model (gate), admit the    *)
(* calls of its answer, run them (tools), next lap.  A call may need the   *)
(* user's permission or be a question to the user; the turn is then        *)
(* suspended and the loop goes on with its queue.                          *)
(***************************************************************************)
EXTENDS TurnHistory

CONSTANTS
    MaxTurns,       \* bound: user messages
    MaxRounds,      \* bound: rounds of a turn
    MaxCalls,       \* bound: tool calls of all answers
    MaxCommands     \* bound: commands received

ASSUME AgentAssumption ==
    {MaxTurns, MaxRounds, MaxCalls, MaxCommands} \subseteq Nat \ {0}

\* What admit_batch makes of a call: it may run, it needs a permission, it is a question to
\* the user, or it is refused.
Kinds == {"run", "perm", "ask", "refused"}
None == [none |-> TRUE]

VARIABLES
    inbox,      \* cmd_rx
    arriving,   \* the interrupt whose flag is raised and that is not in cmd_rx yet
    cancel,     \* CancelToken and deepx_workspace::CANCEL, which are set and cleared together
    pc,         \* what the main loop is doing
    run,        \* the turn and round it is in, and who called run_lap
    work,       \* the admitted calls of this round
    suspended,  \* TurnEngine.suspended
    pending,    \* ToolEngine.pending: calls whose permission is being asked
    turns,      \* the message store
    compact,    \* pending_compact_rx: the compaction in the background, how many turns it keeps
    stopping,   \* pending.shutdown
    timeline,   \* timeline[t]: turn t as the timeline intents leave it
    received,   \* commands received so far
    calls,      \* calls[c]: how call c of the model was admitted
    ended,      \* turns with a TurnCompleted or TurnFailed event
    runs,       \* runs[c]: how often the tool of call c was executed
    approved    \* calls the user allowed

queueVars == <<inbox, arriving, received>>
engineVars == <<run, work, suspended, pending>>
toolGhosts == <<calls, runs, approved>>
vars == <<queueVars, cancel, pc, engineVars, turns, compact, stopping, timeline,
          ended, toolGhosts>>

\* Calls that are admitted: to run side by side, one after the other, to be asked.
Admitted(parallel, serial, asks) ==
    [parallel |-> parallel, serial |-> serial, started |-> {}, finished |-> {}, asks |-> asks]

NoWork == Admitted({}, {}, {})

----------------------------------------------------------------------------
(* The reader thread.                                                      *)

IsInterrupt(cmd) == cmd.type \in {"cancel", "shutdown"}

\* What a client may send: answers to prompts it has seen, in time or not.
Commands ==
    {[type |-> "cancel"], [type |-> "shutdown"], [type |-> "compact"]}
    \cup (IF Len(timeline) + Cardinality({i \in DOMAIN inbox : inbox[i].type = "send"}) < MaxTurns
          THEN {[type |-> "send"]} ELSE {})
    \cup [type : {"undo"}, turn : DOMAIN timeline]
    \cup [type : {"permit"}, call : {c \in DOMAIN calls : calls[c] = "perm"}, yes : BOOLEAN]
    \cup [type : {"answer", "dismiss"}, call : {c \in DOMAIN calls : calls[c] = "ask"}]

Raise(cmd) == cancel' = (cancel \/ IsInterrupt(cmd))

\* The flag is raised before the frame is sent to the main loop.
Receive(cmd) ==
    /\ pc # "stopped" /\ arriving = None
    /\ received < MaxCommands
    /\ received' = received + 1
    /\ Raise(cmd)
    /\ IF IsInterrupt(cmd)
       THEN arriving' = cmd /\ UNCHANGED inbox
       ELSE inbox' = Append(inbox, cmd) /\ UNCHANGED arriving
    /\ UNCHANGED <<pc, engineVars, turns, compact, stopping, timeline, ended, toolGhosts>>

Forward ==
    /\ pc # "stopped" /\ arriving # None
    /\ inbox' = Append(inbox, arriving)
    /\ arriving' = None
    /\ UNCHANGED <<received, cancel, pc, engineVars, turns, compact, stopping, timeline,
                   ended, toolGhosts>>

----------------------------------------------------------------------------
(* Laps.                                                                   *)

\* build_prompt_and_meta: how many turns the tail that is kept may begin in, as long
\* as the head has a turn that is not a summary already.
OldTurns(keep) == SubSeq(turns, 1, Len(turns) - keep)
Keeps == {keep \in 0 .. Len(turns) - 1 : Ids(OldTurns(keep)) # {}}

Seal(t) == timeline' = [timeline EXCEPT ![t] = "sealed"]

\* The turn is suspended, and the loop goes back to its queue.
Suspend(perms, deferred, serial, asks) ==
    /\ suspended' = [turn |-> run.turn, round |-> run.round, perms |-> perms,
                     deferred |-> deferred, serial |-> serial, asks |-> asks]
    /\ pc' = "idle"

\* check_pending_compact after a lap: only laps the dispatcher itself started poll it.
PollCompact(history) ==
    \/ turns' = history /\ UNCHANGED compact
    \/ /\ run.caller = "loop" /\ compact # None
       /\ turns' = Compacted(history, compact.keep)
       /\ compact' = None

\* Outcome::ContinueTurn
ContinueTurn(history) ==
    /\ pc' = "lap"
    /\ run' = [run EXCEPT !.round = @ + 1, !.caller = "loop"]
    /\ PollCompact(history)

\* reset_all_engines; a compaction that is still running is forgotten.
ResetEngines ==
    /\ suspended' = None
    /\ pending' = {}
    /\ compact' = None

\* abort_running_turn, and the TurnAborted outcome.
Abort ==
    /\ \/ turns' = RemoveIncomplete(turns)
       \/ /\ run.caller = "loop" /\ compact # None
          /\ turns' = Compacted(RemoveIncomplete(turns), compact.keep)
    /\ ResetEngines
    /\ ended' = ended \cup {run.turn}
    /\ pc' = "idle"

LapCancelled ==
    /\ pc = "lap" /\ cancel
    /\ Seal(run.turn)
    /\ Abort
    /\ UNCHANGED <<queueVars, cancel, run, work, stopping, toolGhosts>>

\* The request is built, after a compaction of its own if it would be too long.
EnterGate ==
    /\ pc = "lap" /\ ~cancel
    /\ \/ UNCHANGED turns
       \/ \E keep \in Keeps : turns' = Compacted(turns, keep)
    /\ pc' = "gate"
    /\ UNCHANGED <<queueVars, cancel, engineVars, compact, stopping, timeline, ended, toolGhosts>>

\* The flag is read again when the stream ends, whatever it ended with.
GateCancelled ==
    /\ pc = "gate" /\ cancel
    /\ Seal(run.turn)
    /\ Abort
    /\ UNCHANGED <<queueVars, cancel, run, work, stopping, toolGhosts>>

\* Outcome::TurnFailed resets no engine.
GateFails ==
    /\ pc = "gate" /\ ~cancel
    /\ Seal(run.turn)
    /\ ended' = ended \cup {run.turn}
    /\ pc' = "idle"
    /\ UNCHANGED <<queueVars, cancel, engineVars, turns, compact, stopping, toolGhosts>>

GateAnswers ==
    /\ pc = "gate" /\ ~cancel
    /\ turns' = PushAssistant(turns, {})
    /\ Seal(run.turn)
    /\ ended' = ended \cup {run.turn}
    /\ pc' = "idle"
    /\ UNCHANGED <<queueVars, cancel, engineVars, compact, stopping, toolGhosts>>

\* A skill was requested: the model is asked again.
GateAnswersWithSkill ==
    /\ pc = "gate" /\ ~cancel /\ run.round < MaxRounds
    /\ ContinueTurn(PushAssistant(turns, {}))
    /\ UNCHANGED <<queueVars, cancel, work, suspended, pending, stopping, timeline, ended,
                   toolGhosts>>

\* Two calls with one id: the step is taken back, and the outcome is Handled.
GateRepeatsAnId ==
    /\ pc = "gate" /\ ~cancel
    /\ turns' = RemoveIncomplete(PushAssistant(turns, {MaxCalls + 1}))
    /\ pc' = "idle"
    /\ UNCHANGED <<queueVars, cancel, engineVars, compact, stopping, timeline, ended, toolGhosts>>

\* admit_batch.  Calls that conflict with an earlier one are run after the others;
\* nothing is run before every permission of the round is decided.
GateCalls(n) ==
    /\ pc = "gate" /\ ~cancel /\ run.round < MaxRounds
    /\ Len(calls) + n <= MaxCalls
    /\ \E kinds \in [1 .. n -> Kinds] :
         LET new == (Len(calls) + 1) .. (Len(calls) + n)
             Of(kind) == {c \in new : kinds[c - Len(calls)] = kind}
         IN  \E serial \in SUBSET (new \ {Min(new)}) :
               /\ serial \subseteq Of("run") \cup Of("perm")
               /\ calls' = calls \o kinds
               /\ turns' = PushResults(PushAssistant(turns, new), Of("refused"), "refused")
               /\ pending' = pending \cup Of("perm")
               /\ IF Of("perm") # {}
                  THEN /\ Suspend(Of("perm"), Of("run"), serial, Of("ask"))
                       /\ UNCHANGED work
                  ELSE /\ pc' = "tools"
                       /\ work' = Admitted(Of("run") \ serial, serial, Of("ask"))
                       /\ UNCHANGED suspended
    /\ UNCHANGED <<queueVars, cancel, run, compact, stopping, timeline, ended, runs, approved>>

----------------------------------------------------------------------------
(* Tools.  execute_authorized reads the flag in the tool's own thread.     *)

\* Mutant: the flag is only read when results are collected.
RunAlways(c) == runs' = [runs EXCEPT ![c] = @ + 1]

Execute(c) ==
    IF cancel THEN UNCHANGED runs ELSE runs' = [runs EXCEPT ![c] = @ + 1]

RunParallel(c) ==
    /\ pc = "tools" /\ c \in work.parallel
    /\ Execute(c)
    /\ work' = [work EXCEPT !.parallel = @ \ {c}, !.finished = @ \cup {c}]
    /\ UNCHANGED <<queueVars, cancel, pc, run, suspended, pending, turns, compact, stopping,
                   timeline, ended, calls, approved>>

\* The batch is joined; once cancelled, its results are dropped.
Collect ==
    /\ pc = "tools" /\ work.parallel = {} /\ work.finished # {}
    /\ turns' = IF cancel THEN turns ELSE PushResults(turns, work.finished, "ran")
    /\ work' = [work EXCEPT !.finished = {}]
    /\ UNCHANGED <<queueVars, cancel, pc, run, suspended, pending, compact, stopping, timeline,
                   ended, toolGhosts>>

SerialsNext ==
    pc = "tools" /\ work.parallel \cup work.finished \cup work.started = {} /\ work.serial # {}

\* Mutant: a cancelled batch of serial calls is not given up.
KeepSerial == SerialsNext /\ cancel /\ UNCHANGED vars

CutSerial ==
    /\ SerialsNext /\ cancel
    /\ work' = [work EXCEPT !.serial = {}]
    /\ UNCHANGED <<queueVars, cancel, pc, run, suspended, pending, turns, compact, stopping,
                   timeline, ended, toolGhosts>>

StartSerial ==
    /\ SerialsNext /\ ~cancel
    /\ work' = [work EXCEPT !.started = {Min(work.serial)}, !.serial = @ \ {Min(work.serial)}]
    /\ UNCHANGED <<queueVars, cancel, pc, run, suspended, pending, turns, compact, stopping,
                   timeline, ended, toolGhosts>>

\* Its result is stored even if it says that the call was cancelled.
RunSerial(c) ==
    /\ pc = "tools" /\ c \in work.started
    /\ Execute(c)
    /\ turns' = PushResult(turns, c, IF cancel THEN "skipped" ELSE "ran")
    /\ work' = [work EXCEPT !.started = {}]
    /\ UNCHANGED <<queueVars, cancel, pc, run, suspended, pending, compact, stopping, timeline,
                   ended, calls, approved>>

ToolsDone ==
    pc = "tools" /\ work.parallel \cup work.serial \cup work.started \cup work.finished = {}

ToolsCancelled ==
    /\ ToolsDone /\ cancel
    /\ Seal(run.turn)
    /\ Abort
    /\ work' = NoWork
    /\ UNCHANGED <<queueVars, cancel, run, stopping, toolGhosts>>

AskUser ==
    /\ ToolsDone /\ ~cancel /\ work.asks # {}
    /\ Suspend({}, {}, {}, work.asks)
    /\ work' = NoWork
    /\ UNCHANGED <<queueVars, cancel, run, pending, turns, compact, stopping, timeline, ended,
                   toolGhosts>>

\* After a permission the handler goes into the next lap itself.
RoundDone ==
    /\ ToolsDone /\ ~cancel /\ work.asks = {}
    /\ IF run.caller = "handler"
       THEN /\ pc' = "lap"
            /\ run' = [run EXCEPT !.round = @ + 1, !.caller = "lap"]
            /\ UNCHANGED <<turns, compact>>
       ELSE ContinueTurn(turns)
    /\ work' = NoWork
    /\ UNCHANGED <<queueVars, cancel, suspended, pending, stopping, timeline, ended, toolGhosts>>

----------------------------------------------------------------------------
(* Dispatch of the next command, while no lap is in progress.              *)

Dispatch(type) ==
    /\ pc = "idle" /\ ~stopping /\ inbox # <<>>
    /\ Head(inbox).type = type
    /\ inbox' = Tail(inbox)
    /\ UNCHANGED <<arriving, received>>

\* handle_user_input: a new turn, whatever else is suspended.  The flag is cleared
\* before the content guard may refuse the text.
SendMessage ==
    /\ Dispatch("send")
    /\ cancel' = FALSE
    /\ \/ UNCHANGED <<pc, run, turns, timeline>>
       \/ LET t == Len(timeline) + 1 IN
          /\ t <= MaxTurns
          /\ turns' = PushUser(turns, t)
          /\ timeline' = Append(timeline, "running")
          /\ run' = [turn |-> t, round |-> 0, caller |-> "loop"]
          /\ pc' = "lap"
    /\ UNCHANGED <<work, suspended, pending, compact, stopping, ended, toolGhosts>>

\* ConversationCancel: the running turn, if any, has noticed the flag itself.
Cancel ==
    /\ Dispatch("cancel")
    /\ cancel' = TRUE
    /\ ResetEngines
    /\ UNCHANGED <<pc, run, work, turns, stopping, timeline, ended, toolGhosts>>

Shutdown ==
    /\ Dispatch("shutdown")
    /\ stopping' = TRUE
    /\ UNCHANGED <<cancel, pc, engineVars, turns, compact, timeline, ended, toolGhosts>>

\* Refused while another turn is suspended.
UndoTurn ==
    /\ Dispatch("undo")
    /\ LET t == Head(inbox).turn IN
       IF suspended # None /\ suspended.turn # t
       THEN UNCHANGED <<suspended, pending, turns>>
       ELSE /\ suspended' = None
            /\ pending' = {}
            /\ turns' = Truncate(turns, t)
    /\ UNCHANGED <<cancel, pc, run, work, compact, stopping, timeline, ended, toolGhosts>>

\* start_compact: the summary is written in the background.
StartCompact ==
    /\ Dispatch("compact")
    /\ \/ UNCHANGED compact
       \/ /\ compact = None
          /\ \E keep \in Keeps :
                compact' = [keep |-> keep]
    /\ UNCHANGED <<cancel, pc, engineVars, turns, stopping, timeline, ended, toolGhosts>>

\* Mutant: what the user answered is not looked at.
AllowedAnyway(cmd) == TRUE

\* approve: only a yes may become an authorized call.
Allowed(cmd) == cmd.yes

\* handle_permission_resolved: the calls that wait with c run when the last permission of
\* the round is decided.
Resolve(c, ok) ==
    IF suspended = None \/ c \notin suspended.perms
    THEN UNCHANGED <<pc, run, work, suspended>>
    ELSE LET perms == suspended.perms \ {c}
             deferred == suspended.deferred \cup (IF ok THEN {c} ELSE {})
         IN  IF perms # {}
             THEN /\ suspended' = [suspended EXCEPT !.perms = perms, !.deferred = deferred]
                  /\ UNCHANGED <<pc, run, work>>
             ELSE /\ suspended' = None
                  /\ run' = [turn |-> suspended.turn, round |-> suspended.round,
                             caller |-> "handler"]
                  /\ work' = Admitted(deferred \ suspended.serial,
                                       deferred \cap suspended.serial, suspended.asks)
                  /\ pc' = "tools"

\* handle_permission_response: an answer counts once, and not after the challenge expired.
RespondPermission ==
    /\ Dispatch("permit")
    /\ LET c == Head(inbox).call IN
       IF c \notin pending
       THEN UNCHANGED <<pc, engineVars, turns, approved>>
       ELSE /\ pending' = pending \ {c}
            /\ approved' = IF Head(inbox).yes THEN approved \cup {c} ELSE approved
            /\ \E ok \in BOOLEAN :
                  /\ ok => Allowed(Head(inbox))
                  /\ turns' = IF ok THEN turns ELSE PushResult(turns, c, "refused")
                  /\ Resolve(c, ok)
    /\ UNCHANGED <<cancel, compact, stopping, timeline, ended, calls, runs>>

\* The question the user has been shown: the first of a turn that waits for nothing else.
ActiveAsk(c) ==
    /\ suspended # None
    /\ suspended.perms = {}
    /\ suspended.asks # {}
    /\ c = Min(suspended.asks)

\* handle_ask_response; an answer that does not fit the question is refused.
RespondAsk ==
    /\ Dispatch("answer")
    /\ LET c == Head(inbox).call IN
       \/ UNCHANGED <<pc, run, suspended, turns>>
       \/ /\ ActiveAsk(c)
          /\ turns' = PushResult(turns, c, "ran")
          /\ IF suspended.asks # {c}
             THEN /\ suspended' = [suspended EXCEPT !.asks = @ \ {c}]
                  /\ UNCHANGED <<pc, run>>
             ELSE /\ suspended' = None
                  /\ run' = [turn |-> suspended.turn, round |-> suspended.round + 1,
                             caller |-> "lap"]
                  /\ pc' = "lap"
    /\ UNCHANGED <<cancel, work, pending, compact, stopping, timeline, ended, toolGhosts>>

\* handle_ask_dismiss: the turn is given up.
DismissAsk ==
    /\ Dispatch("dismiss")
    /\ IF ActiveAsk(Head(inbox).call)
       THEN /\ Seal(suspended.turn)
            /\ turns' = RemoveIncomplete(turns)
            /\ ResetEngines
            /\ ended' = ended \cup {suspended.turn}
       ELSE UNCHANGED <<suspended, pending, compact, turns, timeline, ended>>
    /\ UNCHANGED <<cancel, pc, run, work, stopping, toolGhosts>>

\* check_pending_compact between two commands: the summary is there, or it failed.
FinishCompact ==
    /\ pc = "idle" /\ ~stopping /\ compact # None
    /\ turns' \in {turns, Compacted(turns, compact.keep)}
    /\ compact' = None
    /\ UNCHANGED <<queueVars, cancel, pc, engineVars, stopping, timeline, ended, toolGhosts>>

Exit ==
    /\ pc = "idle" /\ stopping
    /\ pc' = "stopped"
    /\ UNCHANGED <<queueVars, cancel, engineVars, turns, compact, stopping, timeline, ended,
                   toolGhosts>>

----------------------------------------------------------------------------

Init ==
    /\ inbox = <<>> /\ arriving = None /\ received = 0
    /\ cancel = FALSE /\ stopping = FALSE
    /\ pc = "idle"
    /\ run = [turn |-> 0, round |-> 0, caller |-> "loop"]
    /\ work = NoWork
    /\ suspended = None /\ pending = {} /\ compact = None
    /\ turns = <<>> /\ timeline = <<>>
    /\ calls = <<>> /\ ended = {} /\ approved = {}
    /\ runs = [c \in 1 .. MaxCalls |-> 0]

Lap == LapCancelled \/ EnterGate

Gate ==
    \/ GateCancelled \/ GateFails \/ GateAnswers \/ GateAnswersWithSkill \/ GateRepeatsAnId
    \/ \E n \in 1 .. MaxCalls : GateCalls(n)

Tools ==
    \/ \E c \in 1 .. MaxCalls : RunParallel(c) \/ RunSerial(c)
    \/ Collect \/ CutSerial \/ StartSerial \/ ToolsCancelled \/ AskUser \/ RoundDone

Handle ==
    \/ SendMessage \/ Cancel \/ Shutdown \/ UndoTurn \/ StartCompact
    \/ RespondPermission \/ RespondAsk \/ DismissAsk

Next ==
    \/ \E cmd \in Commands : Receive(cmd)
    \/ Forward \/ Lap \/ Gate \/ Tools \/ Handle \/ FinishCompact \/ Exit

\* The model answers or its request times out; tools end; the loop does not rest on a
\* command.  Nothing is assumed of clients or of a compaction in the background.
Fairness ==
    WF_vars(Forward) /\ WF_vars(Lap) /\ WF_vars(Gate) /\ WF_vars(Tools)
    /\ WF_vars(Handle) /\ WF_vars(Exit)

Spec == Init /\ [][Next]_vars /\ Fairness

----------------------------------------------------------------------------
(* Properties.                                                             *)

Busy == pc \in {"lap", "gate", "tools"}

\* Every variable has its type: a suspension and a round name turns and calls that
\* exist, nobody is asked about a call that needs no permission.
AgentTypeOK ==
    /\ arriving = None \/ IsInterrupt(arriving)
    /\ pc \in {"idle", "lap", "gate", "tools", "stopped"}
    /\ cancel \in BOOLEAN /\ stopping \in BOOLEAN
    /\ run.turn \in 0 .. Len(timeline) /\ run.caller \in {"loop", "lap", "handler"}
    /\ \A set \in Range(work) \cup {pending, approved} : set \subseteq DOMAIN calls
    /\ \A c \in pending : calls[c] = "perm"
    /\ suspended # None => /\ suspended.turn \in DOMAIN timeline
                           /\ \A c \in suspended.asks : calls[c] = "ask"
    /\ Ids(turns) \cup ended \subseteq DOMAIN timeline
    /\ Range(timeline) \subseteq {"running", "sealed"}
    /\ Range(calls) \subseteq Kinds

\* Whenever the model is asked, every tool call it is shown has an answer: after
\* messages that supersede a suspended turn, cancels, undos, late answers and
\* compactions (a provider refuses the request otherwise, and the session with it).
GateSeesAnsweredCalls == pc = "gate" => CallsAnswered(turns)

\* A tool runs at most once, and one that needs permission only after it was given:
\* calls wait in the suspension, in the serial and the parallel batch, through cancels,
\* repeated answers and other turns.
RunsOnlyApproved ==
    \A c \in DOMAIN calls :
        /\ runs[c] <= (IF calls[c] \in {"run", "perm"} THEN 1 ELSE 0)
        /\ calls[c] = "perm" /\ runs[c] > 0 => c \in approved

\* From the moment an interrupt is received in a turn no tool starts and the turn gets no other
\* round; the step that ends the turn leaves it sealed, announced as ended and with no
\* open call behind.
InterruptEndsTurn ==
    [][(Busy /\ cancel) =>
          /\ runs' = runs
          /\ run'.round = run.round
          /\ pc' = "idle" => /\ timeline'[run.turn] = "sealed"
                             /\ run.turn \in ended'
                             /\ CallsAnswered(turns')]_vars

\* An interrupt that arrives while a turn runs brings the loop back to its queue, whatever
\* the turn was doing and however many rounds the model would still have asked for.
InterruptIsHeard == (Busy /\ cancel) ~> ~Busy

================================================================================
