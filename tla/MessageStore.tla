------------------------------ MODULE MessageStore ------------------------------
(***************************************************************************)
(* A session's conversation in the agent's memory and in its files         *)
(* (crates/deepx-message/src/store.rs, crates/deepx-session/src).  The     *)
(* agent keeps the turns (TurnHistory) and a list of messages it has not   *)
(* saved; it saves them by appending to the archive messages.jsonl and     *)
(* replacing meta.json, and once the history is compacted it also keeps    *)
(* the view of the model in a file of its own, the compact context.  The   *)
(* files are written one after the other and the process may die between   *)
(* any two of the writes; the next one builds its memory from what it      *)
(* finds.  All processes enter the session in one index file, under a lock *)
(* that is the existence of a file.                                        *)
(*                                                                         *)
(* One action is what the agent's thread does up to its next write to a    *)
(* file; a write is whole or absent.  Texts, system messages and usage     *)
(* figures are left out.  The timeline is the daemon's record of the turns *)
(* that were announced to it.                                              *)
(***************************************************************************)
EXTENDS TurnHistory

CONSTANTS
    MaxTurns,        \* bound: turns that are opened
    MaxToolCalls,    \* bound: tool calls
    MaxCrashes,      \* bound: deaths of the agent's process
    MaxCompactions,  \* bound: compactions
    MaxUndos         \* bound: requests to undo a turn

ASSUME StoreBounds ==
    {MaxTurns, MaxToolCalls, MaxCrashes, MaxCompactions, MaxUndos} \subseteq Nat

VARIABLES
    turns,       \* MessageStore.turns
    pending,     \* MessageStore.pending_save
    seq,         \* MessageStore.next_turn_seq
    compacted,   \* MessageStore.has_compact_context
    phase,       \* "idle", "asking" the model, running "tools", "ending" a turn
    up,          \* the agent's process is alive
    io,          \* what the agent has yet to do before it goes on
    archive,     \* messages.jsonl
    meta,        \* meta.json: message_count and turn_count
    context,     \* the compact context, {} or {[at, messages]}
    lock,        \* who holds .index.lock
    timeline,    \* numbers of the turns that were announced
    undone,      \* history: turns that were cut off by an undo
    calls, crashes, compactions, undos

memory == <<turns, pending, seq, compacted, phase>>
files == <<archive, meta, context>>
counts == <<calls, crashes, compactions, undos>>
storeVars == <<memory, up, io, files, lock, timeline, undone, counts>>

Phases == {"idle", "asking", "tools", "ending"}

--------------------------------------------------------------------------------
(* Messages *)

UserMessage(id) == [role |-> "user", id |-> id]
AssistantMessage(asked) == [role |-> "assistant", calls |-> asked]
ToolMessage(call, answer) == [role |-> "tool", call |-> call, answer |-> answer]

StepMessages(step) ==
    <<AssistantMessage(step.calls)>> \o
    SetToSeq({ToolMessage(c, step.results[c]) : c \in DOMAIN step.results})

\* to_vec
Messages(history) ==
    FlattenSeq([i \in DOMAIN history |->
        <<UserMessage(history[i].id)>> \o
        FlattenSeq([j \in DOMAIN history[i].steps |-> StepMessages(history[i].steps[j])])])

\* A message is pushed again while the history is read back: nothing is settled.
PushAgain(history, message) ==
    CASE message.role = "user" -> Append(history, NewTurn(message.id))
      [] message.role = "assistant" /\ history # <<>> ->
            [history EXCEPT ![Len(history)].steps = Append(@, Step(message.calls))]
      [] message.role = "tool" -> PushResult(history, message.call, message.answer)
      [] OTHER -> history

Repaired(step) ==
    [calls |-> step.calls,
     results |-> [c \in step.calls |->
         IF c \in DOMAIN step.results THEN step.results[c] ELSE "not executed"]]

\* Mutant: only the last turn's last step is looked at.
RepairLast(history) ==
    IF ~HasStep(history) THEN history
    ELSE [history EXCEPT ![Len(history)].steps[Len(Last(history).steps)] = Repaired(@)]

RepairCalls(history) ==
    [i \in DOMAIN history |->
        [id |-> history[i].id,
         steps |-> [j \in DOMAIN history[i].steps |-> Repaired(history[i].steps[j])]]]

ReadBack(messages) ==
    LET read[n \in 0 .. Len(messages)] ==
            IF n = 0 THEN <<>> ELSE PushAgain(read[n - 1], messages[n])
    IN  read[Len(messages)]

\* from_messages
FromMessages(messages) == RepairCalls(ReadBack(messages))

--------------------------------------------------------------------------------
(* The files *)

UsableContext == {c \in context : c.at <= Len(archive)}

\* load_for_resume: what the next process takes for the conversation.
ActiveMessages ==
    IF UsableContext = {} THEN archive
    ELSE (CHOOSE c \in UsableContext : TRUE).messages

Restored == FromMessages(ActiveMessages)

Line(message) == [op |-> "line", message |-> message]
WriteMeta(messages, count) == [op |-> "meta", messages |-> messages, turns |-> count]
Rewrite == [op |-> "rewrite"]
NewContext == [op |-> "context"]
RefreshContext == [op |-> "refresh"]
Announce(id) == [op |-> "announce", id |-> id]

UpsertIndex == <<[op |-> "lock"], [op |-> "unlock"]>>

\* save_append
AppendOps(messages, history) ==
    [i \in DOMAIN messages |-> Line(messages[i])]
        \o <<WriteMeta(meta.messages + Len(messages), Len(history))>> \o UpsertIndex

\* Mutant: the context is left as it was when the history was compacted.
FlushArchiveOnly(history, unsaved) ==
    IF unsaved = <<>> THEN <<WriteMeta(meta.messages, Len(history))>> \o UpsertIndex
    ELSE AppendOps(unsaved, history)

\* flush_meta
FlushMeta(history, unsaved) ==
    IF unsaved = <<>> THEN <<WriteMeta(meta.messages, Len(history))>> \o UpsertIndex
    ELSE AppendOps(unsaved, history) \o IF compacted THEN <<RefreshContext>> ELSE <<>>

\* Mutant: a compaction rewrites the archive like an undo.
SnapshotToArchive(history, inContext) ==
    <<Rewrite, WriteMeta(Len(Messages(history)), Len(history))>> \o UpsertIndex

\* snapshot_full
SnapshotFull(history, inContext) ==
    IF inContext THEN <<NewContext>>
    ELSE <<Rewrite, WriteMeta(Len(Messages(history)), Len(history))>> \o UpsertIndex

--------------------------------------------------------------------------------
(* The agent *)

StoreInit ==
    /\ turns = <<>> /\ pending = <<>> /\ seq = 1 /\ compacted = FALSE
    /\ phase = "idle" /\ up = TRUE /\ io = <<>>
    /\ archive = <<>> /\ meta = [messages |-> 0, turns |-> 0] /\ context = {}
    /\ lock = "free" /\ timeline = {} /\ undone = {}
    /\ calls = 0 /\ crashes = 0 /\ compactions = 0 /\ undos = 0

Ready == up /\ io = <<>>

TurnOps(history, unsaved, id) == FlushMeta(history, unsaved) \o <<Announce(id)>>

\* handle_user_input
SendMessage ==
    /\ Ready /\ phase = "idle" /\ seq <= MaxTurns
    /\ LET unsaved == Append(pending, UserMessage(seq))
       IN  /\ turns' = PushUser(turns, seq)
           /\ io' = TurnOps(turns', unsaved, seq)
    /\ pending' = <<>> /\ seq' = seq + 1
    /\ phase' = "asking"
    /\ UNCHANGED <<compacted, up, files, lock, timeline, undone, counts>>

\* The model's answer, with the calls it asks for.
TakeAnswer ==
    /\ Ready /\ phase = "asking"
    /\ \E n \in 0..(MaxToolCalls - calls) :
          LET asked == (calls + 1)..(calls + n)
              unsaved == Append(pending, AssistantMessage(asked))
          IN  /\ turns' = PushAssistant(turns, asked)
              /\ io' = FlushMeta(turns', unsaved)
              /\ phase' = IF n = 0 THEN "ending" ELSE "tools"
              /\ calls' = calls + n
    /\ pending' = <<>>
    /\ UNCHANGED <<seq, compacted, up, files, lock, timeline, undone,
                   crashes, compactions, undos>>

\* A call has run or was refused: its result waits for the end of the round.
FinishCall ==
    /\ Ready /\ phase = "tools"
    /\ \E call \in Last(Last(turns).steps).calls, answer \in {"ran", "refused"} :
          /\ call \notin DOMAIN Last(Last(turns).steps).results
          /\ turns' = PushResult(turns, call, answer)
          /\ pending' = Append(pending, ToolMessage(call, answer))
    /\ UNCHANGED <<seq, compacted, phase, up, io, files, lock, timeline, undone, counts>>

\* emit_completed_tool_round
FinishRound ==
    /\ Ready /\ phase = "tools"
    /\ AllAnswered(Last(Last(turns).steps))
    /\ io' = FlushMeta(turns, pending)
    /\ pending' = <<>> /\ phase' = "asking"
    /\ UNCHANGED <<turns, seq, compacted, up, files, lock, timeline, undone, counts>>

\* The turn is cancelled or the request failed.
AbortTurn ==
    /\ Ready /\ phase \in {"asking", "tools"}
    /\ turns' = RemoveIncomplete(turns)
    /\ io' = FlushMeta(turns', pending)
    /\ pending' = <<>> /\ phase' = "ending"
    /\ UNCHANGED <<seq, compacted, up, files, lock, timeline, undone, counts>>

\* apply_outcome: the session is flushed once more when a turn is over.
EndTurn ==
    /\ Ready /\ phase = "ending"
    /\ io' = FlushMeta(turns, pending)
    /\ pending' = <<>> /\ phase' = "idle"
    /\ UNCHANGED <<turns, seq, compacted, up, files, lock, timeline, undone, counts>>

\* A compaction is applied: in a turn, when its laps are polled, or between turns.
Compact ==
    /\ Ready /\ compactions < MaxCompactions
    /\ \E keep \in 1..2 :
          /\ Len(turns) > keep
          /\ turns' = Compacted(turns, keep)
    /\ compacted' = TRUE
    /\ io' = SnapshotFull(turns', TRUE)
    /\ pending' = <<>>
    /\ compactions' = compactions + 1
    /\ UNCHANGED <<seq, phase, up, files, lock, timeline, undone, calls, crashes, undos>>

\* handle_undo.  The code takes any number; here it is one of a turn in memory.
\* A turn whose tools run can be undone only while it waits for the user.
Undo(id) ==
    /\ Ready /\ undos < MaxUndos
    /\ \/ phase = "idle"
       \/ phase = "tools" /\ id = Last(turns).id
    /\ turns' = Truncate(turns, id)
    /\ phase' = "idle"
    /\ IF turns' = turns THEN UNCHANGED <<pending, io>>
       ELSE pending' = <<>> /\ io' = SnapshotFull(turns', compacted)
    /\ undone' = undone \cup (Ids(turns) \ Ids(turns'))
    /\ undos' = undos + 1
    /\ UNCHANGED <<seq, compacted, up, files, lock, timeline, calls, crashes, compactions>>

UndoTurn == \E id \in Ids(turns) : Undo(id)

Agent ==
    \/ SendMessage \/ TakeAnswer \/ FinishCall \/ FinishRound
    \/ AbortTurn \/ EndTurn \/ Compact \/ UndoTurn

--------------------------------------------------------------------------------
(* Writes, one at a time *)

Do(op) == up /\ io # <<>> /\ Head(io).op = op /\ io' = Tail(io)

Untouched == <<memory, up, timeline, undone, counts>>

AppendLine ==
    /\ Do("line")
    /\ archive' = Append(archive, Head(io).message)
    /\ UNCHANGED <<Untouched, meta, context, lock>>

RewriteMessages ==
    /\ Do("rewrite")
    /\ archive' = Messages(turns)
    /\ UNCHANGED <<Untouched, meta, context, lock>>

ReplaceMeta ==
    /\ Do("meta")
    /\ meta' = [messages |-> Head(io).messages, turns |-> Head(io).turns]
    /\ UNCHANGED <<Untouched, archive, context, lock>>

\* save_compact_context and update_compact_context, which finds a context to
\* refresh: a compacted history has written one first.
WriteContext ==
    /\ Do("context") \/ Do("refresh")
    /\ context' = {[at |-> meta.messages, messages |-> Messages(turns)]}
    /\ UNCHANGED <<Untouched, archive, meta, lock>>

TakeIndexLock ==
    /\ Do("lock")
    /\ lock = "free"
    /\ lock' = "agent"
    /\ UNCHANGED <<Untouched, files>>

\* The index is replaced and the guard removes the file of the lock.
WriteIndex ==
    /\ Do("unlock")
    /\ lock' = "free"
    /\ UNCHANGED <<Untouched, files>>

TurnOpened ==
    /\ Do("announce")
    /\ timeline' = timeline \cup {Head(io).id}
    /\ UNCHANGED <<memory, up, undone, counts, files, lock>>

Write ==
    \/ AppendLine \/ RewriteMessages \/ ReplaceMeta \/ WriteContext
    \/ TakeIndexLock \/ WriteIndex \/ TurnOpened

\* Another session's agent enters its session in the index; it matters to this
\* one only when it is about to do the same.
OtherIndexes ==
    /\ \/ io # <<>> /\ Head(io).op = "lock" /\ lock = "free" /\ lock' = "other"
       \/ lock = "other" /\ lock' = "free"
    /\ UNCHANGED <<memory, up, io, files, timeline, undone, counts>>

--------------------------------------------------------------------------------
(* The process dies; the daemon starts another *)

Crash ==
    /\ up /\ crashes < MaxCrashes
    /\ up' = FALSE
    /\ turns' = <<>> /\ pending' = <<>> /\ seq' = 1 /\ compacted' = FALSE
    /\ phase' = "idle" /\ io' = <<>>
    /\ crashes' = crashes + 1
    /\ UNCHANGED <<files, lock, timeline, undone, calls, compactions, undos>>

\* Mutant: the turns of the timeline are not counted.
FloorWithoutTimeline(history) == Max({Len(history), meta.turns})

TurnFloor(history) == Max({Len(history), meta.turns} \cup timeline)

\* init_session
Resume ==
    /\ ~up
    /\ up' = TRUE
    /\ turns' = Restored
    /\ compacted' = (UsableContext # {})
    /\ seq' = TurnFloor(turns') + 1
    /\ UNCHANGED <<pending, phase, io, files, lock, timeline, undone, counts>>

StoreNext == Agent \/ Write \/ OtherIndexes \/ Crash \/ Resume

StoreSpec == StoreInit /\ [][StoreNext]_storeVars

--------------------------------------------------------------------------------
(* Properties *)

MessageSet ==
    [role : {"user"}, id : 0..MaxTurns]
        \cup [role : {"assistant"}, calls : SUBSET (1..MaxToolCalls)]
        \cup [role : {"tool"}, call : 1..MaxToolCalls,
              answer : Answers \cup {"not executed"}]

\* The state has its types.
StoreTypeOK ==
    /\ \A i \in DOMAIN turns :
          turns[i].id \in 0..MaxTurns
             /\ \A step \in Range(turns[i].steps) : DOMAIN step.results \subseteq step.calls
    /\ Range(pending) \cup Range(archive) \subseteq MessageSet
    /\ seq \in 1..(MaxTurns + 1) /\ compacted \in BOOLEAN
    /\ phase \in Phases /\ up \in BOOLEAN
    /\ meta \in [messages : Nat, turns : 0..(MaxTurns + 1)]
    /\ \A c \in context : c.at \in Nat /\ Range(c.messages) \subseteq MessageSet
    /\ lock \in {"free", "agent", "other"}
    /\ timeline \cup undone \subseteq 1..MaxTurns
    /\ calls \in 0..MaxToolCalls /\ crashes \in 0..MaxCrashes
    /\ compactions \in 0..MaxCompactions /\ undos \in 0..MaxUndos

\* A process that starts on the files of one that died, wherever it died, has
\* an answer for every call in its history: a provider refuses one without.
RestoresAnswered == [][up' /\ ~up => CallsAnswered(turns')]_storeVars

\* No turn gets a number under which the daemon has recorded another one: it
\* would refuse all that is sent for it, and the transcript would stay empty.
NumbersAreFresh == up => \A id \in timeline : id < seq

\* What a process that rests has in memory is what another would find in the
\* files: the same turns in the same order, and when nothing waits to be saved,
\* every call that ran has its result there and is not taken for not executed.
\* That is so unless the process died while an undo rewrote the files, after the
\* archive and before meta.json: a later context then names more messages than
\* there are and is passed over.
FilesMatchMemory ==
    Ready /\ meta.messages <= Len(archive) =>
        LET found == Restored
        IN  /\ [i \in DOMAIN turns |-> turns[i].id] = [i \in DOMAIN found |-> found[i].id]
            /\ pending = <<>> =>
                  \A i \in DOMAIN turns : \A step \in Range(turns[i].steps) :
                     \A c \in DOMAIN step.results : step.results[c] = "ran" =>
                        \E s \in Range(found[i].steps) :
                           c \in DOMAIN s.results /\ s.results[c] = "ran"

\* A message the user was shown as sent stays in the archive, whatever is
\* compacted and whenever the process dies, until the user takes it back.
SentIsArchived ==
    \A id \in timeline \ undone : UserMessage(id) \in Range(archive)
================================================================================
