------------------------------ MODULE TurnHistory ------------------------------
(***************************************************************************)
(* The conversation the model is shown, as a value                         *)
(* (crates/deepx-message/src/store.rs): a sequence of turns, each with the *)
(* assistant's steps, each with the tool calls it asked for and what they  *)
(* were answered.  A provider refuses a request in which a call has no     *)
(* answer.  Texts are left out.                                            *)
(***************************************************************************)
EXTENDS Integers, SequencesExt

Answers == {"ran", "refused", "skipped"}

Summary == 0    \* in place of a turn's number: the synthetic turn of a compaction

Step(calls) == [calls |-> calls, results |-> <<>>]
NewTurn(id) == [id |-> id, steps |-> <<>>]

Ids(history) == {history[i].id : i \in DOMAIN history} \ {Summary}

AllAnswered(step) == DOMAIN step.results = step.calls

\* A call that is answered keeps its answer.
Answer(step, new, answer) ==
    [calls |-> step.calls,
     results |-> [c \in DOMAIN step.results \cup new |->
                     IF c \in DOMAIN step.results THEN step.results[c] ELSE answer]]

Settle(step) == Answer(step, step.calls, "skipped")

HasStep(history) == history # <<>> /\ Last(history).steps # <<>>

\* auto_complete_unfulfilled of the last step: its open calls were not run.
SettleLast(history) ==
    IF ~HasStep(history) THEN history
    ELSE [history EXCEPT ![Len(history)].steps[Len(Last(history).steps)] = Settle(@)]

\* Mutant: a new message does not settle what the last turn left open.
PushUserOnly(history, id) == Append(history, NewTurn(id))

PushUser(history, id) == Append(SettleLast(history), NewTurn(id))

\* An assistant message without a turn to put it in is dropped.
PushAssistant(history, calls) ==
    IF history = <<>> THEN history
    ELSE LET settled == SettleLast(history)
         IN  [settled EXCEPT ![Len(history)].steps = Append(@, Step(calls))]

\* The step an answer goes to: of the newest turn that has the call, the first.
Owns(history, i, k, call) ==
    /\ call \in history[i].steps[k].calls
    /\ \A l \in 1 .. k - 1 : call \notin history[i].steps[l].calls
    /\ \A j \in i + 1 .. Len(history) :
          \A l \in DOMAIN history[j].steps : call \notin history[j].steps[l].calls

\* push_tool_result_inner of each of the calls; an unknown one is dropped.
PushResults(history, calls, answer) ==
    [i \in DOMAIN history |->
        [id |-> history[i].id,
         steps |-> [k \in DOMAIN history[i].steps |->
                       Answer(history[i].steps[k], {c \in calls : Owns(history, i, k, c)},
                              answer)]]]

PushResult(history, call, answer) == PushResults(history, {call}, answer)

RemoveIncomplete(history) ==
    IF ~HasStep(history) \/ AllAnswered(Last(Last(history).steps)) THEN history
    ELSE [history EXCEPT ![Len(history)].steps = Front(@)]

\* truncate_before_turn takes the number of a turn for its position.
Truncate(history, id) ==
    IF id > Len(history) THEN history ELSE SubSeq(history, 1, id - 1)

Compacted(history, keep) ==
    LET kept == IF keep = 0 THEN 1 ELSE keep
        skip == Len(history) - kept
    IN  IF skip <= 0 THEN history
        ELSE <<NewTurn(Summary)>> \o SubSeq(history, skip + 1, Len(history))

CallsAnswered(history) ==
    \A i \in DOMAIN history : \A step \in Range(history[i].steps) : AllAnswered(step)
================================================================================
