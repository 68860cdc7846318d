---------------------------- MODULE TimelineReplay ----------------------------
(***************************************************************************)
(* What a consumer that only reads timeline entries rebuilds.  Reduce is a *)
(* reference reader: it knows the meaning of an entry and none of the      *)
(* appender's checks.  The appender "materializes snapshots from the same  *)
(* records it returns to transport", so the two must always agree.         *)
(***************************************************************************)
EXTENDS TimelineAppender, SequencesExt

View == [turns |-> turns, rounds |-> rounds, blocks |-> blocks]

\* The view after one entry, whatever it was before.
Reduce(view, entry) ==
    LET e == entry.event
        t == entry.turn
        known == t \in DOMAIN view.turns
    IN  CASE e.type = "TurnOpened" ->
               [turns |-> Put(view.turns, t,
                             [created |-> IF known THEN view.turns[t].created ELSE entry.seq,
                              sealed |-> FALSE, state |-> "Running"]),
                rounds |-> WithoutTurn(view.rounds, t),
                blocks |-> WithoutTurn(view.blocks, t)]
          [] e.type = "BlockOpened" ->
               LET r == <<e.key[1], e.key[2]>>
               IN  [view EXCEPT
                      !.rounds = IF r \in DOMAIN @ THEN @
                                 ELSE Put(@, r, [sealed |-> FALSE, final |-> FALSE]),
                      !.blocks = Put(@, e.key, e.block)]
          [] e.type = "TextDelta" -> [view EXCEPT !.blocks[e.key].text = @ + 1]
          [] e.type = "ToolProgress" -> [view EXCEPT !.blocks[e.key].tool.progress = @ + 1]
          [] e.type = "ToolUpdated" -> [view EXCEPT !.blocks[e.key].tool = e.tool]
          [] e.type = "BlockSealed" -> [view EXCEPT !.blocks[e.key].sealed = TRUE]
          [] e.type = "RoundSealed" ->
               [view EXCEPT !.rounds[e.key] = [sealed |-> TRUE, final |-> e.final]]
          [] e.type = "TurnSealed" ->
               [view EXCEPT !.turns[t].sealed = TRUE, !.turns[t].state = e.state]

\* replay_since leaves out what is numbered up to the reader's watermark.
Take(view, watermark, entry) ==
    IF entry.seq > watermark THEN Reduce(view, entry) ELSE view

Replay(view, watermark, entries) ==
    LET seen[n \in 0 .. Len(entries)] ==
            IF n = 0 THEN view ELSE Take(seen[n - 1], watermark, entries[n])
    IN  seen[Len(entries)]

EmptyView == [turns |-> <<>>, rounds |-> <<>>, blocks |-> <<>>]

\* Replaying the whole journal from nothing gives the materialized transcript,
\* so a client that joins by replay and one that joins by snapshot agree.
JournalRebuildsTranscript == Replay(EmptyView, 0, journal) = View

=============================================================================
