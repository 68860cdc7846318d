------------------------------ MODULE GateStream ------------------------------
(***************************************************************************)
(* One request to a model provider, from the post to the assistant message *)
(* (crates/deepx-gate: openai.rs, responses.rs, tool_parser.rs; the lap of *)
(* the agent that listens to it, deepx-msglp ringing_v1/engine_turn.rs and *)
(* util).  The answer arrives in pieces.  Every piece is shown at once, in *)
(* the blocks of a timeline round, and kept: at the end the gate builds a  *)
(* message of what it kept, and the agent runs the calls of that message.  *)
(*                                                                         *)
(* One action reads one event of the stream; a user may cancel in between. *)
(* A text is the sequence of the numbers of its pieces.  A call comes as   *)
(* fragments of its arguments, as one whole item, or as markup in the      *)
(* text, of one of two kinds that are recognised.                          *)
(***************************************************************************)
EXTENDS Naturals, Sequences, SequencesExt, FiniteSets, FiniteSetsExt

CONSTANTS
    Names,       \* tools that markup may name
    Fragments,   \* fragments of the arguments of a call
    MaxRetries,  \* attempts to post the request (MAX_RETRIES)
    MaxPieces,   \* bound: pieces of an answer
    MaxToolCalls \* bound: calls of each kind in an answer

ASSUME GateAssumption ==
    /\ Fragments \in Nat \ {0} /\ MaxRetries \in Nat \ {0}
    /\ MaxPieces \in Nat /\ MaxToolCalls \in Nat

VARIABLES
    api,        \* the protocol of the provider: "openai" or "responses"
    phase,      \* "post", "wait" to post again, "poll" the flag, "read", "return", "over"
    attempt,    \* posts so far
    cancelled,  \* the cancel token of the turn
    sent,       \* the provider: the pieces of its answer so far
    gate,       \* what stream_sse or ResponsesParseState has accumulated
    lap         \* what run_lap has, the blocks it has in the timeline among it

gateVars == <<api, phase, attempt, cancelled, sent, gate, lap>>

Nothing == [none |-> TRUE]
Native(i) == <<"native", i>>
Marked(flavour, i) == <<flavour, i>>

Piece(type, kind, of) == [type |-> type, kind |-> kind, of |-> of]
Markup == {"dsml", "xml"}

\* The numbers of a text that are among these places, in order.
Among(text, places) ==
    LET kept[i \in 0 .. Len(text)] ==
            IF i = 0 THEN <<>>
            ELSE IF text[i] \in places THEN Append(kept[i - 1], text[i]) ELSE kept[i - 1]
    IN  kept[Len(text)]

PlacesOf(type) == {n \in DOMAIN sent : sent[n].type = type}
OfType(text, type) == Among(text, PlacesOf(type))

GateInit ==
    /\ api \in {"openai", "responses"}
    /\ phase = "post" /\ attempt = 0
    /\ cancelled = FALSE
    /\ sent = <<>>
    /\ gate = [text |-> <<>>, reasoning |-> <<>>, thinking |-> FALSE, calls |-> <<>>, names |-> {}]
    /\ lap = [content |-> <<>>, reasoning |-> <<>>, calls |-> <<>>, active |-> Nothing, segment |-> 0,
              tools |-> {}, error |-> FALSE, step |-> Nothing,
              blocks |-> <<>>, sealed |-> FALSE, turn |-> "Running"]

----------------------------------------------------------------------------
(* The blocks of the round in the timeline.  An intent that is not         *)
(* accepted changes nothing.                                               *)

OpenBlock(blocks, id, kind) ==
    IF \E k \in DOMAIN blocks : blocks[k].id = id THEN blocks
    ELSE Append(blocks, [id |-> id, kind |-> kind, text |-> <<>>, sealed |-> FALSE])

AppendText(blocks, id, n) ==
    [k \in DOMAIN blocks |-> IF blocks[k].id = id /\ ~blocks[k].sealed
                             THEN [blocks[k] EXCEPT !.text = Append(@, n)] ELSE blocks[k]]

SealBlocks(blocks, ids) ==
    [k \in DOMAIN blocks |-> [blocks[k] EXCEPT !.sealed = @ \/ blocks[k].id \in ids]]

AllSealed(blocks) == \A k \in DOMAIN blocks : blocks[k].sealed

----------------------------------------------------------------------------
(* What the lap does at an event of the gate.                              *)

ActiveIds(l) == IF l.active = Nothing THEN {} ELSE {l.active.id}

SealActive(l) == [l EXCEPT !.active = Nothing, !.blocks = SealBlocks(@, ActiveIds(l))]

EnsureStreamBlock(l, kind) ==
    IF l.active # Nothing /\ l.active.kind = kind THEN l
    ELSE LET id == <<kind, l.segment>>
         IN  [SealActive(l) EXCEPT !.blocks = OpenBlock(@, id, kind), !.segment = @ + 1,
                                   !.active = [id |-> id, kind |-> kind]]

\* Once cancelled, nothing more is shown or kept.
Delta(l, n, kind) ==
    LET m == EnsureStreamBlock(l, kind)
    IN  IF cancelled THEN l
        ELSE [m EXCEPT !.content = IF kind = "Text" THEN Append(@, n) ELSE @,
                       !.reasoning = IF kind = "Reasoning" THEN Append(@, n) ELSE @,
                       !.blocks = AppendText(@, m.active.id, n)]

\* The first sign of a call opens its block, cancelled or not.
Progress(l, id) ==
    LET m == SealActive(l)
    IN  IF id \in l.tools THEN m
        ELSE [m EXCEPT !.tools = @ \cup {id}, !.blocks = OpenBlock(@, id, "Tool")]

\* Done: the message takes the place of what was collected.
Done(l, text, reasoning, calls) ==
    [l EXCEPT !.content = text, !.reasoning = reasoning,
              !.calls = IF calls = <<>> THEN @ ELSE calls]

----------------------------------------------------------------------------
(* The gate: posting, and posting again.                                   *)

Stay == UNCHANGED <<api, sent, gate>>

Return(l) == phase' = "return" /\ lap' = l

\* Mutant: a stream that broke is asked for again as well.
ReturnOrRetry(l) ==
    IF attempt < MaxRetries THEN /\ phase' = "wait" /\ lap' = [l EXCEPT !.error = FALSE]
    ELSE phase' = "return" /\ lap' = l

GiveUp == [lap EXCEPT !.error = TRUE]

PostCancelled == phase = "post" /\ cancelled /\ Return(GiveUp) /\ Stay /\ UNCHANGED <<attempt, cancelled>>

Post ==
    /\ phase = "post" /\ ~cancelled
    /\ attempt' = attempt + 1
    /\ \/ phase' = "poll" /\ UNCHANGED lap                               \* 2xx
       \/ attempt + 1 < MaxRetries /\ phase' = "wait" /\ UNCHANGED lap   \* Retrying
       \/ Return(GiveUp)                                              \* refused for good, or once too often
    /\ Stay /\ UNCHANGED cancelled

\* sleep_with_cancel.
WaitEnds ==
    /\ phase = "wait"
    /\ IF cancelled THEN Return(GiveUp) ELSE phase' = "post" /\ UNCHANGED lap
    /\ Stay /\ UNCHANGED <<attempt, cancelled>>

Poll ==
    /\ phase = "poll"
    /\ IF cancelled THEN Return(GiveUp) ELSE phase' = "read" /\ UNCHANGED lap
    /\ Stay /\ UNCHANGED <<attempt, cancelled>>

RaiseCancel ==
    /\ phase # "over" /\ ~cancelled
    /\ cancelled' = TRUE
    /\ UNCHANGED <<api, phase, attempt, sent, gate, lap>>

----------------------------------------------------------------------------
(* The gate: reading.  The provider sends the calls of an answer in the    *)
(* order of their indices and the fragments of one call in order.          *)

Number == Len(sent) + 1

Send(p) ==
    /\ phase = "read" /\ Len(sent) < MaxPieces
    /\ sent' = Append(sent, p)
    /\ phase' = "poll"
    /\ UNCHANGED <<api, attempt, cancelled>>

TextKind == IF gate.thinking THEN "Reasoning" ELSE "Text"

Kept(g, n, kind) ==
    IF kind = "Text" THEN [g EXCEPT !.text = Append(@, n)] ELSE [g EXCEPT !.reasoning = Append(@, n)]

ReadText ==
    /\ Send(Piece("text", TextKind, 0))
    /\ gate' = Kept(gate, Number, TextKind)
    /\ lap' = Delta(lap, Number, TextKind)

ReadReasoning ==
    /\ Send(Piece("text", "Reasoning", 0))
    /\ gate' = Kept(gate, Number, "Reasoning")
    /\ lap' = Delta(lap, Number, "Reasoning")

\* <think> or </think> in the text.
ReadTag ==
    /\ api = "openai"
    /\ Send(Piece("tag", "none", 0))
    /\ gate' = [gate EXCEPT !.thinking = ~@]
    /\ UNCHANGED lap

\* A call in the text.  openai.rs shows a name of that kind of markup the first time it sees it.
ReadMarkup(flavour, name) ==
    /\ Cardinality({n \in DOMAIN sent : sent[n].type \in Markup}) < MaxToolCalls
    /\ Send(Piece(flavour, TextKind, 0))
    /\ LET shown == Delta(lap, Number, TextKind)
           new == api = "openai" /\ flavour = "dsml" /\ TextKind = "Text" /\ name \notin gate.names
       IN  IF new
           THEN /\ gate' = [Kept(gate, Number, "Text") EXCEPT !.names = @ \cup {name}]
                /\ lap' = Progress(shown, Marked("dsml", Cardinality(gate.names)))
           ELSE gate' = Kept(gate, Number, TextKind) /\ lap' = shown

OneMore(calls, i) == IF i \in DOMAIN calls THEN [calls EXCEPT ![i] = @ + 1] ELSE Append(calls, 1)

\* openai: the next fragment of a call that has begun, or the first of the next one.
ReadFragment(i) ==
    /\ api = "openai"
    /\ i \in 1 .. MaxToolCalls
    /\ i \in DOMAIN gate.calls => gate.calls[i] < Fragments
    /\ i \notin DOMAIN gate.calls => i = Len(gate.calls) + 1
    /\ Send(Piece("fragment", "none", i))
    /\ gate' = [gate EXCEPT !.calls = OneMore(@, i)]
    /\ lap' = Progress(lap, Native(i))

\* responses: output_item.done of a function call, with all of its arguments.
ReadItem ==
    /\ api = "responses" /\ Len(gate.calls) < MaxToolCalls
    /\ Send(Piece("item", "none", Len(gate.calls) + 1))
    /\ gate' = [gate EXCEPT !.calls = Append(@, Fragments)]
    /\ lap' = Progress(lap, Native(Len(gate.calls) + 1))

\* Mutant: as Broken, with the request posted again.
BrokenRetries ==
    /\ phase = "read"
    /\ ReturnOrRetry(GiveUp)
    /\ gate' = [gate EXCEPT !.text = <<>>, !.reasoning = <<>>, !.calls = <<>>, !.names = {}]
    /\ UNCHANGED <<api, sent, attempt, cancelled>>

\* A read error, or response.failed.
Broken ==
    /\ phase = "read"
    /\ Return(GiveUp)
    /\ Stay /\ UNCHANGED <<attempt, cancelled>>

----------------------------------------------------------------------------
(* The message.                                                            *)

\* Arguments that do not parse become null.
Arguments(fragments) == IF fragments = Fragments THEN "whole" ELSE "null"
NativeCalls == [i \in DOMAIN gate.calls |-> [id |-> Native(i), args |-> Arguments(gate.calls[i])]]

MarkedCalls(text, flavour) ==
    LET places == OfType(text, flavour)
    IN  [k \in DOMAIN places |-> [id |-> Marked(flavour, k - 1), args |-> "whole"]]

\* tool_acc: the calls of the markup get the indices after the others.
Merge(native, marked) == native \o marked

OpenaiMessage(l) ==
    Done(l, Among(gate.text, DOMAIN sent \ PlacesOf("dsml")), gate.reasoning,
         Merge(NativeCalls, MarkedCalls(gate.text, "dsml")))

ResponsesMessage(l) == Done(l, gate.text, gate.reasoning, NativeCalls)

\* The end of the stream, wherever the answer stands.
StreamEnds ==
    /\ phase = "read"
    /\ Return(IF api = "openai" THEN OpenaiMessage(lap) ELSE ResponsesMessage(lap))
    /\ Stay /\ UNCHANGED <<attempt, cancelled>>

----------------------------------------------------------------------------
(* After the request.                                                      *)

SealTerminal(l, state) ==
    LET blocks == SealBlocks(l.blocks, ActiveIds(l) \cup l.tools)
    IN  [l EXCEPT !.blocks = blocks, !.sealed = blocks # <<>> /\ AllSealed(blocks),
                  !.turn = IF AllSealed(blocks) THEN state ELSE @]

LapIsCancelled ==
    /\ phase = "return" /\ cancelled
    /\ lap' = SealTerminal(lap, "Cancelled")
    /\ phase' = "over"
    /\ Stay /\ UNCHANGED <<attempt, cancelled>>

LapFails ==
    /\ phase = "return" /\ ~cancelled /\ lap.error
    /\ lap' = SealTerminal(lap, "Failed")
    /\ phase' = "over"
    /\ Stay /\ UNCHANGED <<attempt, cancelled>>

\* Mutant: markup in the text counts for nothing.
ParsedNative == lap.calls

\* Markup in the text counts only when there is no call otherwise, one kind before the other.
Parsed ==
    LET dsml == MarkedCalls(lap.content, "dsml")
    IN  IF lap.calls # <<>> THEN lap.calls
        ELSE IF dsml # <<>> THEN dsml ELSE MarkedCalls(lap.content, "xml")

IdsOf(calls) == {calls[k].id : k \in DOMAIN calls}

\* Mutant: calls that were not announced get no block.
OpenNone(l, calls) == l

OpenAll(blocks, calls) ==
    LET opened[i \in 0 .. Len(calls)] ==
            IF i = 0 THEN blocks ELSE OpenBlock(opened[i - 1], calls[i].id, "Tool")
    IN  opened[Len(calls)]

OpenMissing(l, calls) ==
    [l EXCEPT !.tools = @ \cup IdsOf(calls), !.blocks = OpenAll(@, calls)]

LapAnswered ==
    /\ phase = "return" /\ ~cancelled /\ ~lap.error
    /\ LET l == SealActive(OpenMissing(lap, Parsed))
       IN  lap' = [l EXCEPT !.step = [text |-> lap.content, reasoning |-> lap.reasoning, calls |-> Parsed],
                            !.sealed = Parsed = <<>> /\ l.blocks # <<>> /\ AllSealed(l.blocks)]
    /\ phase' = "over"
    /\ Stay /\ UNCHANGED <<attempt, cancelled>>

GateNext ==
    \/ PostCancelled \/ Post \/ WaitEnds \/ Poll \/ RaiseCancel
    \/ ReadText \/ ReadReasoning \/ ReadTag \/ ReadItem \/ Broken \/ StreamEnds
    \/ \E flavour \in Markup, name \in Names : ReadMarkup(flavour, name)
    \/ \E i \in 1 .. MaxToolCalls : ReadFragment(i)
    \/ LapIsCancelled \/ LapFails \/ LapAnswered

GateSpec == GateInit /\ [][GateNext]_gateVars

----------------------------------------------------------------------------
(* Properties.                                                             *)

Places == 1 .. MaxPieces
Texts == BoundedSeq(Places, MaxPieces)
BlockIds ==
    {"Text", "Reasoning"} \X (0 .. MaxPieces)
    \cup {Native(i) : i \in 1 .. MaxToolCalls} \cup Markup \X (0 .. MaxToolCalls)

\* The type invariant; while the lap goes on, the block that is written to is open.
TypeOK ==
    /\ api \in {"openai", "responses"} /\ cancelled \in BOOLEAN
    /\ phase \in {"post", "wait", "poll", "read", "return", "over"}
    /\ attempt \in 0 .. MaxRetries
    /\ Len(sent) <= MaxPieces
    /\ {gate.text, gate.reasoning, lap.content, lap.reasoning} \subseteq Texts
    /\ gate.thinking \in BOOLEAN /\ gate.names \subseteq Names
    /\ gate.calls \in BoundedSeq(1 .. Fragments, MaxToolCalls)
    /\ lap.tools \subseteq BlockIds
    /\ \A k \in DOMAIN lap.blocks : lap.blocks[k].id \in BlockIds /\ lap.blocks[k].text \in Texts
    /\ phase # "over" /\ lap.active # Nothing =>
         \E k \in DOMAIN lap.blocks : lap.blocks[k].id = lap.active.id /\ ~lap.blocks[k].sealed
    /\ lap.turn \in {"Running", "Cancelled", "Failed"}
    /\ lap.error \in BOOLEAN /\ lap.sealed \in BOOLEAN

Answered == lap.step # Nothing

\* What a user sees of a kind: the text of the blocks, one after the other.
Shown(kind) ==
    FlattenSeq([k \in DOMAIN lap.blocks |-> IF lap.blocks[k].kind = kind THEN lap.blocks[k].text ELSE <<>>])

SentOf(kind) == Among([n \in DOMAIN sent |-> n], {n \in DOMAIN sent : sent[n].kind = kind})

\* The history gets the text and the reasoning that the user has read, every piece the
\* provider sent exactly once and in order, whatever retries there were; only the markup
\* of calls that openai.rs recognises is taken out of it.
MessageIsWhatWasShown ==
    Answered =>
      /\ lap.step.reasoning = Shown("Reasoning") /\ Shown("Reasoning") = SentOf("Reasoning")
      /\ Shown("Text") = SentOf("Text")
      /\ lap.step.text = IF api = "responses" THEN Shown("Text")
                         ELSE Among(Shown("Text"), DOMAIN sent \ PlacesOf("dsml"))

Whole(i) == Cardinality({n \in DOMAIN sent : sent[n] = Piece("fragment", "none", i)}) = Fragments
            \/ Piece("item", "none", i) \in ToSet(sent)

\* How many calls of a kind the message has, and how many the text that was shown.
CallsOf(kind) ==
    LET calls == lap.step.calls IN Cardinality({k \in DOMAIN calls : calls[k].id[1] = kind})
InText(flavour) == Len(OfType(Shown("Text"), flavour))

\* The calls of an answer are those the provider completed, however the fragments of several
\* are mixed and wherever the stream ends; none is run twice, none with arguments cut off.
\* What is in the text as markup runs, every call of it, but for what util leaves out: any kind
\* beside a call that is no markup, except that openai.rs takes up the first kind itself, and
\* the second kind beside the first.
CallsAsSent ==
    Answered =>
      LET calls == lap.step.calls IN
      /\ \A j, k \in DOMAIN calls : calls[j].id = calls[k].id => j = k
      /\ \A i \in 1 .. MaxToolCalls :
           /\ Whole(i) <=> [id |-> Native(i), args |-> "whole"] \in ToSet(calls)
           /\ \A j, k \in DOMAIN calls :
                calls[j].id = Native(i) /\ calls[k].id[1] = "native" /\ j < k => calls[k].id[2] > i
      /\ CallsOf("dsml") = IF api = "responses" /\ CallsOf("native") > 0 THEN 0 ELSE InText("dsml")
      /\ CallsOf("xml") = IF CallsOf("native") + CallsOf("dsml") > 0 THEN 0 ELSE InText("xml")

\* When the lap is over the timeline can go on, provided that what was sent was whole calls and
\* markup that is complete: a turn that ends here is sealed with all that is in it; otherwise
\* the blocks still open are exactly those of the calls that will now run, and without calls
\* the round is sealed.
RoundCloses ==
    phase = "over" =>
      LET open == {lap.blocks[k].id : k \in {j \in DOMAIN lap.blocks : ~lap.blocks[j].sealed}} IN
      /\ ~Answered => lap.turn # "Running" /\ open = {}
      /\ Answered => open = IdsOf(lap.step.calls)
      /\ Answered /\ lap.step.calls = <<>> /\ lap.blocks # <<>> => lap.sealed
=============================================================================
