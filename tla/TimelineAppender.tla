--------------------------- MODULE TimelineAppender ---------------------------
(***************************************************************************)
(* The single-writer transcript timeline of one session seed               *)
(* (crates/deepx-runtime/src/timeline.rs).  A worker sends ordered intents;*)
(* the appender validates each one against the materialized transcript,    *)
(* changes the transcript, and numbers and journals the resulting entry.   *)
(* A rejected intent (an Err in the code) changes nothing: it is a step of *)
(* no action.                                                              *)
(*                                                                         *)
(* The nested vectors of the code (turn.rounds[i].blocks[j]) are three     *)
(* maps keyed by identity: `turns` by turn id, `rounds` by <<turn, round>>,*)
(* `blocks` by <<turn, round, block>>.  A block's text is the number of    *)
(* fragments appended to it, a tool's progress the number of chunks.       *)
(***************************************************************************)
EXTENDS Naturals, Sequences, FiniteSets

CONSTANTS
    TurnIds,     \* turn ids a worker may use (t1, t2, ...)
    BlockIds,    \* block ids a worker may use within one round
    ToolCalls,   \* identities (tool_call_id, name) of tool calls
    Outcomes,    \* terminal states a worker gives a turn (Completed, Failed, Cancelled)
    MaxRounds,   \* bound: rounds opened per turn
    MaxSeq       \* bound: entries journalled for the seed

ASSUME BoundsAssumption == MaxRounds \in Nat /\ MaxSeq \in Nat

VARIABLES
    nextSeq,       \* SeedTimeline.next_seq: last sequence number given out
    turns,         \* SeedTimeline.turns
    rounds,        \* the rounds of every turn
    blocks,        \* the blocks of every round
    journal,       \* SeedTimeline.journal
    nextFragment   \* SeedTimeline.next_fragment

transcript == <<turns, rounds, blocks>>
appenderVars == <<nextSeq, turns, rounds, blocks, journal, nextFragment>>

----------------------------------------------------------------------------
(* Records of the transcript.                                              *)

\* Reasoning and Text blocks obey the same rules: both are "Text" here.
BlockKinds == {"Text", "Tool", "Notice"}

\* "Interrupted" is Cancelled with the failure daemon_restart_interrupted,
\* which only the orphan sealer writes.
TurnStates == Outcomes \cup {"Running", "Interrupted"}

NoTool == [call |-> "none"]
Tools == [call : ToolCalls, progress : Nat, permission : BOOLEAN]

Turns == [created : Nat, sealed : BOOLEAN, state : TurnStates]
Rounds == [sealed : BOOLEAN, final : BOOLEAN]
Blocks == [order : Nat, kind : BlockKinds, sealed : BOOLEAN, text : Nat,
           tool : Tools \cup {NoTool}]

RoundKeys == TurnIds \X Nat
BlockKeys == TurnIds \X Nat \X BlockIds

----------------------------------------------------------------------------
(* Maps with a growing domain, as BTreeMap and HashMap are.                *)

Put(f, key, value) ==
    [k \in DOMAIN f \cup {key} |-> IF k = key THEN value ELSE f[k]]

\* retain(|(turn, ..)| turn != turn_id), and rounds.clear() of one turn.
WithoutTurn(f, t) == [k \in {j \in DOMAIN f : j[1] # t} |-> f[k]]

RoundsOf(t) == {k \in DOMAIN rounds : k[1] = t}
BlocksOf(t, r) == {k \in DOMAIN blocks : k[1] = t /\ k[2] = r}

\* Mutant: the counter is kept by turn and block.
FragmentSeqOfBlock(k) ==
    Len(SelectSeq(journal, LAMBDA e : /\ e.turn = k[1] /\ e.event.type = "TextDelta"
                                      /\ e.event.key[3] = k[3]))

\* next_fragment.get(key).copied().unwrap_or(0)
FragmentSeq(k) == IF k \in DOMAIN nextFragment THEN nextFragment[k] ELSE 0

----------------------------------------------------------------------------
(* Numbering.  Every accepted intent ends here.                            *)

\* The entry an accepted intent is journalled as.  Bounded by MaxSeq.
NextEntry(t, event) ==
    /\ nextSeq < MaxSeq
    /\ nextSeq' = nextSeq + 1
    /\ journal' = Append(journal, [seq |-> nextSeq + 1, turn |-> t, event |-> event])

----------------------------------------------------------------------------
(* One action per intent.                                                  *)

NewTurn(t) ==
    /\ t \notin DOMAIN turns
    /\ turns' = Put(turns, t, [created |-> nextSeq + 1, sealed |-> FALSE, state |-> "Running"])
    /\ UNCHANGED <<rounds, blocks, nextFragment>>

\* Mutant: the rounds of the earlier life survive.
ForgetCounters(t) ==
    /\ nextFragment' = WithoutTurn(nextFragment, t)
    /\ UNCHANGED <<rounds, blocks>>

ForgetTurn(t) ==
    /\ rounds' = WithoutTurn(rounds, t)
    /\ blocks' = WithoutTurn(blocks, t)
    /\ nextFragment' = WithoutTurn(nextFragment, t)

\* A sealed turn is reset in place when its id is reused: it keeps the
\* sequence number it was first created with and loses its rounds.
ReopenTurn(t) ==
    /\ t \in DOMAIN turns
    /\ turns[t].sealed
    /\ turns' = [turns EXCEPT ![t].sealed = FALSE, ![t].state = "Running"]
    /\ ForgetTurn(t)

OpenTurn(t) ==
    /\ NewTurn(t) \/ ReopenTurn(t)
    /\ NextEntry(t, [type |-> "TurnOpened"])

\* Mutant: a sealed round still takes blocks.
RoundAlwaysAcceptsBlock(t, r) ==
    <<t, r>> \in DOMAIN rounds \/ r = Cardinality(RoundsOf(t))

\* A round comes into being with its first block: the next number in line.
RoundAcceptsBlock(t, r) ==
    \/ <<t, r>> \in DOMAIN rounds /\ ~rounds[<<t, r>>].sealed
    \/ <<t, r>> \notin DOMAIN rounds /\ r = Cardinality(RoundsOf(t))

WellShaped(kind, tool) == (kind = "Tool") <=> (tool # NoTool)

NextOrder(t, r) == Cardinality(BlocksOf(t, r))

OpenBlock(t, r, b, kind, tool) ==
    /\ WellShaped(kind, tool)
    /\ t \in DOMAIN turns
    /\ ~turns[t].sealed
    /\ RoundAcceptsBlock(t, r)
    /\ <<t, r, b>> \notin DOMAIN blocks
    /\ rounds' = IF <<t, r>> \in DOMAIN rounds THEN rounds
                 ELSE Put(rounds, <<t, r>>, [sealed |-> FALSE, final |-> FALSE])
    /\ LET block == [order |-> NextOrder(t, r), kind |-> kind,
                     sealed |-> FALSE, text |-> 0, tool |-> tool]
       IN  /\ blocks' = Put(blocks, <<t, r, b>>, block)
           /\ NextEntry(t, [type |-> "BlockOpened", key |-> <<t, r, b>>, block |-> block])
    /\ UNCHANGED <<turns, nextFragment>>

\* Mutant: sealed blocks take updates.
OpenForAnyUpdate(k) == k \in DOMAIN blocks

\* Neither the turn nor the round is asked whether it is sealed: only the block.
OpenForUpdate(k) ==
    /\ k \in DOMAIN blocks
    /\ ~blocks[k].sealed

AppendText(k) ==
    /\ OpenForUpdate(k)
    /\ blocks[k].kind = "Text"
    /\ blocks' = [blocks EXCEPT ![k].text = @ + 1]
    /\ nextFragment' = Put(nextFragment, k, FragmentSeq(k) + 1)
    /\ NextEntry(k[1], [type |-> "TextDelta", key |-> k, fragment |-> FragmentSeq(k)])
    /\ UNCHANGED <<turns, rounds>>

\* A lifecycle update keeps the call's identity, and the progress and the
\* permission record its producer left out.
ReplaceTool(k, tool) ==
    /\ OpenForUpdate(k)
    /\ blocks[k].tool # NoTool
    /\ tool.call = blocks[k].tool.call
    /\ LET kept == blocks[k].tool
           next == [tool EXCEPT
                      !.progress = IF @ = 0 THEN kept.progress ELSE @,
                      !.permission = @ \/ kept.permission]
       IN  /\ blocks' = [blocks EXCEPT ![k].tool = next]
           /\ NextEntry(k[1], [type |-> "ToolUpdated", key |-> k, tool |-> next])
    /\ UNCHANGED <<turns, rounds, nextFragment>>

AppendToolProgress(k) ==
    /\ OpenForUpdate(k)
    /\ blocks[k].tool # NoTool
    /\ blocks' = [blocks EXCEPT ![k].tool.progress = @ + 1]
    /\ NextEntry(k[1], [type |-> "ToolProgress", key |-> k])
    /\ UNCHANGED <<turns, rounds, nextFragment>>

\* Sealing a sealed block, round or turn again is accepted and journalled.
SealBlock(k) ==
    /\ k \in DOMAIN blocks
    /\ blocks' = [blocks EXCEPT ![k].sealed = TRUE]
    /\ NextEntry(k[1], [type |-> "BlockSealed", key |-> k])
    /\ UNCHANGED <<turns, rounds, nextFragment>>

SealRound(t, r, final) ==
    /\ <<t, r>> \in DOMAIN rounds
    /\ \A k \in BlocksOf(t, r) : blocks[k].sealed
    /\ rounds' = [rounds EXCEPT ![<<t, r>>] = [sealed |-> TRUE, final |-> final]]
    /\ NextEntry(t, [type |-> "RoundSealed", key |-> <<t, r>>, final |-> final])
    /\ UNCHANGED <<turns, blocks, nextFragment>>

SealTurn(t, state) ==
    /\ t \in DOMAIN turns
    /\ \A k \in RoundsOf(t) : rounds[k].sealed
    /\ turns' = [turns EXCEPT ![t].sealed = TRUE, ![t].state = state]
    /\ NextEntry(t, [type |-> "TurnSealed", state |-> state])
    /\ UNCHANGED <<rounds, blocks, nextFragment>>

----------------------------------------------------------------------------
AppenderInit ==
    /\ nextSeq = 0
    /\ turns = <<>>
    /\ rounds = <<>>
    /\ blocks = <<>>
    /\ journal = <<>>
    /\ nextFragment = <<>>

\* What the worker may put in a BlockOpened or ToolUpdated intent.
OfferedTools == [call : ToolCalls, progress : {0}, permission : BOOLEAN]

\* The intents that are persisted before publish_timeline returns.
TerminalIntent ==
    \/ \E k \in DOMAIN blocks : SealBlock(k)
    \/ \E k \in DOMAIN rounds, final \in BOOLEAN : SealRound(k[1], k[2], final)
    \/ \E t \in TurnIds, state \in Outcomes : SealTurn(t, state)

StreamingIntent ==
    \/ \E t \in TurnIds : OpenTurn(t)
    \/ \E t \in TurnIds, r \in 0 .. MaxRounds - 1, b \in BlockIds,
          kind \in BlockKinds, tool \in OfferedTools \cup {NoTool} : OpenBlock(t, r, b, kind, tool)
    \/ \E k \in DOMAIN blocks :
          \/ AppendText(k)
          \/ AppendToolProgress(k)
          \/ \E tool \in OfferedTools : ReplaceTool(k, tool)

AppenderNext == TerminalIntent \/ StreamingIntent

AppenderSpec == AppenderInit /\ [][AppenderNext]_appenderVars

----------------------------------------------------------------------------
(* Properties.                                                             *)

AppenderTypeOK ==
    /\ nextSeq \in Nat
    /\ DOMAIN turns \subseteq TurnIds /\ \A t \in DOMAIN turns : turns[t] \in Turns
    /\ DOMAIN rounds \subseteq RoundKeys /\ \A k \in DOMAIN rounds : rounds[k] \in Rounds
    /\ DOMAIN blocks \subseteq BlockKeys
    /\ \A k \in DOMAIN blocks :
          blocks[k] \in Blocks /\ (blocks[k].kind = "Tool" <=> blocks[k].tool # NoTool)
    /\ DOMAIN nextFragment \subseteq BlockKeys
    /\ \A k \in DOMAIN nextFragment : nextFragment[k] \in Nat

\* Sealing is hierarchical however the worker interleaves its intents: no
\* unsealed round hides in a sealed turn, no open block in a sealed round,
\* and nothing exists outside the turn and round it belongs to.  A client
\* that sees the outer seal stops waiting for the inner ones.
SealedOutsideIn ==
    /\ \A k \in DOMAIN rounds :
          /\ k[1] \in DOMAIN turns
          /\ turns[k[1]].sealed => rounds[k].sealed
    /\ \A k \in DOMAIN blocks :
          /\ <<k[1], k[2]>> \in DOMAIN rounds
          /\ rounds[<<k[1], k[2]>>].sealed => blocks[k].sealed

\* A text block that still streams expects exactly the fragment that follows
\* the text it holds: a counter left over from an earlier life of a reused
\* turn id would reject (or skip) the resumed stream's first fragment.
StreamingFragmentsContiguous ==
    \A k \in DOMAIN blocks :
        ~blocks[k].sealed => FragmentSeq(k) = blocks[k].text

\* A sealed block never changes while it exists, whatever intents arrive
\* later; only reusing its whole turn removes it.
SealedBlockImmutable ==
    [][\A k \in DOMAIN blocks :
          blocks[k].sealed /\ k \in DOMAIN blocks' => blocks'[k] = blocks[k]]_blocks
=============================================================================
