------------------------ MODULE TimelinePersistenceProofs ----------------------
(***************************************************************************)
(* Proofs about the timeline of a worker: first about the appender, then   *)
(* about the threads that write its record, and the crashes between their  *)
(* steps.  Sealing stays hierarchical, a streaming block expects the       *)
(* fragment that follows its text, a sealed block never changes, and the   *)
(* journal read from its start is the transcript.  Whatever the order of   *)
(* the steps, the threads implement the log that EpochLog promises (as     *)
(* long as no crash comes between remove_file and rename); the transcript  *)
(* stays well formed over every restart and every sealing of orphans, and  *)
(* the record on disk with the entries after it is always the transcript.  *)
(***************************************************************************)
EXTENDS TimelinePersistence, FiniteSetTheorems, SequenceTheorems, WellFoundedInduction, TLAPS

----------------------------------------------------------------------------
(* The appender by itself.                                                 *)

(* A fragment counter belongs to a block that exists.  This is what makes  *)
(* a newly opened block, in particular one of a reopened turn, expect      *)
(* fragment 0.                                                             *)
CountersHaveBlocks == DOMAIN nextFragment \subseteq DOMAIN blocks

\* A round's next block order is a number: only finitely many blocks exist.
FinitelyManyBlocks == IsFiniteSet(DOMAIN blocks)

\* The transcript's part of the invariant does not need the counters, which a restart
\* rebuilds from less than it had (TimelinePersistence).
TranscriptTypeOK ==
    /\ nextSeq \in Nat
    /\ DOMAIN turns \subseteq TurnIds /\ \A t \in DOMAIN turns : turns[t] \in Turns
    /\ DOMAIN rounds \subseteq RoundKeys /\ \A k \in DOMAIN rounds : rounds[k] \in Rounds
    /\ DOMAIN blocks \subseteq BlockKeys
    /\ \A k \in DOMAIN blocks :
          blocks[k] \in Blocks /\ (blocks[k].kind = "Tool" <=> blocks[k].tool # NoTool)

TranscriptIsSound ==
    /\ TranscriptTypeOK
    /\ SealedOutsideIn
    /\ FinitelyManyBlocks

CountersAreSound ==
    /\ \A k \in DOMAIN nextFragment : nextFragment[k] \in Nat
    /\ CountersHaveBlocks
    /\ StreamingFragmentsContiguous

\* The inductive invariant.
IInv == TranscriptIsSound /\ CountersAreSound

LEMMA InvImpliesType == IInv => AppenderTypeOK
  BY DEF IInv, TranscriptIsSound, TranscriptTypeOK, CountersAreSound, CountersHaveBlocks,
         AppenderTypeOK

----------------------------------------------------------------------------
(* What the actions share: the blocks, rounds and counters of a step.      *)

LEMMA FragmentSeqType ==
    ASSUME CountersAreSound, NEW k
    PROVE  FragmentSeq(k) \in Nat
  BY DEF FragmentSeq, CountersAreSound

LEMMA NextEntryType ==
    ASSUME TranscriptTypeOK, NEW t, NEW event, NextEntry(t, event)
    PROVE  nextSeq' \in Nat
  BY DEF TranscriptTypeOK, NextEntry

\* Most intents leave blocks and counters alone, or neither adds nor removes any.
LEMMA SameCounters ==
    ASSUME CountersAreSound, UNCHANGED <<blocks, nextFragment>>
    PROVE  CountersAreSound'
  BY DEF CountersAreSound, CountersHaveBlocks, StreamingFragmentsContiguous, FragmentSeq

\* A tool record is told from the absence of one.
LEMMA NoToolIsNoTool == NoTool \notin Tools
<1> SUFFICES ASSUME NoTool \in Tools PROVE FALSE
  OBVIOUS
<1>1. DOMAIN NoTool = {"call", "progress", "permission"}
  BY DEF Tools
<1>2. DOMAIN NoTool = {"call"}
  BY DEF NoTool
<1> QED BY <1>1, <1>2

----------------------------------------------------------------------------
(* Two facts about the sizes of finite sets, for the module that counts what  *)
(* is open (TimelinePersistenceProofs).                                      *)

\* At most one element more.
LEMMA OneMore ==
    ASSUME NEW S, IsFiniteSet(S), NEW x, NEW T, T \subseteq S \cup {x}
    PROVE  IsFiniteSet(T) /\ Cardinality(T) \in Nat /\ Cardinality(T) <= Cardinality(S) + 1
<1>0. Cardinality(S) \in Nat
  BY FS_CardinalityType
<1> DEFINE U == S \cup {x}
<1>1. IsFiniteSet(U) /\ Cardinality(U) <= Cardinality(S) + 1
  BY <1>0, FS_AddElement
<1> HIDE DEF U
<1>2. T \in SUBSET U
  BY DEF U
<1>3. IsFiniteSet(T) /\ Cardinality(T) <= Cardinality(U)
  BY <1>1, <1>2, FS_Subset
<1>4. Cardinality(T) \in Nat /\ Cardinality(U) \in Nat
  BY <1>1, <1>3, FS_CardinalityType
<1> QED BY <1>0, <1>1, <1>3, <1>4

LEMMA ImageIsNoLarger ==
    ASSUME NEW S, IsFiniteSet(S), NEW U, IsFiniteSet(U), S \subseteq U,
           NEW f, NEW T, T = {f[x] : x \in S}
    PROVE  IsFiniteSet(T) /\ Cardinality(T) \in Nat /\ Cardinality(T) <= Cardinality(U)
<1> DEFINE g == [x \in S |-> f[x]]
<1>1. g \in Surjection(S, T)
  BY DEF Surjection
<1> HIDE DEF g
<1>2. IsFiniteSet(T) /\ Cardinality(T) <= Cardinality(S)
  BY <1>1, FS_Surjection
<1>3. Cardinality(S) <= Cardinality(U)
  BY FS_Subset
<1>4. Cardinality(S) \in Nat /\ Cardinality(T) \in Nat /\ Cardinality(U) \in Nat
  BY <1>2, FS_CardinalityType
<1> QED BY <1>2, <1>3, <1>4

----------------------------------------------------------------------------
LEMMA InitHolds == AppenderInit => IInv
<1> SUFFICES ASSUME AppenderInit PROVE IInv
  OBVIOUS
<1>1. DOMAIN blocks = {}
  BY DEF AppenderInit
<1>2. FinitelyManyBlocks
  BY <1>1, FS_EmptySet DEF FinitelyManyBlocks
<1>3. TranscriptTypeOK /\ SealedOutsideIn /\ CountersAreSound
  BY DEF AppenderInit, TranscriptTypeOK, SealedOutsideIn, CountersAreSound, CountersHaveBlocks,
         StreamingFragmentsContiguous
<1> QED BY <1>2, <1>3 DEF IInv, TranscriptIsSound

----------------------------------------------------------------------------
(* The transcript, intent by intent.                                       *)

LEMMA NewTurnKeeps ==
    ASSUME TranscriptIsSound, NEW t \in TurnIds, NewTurn(t),
           NextEntry(t, [type |-> "TurnOpened"])
    PROVE  TranscriptIsSound'
<1> DEFINE turn == [created |-> nextSeq + 1, sealed |-> FALSE, state |-> "Running"]
<1>1. turns' = Put(turns, t, turn) /\ t \notin DOMAIN turns
  BY DEF NewTurn
<1>2. turn \in Turns
  BY DEF TranscriptIsSound, TranscriptTypeOK, Turns, TurnStates
<1> HIDE DEF turn
<1>3. DOMAIN turns' = DOMAIN turns \cup {t} /\ turns'[t] = turn
  BY <1>1 DEF Put
<1>4. \A u \in DOMAIN turns : turns'[u] = turns[u]
  BY <1>1 DEF Put
<1>5. UNCHANGED <<rounds, blocks>>
  BY DEF NewTurn
<1>6. TranscriptTypeOK'
  BY <1>2, <1>3, <1>4, <1>5, NextEntryType DEF TranscriptIsSound, TranscriptTypeOK
<1>7. SealedOutsideIn'
  BY <1>1, <1>3, <1>4, <1>5 DEF TranscriptIsSound, SealedOutsideIn
<1>8. FinitelyManyBlocks'
  BY <1>5 DEF TranscriptIsSound, FinitelyManyBlocks
<1> QED BY <1>6, <1>7, <1>8 DEF TranscriptIsSound

LEMMA ReopenTurnKeeps ==
    ASSUME TranscriptIsSound, NEW t \in TurnIds, ReopenTurn(t),
           NextEntry(t, [type |-> "TurnOpened"])
    PROVE  TranscriptIsSound'
<1> USE DEF TranscriptIsSound
<1>1. /\ DOMAIN rounds' = {k \in DOMAIN rounds : k[1] # t}
      /\ DOMAIN blocks' = {k \in DOMAIN blocks : k[1] # t}
  BY DEF ReopenTurn, ForgetTurn, WithoutTurn
<1>2. /\ \A k \in DOMAIN rounds' : rounds'[k] = rounds[k]
      /\ \A k \in DOMAIN blocks' : blocks'[k] = blocks[k]
  BY DEF ReopenTurn, ForgetTurn, WithoutTurn
<1>3. /\ DOMAIN turns' = DOMAIN turns
      /\ turns'[t] = [turns[t] EXCEPT !.sealed = FALSE, !.state = "Running"]
      /\ \A u \in DOMAIN turns : u # t => turns'[u] = turns[u]
  BY DEF ReopenTurn
<1>4. TranscriptTypeOK'
  <2>1. \A u \in DOMAIN turns' : turns'[u] \in Turns
    <3>1. /\ t \in DOMAIN turns
          /\ \A u \in DOMAIN turns : turns[u] \in Turns
      BY DEF ReopenTurn, TranscriptTypeOK
    <3>2. turns'[t] \in Turns
      BY <1>3, <3>1 DEF Turns, TurnStates
    <3> QED BY <1>3, <3>1, <3>2
  <2> QED BY <1>1, <1>2, <1>3, <2>1, NextEntryType DEF TranscriptTypeOK
<1>5. SealedOutsideIn'
  <2>1. \A k \in DOMAIN rounds' : k[1] \in DOMAIN turns' /\ (turns'[k[1]].sealed => rounds'[k].sealed)
    BY <1>1, <1>2, <1>3 DEF SealedOutsideIn
  <2>2. ASSUME NEW k \in DOMAIN blocks'
        PROVE  /\ <<k[1], k[2]>> \in DOMAIN rounds'
               /\ rounds'[<<k[1], k[2]>>].sealed => blocks'[k].sealed
    <3>1. k \in DOMAIN blocks /\ k[1] # t
      BY <1>1
    <3>2. <<k[1], k[2]>> \in DOMAIN rounds /\ <<k[1], k[2]>>[1] # t
      BY <3>1 DEF SealedOutsideIn
    <3> QED BY <1>1, <1>2, <3>1, <3>2 DEF SealedOutsideIn
  <2> QED BY <2>1, <2>2 DEF SealedOutsideIn
<1>8. FinitelyManyBlocks'
  BY <1>1, FS_Subset DEF FinitelyManyBlocks
<1> QED BY <1>4, <1>5, <1>8

(* One block changes in place: what an update must respect.                *)
LEMMA BlockUpdateKeeps ==
    ASSUME TranscriptIsSound, NEW k \in DOMAIN blocks, NEW block \in Blocks,
           WellShaped(block.kind, block.tool),
           blocks' = [blocks EXCEPT ![k] = block],
           blocks[k].sealed => block.sealed,
           UNCHANGED <<turns, rounds>>, nextSeq' \in Nat
    PROVE  TranscriptIsSound'
<1> USE DEF TranscriptIsSound
<1>1. /\ DOMAIN blocks' = DOMAIN blocks
      /\ blocks'[k] = block
      /\ \A j \in DOMAIN blocks : j # k => blocks'[j] = blocks[j]
  OBVIOUS
<1>3. TranscriptTypeOK'
  BY <1>1 DEF TranscriptTypeOK, WellShaped
<1>4. SealedOutsideIn'
  <2>1. \A j \in DOMAIN blocks : blocks[j].sealed => blocks'[j].sealed
    BY <1>1
  <2> QED BY <1>1, <2>1 DEF SealedOutsideIn
<1>5. FinitelyManyBlocks'
  BY <1>1 DEF FinitelyManyBlocks
<1> QED BY <1>3, <1>4, <1>5

LEMMA AppendTextKeeps ==
    ASSUME TranscriptIsSound, NEW k \in DOMAIN blocks, AppendText(k)
    PROVE  TranscriptIsSound'
<1> DEFINE block == [blocks[k] EXCEPT !.text = @ + 1]
<1>1. blocks[k] \in Blocks /\ ~blocks[k].sealed /\ nextSeq' \in Nat
  BY NextEntryType DEF TranscriptIsSound, TranscriptTypeOK, AppendText, OpenForUpdate
<1>2. block \in Blocks
  BY <1>1 DEF Blocks
<1>3. WellShaped(block.kind, block.tool)
  BY <1>1 DEF TranscriptIsSound, TranscriptTypeOK, WellShaped, Blocks
<1>4. blocks' = [blocks EXCEPT ![k] = block]
  BY DEF AppendText
<1>5. UNCHANGED <<turns, rounds>>
  BY DEF AppendText
<1> HIDE DEF block
<1> QED BY <1>1, <1>2, <1>3, <1>4, <1>5, BlockUpdateKeeps

LEMMA ReplaceToolKeeps ==
    ASSUME TranscriptIsSound, NEW k \in DOMAIN blocks, NEW tool \in OfferedTools,
           ReplaceTool(k, tool)
    PROVE  /\ TranscriptIsSound'
           /\ blocks'[k].text = blocks[k].text /\ ~blocks[k].sealed
<1> DEFINE kept == blocks[k].tool
           next == [tool EXCEPT
                      !.progress = IF @ = 0 THEN kept.progress ELSE @,
                      !.permission = @ \/ kept.permission]
           block == [blocks[k] EXCEPT !.tool = next]
<1>1. blocks[k] \in Blocks /\ kept \in Tools /\ nextSeq' \in Nat /\ ~blocks[k].sealed
  BY NextEntryType DEF TranscriptIsSound, TranscriptTypeOK, ReplaceTool, OpenForUpdate, Blocks
<1>2. next \in Tools
  BY <1>1 DEF Tools, OfferedTools
<1>3. block \in Blocks /\ block.text = blocks[k].text /\ block.sealed = blocks[k].sealed
  BY <1>1, <1>2 DEF Blocks
<1>5. WellShaped(block.kind, block.tool)
  BY <1>1, <1>2, NoToolIsNoTool DEF TranscriptIsSound, TranscriptTypeOK, WellShaped, Blocks
<1>4. blocks' = [blocks EXCEPT ![k] = block] /\ UNCHANGED <<turns, rounds>>
  BY DEF ReplaceTool
<1> HIDE DEF block
<1>6. TranscriptIsSound'
  BY <1>1, <1>3, <1>4, <1>5, BlockUpdateKeeps
<1> QED BY <1>1, <1>3, <1>4, <1>6

LEMMA AppendToolProgressKeeps ==
    ASSUME TranscriptIsSound, NEW k \in DOMAIN blocks, AppendToolProgress(k)
    PROVE  /\ TranscriptIsSound'
           /\ blocks'[k].text = blocks[k].text /\ ~blocks[k].sealed
<1> DEFINE tool == [blocks[k].tool EXCEPT !.progress = @ + 1]
           block == [blocks[k] EXCEPT !.tool = tool]
<1>1. /\ blocks[k] \in Blocks /\ blocks[k].tool \in Tools /\ nextSeq' \in Nat
      /\ ~blocks[k].sealed
  BY NextEntryType
     DEF TranscriptIsSound, TranscriptTypeOK, AppendToolProgress, OpenForUpdate, Blocks
<1>2. tool \in Tools
  BY <1>1 DEF Tools
<1>3. block \in Blocks /\ block.text = blocks[k].text /\ block.sealed = blocks[k].sealed
  BY <1>1, <1>2 DEF Blocks
<1>5. WellShaped(block.kind, block.tool)
  BY <1>1, <1>2, NoToolIsNoTool DEF TranscriptIsSound, TranscriptTypeOK, WellShaped, Blocks
<1>4. blocks' = [blocks EXCEPT ![k] = block] /\ UNCHANGED <<turns, rounds>>
  BY DEF AppendToolProgress
<1> HIDE DEF block
<1>6. TranscriptIsSound'
  BY <1>1, <1>3, <1>4, <1>5, BlockUpdateKeeps
<1> QED BY <1>1, <1>3, <1>4, <1>6

LEMMA SealBlockKeeps ==
    ASSUME TranscriptIsSound, NEW k \in DOMAIN blocks, SealBlock(k)
    PROVE  TranscriptIsSound'
<1> DEFINE block == [blocks[k] EXCEPT !.sealed = TRUE]
<1>1. blocks[k] \in Blocks /\ nextSeq' \in Nat
  BY NextEntryType DEF TranscriptIsSound, TranscriptTypeOK, SealBlock
<1>2. block \in Blocks /\ block.sealed
  BY <1>1 DEF Blocks
<1>4. WellShaped(block.kind, block.tool)
  BY <1>1 DEF TranscriptIsSound, TranscriptTypeOK, WellShaped, Blocks
<1>3. blocks' = [blocks EXCEPT ![k] = block] /\ UNCHANGED <<turns, rounds>>
  BY DEF SealBlock
<1> HIDE DEF block
<1> QED BY <1>1, <1>2, <1>3, <1>4, BlockUpdateKeeps

LEMMA SealRoundKeeps ==
    ASSUME TranscriptIsSound, NEW k \in DOMAIN rounds, NEW final \in BOOLEAN, SealRound(k[1], k[2], final)
    PROVE  TranscriptIsSound'
<1> USE DEF TranscriptIsSound
<1>1. k = <<k[1], k[2]>> /\ nextSeq' \in Nat
  BY NextEntryType DEF TranscriptTypeOK, SealRound, RoundKeys
<1>2. /\ DOMAIN rounds' = DOMAIN rounds
      /\ rounds'[k] = [sealed |-> TRUE, final |-> final]
      /\ \A j \in DOMAIN rounds : j # k => rounds'[j] = rounds[j]
      /\ UNCHANGED <<turns, blocks>>
  BY <1>1 DEF SealRound
<1>3. TranscriptTypeOK'
  <2>1. rounds'[k] \in Rounds
    BY <1>2 DEF Rounds
  <2> QED BY <1>1, <1>2, <2>1 DEF TranscriptTypeOK
<1>4. SealedOutsideIn'
  <2>1. \A j \in DOMAIN rounds' : j[1] \in DOMAIN turns' /\ (turns'[j[1]].sealed => rounds'[j].sealed)
    BY <1>2 DEF SealedOutsideIn
  <2>2. ASSUME NEW j \in DOMAIN blocks
        PROVE  /\ <<j[1], j[2]>> \in DOMAIN rounds'
               /\ rounds'[<<j[1], j[2]>>].sealed => blocks'[j].sealed
    <3>1. CASE <<j[1], j[2]>> = k
      BY <1>1, <1>2, <3>1 DEF SealRound, BlocksOf
    <3>2. CASE <<j[1], j[2]>> # k
      BY <1>2, <3>2 DEF SealedOutsideIn
    <3> QED BY <3>1, <3>2
  <2> QED BY <1>2, <2>1, <2>2 DEF SealedOutsideIn
<1>5. FinitelyManyBlocks'
  BY <1>2 DEF FinitelyManyBlocks
<1> QED BY <1>3, <1>4, <1>5

LEMMA SealTurnKeeps ==
    ASSUME TranscriptIsSound, NEW t \in TurnIds, NEW state \in Outcomes, SealTurn(t, state)
    PROVE  TranscriptIsSound'
<1> USE DEF TranscriptIsSound
<1>1. /\ t \in DOMAIN turns /\ nextSeq' \in Nat
      /\ DOMAIN turns' = DOMAIN turns
      /\ turns'[t] = [turns[t] EXCEPT !.sealed = TRUE, !.state = state]
      /\ \A u \in DOMAIN turns : u # t => turns'[u] = turns[u]
      /\ UNCHANGED <<rounds, blocks>>
  BY NextEntryType DEF SealTurn
<1>2. TranscriptTypeOK'
  <2>1. turns'[t] \in Turns
    BY <1>1 DEF TranscriptTypeOK, Turns, TurnStates
  <2> QED BY <1>1, <2>1 DEF TranscriptTypeOK
<1>3. SealedOutsideIn'
  <2>1. ASSUME NEW k \in DOMAIN rounds
        PROVE  k[1] \in DOMAIN turns' /\ (turns'[k[1]].sealed => rounds'[k].sealed)
    <3>1. CASE k[1] = t
      BY <1>1, <3>1 DEF SealTurn, RoundsOf
    <3>2. CASE k[1] # t
      BY <1>1, <3>2 DEF SealedOutsideIn
    <3> QED BY <3>1, <3>2
  <2> QED BY <1>1, <2>1 DEF SealedOutsideIn
<1>4. FinitelyManyBlocks'
  BY <1>1 DEF FinitelyManyBlocks
<1> QED BY <1>2, <1>3, <1>4

LEMMA OpenBlockKeeps ==
    ASSUME TranscriptIsSound, NEW t \in TurnIds, NEW r \in Nat, NEW b \in BlockIds, NEW kind \in BlockKinds,
           NEW tool \in Tools \cup {NoTool}, OpenBlock(t, r, b, kind, tool)
    PROVE  TranscriptIsSound'
<1> USE DEF TranscriptIsSound
<1> DEFINE key == <<t, r, b>>
           block == [order |-> NextOrder(t, r), kind |-> kind,
                     sealed |-> FALSE, text |-> 0, tool |-> tool]
<1>1. block \in Blocks /\ ~block.sealed /\ block.text = 0 /\ WellShaped(block.kind, block.tool)
  <2>1. IsFiniteSet(BlocksOf(t, r))
    BY FS_Subset DEF FinitelyManyBlocks, BlocksOf
  <2>2. NextOrder(t, r) \in Nat
    BY <2>1, FS_CardinalityType DEF NextOrder
  <2>3. WellShaped(kind, tool)
    BY DEF OpenBlock
  <2> QED BY <2>2, <2>3 DEF Blocks
<1>2. /\ key \notin DOMAIN blocks
      /\ blocks' = Put(blocks, key, block)
      /\ UNCHANGED <<turns>>
      /\ nextSeq' \in Nat
  BY NextEntryType DEF OpenBlock
<1> HIDE DEF block
<1>3. /\ DOMAIN blocks' = DOMAIN blocks \cup {key}
      /\ blocks'[key] = block
      /\ \A k \in DOMAIN blocks : blocks'[k] = blocks[k]
  BY <1>2 DEF Put
<1>4. /\ DOMAIN rounds' = DOMAIN rounds \cup {<<t, r>>}
      /\ ~rounds'[<<t, r>>].sealed /\ rounds'[<<t, r>>] \in Rounds
      /\ \A k \in DOMAIN rounds : rounds'[k] = rounds[k]
  <2>1. CASE <<t, r>> \in DOMAIN rounds
    BY <2>1 DEF OpenBlock, RoundAcceptsBlock, TranscriptTypeOK
  <2>2. CASE <<t, r>> \notin DOMAIN rounds
    <3>1. rounds' = Put(rounds, <<t, r>>, [sealed |-> FALSE, final |-> FALSE])
      BY <2>2 DEF OpenBlock
    <3>2. [sealed |-> FALSE, final |-> FALSE] \in Rounds
      BY DEF Rounds
    <3> QED BY <2>2, <3>1, <3>2 DEF Put
  <2> QED BY <2>1, <2>2
<1>5. t \in DOMAIN turns /\ ~turns[t].sealed
  BY DEF OpenBlock
<1>6. TranscriptTypeOK'
  <2>1. key \in BlockKeys /\ <<t, r>> \in RoundKeys
    BY DEF BlockKeys, RoundKeys
  <2> QED BY <1>1, <1>2, <1>3, <1>4, <2>1 DEF TranscriptTypeOK, WellShaped
<1>7. SealedOutsideIn'
  <2>1. ASSUME NEW k \in DOMAIN rounds'
        PROVE  k[1] \in DOMAIN turns' /\ (turns'[k[1]].sealed => rounds'[k].sealed)
    BY <1>2, <1>4, <1>5 DEF SealedOutsideIn
  <2>2. ASSUME NEW k \in DOMAIN blocks
        PROVE  /\ <<k[1], k[2]>> \in DOMAIN rounds'
               /\ rounds'[<<k[1], k[2]>>].sealed => blocks'[k].sealed
    BY <1>3, <1>4 DEF SealedOutsideIn
  <2>3. /\ <<key[1], key[2]>> \in DOMAIN rounds'
        /\ rounds'[<<key[1], key[2]>>].sealed => blocks'[key].sealed
    BY <1>4
  <2> QED BY <1>3, <2>1, <2>2, <2>3 DEF SealedOutsideIn
<1>10. FinitelyManyBlocks'
  BY <1>3, FS_AddElement DEF FinitelyManyBlocks
<1> QED BY <1>6, <1>7, <1>10

(* Every intent keeps the transcript sound.                                *)
LEMMA TranscriptStep ==
    ASSUME TranscriptIsSound, AppenderNext
    PROVE  TranscriptIsSound'
<1>1. ASSUME NEW t \in TurnIds, OpenTurn(t) PROVE TranscriptIsSound'
  BY <1>1, NewTurnKeeps, ReopenTurnKeeps DEF OpenTurn
<1>2. ASSUME NEW t \in TurnIds, NEW r \in 0 .. MaxRounds - 1, NEW b \in BlockIds,
             NEW kind \in BlockKinds, NEW tool \in OfferedTools \cup {NoTool},
             OpenBlock(t, r, b, kind, tool)
      PROVE  TranscriptIsSound'
  <2>1. tool \in Tools \cup {NoTool}
    BY DEF OfferedTools, Tools
  <2> QED BY <1>2, <2>1, OpenBlockKeeps, BoundsAssumption
<1>4. ASSUME NEW k \in DOMAIN blocks, AppendText(k) PROVE TranscriptIsSound'
  BY <1>4, AppendTextKeeps
<1>5. ASSUME NEW k \in DOMAIN blocks, AppendToolProgress(k) PROVE TranscriptIsSound'
  BY <1>5, AppendToolProgressKeeps
<1>6. ASSUME NEW k \in DOMAIN blocks, NEW tool \in OfferedTools, ReplaceTool(k, tool)
      PROVE  TranscriptIsSound'
  BY <1>6, ReplaceToolKeeps
<1>7. ASSUME NEW k \in DOMAIN blocks, SealBlock(k) PROVE TranscriptIsSound'
  BY <1>7, SealBlockKeeps
<1>8. ASSUME NEW k \in DOMAIN rounds, NEW final \in BOOLEAN, SealRound(k[1], k[2], final)
      PROVE  TranscriptIsSound'
  BY <1>8, SealRoundKeeps
<1>9. ASSUME NEW t \in TurnIds, NEW state \in Outcomes, SealTurn(t, state)
      PROVE  TranscriptIsSound'
  BY <1>9, SealTurnKeeps
<1> QED BY <1>1, <1>2, <1>4, <1>5, <1>6, <1>7, <1>8, <1>9
        DEF AppenderNext, TerminalIntent, StreamingIntent

----------------------------------------------------------------------------
(* The counters, for the intents that touch them or the blocks.            *)

LEMMA ReopenTurnKeepsCounters ==
    ASSUME CountersAreSound, NEW t \in TurnIds, ReopenTurn(t)
    PROVE  CountersAreSound'
<1>1. /\ DOMAIN blocks' = {k \in DOMAIN blocks : k[1] # t}
      /\ DOMAIN nextFragment' = {k \in DOMAIN nextFragment : k[1] # t}
      /\ \A k \in DOMAIN blocks' : blocks'[k] = blocks[k]
      /\ \A k \in DOMAIN nextFragment' : nextFragment'[k] = nextFragment[k]
  BY DEF ReopenTurn, ForgetTurn, WithoutTurn
<1>2. CountersHaveBlocks' /\ \A k \in DOMAIN nextFragment' : nextFragment'[k] \in Nat
  BY <1>1 DEF CountersAreSound, CountersHaveBlocks
<1>3. StreamingFragmentsContiguous'
  <2> SUFFICES ASSUME NEW k \in DOMAIN blocks', ~blocks'[k].sealed
               PROVE  FragmentSeq(k)' = blocks'[k].text
    BY DEF StreamingFragmentsContiguous
  <2>1. k \in DOMAIN blocks /\ k[1] # t /\ blocks'[k] = blocks[k]
    BY <1>1
  <2>2. FragmentSeq(k)' = FragmentSeq(k)
    BY <1>1, <2>1 DEF FragmentSeq
  <2> QED BY <2>1, <2>2 DEF CountersAreSound, StreamingFragmentsContiguous
<1> QED BY <1>2, <1>3 DEF CountersAreSound

LEMMA AppendTextKeepsCounters ==
    ASSUME TranscriptIsSound, CountersAreSound, NEW k \in DOMAIN blocks, AppendText(k)
    PROVE  CountersAreSound'
<1>1. blocks[k] \in Blocks /\ ~blocks[k].sealed
  BY DEF TranscriptIsSound, TranscriptTypeOK, AppendText, OpenForUpdate
<1>2. /\ DOMAIN blocks' = DOMAIN blocks
      /\ blocks'[k].text = blocks[k].text + 1
      /\ \A j \in DOMAIN blocks : j # k => blocks'[j] = blocks[j]
  BY <1>1 DEF AppendText, Blocks
<1>3. FragmentSeq(k) = blocks[k].text /\ FragmentSeq(k) \in Nat
  BY <1>1, FragmentSeqType DEF CountersAreSound, StreamingFragmentsContiguous
<1>4. /\ DOMAIN nextFragment' = DOMAIN nextFragment \cup {k}
      /\ nextFragment'[k] = FragmentSeq(k) + 1
      /\ \A j \in DOMAIN nextFragment : j # k => nextFragment'[j] = nextFragment[j]
  BY DEF AppendText, Put
<1>5. FragmentSeq(k)' = FragmentSeq(k) + 1
  BY <1>4 DEF FragmentSeq
<1>6. \A j \in DOMAIN blocks : j # k => FragmentSeq(j)' = FragmentSeq(j)
  BY <1>4 DEF FragmentSeq
<1>7. StreamingFragmentsContiguous'
  BY <1>2, <1>3, <1>5, <1>6 DEF CountersAreSound, StreamingFragmentsContiguous
<1> QED BY <1>2, <1>3, <1>4, <1>7 DEF CountersAreSound, CountersHaveBlocks

(* A block changes in place, neither its text nor any counter with it.     *)
LEMMA TextlessUpdateKeepsCounters ==
    ASSUME CountersAreSound, NEW k \in DOMAIN blocks, NEW block,
           blocks' = [blocks EXCEPT ![k] = block],
           ~block.sealed => ~blocks[k].sealed /\ block.text = blocks[k].text,
           UNCHANGED nextFragment
    PROVE  CountersAreSound'
<1>1. /\ DOMAIN blocks' = DOMAIN blocks
      /\ blocks'[k] = block
      /\ \A j \in DOMAIN blocks : j # k => blocks'[j] = blocks[j]
  OBVIOUS
<1>2. \A j : FragmentSeq(j)' = FragmentSeq(j)
  BY DEF FragmentSeq
<1> QED BY <1>1, <1>2 DEF CountersAreSound, CountersHaveBlocks, StreamingFragmentsContiguous

LEMMA OpenBlockKeepsCounters ==
    ASSUME CountersAreSound, NEW t, NEW r, NEW b, NEW kind, NEW tool,
           OpenBlock(t, r, b, kind, tool)
    PROVE  CountersAreSound'
<1> DEFINE key == <<t, r, b>>
           block == [order |-> NextOrder(t, r), kind |-> kind,
                     sealed |-> FALSE, text |-> 0, tool |-> tool]
<1>1. key \notin DOMAIN blocks /\ blocks' = Put(blocks, key, block) /\ UNCHANGED nextFragment
  BY DEF OpenBlock
<1>2. block.text = 0
  OBVIOUS
<1> HIDE DEF block
<1>3. /\ DOMAIN blocks' = DOMAIN blocks \cup {key}
      /\ blocks'[key] = block
      /\ \A k \in DOMAIN blocks : blocks'[k] = blocks[k]
  BY <1>1 DEF Put
<1>4. FragmentSeq(key)' = 0
  BY <1>1 DEF CountersAreSound, CountersHaveBlocks, FragmentSeq
<1>5. \A k \in DOMAIN blocks : FragmentSeq(k)' = FragmentSeq(k)
  BY <1>1 DEF FragmentSeq
<1>6. StreamingFragmentsContiguous'
  BY <1>2, <1>3, <1>4, <1>5 DEF CountersAreSound, StreamingFragmentsContiguous
<1> QED BY <1>1, <1>3, <1>6 DEF CountersAreSound, CountersHaveBlocks

LEMMA CountersStep ==
    ASSUME TranscriptIsSound, CountersAreSound, AppenderNext
    PROVE  CountersAreSound'
<1>1. ASSUME NEW t \in TurnIds, OpenTurn(t) PROVE CountersAreSound'
  BY <1>1, SameCounters, ReopenTurnKeepsCounters DEF OpenTurn, NewTurn
<1>2. ASSUME NEW t, NEW r, NEW b, NEW kind, NEW tool, OpenBlock(t, r, b, kind, tool)
      PROVE  CountersAreSound'
  BY <1>2, OpenBlockKeepsCounters
<1>3. ASSUME NEW k \in DOMAIN blocks, AppendText(k) PROVE CountersAreSound'
  BY <1>3, AppendTextKeepsCounters
<1>4. ASSUME NEW k \in DOMAIN blocks, AppendToolProgress(k) PROVE CountersAreSound'
  <2>1. PICK block : blocks' = [blocks EXCEPT ![k] = block]
    BY <1>4 DEF AppendToolProgress
  <2>2. block = blocks'[k] /\ UNCHANGED nextFragment
    BY <1>4, <2>1 DEF AppendToolProgress
  <2> QED BY <1>4, <2>1, <2>2, AppendToolProgressKeeps, TextlessUpdateKeepsCounters
<1>5. ASSUME NEW k \in DOMAIN blocks, NEW tool \in OfferedTools, ReplaceTool(k, tool)
      PROVE  CountersAreSound'
  <2>1. PICK block : blocks' = [blocks EXCEPT ![k] = block]
    BY <1>5 DEF ReplaceTool
  <2>2. block = blocks'[k] /\ UNCHANGED nextFragment
    BY <1>5, <2>1 DEF ReplaceTool
  <2> QED BY <1>5, <2>1, <2>2, ReplaceToolKeeps, TextlessUpdateKeepsCounters
<1>6. ASSUME NEW k \in DOMAIN blocks, SealBlock(k) PROVE CountersAreSound'
  <2> DEFINE block == [blocks[k] EXCEPT !.sealed = TRUE]
  <2>1. block.sealed
    BY DEF TranscriptIsSound, TranscriptTypeOK, Blocks
  <2>2. blocks' = [blocks EXCEPT ![k] = block] /\ UNCHANGED nextFragment
    BY <1>6 DEF SealBlock
  <2> HIDE DEF block
  <2> QED BY <2>1, <2>2, TextlessUpdateKeepsCounters
<1>7. ASSUME NEW t, NEW r, NEW final, SealRound(t, r, final) PROVE CountersAreSound'
  BY <1>7, SameCounters DEF SealRound
<1>8. ASSUME NEW t, NEW state, SealTurn(t, state) PROVE CountersAreSound'
  BY <1>8, SameCounters DEF SealTurn
<1> QED BY <1>1, <1>2, <1>3, <1>4, <1>5, <1>6, <1>7, <1>8
        DEF AppenderNext, TerminalIntent, StreamingIntent

----------------------------------------------------------------------------
LEMMA StepKeeps == IInv /\ [AppenderNext]_appenderVars => IInv'
<1>1. IInv /\ AppenderNext => IInv'
  BY TranscriptStep, CountersStep DEF IInv
<1>2. IInv /\ UNCHANGED appenderVars => IInv'
  BY SameCounters DEF appenderVars, IInv, TranscriptIsSound, TranscriptTypeOK, SealedOutsideIn,
               FinitelyManyBlocks
<1> QED BY <1>1, <1>2

THEOREM InvariantHolds == AppenderSpec => []IInv
  BY InitHolds, StepKeeps, PTL DEF AppenderSpec

(* The transcript always has the shape the wire types describe.            *)
THEOREM TypeCorrect == AppenderSpec => []AppenderTypeOK
  BY InvariantHolds, InvImpliesType, PTL

(* However intents interleave, an outer seal is never set over an inner    *)
(* part that is still open, and nothing exists outside its turn and round. *)
THEOREM SealsNest == AppenderSpec => []SealedOutsideIn
<1>1. IInv => SealedOutsideIn
  BY DEF IInv, TranscriptIsSound
<1> QED BY <1>1, InvariantHolds, PTL

(* A block that still streams expects the fragment that follows its text,  *)
(* also after its turn's id was reused.                                    *)
THEOREM FragmentsContiguous == AppenderSpec => []StreamingFragmentsContiguous
<1>1. IInv => StreamingFragmentsContiguous
  BY DEF IInv, CountersAreSound
<1> QED BY <1>1, InvariantHolds, PTL

----------------------------------------------------------------------------
(* A sealed block keeps its content for as long as it exists: updates are  *)
(* refused, another seal writes the same, and only reopening its turn      *)
(* removes it.                                                             *)
THEOREM SealedBlocksStay == AppenderSpec => SealedBlockImmutable
<1>1. IInv /\ [AppenderNext]_appenderVars =>
        [\A k \in DOMAIN blocks :
            blocks[k].sealed /\ k \in DOMAIN blocks' => blocks'[k] = blocks[k]]_blocks
  <2> SUFFICES ASSUME IInv, [AppenderNext]_appenderVars, NEW k \in DOMAIN blocks,
                      blocks[k].sealed, k \in DOMAIN blocks'
               PROVE  blocks'[k] = blocks[k]
    OBVIOUS
  <2>1. ASSUME NEW t \in TurnIds, OpenTurn(t) PROVE blocks'[k] = blocks[k]
    BY <2>1 DEF OpenTurn, NewTurn, ReopenTurn, ForgetTurn, WithoutTurn
  <2>2. ASSUME NEW t \in TurnIds, NEW r, NEW b \in BlockIds, NEW kind, NEW tool,
               OpenBlock(t, r, b, kind, tool)
        PROVE  blocks'[k] = blocks[k]
    BY <2>2 DEF OpenBlock, Put
  <2>3. ASSUME NEW j \in DOMAIN blocks, AppendText(j) PROVE blocks'[k] = blocks[k]
    BY <2>3 DEF AppendText, OpenForUpdate
  <2>4. ASSUME NEW j \in DOMAIN blocks, AppendToolProgress(j) PROVE blocks'[k] = blocks[k]
    BY <2>4 DEF AppendToolProgress, OpenForUpdate
  <2>5. ASSUME NEW j \in DOMAIN blocks, NEW tool, ReplaceTool(j, tool) PROVE blocks'[k] = blocks[k]
    BY <2>5 DEF ReplaceTool, OpenForUpdate
  <2>6. ASSUME NEW j \in DOMAIN blocks, SealBlock(j) PROVE blocks'[k] = blocks[k]
    BY <2>6 DEF SealBlock, IInv, TranscriptIsSound, TranscriptTypeOK, Blocks
  <2>7. ASSUME NEW t, NEW r, NEW final, SealRound(t, r, final) PROVE blocks'[k] = blocks[k]
    BY <2>7 DEF SealRound
  <2>8. ASSUME NEW t, NEW state, SealTurn(t, state) PROVE blocks'[k] = blocks[k]
    BY <2>8 DEF SealTurn
  <2>9. CASE UNCHANGED appenderVars
    BY <2>9 DEF appenderVars
  <2> QED BY <2>1, <2>2, <2>3, <2>4, <2>5, <2>6, <2>7, <2>8, <2>9
          DEF AppenderNext, TerminalIntent, StreamingIntent
<1> QED BY <1>1, InvariantHolds, PTL DEF AppenderSpec, SealedBlockImmutable

----------------------------------------------------------------------------
(* The view a reader has, by its parts.                                    *)

AsView(ts, rs, bs) == [turns |-> ts, rounds |-> rs, blocks |-> bs]

LEMMA ReduceTurnOpened ==
    ASSUME NEW ts, NEW rs, NEW bs, NEW n, NEW t,
           NEW turn, turn = [created |-> IF t \in DOMAIN ts THEN ts[t].created ELSE n,
                             sealed |-> FALSE, state |-> "Running"]
    PROVE  Reduce(AsView(ts, rs, bs), [seq |-> n, turn |-> t, event |-> [type |-> "TurnOpened"]])
             = AsView(Put(ts, t, turn), WithoutTurn(rs, t), WithoutTurn(bs, t))
  BY DEF Reduce, AsView

----------------------------------------------------------------------------
(* What a reader rebuilds.  Replay is a recursive function over the        *)
(* entries; these lemmas are the induction over them.                      *)

LEMMA Smallest ==
    ASSUME NEW S, S # {}, S \subseteq Nat
    PROVE  \E m \in S : \A k \in S : m <= k
<1> DEFINE R == OpToRel(<, Nat)
<1>1. IsWellFoundedOn(R, Nat)
  BY NatLessThanWellFounded
<1> HIDE DEF R
<1>2. PICK m \in S : \A k \in S : ~(<<k, m>> \in R)
  BY <1>1, WFMin
<1>3. \A k \in S : m <= k
  <2> SUFFICES ASSUME NEW k \in S PROVE m <= k
    OBVIOUS
  <2>1. m \in Nat /\ k \in Nat /\ ~(<<k, m>> \in R)
    BY <1>2
  <2>2. ~(k < m)
    BY <2>1 DEF R, OpToRel
  <2> QED BY <2>1, <2>2
<1> QED BY <1>3

\* h[n] is what the reader has after the first n entries.
ReadsUpTo(h, m, view, w, entries) ==
    h = [n \in 0 .. m |-> IF n = 0 THEN view ELSE Take(h[n - 1], w, entries[n])]

Reading(h, view, w, entries) == ReadsUpTo(h, Len(entries), view, w, entries)

LEMMA SomeReading ==
    ASSUME NEW view, NEW w, NEW entries, Len(entries) \in Nat
    PROVE  \E h : Reading(h, view, w, entries)
<1> DEFINE Stuck == {m \in Nat : \A h : ~ReadsUpTo(h, m, view, w, entries)}
<1>1. Stuck = {}
  <2> SUFFICES ASSUME Stuck # {} PROVE FALSE
    OBVIOUS
  <2>1. PICK m \in Stuck : \A k \in Stuck : m <= k
    <3>1. Stuck \subseteq Nat
      OBVIOUS
    <3> HIDE DEF Stuck
    <3> QED BY <3>1, Smallest
  <2>2. m # 0
    <3>1. PICK h : h = [n \in 0 .. 0 |-> view]
      OBVIOUS
    <3>2. ReadsUpTo(h, 0, view, w, entries)
      BY <3>1 DEF ReadsUpTo
    <3> QED BY <2>1, <3>2
  <2>3. m - 1 \in Nat /\ m - 1 < m /\ m \in Nat
    BY <2>1, <2>2
  <2>4. PICK h : ReadsUpTo(h, m - 1, view, w, entries)
    BY <2>1, <2>3
  <2>5. PICK g : g = [n \in 0 .. m |-> IF n = 0 THEN view ELSE Take(h[n - 1], w, entries[n])]
    OBVIOUS
  <2>6. \A n \in 0 .. m - 1 : g[n] = h[n]
    BY <2>3, <2>4, <2>5 DEF ReadsUpTo
  <2>7. \A n \in 0 .. m : n # 0 => g[n - 1] = h[n - 1]
    BY <2>3, <2>6
  <2>8. ReadsUpTo(g, m, view, w, entries)
    BY <2>5, <2>7 DEF ReadsUpTo
  <2> QED BY <2>1, <2>8
<1> QED BY <1>1 DEF Reading

LEMMA ReplayIsReading ==
    ASSUME NEW view, NEW w, NEW entries, Len(entries) \in Nat
    PROVE  \E g : Reading(g, view, w, entries) /\ Replay(view, w, entries) = g[Len(entries)]
<1> DEFINE P(g) == Reading(g, view, w, entries)
           r == CHOOSE g : P(g)
<1>1. PICK h : P(h)
  BY SomeReading
<1>2. Replay(view, w, entries) = r[Len(entries)]
  BY DEF Replay, Reading, ReadsUpTo
<1> HIDE DEF P
<1>3. P(r)
  BY <1>1
<1> QED BY <1>2, <1>3 DEF P

LEMMA ReplayOfNothing == ASSUME NEW view, NEW w PROVE Replay(view, w, <<>>) = view
<1>1. PICK e : e = <<>>
  OBVIOUS
<1>2. Len(e) = 0
  BY <1>1
<1>3. PICK g : Reading(g, view, w, e) /\ Replay(view, w, e) = g[Len(e)]
  BY <1>2, ReplayIsReading
<1>4. g[0] = view
  BY <1>2, <1>3 DEF Reading, ReadsUpTo
<1> QED BY <1>1, <1>2, <1>3, <1>4

\* A reading of more entries goes on where the one of fewer stopped: g reads s, h reads e
\* from where g started, and s is how e begins.
LEMMA ReadingsAgree ==
    ASSUME NEW view, NEW w, NEW s, NEW e, NEW g, NEW h, Len(s) \in Nat, Len(e) \in Nat,
           Len(s) <= Len(e), \A i \in 1 .. Len(s) : s[i] = e[i],
           Reading(g, view, w, s), Reading(h, view, w, e)
    PROVE  \A n \in 0 .. Len(s) : g[n] = h[n]
<1> DEFINE Apart == {n \in 0 .. Len(s) : g[n] # h[n]}
<1> SUFFICES ASSUME Apart # {} PROVE FALSE
  OBVIOUS
<1>1. PICK m \in Apart : \A k \in Apart : m <= k
  <2>1. Apart \subseteq Nat
    OBVIOUS
  <2> HIDE DEF Apart
  <2> QED BY <2>1, Smallest
<1>2. m \in 0 .. Len(s) /\ m \in 0 .. Len(e)
  OBVIOUS
<1>3. /\ g[m] = IF m = 0 THEN view ELSE Take(g[m - 1], w, s[m])
      /\ h[m] = IF m = 0 THEN view ELSE Take(h[m - 1], w, e[m])
  BY <1>2 DEF Reading, ReadsUpTo
<1>4. CASE m = 0
  BY <1>3, <1>4
<1>5. CASE m # 0
  <2>1. m - 1 \in 0 .. Len(s) /\ ~(m <= m - 1) /\ m \in 1 .. Len(s)
    BY <1>2, <1>5
  <2>2. g[m - 1] = h[m - 1]
    BY <1>1, <2>1
  <2> QED BY <1>3, <1>5, <2>1, <2>2
<1> QED BY <1>4, <1>5

LEMMA ReplayOfOneMore ==
    ASSUME NEW view, NEW w, NEW S, NEW s \in Seq(S), NEW x
    PROVE  Replay(view, w, Append(s, x)) = Take(Replay(view, w, s), w, x)
<1>1. PICK e : e = Append(s, x)
  OBVIOUS
<1>2. /\ Len(s) \in Nat /\ Len(e) = Len(s) + 1
      /\ \A i \in 1 .. Len(s) : s[i] = e[i]
      /\ e[Len(s) + 1] = x
  BY <1>1
<1>3. PICK g : Reading(g, view, w, s) /\ Replay(view, w, s) = g[Len(s)]
  BY <1>2, ReplayIsReading
<1>4. PICK h : Reading(h, view, w, e) /\ Replay(view, w, e) = h[Len(e)]
  BY <1>2, ReplayIsReading
<1>5. g[Len(s)] = h[Len(s)]
  BY <1>2, <1>3, <1>4, ReadingsAgree
<1>6. h[Len(s) + 1] = Take(h[Len(s)], w, e[Len(s) + 1])
  BY <1>2, <1>4 DEF Reading, ReadsUpTo
<1> QED BY <1>1, <1>2, <1>3, <1>4, <1>5, <1>6

\* Replay goes on: what follows s is replayed over what s left.
LEMMA ReplayOfMore ==
    ASSUME NEW view, NEW w, NEW S, NEW s \in Seq(S), NEW more \in Seq(S)
    PROVE  Replay(view, w, s \o more) = Replay(Replay(view, w, s), w, more)
<1>1. PICK e : e = s \o more
  OBVIOUS
<1>2. /\ Len(s) \in Nat /\ Len(more) \in Nat /\ Len(e) = Len(s) + Len(more)
      /\ \A i \in 1 .. Len(s) : s[i] = e[i]
      /\ \A i \in 1 .. Len(more) : e[Len(s) + i] = more[i]
  BY <1>1, ConcatProperties
<1> Len(s) \in Nat /\ Len(more) \in Nat /\ Len(e) \in Nat
  BY <1>2
<1>3. PICK g : Reading(g, view, w, s) /\ Replay(view, w, s) = g[Len(s)]
  BY ReplayIsReading
<1>4. PICK h : Reading(h, view, w, e) /\ Replay(view, w, e) = h[Len(e)]
  BY ReplayIsReading
<1>5. PICK middle : middle = Replay(view, w, s)
  OBVIOUS
<1>6. PICK f : Reading(f, middle, w, more) /\ Replay(middle, w, more) = f[Len(more)]
  BY ReplayIsReading
<1>7. g[Len(s)] = h[Len(s)]
  BY <1>2, <1>3, <1>4, ReadingsAgree
<1> DEFINE Apart == {n \in 0 .. Len(more) : f[n] # h[Len(s) + n]}
<1>8. Apart = {}
  <2> SUFFICES ASSUME Apart # {} PROVE FALSE
    OBVIOUS
  <2>1. PICK m \in Apart : \A k \in Apart : m <= k
    <3>1. Apart \subseteq Nat
      OBVIOUS
    <3> HIDE DEF Apart
    <3> QED BY <3>1, Smallest
  <2>2. m \in 0 .. Len(more) /\ Len(s) + m \in 0 .. Len(e)
    BY <1>2
  <2>3. f[m] = IF m = 0 THEN middle ELSE Take(f[m - 1], w, more[m])
    BY <1>6, <2>2 DEF Reading, ReadsUpTo
  <2>4. CASE m = 0
    BY <1>2, <1>3, <1>5, <1>7, <2>3, <2>4
  <2>5. CASE m # 0
    <3>1. /\ m - 1 \in 0 .. Len(more) /\ ~(m <= m - 1) /\ m \in 1 .. Len(more)
          /\ Len(s) + m # 0 /\ (Len(s) + m) - 1 = Len(s) + (m - 1)
      BY <1>2, <2>2, <2>5
    <3>2. f[m - 1] = h[Len(s) + (m - 1)]
      BY <2>1, <3>1
    <3>3. h[Len(s) + m] = Take(h[(Len(s) + m) - 1], w, e[Len(s) + m])
      BY <1>4, <2>2, <3>1 DEF Reading, ReadsUpTo
    <3>4. e[Len(s) + m] = more[m]
      BY <1>2, <3>1
    <3> QED BY <2>3, <2>5, <3>1, <3>2, <3>3, <3>4
  <2> QED BY <2>4, <2>5
<1>9. f[Len(more)] = h[Len(e)]
  BY <1>2, <1>8
<1> QED BY <1>1, <1>4, <1>5, <1>6, <1>9

\* Entries the reader has already change nothing.
LEMMA ReplayOfOld ==
    ASSUME NEW view, NEW w \in Nat, NEW entries, Len(entries) \in Nat,
           \A i \in 1 .. Len(entries) : entries[i].seq \in Nat /\ entries[i].seq <= w
    PROVE  Replay(view, w, entries) = view
<1>1. PICK g : Reading(g, view, w, entries) /\ Replay(view, w, entries) = g[Len(entries)]
  BY ReplayIsReading
<1> DEFINE Changed == {n \in 0 .. Len(entries) : g[n] # view}
<1>2. Changed = {}
  <2> SUFFICES ASSUME Changed # {} PROVE FALSE
    OBVIOUS
  <2>1. PICK m \in Changed : \A k \in Changed : m <= k
    <3>1. Changed \subseteq Nat
      OBVIOUS
    <3> HIDE DEF Changed
    <3> QED BY <3>1, Smallest
  <2>2. m \in 0 .. Len(entries) /\ g[m] = IF m = 0 THEN view ELSE Take(g[m - 1], w, entries[m])
    BY <1>1 DEF Reading, ReadsUpTo
  <2>3. CASE m = 0
    BY <2>2, <2>3
  <2>4. CASE m # 0
    <3>1. m - 1 \in 0 .. Len(entries) /\ ~(m <= m - 1) /\ m \in 1 .. Len(entries)
      BY <2>2, <2>4
    <3>2. g[m - 1] = view /\ ~(entries[m].seq > w)
      BY <2>1, <3>1
    <3> QED BY <2>2, <2>4, <3>2 DEF Take
  <2> QED BY <2>3, <2>4
<1> QED BY <1>1, <1>2

----------------------------------------------------------------------------
(* Every intent does to the transcript what its entry tells a reader.      *)

\* The step is journalled as x, and x turns what a reader had into what the appender has.
ReadsAs(x) ==
    /\ journal' = Append(journal, x) /\ nextSeq' = nextSeq + 1 /\ x.seq = nextSeq + 1
    /\ Reduce(View, x) = View'

LEMMA ViewIsItsParts ==
    /\ View = AsView(turns, rounds, blocks)
    /\ View' = AsView(turns', rounds', blocks')
  BY DEF View, AsView

\* The maps are functions: what forgets nothing leaves them as they are.
IsMap(f) == f = [k \in DOMAIN f |-> f[k]]
MapsAreFunctions == IsMap(turns) /\ IsMap(rounds) /\ IsMap(blocks)

LEMMA NothingToForget ==
    ASSUME NEW f, NEW t, \A k \in DOMAIN f : k[1] # t, f = [k \in DOMAIN f |-> f[k]]
    PROVE  WithoutTurn(f, t) = f
<1>1. {j \in DOMAIN f : j[1] # t} = DOMAIN f
  OBVIOUS
<1> QED BY <1>1 DEF WithoutTurn

LEMMA Reopened ==
    ASSUME NEW turn \in Turns, NEW c, c = turn.created,
           NEW g, g = [turn EXCEPT !.sealed = FALSE, !.state = "Running"]
    PROVE  g = [created |-> c, sealed |-> FALSE, state |-> "Running"]
<1>1. g \in Turns /\ g.created = c /\ g.sealed = FALSE /\ g.state = "Running"
  BY DEF Turns, TurnStates
<1> QED BY <1>1 DEF Turns

LEMMA OpenTurnReads ==
    ASSUME TranscriptIsSound, NEW t \in TurnIds, OpenTurn(t),
           MapsAreFunctions
    PROVE  \E x : ReadsAs(x)
<1> DEFINE e == [type |-> "TurnOpened"]
           x == [seq |-> nextSeq + 1, turn |-> t, event |-> e]
           turn == [created |-> IF t \in DOMAIN turns THEN turns[t].created ELSE nextSeq + 1,
                    sealed |-> FALSE, state |-> "Running"]
<1>1. journal' = Append(journal, x) /\ nextSeq' = nextSeq + 1 /\ x.seq = nextSeq + 1
  BY DEF OpenTurn, NextEntry
<1>2. Reduce(AsView(turns, rounds, blocks), x)
        = AsView(Put(turns, t, turn), WithoutTurn(rounds, t), WithoutTurn(blocks, t))
  BY ReduceTurnOpened
<1> HIDE DEF e, x
<1>3. turns' = Put(turns, t, turn) /\ rounds' = WithoutTurn(rounds, t) /\ blocks' = WithoutTurn(blocks, t)
  <2>1. CASE NewTurn(t)
    <3>1. \A k \in DOMAIN rounds : k[1] # t
      BY <2>1 DEF NewTurn, TranscriptIsSound, SealedOutsideIn
    <3>2. \A k \in DOMAIN blocks : k[1] # t
      <4> SUFFICES ASSUME NEW k \in DOMAIN blocks PROVE k[1] # t
        OBVIOUS
      <4>1. <<k[1], k[2]>> \in DOMAIN rounds
        BY DEF TranscriptIsSound, SealedOutsideIn
      <4> QED BY <3>1, <4>1
    <3>3. WithoutTurn(rounds, t) = rounds /\ WithoutTurn(blocks, t) = blocks
      BY <3>1, <3>2, NothingToForget DEF MapsAreFunctions, IsMap
    <3>4. turn = [created |-> nextSeq + 1, sealed |-> FALSE, state |-> "Running"]
      BY <2>1 DEF NewTurn
    <3> QED BY <2>1, <3>3, <3>4 DEF NewTurn
  <2>2. CASE ReopenTurn(t)
    <3>1. t \in DOMAIN turns /\ turns[t] \in Turns
      BY <2>2 DEF ReopenTurn, TranscriptIsSound, TranscriptTypeOK
    <3>2. turn = [created |-> turns[t].created, sealed |-> FALSE, state |-> "Running"]
      BY <3>1
    <3> HIDE DEF turn
    <3>3. [turns[t] EXCEPT !.sealed = FALSE, !.state = "Running"] = turn
      BY <3>1, <3>2, Reopened
    <3>4. turns' = [turns EXCEPT ![t] = turn]
      BY <2>2, <3>3 DEF ReopenTurn
    <3>5. turns' = Put(turns, t, turn)
      BY <3>1, <3>4 DEF Put
    <3> QED BY <2>2, <3>5 DEF ReopenTurn, ForgetTurn
  <2> QED BY <2>1, <2>2 DEF OpenTurn
<1> QED BY <1>1, <1>2, <1>3, ViewIsItsParts DEF ReadsAs

LEMMA OpenBlockReads ==
    ASSUME NEW t, NEW r, NEW b, NEW kind, NEW tool, OpenBlock(t, r, b, kind, tool)
    PROVE  \E x : ReadsAs(x)
<1> DEFINE block == [order |-> NextOrder(t, r), kind |-> kind,
                     sealed |-> FALSE, text |-> 0, tool |-> tool]
           e == [type |-> "BlockOpened", key |-> <<t, r, b>>, block |-> block]
           x == [seq |-> nextSeq + 1, turn |-> t, event |-> e]
<1>1. journal' = Append(journal, x) /\ nextSeq' = nextSeq + 1 /\ x.seq = nextSeq + 1
  BY DEF OpenBlock, NextEntry
<1>2. /\ blocks' = Put(blocks, <<t, r, b>>, block) /\ turns' = turns
      /\ rounds' = IF <<t, r>> \in DOMAIN rounds THEN rounds
                   ELSE Put(rounds, <<t, r>>, [sealed |-> FALSE, final |-> FALSE])
  BY DEF OpenBlock
<1> HIDE DEF block
<1>3. Reduce(AsView(turns, rounds, blocks), x) = AsView(turns', rounds', blocks')
  BY <1>2 DEF Reduce, AsView
<1> HIDE DEF e, x
<1> QED BY <1>1, <1>3, ViewIsItsParts DEF ReadsAs

LEMMA AppendTextReads ==
    ASSUME NEW k, AppendText(k)
    PROVE  \E x : ReadsAs(x)
<1> DEFINE f == FragmentSeq(k)
           x == [seq |-> nextSeq + 1, turn |-> k[1],
                 event |-> [type |-> "TextDelta", key |-> k, fragment |-> f]]
<1> HIDE DEF f
<1>1. journal' = Append(journal, x) /\ nextSeq' = nextSeq + 1 /\ x.seq = nextSeq + 1
  BY DEF AppendText, NextEntry, f
<1>2. blocks' = [blocks EXCEPT ![k].text = @ + 1] /\ turns' = turns /\ rounds' = rounds
  BY DEF AppendText
<1>3. Reduce(AsView(turns, rounds, blocks), x) = AsView(turns', rounds', blocks')
  BY <1>2 DEF Reduce, AsView
<1> HIDE DEF x
<1> QED BY <1>1, <1>3, ViewIsItsParts DEF ReadsAs

LEMMA AppendToolProgressReads ==
    ASSUME NEW k, AppendToolProgress(k)
    PROVE  \E x : ReadsAs(x)
<1> DEFINE x == [seq |-> nextSeq + 1, turn |-> k[1], event |-> [type |-> "ToolProgress", key |-> k]]
<1>1. journal' = Append(journal, x) /\ nextSeq' = nextSeq + 1 /\ x.seq = nextSeq + 1
  BY DEF AppendToolProgress, NextEntry
<1>2. blocks' = [blocks EXCEPT ![k].tool.progress = @ + 1] /\ turns' = turns /\ rounds' = rounds
  BY DEF AppendToolProgress
<1>3. Reduce(AsView(turns, rounds, blocks), x) = AsView(turns', rounds', blocks')
  BY <1>2 DEF Reduce, AsView
<1> HIDE DEF x
<1> QED BY <1>1, <1>3, ViewIsItsParts DEF ReadsAs

LEMMA ReplaceToolReads ==
    ASSUME NEW k, NEW tool, ReplaceTool(k, tool)
    PROVE  \E x : ReadsAs(x)
<1> DEFINE kept == blocks[k].tool
           next == [tool EXCEPT
                      !.progress = IF @ = 0 THEN kept.progress ELSE @,
                      !.permission = @ \/ kept.permission]
           x == [seq |-> nextSeq + 1, turn |-> k[1],
                 event |-> [type |-> "ToolUpdated", key |-> k, tool |-> next]]
<1>1. journal' = Append(journal, x) /\ nextSeq' = nextSeq + 1 /\ x.seq = nextSeq + 1
  BY DEF ReplaceTool, NextEntry
<1>2. blocks' = [blocks EXCEPT ![k].tool = next] /\ turns' = turns /\ rounds' = rounds
  BY DEF ReplaceTool
<1> HIDE DEF next
<1>3. Reduce(AsView(turns, rounds, blocks), x) = AsView(turns', rounds', blocks')
  BY <1>2 DEF Reduce, AsView
<1> HIDE DEF x
<1> QED BY <1>1, <1>3, ViewIsItsParts DEF ReadsAs

LEMMA SealBlockReads ==
    ASSUME NEW k, SealBlock(k)
    PROVE  \E x : ReadsAs(x)
<1> DEFINE x == [seq |-> nextSeq + 1, turn |-> k[1], event |-> [type |-> "BlockSealed", key |-> k]]
<1>1. journal' = Append(journal, x) /\ nextSeq' = nextSeq + 1 /\ x.seq = nextSeq + 1
  BY DEF SealBlock, NextEntry
<1>2. blocks' = [blocks EXCEPT ![k].sealed = TRUE] /\ turns' = turns /\ rounds' = rounds
  BY DEF SealBlock
<1>3. Reduce(AsView(turns, rounds, blocks), x) = AsView(turns', rounds', blocks')
  BY <1>2 DEF Reduce, AsView
<1> HIDE DEF x
<1> QED BY <1>1, <1>3, ViewIsItsParts DEF ReadsAs

LEMMA SealRoundReads ==
    ASSUME NEW t, NEW r, NEW final, SealRound(t, r, final)
    PROVE  \E x : ReadsAs(x)
<1> DEFINE k == <<t, r>>
           x == [seq |-> nextSeq + 1, turn |-> t,
                 event |-> [type |-> "RoundSealed", key |-> k, final |-> final]]
<1>1. journal' = Append(journal, x) /\ nextSeq' = nextSeq + 1 /\ x.seq = nextSeq + 1
  BY DEF SealRound, NextEntry
<1>2. /\ rounds' = [rounds EXCEPT ![k] = [sealed |-> TRUE, final |-> final]]
      /\ turns' = turns /\ blocks' = blocks
  BY DEF SealRound
<1> HIDE DEF k
<1>3. Reduce(AsView(turns, rounds, blocks), x) = AsView(turns', rounds', blocks')
  BY <1>2 DEF Reduce, AsView
<1> HIDE DEF x
<1> QED BY <1>1, <1>3, ViewIsItsParts DEF ReadsAs

LEMMA SealTurnReads ==
    ASSUME NEW t, NEW state, SealTurn(t, state)
    PROVE  \E x : ReadsAs(x)
<1> DEFINE x == [seq |-> nextSeq + 1, turn |-> t, event |-> [type |-> "TurnSealed", state |-> state]]
<1>1. journal' = Append(journal, x) /\ nextSeq' = nextSeq + 1 /\ x.seq = nextSeq + 1
  BY DEF SealTurn, NextEntry
<1>2. /\ turns' = [turns EXCEPT ![t].sealed = TRUE, ![t].state = state]
      /\ rounds' = rounds /\ blocks' = blocks
  BY DEF SealTurn
<1>3. Reduce(AsView(turns, rounds, blocks), x) = AsView(turns', rounds', blocks')
  BY <1>2 DEF Reduce, AsView
<1> HIDE DEF x
<1> QED BY <1>1, <1>3, ViewIsItsParts DEF ReadsAs

LEMMA IntentReads ==
    ASSUME TranscriptIsSound, MapsAreFunctions, AppenderNext
    PROVE  \E x : ReadsAs(x)
  BY OpenTurnReads, OpenBlockReads, AppendTextReads, AppendToolProgressReads, ReplaceToolReads,
     SealBlockReads, SealRoundReads, SealTurnReads
     DEF AppenderNext, TerminalIntent, StreamingIntent

LEMMA UpdatesAreMaps ==
    ASSUME NEW f, NEW g, NEW k, NEW v,
           \/ g = Put(f, k, v) \/ g = WithoutTurn(f, k)
           \/ g = f /\ IsMap(f)
           \/ g = [f EXCEPT ![k] = v] /\ IsMap(f)
    PROVE  IsMap(g)
<1>1. CASE g = Put(f, k, v)
  BY <1>1 DEF IsMap, Put
<1>2. CASE g = WithoutTurn(f, k)
  BY <1>2 DEF IsMap, WithoutTurn
<1>3. CASE g = [f EXCEPT ![k] = v] /\ IsMap(f)
  BY <1>3 DEF IsMap
<1> QED BY <1>1, <1>2, <1>3

LEMMA IntentKeepsMaps ==
    ASSUME MapsAreFunctions, AppenderNext
    PROVE  MapsAreFunctions'
<1>1. ASSUME NEW t \in TurnIds, OpenTurn(t) PROVE MapsAreFunctions'
  <2>1. \/ \E v : turns' = Put(turns, t, v)
        \/ \E v : turns' = [turns EXCEPT ![t] = v]
    BY <1>1 DEF OpenTurn, NewTurn, ReopenTurn
  <2>2. rounds' = rounds \/ rounds' = WithoutTurn(rounds, t)
    BY <1>1 DEF OpenTurn, NewTurn, ReopenTurn, ForgetTurn
  <2>3. blocks' = blocks \/ blocks' = WithoutTurn(blocks, t)
    BY <1>1 DEF OpenTurn, NewTurn, ReopenTurn, ForgetTurn
  <2> QED BY <2>1, <2>2, <2>3, UpdatesAreMaps DEF MapsAreFunctions
<1>2. ASSUME NEW t, NEW r, NEW b, NEW kind, NEW tool, OpenBlock(t, r, b, kind, tool)
      PROVE  MapsAreFunctions'
  <2>1. /\ rounds' = rounds \/ \E k, v : rounds' = Put(rounds, k, v)
        /\ \E k, v : blocks' = Put(blocks, k, v)
        /\ turns' = turns
    BY <1>2 DEF OpenBlock
  <2> QED BY <2>1, UpdatesAreMaps DEF MapsAreFunctions
<1>3. ASSUME NEW k \in DOMAIN blocks, AppendText(k) PROVE MapsAreFunctions'
  <2>1. PICK v : blocks' = [blocks EXCEPT ![k] = v]
    BY <1>3 DEF AppendText
  <2> QED BY <1>3, <2>1, UpdatesAreMaps DEF AppendText, MapsAreFunctions
<1>4. ASSUME NEW k \in DOMAIN blocks, AppendToolProgress(k) PROVE MapsAreFunctions'
  <2>1. PICK v : blocks' = [blocks EXCEPT ![k] = v]
    BY <1>4 DEF AppendToolProgress
  <2> QED BY <1>4, <2>1, UpdatesAreMaps DEF AppendToolProgress, MapsAreFunctions
<1>5. ASSUME NEW k \in DOMAIN blocks, NEW tool, ReplaceTool(k, tool) PROVE MapsAreFunctions'
  <2>1. PICK v : blocks' = [blocks EXCEPT ![k] = v]
    BY <1>5 DEF ReplaceTool
  <2> QED BY <1>5, <2>1, UpdatesAreMaps DEF ReplaceTool, MapsAreFunctions
<1>6. ASSUME NEW k \in DOMAIN blocks, SealBlock(k) PROVE MapsAreFunctions'
  <2>1. PICK v : blocks' = [blocks EXCEPT ![k] = v]
    BY <1>6 DEF SealBlock
  <2> QED BY <1>6, <2>1, UpdatesAreMaps DEF SealBlock, MapsAreFunctions
<1>7. ASSUME NEW t, NEW r, NEW final, SealRound(t, r, final) PROVE MapsAreFunctions'
  <2>1. PICK v : rounds' = [rounds EXCEPT ![<<t, r>>] = v]
    BY <1>7 DEF SealRound
  <2> QED BY <1>7, <2>1, UpdatesAreMaps DEF SealRound, MapsAreFunctions
<1>8. ASSUME NEW t, NEW state, SealTurn(t, state) PROVE MapsAreFunctions'
  <2>1. PICK v : turns' = [turns EXCEPT ![t] = v]
    BY <1>8 DEF SealTurn
  <2> QED BY <1>8, <2>1, UpdatesAreMaps DEF SealTurn, MapsAreFunctions
<1> QED BY <1>1, <1>2, <1>3, <1>4, <1>5, <1>6, <1>7, <1>8 DEF AppenderNext, TerminalIntent, StreamingIntent

\* The journal is numbered, and what it says is the transcript.
IsASequence(s) == \E S : s \in Seq(S)

LEMMA OneMoreEntry ==
    ASSUME NEW s, IsASequence(s), NEW x
    PROVE  /\ \E S : s \in Seq(S) /\ Append(s, x) \in Seq(S)
           /\ Len(Append(s, x)) = Len(s) + 1 /\ Len(s) \in Nat
           /\ \A i \in 1 .. Len(s) : Append(s, x)[i] = s[i]
           /\ Append(s, x)[Len(s) + 1] = x
<1>1. PICK S : s \in Seq(S)
  BY DEF IsASequence
<1> DEFINE T == S \cup {x}
<1>2. s \in Seq(T)
  BY <1>1, SeqMonotonic
<1>3. x \in T
  OBVIOUS
<1> HIDE DEF T
<1> QED BY <1>2, <1>3

JournalInv ==
    /\ IInv
    /\ MapsAreFunctions
    /\ IsASequence(journal)
    /\ JournalRebuildsTranscript

LEMMA JournalInit == AppenderInit => JournalInv
<1> SUFFICES ASSUME AppenderInit PROVE JournalInv
  OBVIOUS
<1>1. IInv
  BY InitHolds
<1>2. MapsAreFunctions
  BY DEF AppenderInit, MapsAreFunctions, IsMap
<1>3. journal \in Seq({})
  BY DEF AppenderInit
<1>4. Replay(EmptyView, 0, journal) = EmptyView
  BY ReplayOfNothing DEF AppenderInit
<1>5. EmptyView = View
  BY DEF AppenderInit, EmptyView, View
<1> QED BY <1>1, <1>2, <1>3, <1>4, <1>5 DEF JournalInv, IsASequence, JournalRebuildsTranscript

LEMMA JournalStep == JournalInv /\ [AppenderNext]_appenderVars => JournalInv'
<1> SUFFICES ASSUME JournalInv, [AppenderNext]_appenderVars PROVE JournalInv'
  OBVIOUS
<1>1. IInv'
  BY StepKeeps DEF JournalInv
<1>2. CASE AppenderNext
  <2>1. MapsAreFunctions'
    BY <1>2, IntentKeepsMaps DEF JournalInv
  <2>2. PICK x : ReadsAs(x)
    BY <1>2, IntentReads DEF JournalInv, IInv
  <2>3. PICK S : journal \in Seq(S) /\ Append(journal, x) \in Seq(S)
    BY OneMoreEntry DEF JournalInv
  <2>4. IsASequence(journal')
    BY <2>2, <2>3 DEF ReadsAs, IsASequence
  <2>5. x.seq > 0
    BY <2>2 DEF ReadsAs, JournalInv, IInv, TranscriptIsSound, TranscriptTypeOK
  <2>6. PICK v : v = EmptyView
    OBVIOUS
  <2>7. Replay(v, 0, Append(journal, x)) = Take(Replay(v, 0, journal), 0, x)
    BY <2>3, ReplayOfOneMore
  <2>8. Replay(v, 0, journal) = View
    BY <2>6 DEF JournalInv, JournalRebuildsTranscript
  <2>9. Replay(v, 0, journal') = View'
    BY <2>2, <2>5, <2>7, <2>8 DEF ReadsAs, Take
  <2>10. EmptyView' = v
    BY <2>6 DEF EmptyView
  <2> QED BY <1>1, <2>1, <2>4, <2>9, <2>10 DEF JournalInv, JournalRebuildsTranscript
<1>3. CASE UNCHANGED appenderVars
  BY <1>1, <1>3 DEF appenderVars, JournalInv, MapsAreFunctions, JournalRebuildsTranscript, View
<1> QED BY <1>2, <1>3

(* Whatever was streamed, sealed and reopened: who only reads the journal  *)
(* from its first entry has the transcript the appender has, with the text *)
(* of every block, its seals and the round and turn it belongs to.         *)
THEOREM JournalIsTheTranscript == AppenderSpec => []JournalRebuildsTranscript
<1>1. JournalInv => JournalRebuildsTranscript
  BY DEF JournalInv
<1> QED BY <1>1, JournalInit, JournalStep, PTL DEF AppenderSpec

----------------------------------------------------------------------------
(* A transcript as a value: the one in memory, the one on disk, or the one *)
(* that is replacing it.                                                   *)

TypedParts(ts, rs, bs) ==
    /\ DOMAIN ts \subseteq TurnIds /\ \A t \in DOMAIN ts : ts[t] \in Turns
    /\ DOMAIN rs \subseteq RoundKeys /\ \A k \in DOMAIN rs : rs[k] \in Rounds
    /\ DOMAIN bs \subseteq BlockKeys
    /\ \A k \in DOMAIN bs :
          bs[k] \in Blocks /\ (bs[k].kind = "Tool" <=> bs[k].tool # NoTool)

NestedParts(ts, rs, bs) ==
    /\ \A k \in DOMAIN rs :
          /\ k[1] \in DOMAIN ts
          /\ ts[k[1]].sealed => rs[k].sealed
    /\ \A k \in DOMAIN bs :
          /\ <<k[1], k[2]>> \in DOMAIN rs
          /\ rs[<<k[1], k[2]>>].sealed => bs[k].sealed

\* An entry opens at most two things: a round and its first block.  What is still open
\* was opened by an intent, and intents are numbered up to MaxSeq.  So the seals of all
\* orphans are a burst the abstract log allows.
FewParts(n, ts, rs, bs) ==
    /\ n \in Nat
    /\ IsFiniteSet(DOMAIN ts) /\ IsFiniteSet(DOMAIN rs) /\ IsFiniteSet(DOMAIN bs)
    /\ Cardinality(DOMAIN ts) + Cardinality(DOMAIN rs) + Cardinality(DOMAIN bs) <= 2 * n
    /\ n > MaxSeq => \A t \in DOMAIN ts : ts[t].sealed

SoundParts(n, ts, rs, bs) ==
    TypedParts(ts, rs, bs) /\ NestedParts(ts, rs, bs) /\ FewParts(n, ts, rs, bs)

Recorded(c) == SoundParts(c.watermark, c.turns, c.rounds, c.blocks)

----------------------------------------------------------------------------
(* The inductive invariant.                                                *)

\* What the threads are doing fits what they hold: a thread that is replacing the file
\* holds the store lock, and one at most does.
Holds(th) == pc[th] \in {"remove", "rename"}

ThreadsInStep ==
    /\ DOMAIN pc = Threads /\ DOMAIN writing = Threads /\ DOMAIN removed = Threads
    /\ pc["reader"] \in {"idle", "request", "unpend", "lock", "remove", "rename", "announceTerminal"}
    /\ pc["saver"] \in {"recv", "window", "lock", "remove", "rename"}
    /\ pc["loader"] \in {"idle", "lock", "remove", "rename"}
    /\ pc["stopper"] \in {"off", "seal", "flush", "unpend", "lock", "remove", "rename", "stopped"}
    /\ \A th \in Threads :
          /\ writing[th] = None <=> ~Holds(th)
          /\ removed[th] <=> pc[th] = "rename"
    /\ \A th, u \in Threads : Holds(th) /\ Holds(u) => th = u

\* Every transcript there is is well formed, and no record is ahead of the numbers given out.
RecordsAreSound ==
    /\ SoundParts(nextSeq, turns, rounds, blocks)
    /\ file # None => Recorded(file)
    /\ \A th \in Threads : Holds(th) => Recorded(writing[th]) /\ writing[th].watermark <= nextSeq
    /\ file.watermark \in Nat /\ file.watermark <= Len(written)

\* The numbers given out are those of the log.  Before the timeline is loaded the log is
\* what the disk has, and no thread has anything to write.
NumbersAreTheLog ==
    /\ written \in Seq(Nat) /\ epoch \in Nat
    /\ pending \in BOOLEAN /\ wakes \in Nat
    /\ loaded => Len(written) = nextSeq
    /\ ~loaded =>
          /\ Len(written) = file.watermark
          /\ nextSeq = 0 /\ DOMAIN turns = {} /\ DOMAIN rounds = {} /\ DOMAIN blocks = {}
          /\ pc["reader"] = "idle" /\ pc["saver"] = "recv" /\ pc["loader"] = "idle"
          /\ pc["stopper"] \in {"off", "seal", "flush", "stopped"}
          /\ ~pending /\ wakes = 0

Core == ThreadsInStep /\ RecordsAreSound /\ NumbersAreTheLog

\* n is on disk, or in the record that is replacing the one on disk; and no thread is about
\* to replace it by an older one.
IsDurable(n) ==
    /\ (\A th \in Threads : pc[th] # "rename") => n <= file.watermark
    /\ \A th \in Threads : Holds(th) => n <= writing[th].watermark

\* What was announced is durable.  What the reader is about to announce is in its record,
\* then durable, before it is announced.
AnnouncedIsDurable ==
    /\ terminal \in Nat /\ published \in Nat
    /\ IsDurable(terminal)
    /\ pc["reader"] \in {"unpend", "lock", "remove", "rename", "announceTerminal"} =>
          terminal <= published /\ published <= nextSeq
    /\ Holds("reader") => published <= writing["reader"].watermark
    /\ pc["reader"] = "announceTerminal" => IsDurable(published)

PInv == Core /\ AnnouncedIsDurable

----------------------------------------------------------------------------
(* Transcripts and intents.                                                *)

LEMMA TranscriptHasSoundParts ==
    ASSUME SoundParts(nextSeq, turns, rounds, blocks)
    PROVE  TranscriptIsSound
<1>1. TranscriptTypeOK
  BY DEF SoundParts, TypedParts, FewParts, TranscriptTypeOK
<1>2. SealedOutsideIn
  BY DEF SoundParts, NestedParts, SealedOutsideIn
<1>3. FinitelyManyBlocks
  BY DEF SoundParts, FewParts, FinitelyManyBlocks
<1> QED BY <1>1, <1>2, <1>3 DEF TranscriptIsSound

\* What an intent may add: a turn, or a block with the round it opens.
LEMMA IntentAdds ==
    ASSUME AppenderNext
    PROVE  /\ nextSeq' = nextSeq + 1 /\ nextSeq < MaxSeq
           /\ \/ \E x : /\ DOMAIN turns' \subseteq DOMAIN turns \cup {x}
                        /\ DOMAIN rounds' \subseteq DOMAIN rounds
                        /\ DOMAIN blocks' \subseteq DOMAIN blocks
              \/ \E x, y : /\ DOMAIN turns' \subseteq DOMAIN turns
                           /\ DOMAIN rounds' \subseteq DOMAIN rounds \cup {x}
                           /\ DOMAIN blocks' \subseteq DOMAIN blocks \cup {y}
<1> DEFINE ATurn(x) == /\ DOMAIN turns' \subseteq DOMAIN turns \cup {x}
                       /\ DOMAIN rounds' \subseteq DOMAIN rounds
                       /\ DOMAIN blocks' \subseteq DOMAIN blocks
           ABlock(x, y) == /\ DOMAIN turns' \subseteq DOMAIN turns
                           /\ DOMAIN rounds' \subseteq DOMAIN rounds \cup {x}
                           /\ DOMAIN blocks' \subseteq DOMAIN blocks \cup {y}
           Goal == /\ nextSeq' = nextSeq + 1 /\ nextSeq < MaxSeq
                   /\ (\E x : ATurn(x)) \/ (\E x, y : ABlock(x, y))
<1> SUFFICES Goal
  OBVIOUS
<1>1. ASSUME NEW t \in TurnIds, OpenTurn(t) PROVE Goal
  <2>1. nextSeq' = nextSeq + 1 /\ nextSeq < MaxSeq
    BY <1>1 DEF OpenTurn, NextEntry
  <2>2. ATurn(t)
    BY <1>1 DEF OpenTurn, NewTurn, ReopenTurn, ForgetTurn, WithoutTurn, Put
  <2> QED BY <2>1, <2>2
<1>2. ASSUME NEW t, NEW r, NEW b, NEW kind, NEW tool, OpenBlock(t, r, b, kind, tool) PROVE Goal
  <2>1. nextSeq' = nextSeq + 1 /\ nextSeq < MaxSeq
    BY <1>2 DEF OpenBlock, NextEntry
  <2>2. ABlock(<<t, r>>, <<t, r, b>>)
    BY <1>2 DEF OpenBlock, Put
  <2> HIDE DEF ABlock
  <2> QED BY <2>1, <2>2
<1>3. ASSUME NEW k \in DOMAIN blocks, AppendText(k) \/ AppendToolProgress(k) \/ SealBlock(k)
      PROVE  Goal
  <2>1. nextSeq' = nextSeq + 1 /\ nextSeq < MaxSeq
    BY <1>3 DEF AppendText, AppendToolProgress, SealBlock, NextEntry
  <2>2. ATurn(k)
    BY <1>3 DEF AppendText, AppendToolProgress, SealBlock
  <2> QED BY <2>1, <2>2
<1>4. ASSUME NEW k \in DOMAIN blocks, NEW tool, ReplaceTool(k, tool) PROVE Goal
  <2>1. nextSeq' = nextSeq + 1 /\ nextSeq < MaxSeq
    BY <1>4 DEF ReplaceTool, NextEntry
  <2>2. ATurn(k)
    BY <1>4 DEF ReplaceTool
  <2> QED BY <2>1, <2>2
<1>5. ASSUME NEW t, NEW r, NEW final, SealRound(t, r, final) PROVE Goal
  <2>1. nextSeq' = nextSeq + 1 /\ nextSeq < MaxSeq
    BY <1>5 DEF SealRound, NextEntry
  <2>2. ATurn(t)
    BY <1>5 DEF SealRound
  <2> QED BY <2>1, <2>2
<1>6. ASSUME NEW t, NEW state, SealTurn(t, state) PROVE Goal
  <2>1. nextSeq' = nextSeq + 1 /\ nextSeq < MaxSeq
    BY <1>6 DEF SealTurn, NextEntry
  <2>2. ATurn(t)
    BY <1>6 DEF SealTurn
  <2> QED BY <2>1, <2>2
<1> HIDE DEF Goal
<1> QED BY <1>1, <1>2, <1>3, <1>4, <1>5, <1>6 DEF AppenderNext, TerminalIntent, StreamingIntent

LEMMA IntentKeepsParts ==
    ASSUME SoundParts(nextSeq, turns, rounds, blocks), AppenderNext
    PROVE  SoundParts(nextSeq, turns, rounds, blocks)' /\ nextSeq' = nextSeq + 1
<1>1. nextSeq' = nextSeq + 1 /\ nextSeq < MaxSeq /\ nextSeq \in Nat /\ MaxSeq \in Nat
  BY IntentAdds, BoundsAssumption DEF SoundParts, FewParts
<1>2. TypedParts(turns, rounds, blocks)' /\ NestedParts(turns, rounds, blocks)'
  <2>1. TranscriptIsSound'
    BY TranscriptHasSoundParts, TranscriptStep
  <2> QED BY <2>1 DEF TypedParts, NestedParts, TranscriptIsSound, TranscriptTypeOK, SealedOutsideIn
<1>3. /\ IsFiniteSet(DOMAIN turns) /\ IsFiniteSet(DOMAIN rounds) /\ IsFiniteSet(DOMAIN blocks)
      /\ Cardinality(DOMAIN turns) \in Nat /\ Cardinality(DOMAIN rounds) \in Nat
      /\ Cardinality(DOMAIN blocks) \in Nat
      /\ Cardinality(DOMAIN turns) + Cardinality(DOMAIN rounds) + Cardinality(DOMAIN blocks)
            <= 2 * nextSeq
  BY FS_CardinalityType DEF SoundParts, FewParts
<1> DEFINE T == DOMAIN turns  R == DOMAIN rounds  B == DOMAIN blocks
           T1 == DOMAIN turns'  R1 == DOMAIN rounds'  B1 == DOMAIN blocks'
           Few == /\ IsFiniteSet(T1) /\ IsFiniteSet(R1) /\ IsFiniteSet(B1)
                  /\ Cardinality(T1) + Cardinality(R1) + Cardinality(B1) <= 2 * nextSeq'
<1>4. Few
  <2>1. ASSUME NEW x, T1 \subseteq T \cup {x}, R1 \subseteq R, B1 \subseteq B
        PROVE  Few
    <3> HIDE DEF T, R, B, T1, R1, B1
    <3>1. /\ IsFiniteSet(T1) /\ Cardinality(T1) \in Nat
          /\ Cardinality(T1) <= Cardinality(T) + 1
      BY <1>3, <2>1, OneMore DEF T
    <3>2. /\ IsFiniteSet(R1) /\ Cardinality(R1) \in Nat
          /\ Cardinality(R1) <= Cardinality(R)
      BY <1>3, <2>1, FS_Subset, FS_CardinalityType DEF R
    <3>3. /\ IsFiniteSet(B1) /\ Cardinality(B1) \in Nat
          /\ Cardinality(B1) <= Cardinality(B)
      BY <1>3, <2>1, FS_Subset, FS_CardinalityType DEF B
    <3> QED BY <1>1, <1>3, <3>1, <3>2, <3>3 DEF T, R, B
  <2>2. ASSUME NEW x, NEW y, T1 \subseteq T, R1 \subseteq R \cup {x}, B1 \subseteq B \cup {y}
        PROVE  Few
    <3> HIDE DEF T, R, B, T1, R1, B1
    <3>1. /\ IsFiniteSet(T1) /\ Cardinality(T1) \in Nat
          /\ Cardinality(T1) <= Cardinality(T)
      BY <1>3, <2>2, FS_Subset, FS_CardinalityType DEF T
    <3>2. /\ IsFiniteSet(R1) /\ Cardinality(R1) \in Nat
          /\ Cardinality(R1) <= Cardinality(R) + 1
      BY <1>3, <2>2, OneMore DEF R
    <3>3. /\ IsFiniteSet(B1) /\ Cardinality(B1) \in Nat
          /\ Cardinality(B1) <= Cardinality(B) + 1
      BY <1>3, <2>2, OneMore DEF B
    <3> QED BY <1>1, <1>3, <3>1, <3>2, <3>3 DEF T, R, B
  <2> HIDE DEF Few
  <2> QED BY <2>1, <2>2, IntentAdds DEF T, R, B, T1, R1, B1
<1>5. FewParts(nextSeq, turns, rounds, blocks)'
  BY <1>1, <1>4 DEF FewParts
<1> QED BY <1>1, <1>2, <1>5 DEF SoundParts

----------------------------------------------------------------------------
(* Sealing the orphans of a transcript.                                    *)

LEMMA SealsAreFew ==
    ASSUME NEW tl, SoundParts(tl.nextSeq, tl.turns, tl.rounds, tl.blocks)
    PROVE  /\ IsFiniteSet(OwedSeals(tl)) /\ Cardinality(OwedSeals(tl)) \in Nat
           /\ Cardinality(OwedSeals(tl)) <= 2 * MaxSeq
<1> DEFINE T == DOMAIN tl.turns  R == DOMAIN tl.rounds  B == DOMAIN tl.blocks
           OpenRounds == {j \in R : j[1] \in Orphans(tl) /\ ~tl.rounds[j].sealed}
           OpenBlocks == {j \in B : j[1] \in Orphans(tl) /\ ~tl.blocks[j].sealed}
           ts == TurnSeals(tl)  rs == RoundSeals(tl)  bs == BlockSeals(tl)
<1>1. /\ IsFiniteSet(T) /\ IsFiniteSet(R) /\ IsFiniteSet(B)
      /\ Cardinality(T) + Cardinality(R) + Cardinality(B) <= 2 * tl.nextSeq
      /\ tl.nextSeq \in Nat /\ MaxSeq \in Nat
      /\ tl.nextSeq > MaxSeq => \A t \in T : tl.turns[t].sealed
  BY BoundsAssumption DEF SoundParts, FewParts
<1>2. IsFiniteSet(ts) /\ Cardinality(ts) \in Nat /\ Cardinality(ts) <= Cardinality(T)
  <2> DEFINE f == [t \in T |-> [turn |-> t, stage |-> 3, round |-> 0, order |-> 0,
                                event |-> [type |-> "TurnSealed", state |-> "Interrupted"]]]
  <2>1. Orphans(tl) \subseteq T
    BY DEF Orphans
  <2>2. ts = {f[t] : t \in Orphans(tl)}
    BY <2>1 DEF TurnSeals
  <2>3. IsFiniteSet(Orphans(tl))
    BY <1>1, <2>1, FS_Subset
  <2> HIDE DEF f, T, ts
  <2> QED BY <1>1, <2>1, <2>2, <2>3, ImageIsNoLarger
<1>3. IsFiniteSet(rs) /\ Cardinality(rs) \in Nat /\ Cardinality(rs) <= Cardinality(R)
  <2> DEFINE f == [k \in R |-> [turn |-> k[1], stage |-> 2, round |-> k[2], order |-> 0,
                                event |-> [type |-> "RoundSealed", key |-> k, final |-> TRUE]]]
  <2>1. OpenRounds \subseteq R
    OBVIOUS
  <2>2. rs = {f[k] : k \in OpenRounds}
    BY DEF RoundSeals
  <2> HIDE DEF f, R, rs, OpenRounds
  <2>3. IsFiniteSet(OpenRounds)
    BY <1>1, <2>1, FS_Subset
  <2> QED BY <1>1, <2>1, <2>2, <2>3, ImageIsNoLarger
<1>4. IsFiniteSet(bs) /\ Cardinality(bs) \in Nat /\ Cardinality(bs) <= Cardinality(B)
  <2> DEFINE f == [k \in B |-> [turn |-> k[1], stage |-> 1, round |-> k[2],
                                order |-> tl.blocks[k].order,
                                event |-> [type |-> "BlockSealed", key |-> k]]]
  <2>1. OpenBlocks \subseteq B
    OBVIOUS
  <2>2. bs = {f[k] : k \in OpenBlocks}
    BY DEF BlockSeals
  <2> HIDE DEF f, B, bs, OpenBlocks
  <2>3. IsFiniteSet(OpenBlocks)
    BY <1>1, <2>1, FS_Subset
  <2> QED BY <1>1, <2>1, <2>2, <2>3, ImageIsNoLarger
<1>5. /\ Cardinality(T) \in Nat /\ Cardinality(R) \in Nat /\ Cardinality(B) \in Nat
  BY <1>1, FS_CardinalityType
<1>6. OwedSeals(tl) = (bs \cup rs) \cup ts
  BY DEF OwedSeals
<1>7. Orphans(tl) = {} => OwedSeals(tl) = {}
  BY DEF OwedSeals, BlockSeals, RoundSeals, TurnSeals
<1>8. tl.nextSeq > MaxSeq => Orphans(tl) = {}
  BY <1>1 DEF Orphans
<1> HIDE DEF T, R, B, ts, rs, bs, OpenRounds, OpenBlocks
<1> DEFINE u == bs \cup rs
<1>9. IsFiniteSet(u) /\ Cardinality(u) \in Nat /\ Cardinality(u) <= Cardinality(bs) + Cardinality(rs)
  <2>1. IsFiniteSet(u) /\ Cardinality(u) = Cardinality(bs) + Cardinality(rs) - Cardinality(bs \cap rs)
    BY <1>3, <1>4, FS_Union
  <2>2. bs \cap rs \in SUBSET bs
    OBVIOUS
  <2>3. Cardinality(bs \cap rs) \in Nat
    BY <1>4, <2>2, FS_Subset, FS_CardinalityType
  <2> HIDE DEF u
  <2> QED BY <1>3, <1>4, <2>1, <2>3, FS_CardinalityType
<1> HIDE DEF u
<1> DEFINE w == u \cup ts
<1>10. IsFiniteSet(w) /\ Cardinality(w) \in Nat /\ Cardinality(w) <= Cardinality(u) + Cardinality(ts)
  <2>1. IsFiniteSet(w) /\ Cardinality(w) = Cardinality(u) + Cardinality(ts) - Cardinality(u \cap ts)
    BY <1>2, <1>9, FS_Union
  <2>2. u \cap ts \in SUBSET u
    OBVIOUS
  <2>3. Cardinality(u \cap ts) \in Nat
    BY <1>9, <2>2, FS_Subset, FS_CardinalityType
  <2> HIDE DEF w
  <2> QED BY <1>2, <1>9, <2>1, <2>3, FS_CardinalityType
<1>11. OwedSeals(tl) = w
  BY <1>6 DEF u
<1> HIDE DEF w
<1>12. CASE tl.nextSeq > MaxSeq
  <2>1. OwedSeals(tl) = {}
    BY <1>7, <1>8, <1>12
  <2> QED BY <1>1, <2>1, FS_EmptySet
<1>13. CASE tl.nextSeq <= MaxSeq
  BY <1>1, <1>2, <1>3, <1>4, <1>5, <1>9, <1>10, <1>11, <1>13
<1> QED BY <1>1, <1>12, <1>13

----------------------------------------------------------------------------
(* The seals of the orphans, in order.                                     *)

LEMMA SealsHaveRanks ==
    ASSUME NEW tl, SoundParts(tl.nextSeq, tl.turns, tl.rounds, tl.blocks),
           NEW s \in OwedSeals(tl)
    PROVE  /\ s.turn \in Orphans(tl) /\ tl.turns[s.turn].created \in Nat
           /\ s.stage \in Nat /\ s.round \in Nat /\ s.order \in Nat
<1>1. TypedParts(tl.turns, tl.rounds, tl.blocks)
  BY DEF SoundParts
<1>2. \A t \in Orphans(tl) : tl.turns[t].created \in Nat
  BY <1>1 DEF TypedParts, Turns, Orphans
<1>3. CASE s \in BlockSeals(tl)
  <2>1. PICK k \in DOMAIN tl.blocks :
           /\ k[1] \in Orphans(tl)
           /\ s = [turn |-> k[1], stage |-> 1, round |-> k[2], order |-> tl.blocks[k].order,
                   event |-> [type |-> "BlockSealed", key |-> k]]
    BY <1>3 DEF BlockSeals
  <2>2. k[2] \in Nat /\ tl.blocks[k].order \in Nat
    BY <1>1 DEF TypedParts, BlockKeys, Blocks
  <2> QED BY <1>2, <2>1, <2>2
<1>4. CASE s \in RoundSeals(tl)
  <2>1. PICK k \in DOMAIN tl.rounds :
           /\ k[1] \in Orphans(tl)
           /\ s = [turn |-> k[1], stage |-> 2, round |-> k[2], order |-> 0,
                   event |-> [type |-> "RoundSealed", key |-> k, final |-> TRUE]]
    BY <1>4 DEF RoundSeals
  <2>2. k[2] \in Nat
    BY <1>1 DEF TypedParts, RoundKeys
  <2> QED BY <1>2, <2>1, <2>2
<1>5. CASE s \in TurnSeals(tl)
  BY <1>2, <1>5 DEF TurnSeals
<1> QED BY <1>3, <1>4, <1>5 DEF OwedSeals

LEMMA Least ==
    ASSUME NEW S, S # {}, NEW g, \A s \in S : g[s] \in Nat
    PROVE  \E m \in S : \A s \in S : g[m] <= g[s]
<1> DEFINE T == {g[s] : s \in S}
<1>1. T # {} /\ T \subseteq Nat
  OBVIOUS
<1>2. PICK x \in T : \A y \in T : x <= y
  <2> HIDE DEF T
  <2> QED BY <1>1, Smallest
<1> QED BY <1>2

\* There is a first seal, and FirstSeal is one.
LEMMA FirstIsOwed ==
    ASSUME NEW tl, SoundParts(tl.nextSeq, tl.turns, tl.rounds, tl.blocks),
           NEW seals \in SUBSET OwedSeals(tl), seals # {}
    PROVE  FirstSeal(tl, seals) \in seals
<1> DEFINE created == [s \in seals |-> tl.turns[s.turn].created]
           stage == [s \in seals |-> s.stage]
           round == [s \in seals |-> s.round]
           order == [s \in seals |-> s.order]
<1>1. \A s \in seals : created[s] \in Nat /\ stage[s] \in Nat /\ round[s] \in Nat /\ order[s] \in Nat
  BY SealsHaveRanks
<1>2. PICK c \in seals : \A s \in seals : created[c] <= created[s]
  <2> HIDE DEF created
  <2> QED BY <1>1, Least
<1> DEFINE ofTurn == {s \in seals : created[s] = created[c]}
<1>3. PICK g \in ofTurn : \A s \in ofTurn : stage[g] <= stage[s]
  <2>1. ofTurn # {} /\ \A s \in ofTurn : stage[s] \in Nat
    BY <1>1
  <2> HIDE DEF ofTurn, stage
  <2> QED BY <2>1, Least
<1> DEFINE ofStage == {s \in ofTurn : stage[s] = stage[g]}
<1>4. PICK r \in ofStage : \A s \in ofStage : round[r] <= round[s]
  <2>1. ofStage # {} /\ \A s \in ofStage : round[s] \in Nat
    BY <1>1
  <2> HIDE DEF ofStage, round
  <2> QED BY <2>1, Least
<1> DEFINE ofRound == {s \in ofStage : round[s] = round[r]}
<1>5. PICK m \in ofRound : \A s \in ofRound : order[m] <= order[s]
  <2>1. ofRound # {} /\ \A s \in ofRound : order[s] \in Nat
    BY <1>1
  <2> HIDE DEF ofRound, order
  <2> QED BY <2>1, Least
<1>6. ASSUME NEW s \in seals PROVE ~SealedBefore(tl, s, m)
  <2>1. /\ m \in seals /\ created[m] = created[c] /\ stage[m] = stage[g] /\ round[m] = round[r]
        /\ created[m] \in Nat /\ stage[m] \in Nat /\ round[m] \in Nat /\ order[m] \in Nat
        /\ created[s] \in Nat /\ stage[s] \in Nat /\ round[s] \in Nat /\ order[s] \in Nat
    BY <1>1, <1>5
  <2>2. ~(created[s] < created[m])
    BY <1>2, <2>1
  <2>3. created[s] = created[m] => ~(stage[s] < stage[m])
    BY <1>3, <2>1
  <2>4. created[s] = created[m] /\ stage[s] = stage[m] => ~(round[s] < round[m])
    BY <1>4, <2>1
  <2>5. created[s] = created[m] /\ stage[s] = stage[m] /\ round[s] = round[m] => ~(order[s] < order[m])
    BY <1>5, <2>1
  <2>6. /\ created[s] = tl.turns[s.turn].created /\ created[m] = tl.turns[m.turn].created
        /\ stage[s] = s.stage /\ stage[m] = m.stage /\ round[s] = s.round /\ round[m] = m.round
        /\ order[s] = s.order /\ order[m] = m.order
    BY <2>1
  <2> HIDE DEF created, stage, round, order, ofTurn, ofStage, ofRound
  <2> QED BY <2>2, <2>3, <2>4, <2>5, <2>6 DEF SealedBefore
<1>7. m \in seals
  BY <1>5
<1> QED BY <1>6, <1>7 DEF FirstSeal

InOrder(f, tl, S) ==
    f = [seals \in S |-> IF seals = {} THEN <<>>
                         ELSE <<FirstSeal(tl, seals)>> \o f[seals \ {FirstSeal(tl, seals)}]]

LEMMA OneSealLess ==
    ASSUME NEW tl, SoundParts(tl.nextSeq, tl.turns, tl.rounds, tl.blocks),
           NEW seals \in SUBSET OwedSeals(tl), seals # {}
    PROVE  /\ seals \ {FirstSeal(tl, seals)} \in SUBSET OwedSeals(tl)
           /\ IsFiniteSet(seals) /\ Cardinality(seals) \in Nat
           /\ Cardinality(seals \ {FirstSeal(tl, seals)}) = Cardinality(seals) - 1
           /\ Cardinality(seals \ {FirstSeal(tl, seals)}) \in Nat
<1>1. IsFiniteSet(seals)
  BY SealsAreFew, FS_Subset
<1>2. FirstSeal(tl, seals) \in seals
  BY FirstIsOwed
<1>3. PICK x : x = FirstSeal(tl, seals)
  OBVIOUS
<1>4. IsFiniteSet(seals \ {x}) /\ Cardinality(seals \ {x}) = Cardinality(seals) - 1
  BY <1>1, <1>2, <1>3, FS_RemoveElement
<1> QED BY <1>1, <1>3, <1>4, FS_CardinalityType

LEMMA SomeOrder ==
    ASSUME NEW tl, SoundParts(tl.nextSeq, tl.turns, tl.rounds, tl.blocks)
    PROVE  \E f : InOrder(f, tl, SUBSET OwedSeals(tl))
<1> DEFINE W == OwedSeals(tl)
           UpTo(n) == {S \in SUBSET W : Cardinality(S) <= n}
           Stuck == {n \in Nat : \A f : ~InOrder(f, tl, UpTo(n))}
           Rest(S) == S \ {FirstSeal(tl, S)}
<1>1. Stuck = {}
  <2> SUFFICES ASSUME Stuck # {} PROVE FALSE
    OBVIOUS
  <2>1. PICK n \in Stuck : \A k \in Stuck : n <= k
    <3>1. Stuck \subseteq Nat
      OBVIOUS
    <3> HIDE DEF Stuck
    <3> QED BY <3>1, Smallest
  <2>2. n \in Nat /\ \A f : ~InOrder(f, tl, UpTo(n))
    BY <2>1
  <2>3. PICK f : n = 0 \/ InOrder(f, tl, UpTo(n - 1))
    <3>1. n # 0 => n - 1 \in Nat /\ ~(n <= n - 1)
      BY <2>2
    <3>2. n # 0 => \E f : InOrder(f, tl, UpTo(n - 1))
      BY <2>1, <3>1
    <3> QED BY <3>2
  <2>4. PICK g : g = [S \in UpTo(n) |-> IF S = {} THEN <<>> ELSE <<FirstSeal(tl, S)>> \o f[Rest(S)]]
    OBVIOUS
  <2>5. ASSUME NEW S \in UpTo(n), S # {} PROVE f[Rest(S)] = g[Rest(S)]
    <3>1. /\ Rest(S) \in SUBSET W /\ Cardinality(S) \in Nat /\ Cardinality(S) <= n
          /\ Cardinality(Rest(S)) = Cardinality(S) - 1 /\ Cardinality(Rest(S)) \in Nat
      BY <2>5, OneSealLess
    <3>2. n # 0 /\ Cardinality(Rest(S)) <= n - 1 /\ Cardinality(Rest(S)) <= n
      BY <2>2, <3>1
    <3>3. Rest(S) \in UpTo(n - 1) /\ Rest(S) \in UpTo(n)
      BY <3>1, <3>2
    <3>4. PICK T : T = Rest(S)
      OBVIOUS
    <3> HIDE DEF Rest, UpTo
    <3>5. InOrder(f, tl, UpTo(n - 1))
      BY <2>3, <3>2
    <3>6. f[T] = IF T = {} THEN <<>> ELSE <<FirstSeal(tl, T)>> \o f[T \ {FirstSeal(tl, T)}]
      BY <3>3, <3>4, <3>5 DEF InOrder
    <3>7. g[T] = IF T = {} THEN <<>> ELSE <<FirstSeal(tl, T)>> \o f[T \ {FirstSeal(tl, T)}]
      BY <2>4, <3>3, <3>4 DEF Rest
    <3> QED BY <3>4, <3>6, <3>7
  <2>6. g = [S \in UpTo(n) |-> IF S = {} THEN <<>> ELSE <<FirstSeal(tl, S)>> \o g[Rest(S)]]
    <3> HIDE DEF Rest, UpTo
    <3> QED BY <2>4, <2>5
  <2>7. InOrder(g, tl, UpTo(n))
    <3> HIDE DEF UpTo
    <3> QED BY <2>6 DEF InOrder
  <2> QED BY <2>2, <2>7
<1>2. UpTo(Cardinality(W)) = SUBSET W
  <2>1. IsFiniteSet(W)
    BY SealsAreFew
  <2>2. ASSUME NEW S \in SUBSET W PROVE Cardinality(S) <= Cardinality(W)
    BY <2>1, FS_Subset
  <2> QED BY <2>2
<1>3. Cardinality(W) \in Nat
  BY SealsAreFew
<1>4. PICK f : InOrder(f, tl, UpTo(Cardinality(W)))
  BY <1>1, <1>3
<1> QED BY <1>2, <1>4

\* Every owed seal is made, and none besides.
LEMMA SealsInOrder ==
    ASSUME NEW tl, SoundParts(tl.nextSeq, tl.turns, tl.rounds, tl.blocks)
    PROVE  /\ OrphanSeals(tl) \in Seq(OwedSeals(tl))
           /\ Len(OrphanSeals(tl)) = Cardinality(OwedSeals(tl))
           /\ \A s \in OwedSeals(tl) : \E i \in 1 .. Len(OrphanSeals(tl)) : OrphanSeals(tl)[i] = s
<1> DEFINE W == OwedSeals(tl)
           P(f) == InOrder(f, tl, SUBSET W)
           inOrder == CHOOSE f : P(f)
           Lists(q, S) == /\ q \in Seq(W) /\ Len(q) = Cardinality(S)
                          /\ \A s \in S : \E i \in 1 .. Len(q) : q[i] = s
<1>1. OrphanSeals(tl) = inOrder[W]
  BY DEF OrphanSeals, InOrder
<1>2. P(inOrder)
  <2>1. \E f : P(f)
    BY SomeOrder
  <2> HIDE DEF P
  <2> QED BY <2>1
<1>3. PICK f : f = inOrder
  OBVIOUS
<1>4. InOrder(f, tl, SUBSET W)
  <2>1. P(f)
    <3> HIDE DEF P
    <3> QED BY <1>2, <1>3
  <2> QED BY <2>1
<1>5. IsFiniteSet(W)
  BY SealsAreFew
<1> DEFINE Bad == {n \in Nat : \E S \in SUBSET W : Cardinality(S) = n /\ ~Lists(f[S], S)}
<1>6. Bad = {}
  <2> SUFFICES ASSUME Bad # {} PROVE FALSE
    OBVIOUS
  <2>1. PICK n \in Bad : \A k \in Bad : n <= k
    <3>1. Bad \subseteq Nat
      OBVIOUS
    <3> HIDE DEF Bad
    <3> QED BY <3>1, Smallest
  <2>2. PICK S \in SUBSET W : Cardinality(S) = n /\ ~Lists(f[S], S)
    BY <2>1
  <2>3. CASE S = {}
    <3>1. f[S] = <<>>
      BY <1>4, <2>3 DEF InOrder
    <3>2. Cardinality(S) = 0
      BY <2>3, FS_EmptySet
    <3> QED BY <2>2, <2>3, <3>1, <3>2
  <2>4. CASE S # {}
    <3>1. PICK x : x = FirstSeal(tl, S)
      OBVIOUS
    <3>2. PICK T : T = S \ {x}
      OBVIOUS
    <3>3. /\ T \in SUBSET W /\ Cardinality(T) = n - 1 /\ Cardinality(T) \in Nat
          /\ n \in Nat /\ x \in S /\ x \in W
      BY <2>2, <2>4, <3>1, <3>2, OneSealLess, FirstIsOwed
    <3>4. Lists(f[T], T)
      <4>1. Cardinality(T) \notin Bad
        <5>1. ~(n <= n - 1)
          BY <3>3
        <5> HIDE DEF Bad
        <5> QED BY <2>1, <3>3, <5>1
      <4> QED BY <3>3, <4>1
    <3>5. f[S] = <<x>> \o f[T]
      BY <1>4, <2>4, <3>1, <3>2 DEF InOrder
    <3>6. PICK q : q = f[T]
      OBVIOUS
    <3>7. q \in Seq(W) /\ Len(q) = n - 1 /\ \A s \in T : \E i \in 1 .. Len(q) : q[i] = s
      BY <3>3, <3>4, <3>6
    <3>8. PICK head : head = <<x>>
      OBVIOUS
    <3>9. head \in Seq(W) /\ Len(head) = 1 /\ head[1] = x
      BY <3>3, <3>8
    <3>10. PICK all : all = head \o q
      OBVIOUS
    <3>11. /\ all \in Seq(W) /\ Len(all) = n /\ all[1] = x
           /\ \A i \in 1 .. Len(q) : all[1 + i] = q[i]
      <4>1. PICK V : V = W
        OBVIOUS
      <4>2. head \in Seq(V) /\ q \in Seq(V)
        BY <3>7, <3>9, <4>1
      <4>3. /\ head \o q \in Seq(V) /\ Len(head \o q) = Len(head) + Len(q)
            /\ \A i \in 1 .. Len(head) + Len(q) :
                  (head \o q)[i] = IF i <= Len(head) THEN head[i] ELSE q[i - Len(head)]
        BY <4>2, ConcatProperties
      <4>4. all \in Seq(V) /\ Len(all) = n /\ Len(q) \in Nat
        BY <3>3, <3>7, <3>9, <3>10, <4>2, <4>3
      <4>5. all[1] = x /\ \A i \in 1 .. Len(q) : all[1 + i] = q[i]
        <5>1. \A i \in 1 .. 1 + Len(q) : all[i] = IF i <= 1 THEN head[i] ELSE q[i - 1]
          BY <3>9, <3>10, <4>3
        <5>2. ASSUME NEW i \in 1 .. Len(q) PROVE all[1 + i] = q[i]
          <6>1. 1 + i \in 1 .. 1 + Len(q) /\ ~(1 + i <= 1) /\ (1 + i) - 1 = i
            BY <4>4
          <6> QED BY <5>1, <6>1
        <5>3. 1 \in 1 .. 1 + Len(q)
          BY <4>4
        <5> QED BY <3>9, <5>1, <5>2, <5>3
      <4> QED BY <4>1, <4>4, <4>5
    <3>12. ASSUME NEW s \in S PROVE \E i \in 1 .. Len(all) : all[i] = s
      <4>1. CASE s = x
        BY <3>3, <3>7, <3>11, <4>1
      <4>2. CASE s # x
        <5>1. PICK i \in 1 .. Len(q) : q[i] = s
          BY <3>2, <3>7, <4>2
        <5>2. 1 + i \in 1 .. Len(all) /\ all[1 + i] = s
          BY <3>3, <3>7, <3>11, <5>1
        <5> QED BY <5>2
      <4> QED BY <4>1, <4>2
    <3> QED BY <2>2, <3>5, <3>6, <3>8, <3>10, <3>11, <3>12
  <2> QED BY <2>3, <2>4
<1>7. Lists(f[W], W)
  <2>1. W \in SUBSET W /\ Cardinality(W) \in Nat
    BY SealsAreFew
  <2> QED BY <1>6, <2>1
<1> QED BY <1>1, <1>3, <1>7

----------------------------------------------------------------------------
(* Journals, and what a checkpoint keeps of one.                           *)

\* The entries of a journal that were given out up to n.
Numbered(entries, n) ==
    /\ IsASequence(entries)
    /\ \A i \in 1 .. Len(entries) : entries[i].seq \in Nat /\ entries[i].seq <= n

Keeps(h, m) ==
    h = [n \in 0 .. m |-> IF n = 0 THEN <<>> ELSE Retain(h[n - 1], journal[n])]

LEMMA SomeTail ==
    ASSUME Len(journal) \in Nat
    PROVE  \E h : Keeps(h, Len(journal))
<1> DEFINE Stuck == {m \in Nat : \A h : ~Keeps(h, m)}
<1>1. Stuck = {}
  <2> SUFFICES ASSUME Stuck # {} PROVE FALSE
    OBVIOUS
  <2>1. PICK m \in Stuck : \A k \in Stuck : m <= k
    <3>1. Stuck \subseteq Nat
      OBVIOUS
    <3> HIDE DEF Stuck
    <3> QED BY <3>1, Smallest
  <2>2. m # 0
    <3>1. PICK h : h = [n \in 0 .. 0 |-> <<>>]
      OBVIOUS
    <3>2. Keeps(h, 0)
      BY <3>1 DEF Keeps
    <3> QED BY <2>1, <3>2
  <2>3. m - 1 \in Nat /\ m - 1 < m /\ m \in Nat
    BY <2>1, <2>2
  <2>4. PICK h : Keeps(h, m - 1)
    BY <2>1, <2>3
  <2>5. PICK g : g = [n \in 0 .. m |-> IF n = 0 THEN <<>> ELSE Retain(h[n - 1], journal[n])]
    OBVIOUS
  <2>6. \A n \in 0 .. m - 1 : g[n] = h[n]
    BY <2>3, <2>4, <2>5 DEF Keeps
  <2>7. \A n \in 0 .. m : n # 0 => g[n - 1] = h[n - 1]
    BY <2>3, <2>6
  <2>8. Keeps(g, m)
    BY <2>5, <2>7 DEF Keeps
  <2> QED BY <2>1, <2>8
<1> QED BY <1>1

LEMMA TailIsNumbered ==
    ASSUME NEW n, Numbered(journal, n)
    PROVE  Numbered(LiveTail, n)
<1> DEFINE L == Len(journal)
           P(g) == Keeps(g, L)
           kept == CHOOSE g : P(g)
           E == {journal[i] : i \in 1 .. L}
<1>1. L \in Nat
  BY DEF Numbered, IsASequence
<1>2. LiveTail = kept[L]
  BY DEF LiveTail, Keeps
<1>3. P(kept)
  <2>1. \E g : P(g)
    BY <1>1, SomeTail
  <2> HIDE DEF P
  <2> QED BY <2>1
<1>4. PICK h : h = kept
  OBVIOUS
<1>5. Keeps(h, L)
  <2>1. P(h)
    <3> HIDE DEF P
    <3> QED BY <1>3, <1>4
  <2> QED BY <2>1
<1> HIDE DEF kept, P
<1> DEFINE Bad == {m \in 0 .. L : h[m] \notin Seq(E)}
<1>6. Bad = {}
  <2> SUFFICES ASSUME Bad # {} PROVE FALSE
    OBVIOUS
  <2>1. PICK m \in Bad : \A k \in Bad : m <= k
    <3>1. Bad \subseteq Nat
      OBVIOUS
    <3> HIDE DEF Bad
    <3> QED BY <3>1, Smallest
  <2>2. m \in 0 .. L /\ h[m] = IF m = 0 THEN <<>> ELSE Retain(h[m - 1], journal[m])
    BY <1>5 DEF Keeps
  <2>3. CASE m = 0
    <3>1. <<>> \in Seq(E)
      <4> HIDE DEF E
      <4> QED BY EmptySeq
    <3> QED BY <2>1, <2>2, <2>3, <3>1
  <2>4. CASE m # 0
    <3>1. m - 1 \in 0 .. L /\ ~(m <= m - 1) /\ m \in 1 .. L
      BY <1>1, <2>2, <2>4
    <3>2. PICK q : q = h[m - 1]
      OBVIOUS
    <3>3. q \in Seq(E)
      BY <2>1, <3>1, <3>2
    <3>4. PICK x : x = journal[m]
      OBVIOUS
    <3>5. x \in E
      BY <3>1, <3>4
    <3> HIDE DEF E
    <3>6. Append(q, x) \in Seq(E)
      BY <3>3, <3>5
    <3>7. h[m] = Retain(q, x)
      BY <2>2, <2>4, <3>2, <3>4
    <3>8. h[m] \in Seq(E)
      BY <3>3, <3>6, <3>7 DEF Retain
    <3> QED BY <2>1, <3>8
  <2> QED BY <2>3, <2>4
<1>7. PICK tail : tail = LiveTail
  OBVIOUS
<1>8. tail \in Seq(E)
  BY <1>1, <1>2, <1>4, <1>6, <1>7
<1>9. ASSUME NEW i \in 1 .. Len(tail) PROVE tail[i].seq \in Nat /\ tail[i].seq <= n
  <2>1. tail[i] \in E
    <3> HIDE DEF E
    <3> QED BY <1>8, ElementOfSeq
  <2> QED BY <2>1 DEF Numbered
<1> HIDE DEF E
<1> QED BY <1>7, <1>8, <1>9 DEF Numbered, IsASequence

LEMMA NumberedReplay ==
    ASSUME NEW view, NEW w \in Nat, NEW entries, Numbered(entries, w)
    PROVE  Replay(view, w, entries) = view
<1>1. Len(entries) \in Nat
  BY DEF Numbered, IsASequence
<1> QED BY <1>1, ReplayOfOld DEF Numbered

\* One journal goes on with another.
LEMMA MoreEntries ==
    ASSUME NEW s, NEW more, IsASequence(s), IsASequence(more)
    PROVE  /\ IsASequence(s \o more)
           /\ \A i \in 1 .. Len(s \o more) :
                 \/ i \in 1 .. Len(s) /\ (s \o more)[i] = s[i]
                 \/ i - Len(s) \in 1 .. Len(more) /\ (s \o more)[i] = more[i - Len(s)]
           /\ \A view, w : Replay(view, w, s \o more) = Replay(Replay(view, w, s), w, more)
<1>1. PICK A : s \in Seq(A)
  BY DEF IsASequence
<1>2. PICK B : more \in Seq(B)
  BY DEF IsASequence
<1>3. PICK C : C = A \cup B
  OBVIOUS
<1>4. A \subseteq C /\ B \subseteq C
  BY <1>3
<1>5. s \in Seq(C) /\ more \in Seq(C)
  BY <1>1, <1>2, <1>4, SeqMonotonic
<1>6. /\ s \o more \in Seq(C) /\ Len(s \o more) = Len(s) + Len(more)
      /\ \A i \in 1 .. Len(s) + Len(more) :
            (s \o more)[i] = IF i <= Len(s) THEN s[i] ELSE more[i - Len(s)]
  BY <1>5, ConcatProperties
<1>7. Len(s) \in Nat /\ Len(more) \in Nat
  BY <1>5
<1>8. PICK e : e = s \o more
  OBVIOUS
<1>9. ASSUME NEW i \in 1 .. Len(e)
      PROVE  \/ i \in 1 .. Len(s) /\ e[i] = s[i]
             \/ i - Len(s) \in 1 .. Len(more) /\ e[i] = more[i - Len(s)]
  BY <1>6, <1>7, <1>8
<1>10. IsASequence(e)
  BY <1>6, <1>8 DEF IsASequence
<1>11. ASSUME NEW view, NEW w PROVE Replay(view, w, s \o more) = Replay(Replay(view, w, s), w, more)
  BY <1>5, ReplayOfMore
<1> QED BY <1>8, <1>9, <1>10, <1>11

----------------------------------------------------------------------------
(* The seals of a restart tell a reader what they did.                     *)

Marked(f, K, g) == [k \in DOMAIN f |-> IF k \in K THEN g[k] ELSE f[k]]

SealedBlocks(bs) == [k \in DOMAIN bs |-> [bs[k] EXCEPT !.sealed = TRUE]]
SealedRounds(rs) == [k \in DOMAIN rs |-> [sealed |-> TRUE, final |-> TRUE]]
EndedTurns(ts) == [t \in DOMAIN ts |-> [ts[t] EXCEPT !.sealed = TRUE, !.state = "Interrupted"]]

LEMMA OneMoreMark ==
    ASSUME NEW f, NEW K, NEW g, NEW k \in DOMAIN f, NEW h, h = Marked(f, K, g),
           NEW v, v = g[k]
    PROVE  [h EXCEPT ![k] = v] = Marked(f, K \cup {k}, g)
  BY DEF Marked

LEMMA BlockSealed ==
    ASSUME NEW bs, NEW K, NEW k \in DOMAIN bs, bs[k] \in Blocks,
           NEW h, h = Marked(bs, K, SealedBlocks(bs))
    PROVE  [h EXCEPT ![k].sealed = TRUE] = Marked(bs, K \cup {k}, SealedBlocks(bs))
<1> DEFINE v == [h[k] EXCEPT !.sealed = TRUE]
<1>1. v = SealedBlocks(bs)[k]
  <2>1. SealedBlocks(bs)[k] = [bs[k] EXCEPT !.sealed = TRUE]
    BY DEF SealedBlocks
  <2>2. CASE k \in K
    <3>1. h[k] = [bs[k] EXCEPT !.sealed = TRUE]
      BY <2>1, <2>2 DEF Marked
    <3>2. h[k] \in Blocks /\ h[k].sealed = TRUE
      BY <3>1 DEF Blocks
    <3>3. v = h[k]
      BY <3>2 DEF Blocks
    <3> QED BY <2>1, <3>1, <3>3
  <2>3. CASE k \notin K
    BY <2>1, <2>3 DEF Marked
  <2> QED BY <2>2, <2>3
<1>2. [h EXCEPT ![k].sealed = TRUE] = [h EXCEPT ![k] = v]
  OBVIOUS
<1> HIDE DEF v
<1> QED BY <1>1, <1>2, OneMoreMark

\* What the seal of a round and that of a turn write.
Closed(rs, k) == [rs EXCEPT ![k] = [sealed |-> TRUE, final |-> TRUE]]
Ended(ts, t) == [ts EXCEPT ![t].sealed = TRUE, ![t].state = "Interrupted"]

LEMMA RoundClosed ==
    ASSUME NEW rs, NEW K, NEW k \in DOMAIN rs, NEW h, h = Marked(rs, K, SealedRounds(rs))
    PROVE  Closed(h, k) = Marked(rs, K \cup {k}, SealedRounds(rs))
<1>1. PICK v : v = [sealed |-> TRUE, final |-> TRUE]
  OBVIOUS
<1>2. v = SealedRounds(rs)[k]
  BY <1>1 DEF SealedRounds
<1>3. [h EXCEPT ![k] = v] = Marked(rs, K \cup {k}, SealedRounds(rs))
  BY <1>2, OneMoreMark
<1> QED BY <1>1, <1>3 DEF Closed

LEMMA TurnEnded ==
    ASSUME NEW ts, NEW K, NEW t \in DOMAIN ts, ts[t] \in Turns,
           NEW h, h = Marked(ts, K, EndedTurns(ts))
    PROVE  Ended(h, t) = Marked(ts, K \cup {t}, EndedTurns(ts))
<1> DEFINE u == [ts[t] EXCEPT !.sealed = TRUE, !.state = "Interrupted"]
           v == [h[t] EXCEPT !.sealed = TRUE, !.state = "Interrupted"]
<1>1. v = EndedTurns(ts)[t]
  <2>1. EndedTurns(ts)[t] = u
    BY DEF EndedTurns
  <2>2. u \in Turns /\ u.sealed = TRUE /\ u.state = "Interrupted" /\ u.created = ts[t].created
    BY DEF Turns, TurnStates
  <2>3. h[t] \in Turns /\ h[t].created = ts[t].created
    BY <2>1, <2>2 DEF Marked
  <2>4. v \in Turns /\ v.sealed = TRUE /\ v.state = "Interrupted" /\ v.created = ts[t].created
    BY <2>3 DEF Turns, TurnStates
  <2> HIDE DEF u, v
  <2>5. u = v
    BY <2>2, <2>4 DEF Turns
  <2> QED BY <2>1, <2>5
<1>2. Ended(h, t) = [h EXCEPT ![t] = v]
  <2>1. t \in DOMAIN h
    BY DEF Marked
  <2> QED BY <2>1 DEF Ended
<1> HIDE DEF v
<1>3. [h EXCEPT ![t] = v] = Marked(ts, K \cup {t}, EndedTurns(ts))
  BY <1>1, OneMoreMark
<1> QED BY <1>2, <1>3

\* What a reader has after the first n seals.
SealedKeys(seals, n, type, K) ==
    {k \in K : \E i \in 1 .. n : seals[i].event.type = type /\ seals[i].event.key = k}
EndedIds(seals, n, K) ==
    {t \in K : \E i \in 1 .. n : seals[i].event.type = "TurnSealed" /\ seals[i].turn = t}

AfterSeals(seals, n, ts, rs, bs) ==
    AsView(Marked(ts, EndedIds(seals, n, DOMAIN ts), EndedTurns(ts)),
           Marked(rs, SealedKeys(seals, n, "RoundSealed", DOMAIN rs), SealedRounds(rs)),
           Marked(bs, SealedKeys(seals, n, "BlockSealed", DOMAIN bs), SealedBlocks(bs)))

LEMMA UpToM == ASSUME NEW m \in Nat, m # 0 PROVE \A i : i \in 1 .. m <=> i \in 1 .. m - 1 \/ i = m
  OBVIOUS

LEMMA OneMoreKey ==
    ASSUME NEW seals, NEW m \in Nat, m # 0, NEW K, NEW type, NEW k \in K,
           seals[m].event.type = type, seals[m].event.key = k
    PROVE  SealedKeys(seals, m, type, K) = SealedKeys(seals, m - 1, type, K) \cup {k}
  BY UpToM DEF SealedKeys

LEMMA NoMoreKeys ==
    ASSUME NEW seals, NEW m \in Nat, m # 0, NEW K, NEW type, seals[m].event.type # type
    PROVE  SealedKeys(seals, m, type, K) = SealedKeys(seals, m - 1, type, K)
  BY UpToM DEF SealedKeys

LEMMA OneMoreId ==
    ASSUME NEW seals, NEW m \in Nat, m # 0, NEW K, NEW t \in K,
           seals[m].event.type = "TurnSealed", seals[m].turn = t
    PROVE  EndedIds(seals, m, K) = EndedIds(seals, m - 1, K) \cup {t}
  BY UpToM DEF EndedIds

LEMMA NoMoreIds ==
    ASSUME NEW seals, NEW m \in Nat, m # 0, NEW K, seals[m].event.type # "TurnSealed"
    PROVE  EndedIds(seals, m, K) = EndedIds(seals, m - 1, K)
  BY UpToM DEF EndedIds

LEMMA BlockSealReads ==
    ASSUME NEW ts, NEW rs, NEW bs, NEW x, NEW k,
           x.event.type = "BlockSealed", x.event.key = k
    PROVE  Reduce(AsView(ts, rs, bs), x) = AsView(ts, rs, [bs EXCEPT ![k].sealed = TRUE])
  BY DEF Reduce, AsView

LEMMA RoundSealReads ==
    ASSUME NEW ts, NEW rs, NEW bs, NEW x, NEW k,
           x.event.type = "RoundSealed", x.event.key = k,
           NEW v, v = [sealed |-> TRUE, final |-> x.event.final]
    PROVE  Reduce(AsView(ts, rs, bs), x) = AsView(ts, [rs EXCEPT ![k] = v], bs)
  BY DEF Reduce, AsView

LEMMA TurnSealReads ==
    ASSUME NEW ts, NEW rs, NEW bs, NEW x, NEW t, x.turn = t,
           x.event.type = "TurnSealed", x.event.state = "Interrupted"
    PROVE  Reduce(AsView(ts, rs, bs), x) = AsView(Ended(ts, t), rs, bs)
  BY DEF Reduce, AsView, Ended

LEMMA SealReads ==
    ASSUME NEW tl, SoundParts(tl.nextSeq, tl.turns, tl.rounds, tl.blocks),
           NEW ts, NEW rs, NEW bs, ts = tl.turns, rs = tl.rounds, bs = tl.blocks,
           NEW seals, NEW m \in Nat, m # 0, seals[m] \in OwedSeals(tl),
           NEW x, x.turn = seals[m].turn, x.event = seals[m].event
    PROVE  Reduce(AfterSeals(seals, m - 1, ts, rs, bs), x) = AfterSeals(seals, m, ts, rs, bs)
<1> DEFINE T(n) == EndedIds(seals, n, DOMAIN ts)
           R(n) == SealedKeys(seals, n, "RoundSealed", DOMAIN rs)
           B(n) == SealedKeys(seals, n, "BlockSealed", DOMAIN bs)
<1>1. PICK ts0 : ts0 = Marked(ts, T(m - 1), EndedTurns(ts))
  OBVIOUS
<1>2. PICK rs0 : rs0 = Marked(rs, R(m - 1), SealedRounds(rs))
  OBVIOUS
<1>3. PICK bs0 : bs0 = Marked(bs, B(m - 1), SealedBlocks(bs))
  OBVIOUS
<1>4. AfterSeals(seals, m - 1, ts, rs, bs) = AsView(ts0, rs0, bs0)
  BY <1>1, <1>2, <1>3 DEF AfterSeals
<1>5. AfterSeals(seals, m, ts, rs, bs) = AsView(Marked(ts, T(m), EndedTurns(ts)),
                                                Marked(rs, R(m), SealedRounds(rs)),
                                                Marked(bs, B(m), SealedBlocks(bs)))
  BY DEF AfterSeals
<1>6. TypedParts(ts, rs, bs)
  BY DEF SoundParts
<1>7. CASE seals[m] \in BlockSeals(tl)
  <2>1. PICK k \in DOMAIN bs : seals[m].event = [type |-> "BlockSealed", key |-> k]
    BY <1>7 DEF BlockSeals
  <2>2. seals[m].event.type = "BlockSealed" /\ seals[m].event.key = k
    BY <2>1
  <2>3. T(m) = T(m - 1) /\ R(m) = R(m - 1)
    BY <2>2, NoMoreIds, NoMoreKeys
  <2>4. B(m) = B(m - 1) \cup {k}
    BY <2>2, OneMoreKey
  <2>5. bs[k] \in Blocks
    BY <1>6 DEF TypedParts
  <2> HIDE DEF T, R, B
  <2>6. [bs0 EXCEPT ![k].sealed = TRUE] = Marked(bs, B(m), SealedBlocks(bs))
    BY <1>3, <2>4, <2>5, BlockSealed
  <2>7. Reduce(AsView(ts0, rs0, bs0), x) = AsView(ts0, rs0, [bs0 EXCEPT ![k].sealed = TRUE])
    BY <2>2, BlockSealReads
  <2> QED BY <1>1, <1>2, <1>4, <1>5, <2>3, <2>6, <2>7
<1>8. CASE seals[m] \in RoundSeals(tl)
  <2> DEFINE e(k) == [type |-> "RoundSealed", key |-> k, final |-> TRUE]
  <2>1. PICK k \in DOMAIN rs : seals[m].event = e(k)
    <3>1. RoundSeals(tl) = {[turn |-> k[1], stage |-> 2, round |-> k[2], order |-> 0, event |-> e(k)] :
                            k \in {j \in DOMAIN tl.rounds : j[1] \in Orphans(tl) /\ ~tl.rounds[j].sealed}}
      BY DEF RoundSeals
    <3> HIDE DEF e
    <3> QED BY <1>8, <3>1
  <2>2. e(k).type = "RoundSealed" /\ e(k).key = k /\ e(k).final = TRUE
    OBVIOUS
  <2> HIDE DEF e
  <2>3. T(m) = T(m - 1) /\ B(m) = B(m - 1)
    BY <2>1, <2>2, NoMoreIds, NoMoreKeys
  <2>4. R(m) = R(m - 1) \cup {k}
    BY <2>1, <2>2, OneMoreKey
  <2> HIDE DEF T, R, B
  <2>5. Closed(rs0, k) = Marked(rs, R(m), SealedRounds(rs))
    BY <1>2, <2>4, RoundClosed
  <2>6. Reduce(AsView(ts0, rs0, bs0), x) = AsView(ts0, Closed(rs0, k), bs0)
    <3>1. x.event = e(k)
      BY <2>1
    <3>2. x.event.type = "RoundSealed" /\ x.event.key = k /\ x.event.final = TRUE
      BY <2>2, <3>1, Zenon
    <3>3. PICK v : v = [sealed |-> TRUE, final |-> x.event.final]
      OBVIOUS
    <3>4. v = [sealed |-> TRUE, final |-> TRUE]
      BY <3>2, <3>3, Zenon
    <3>5. Reduce(AsView(ts0, rs0, bs0), x) = AsView(ts0, [rs0 EXCEPT ![k] = v], bs0)
      BY <3>2, <3>3, RoundSealReads
    <3> QED BY <3>4, <3>5 DEF Closed
  <2> QED BY <1>1, <1>3, <1>4, <1>5, <2>3, <2>5, <2>6
<1>9. CASE seals[m] \in TurnSeals(tl)
  <2>1. PICK t \in DOMAIN ts :
           seals[m].turn = t /\ seals[m].event = [type |-> "TurnSealed", state |-> "Interrupted"]
    BY <1>9 DEF TurnSeals, Orphans
  <2>2. seals[m].event.type = "TurnSealed" /\ seals[m].event.state = "Interrupted"
    BY <2>1
  <2>3. R(m) = R(m - 1) /\ B(m) = B(m - 1)
    BY <2>2, NoMoreKeys
  <2>4. T(m) = T(m - 1) \cup {t}
    BY <2>1, <2>2, OneMoreId
  <2>5. ts[t] \in Turns
    BY <1>6 DEF TypedParts
  <2> HIDE DEF T, R, B
  <2>6. Ended(ts0, t) = Marked(ts, T(m), EndedTurns(ts))
    BY <1>1, <2>4, <2>5, TurnEnded
  <2>7. x.turn = t
    BY <2>1
  <2>8. Reduce(AsView(ts0, rs0, bs0), x) = AsView(Ended(ts0, t), rs0, bs0)
    BY <2>2, <2>7, TurnSealReads
  <2> QED BY <1>2, <1>3, <1>4, <1>5, <2>3, <2>6, <2>8
<1> QED BY <1>7, <1>8, <1>9 DEF OwedSeals

AreMaps(ts, rs, bs) == IsMap(ts) /\ IsMap(rs) /\ IsMap(bs)

\* With no seal the reader has what it had; with all of them, what SealOrphans leaves.
LEMMA BeforeTheSeals ==
    ASSUME NEW seals, NEW ts, NEW rs, NEW bs, AreMaps(ts, rs, bs)
    PROVE  AfterSeals(seals, 0, ts, rs, bs) = AsView(ts, rs, bs)
<1>1. ASSUME NEW f, NEW g, IsMap(f) PROVE Marked(f, {}, g) = f
  BY <1>1 DEF Marked, IsMap
<1>2. \A K : EndedIds(seals, 0, K) = {}
  BY DEF EndedIds
<1>3. \A K, type : SealedKeys(seals, 0, type, K) = {}
  BY DEF SealedKeys
<1>4. /\ Marked(ts, {}, EndedTurns(ts)) = ts
      /\ Marked(rs, {}, SealedRounds(rs)) = rs
      /\ Marked(bs, {}, SealedBlocks(bs)) = bs
  BY <1>1 DEF AreMaps
<1> QED BY <1>2, <1>3, <1>4 DEF AfterSeals

LEMMA AfterTheSeals ==
    ASSUME NEW tl, SoundParts(tl.nextSeq, tl.turns, tl.rounds, tl.blocks),
           NEW ts, NEW rs, NEW bs, ts = tl.turns, rs = tl.rounds, bs = tl.blocks,
           NEW o, o = SealOrphans(tl),
           NEW seals, NEW n \in Nat, \A i \in 1 .. n : seals[i] \in OwedSeals(tl),
           \A s \in OwedSeals(tl) : \E i \in 1 .. n : seals[i] = s
    PROVE  AfterSeals(seals, n, ts, rs, bs) = AsView(o.turns, o.rounds, o.blocks)
<1>1. TypedParts(ts, rs, bs)
  BY DEF SoundParts
<1>2. EndedIds(seals, n, DOMAIN ts) = Orphans(tl)
  <2>1. ASSUME NEW t \in EndedIds(seals, n, DOMAIN ts) PROVE t \in Orphans(tl)
    <3>1. PICK i \in 1 .. n : seals[i].turn = t
      BY <2>1 DEF EndedIds
    <3> QED BY <3>1, SealsHaveRanks
  <2>2. ASSUME NEW t \in Orphans(tl) PROVE t \in EndedIds(seals, n, DOMAIN ts)
    <3> DEFINE s == [turn |-> t, stage |-> 3, round |-> 0, order |-> 0,
                     event |-> [type |-> "TurnSealed", state |-> "Interrupted"]]
    <3>1. s \in OwedSeals(tl) /\ s.event.type = "TurnSealed" /\ s.turn = t
      BY <2>2 DEF OwedSeals, TurnSeals
    <3> HIDE DEF s
    <3>2. PICK i \in 1 .. n : seals[i] = s
      BY <3>1
    <3>3. t \in DOMAIN ts
      BY <2>2 DEF Orphans
    <3> QED BY <3>1, <3>2, <3>3 DEF EndedIds
  <2> QED BY <2>1, <2>2
<1>3. SealedKeys(seals, n, "RoundSealed", DOMAIN rs)
        = {k \in DOMAIN rs : k[1] \in Orphans(tl) /\ ~rs[k].sealed}
  <2>1. ASSUME NEW k \in SealedKeys(seals, n, "RoundSealed", DOMAIN rs)
        PROVE  k[1] \in Orphans(tl) /\ ~rs[k].sealed
    <3>1. PICK i \in 1 .. n : seals[i].event.type = "RoundSealed" /\ seals[i].event.key = k
      BY <2>1 DEF SealedKeys
    <3>2. PICK s \in OwedSeals(tl) : s.event.type = "RoundSealed" /\ s.event.key = k
      BY <3>1
    <3>3. s \in RoundSeals(tl)
      BY <3>2 DEF OwedSeals, BlockSeals, TurnSeals
    <3> QED BY <3>2, <3>3 DEF RoundSeals
  <2>2. ASSUME NEW k \in DOMAIN rs, k[1] \in Orphans(tl), ~rs[k].sealed
        PROVE  k \in SealedKeys(seals, n, "RoundSealed", DOMAIN rs)
    <3> DEFINE s == [turn |-> k[1], stage |-> 2, round |-> k[2], order |-> 0,
                     event |-> [type |-> "RoundSealed", key |-> k, final |-> TRUE]]
    <3>1. s \in OwedSeals(tl) /\ s.event.type = "RoundSealed" /\ s.event.key = k
      BY <2>2 DEF OwedSeals, RoundSeals
    <3> HIDE DEF s
    <3>2. PICK i \in 1 .. n : seals[i] = s
      BY <3>1
    <3> QED BY <3>1, <3>2 DEF SealedKeys
  <2>3. SealedKeys(seals, n, "RoundSealed", DOMAIN rs) \subseteq DOMAIN rs
    BY DEF SealedKeys
  <2> QED BY <2>1, <2>2, <2>3
<1>4. SealedKeys(seals, n, "BlockSealed", DOMAIN bs)
        = {k \in DOMAIN bs : k[1] \in Orphans(tl) /\ ~bs[k].sealed}
  <2>1. ASSUME NEW k \in SealedKeys(seals, n, "BlockSealed", DOMAIN bs)
        PROVE  k[1] \in Orphans(tl) /\ ~bs[k].sealed
    <3>1. PICK i \in 1 .. n : seals[i].event.type = "BlockSealed" /\ seals[i].event.key = k
      BY <2>1 DEF SealedKeys
    <3>2. PICK s \in OwedSeals(tl) : s.event.type = "BlockSealed" /\ s.event.key = k
      BY <3>1
    <3>3. s \in BlockSeals(tl)
      BY <3>2 DEF OwedSeals, RoundSeals, TurnSeals
    <3> QED BY <3>2, <3>3 DEF BlockSeals
  <2>2. ASSUME NEW k \in DOMAIN bs, k[1] \in Orphans(tl), ~bs[k].sealed
        PROVE  k \in SealedKeys(seals, n, "BlockSealed", DOMAIN bs)
    <3> DEFINE s == [turn |-> k[1], stage |-> 1, round |-> k[2], order |-> tl.blocks[k].order,
                     event |-> [type |-> "BlockSealed", key |-> k]]
    <3>1. s \in OwedSeals(tl) /\ s.event.type = "BlockSealed" /\ s.event.key = k
      BY <2>2 DEF OwedSeals, BlockSeals
    <3> HIDE DEF s
    <3>2. PICK i \in 1 .. n : seals[i] = s
      BY <3>1
    <3> QED BY <3>1, <3>2 DEF SealedKeys
  <2>3. SealedKeys(seals, n, "BlockSealed", DOMAIN bs) \subseteq DOMAIN bs
    BY DEF SealedKeys
  <2> QED BY <2>1, <2>2, <2>3
<1>5. o.turns = Marked(ts, Orphans(tl), EndedTurns(ts))
  BY DEF SealOrphans, Marked, EndedTurns
<1>6. o.rounds = Marked(rs, {k \in DOMAIN rs : k[1] \in Orphans(tl) /\ ~rs[k].sealed}, SealedRounds(rs))
  BY DEF SealOrphans, RoundsClosed, Marked, SealedRounds
<1>7. o.blocks = Marked(bs, {k \in DOMAIN bs : k[1] \in Orphans(tl) /\ ~bs[k].sealed}, SealedBlocks(bs))
  <2>1. o.blocks = [k \in DOMAIN bs |-> IF k[1] \in Orphans(tl) THEN [bs[k] EXCEPT !.sealed = TRUE]
                                        ELSE bs[k]]
    BY DEF SealOrphans
  <2>2. ASSUME NEW k \in DOMAIN bs, bs[k].sealed PROVE [bs[k] EXCEPT !.sealed = TRUE] = bs[k]
    BY <1>1, <2>2 DEF TypedParts, Blocks
  <2> QED BY <2>1, <2>2 DEF Marked, SealedBlocks
<1> QED BY <1>2, <1>3, <1>4, <1>5, <1>6, <1>7 DEF AfterSeals

\* What SealOrphans adds to the journal is what it does to the transcript.
SealsAs(tl, o, w, more) ==
    /\ o.journal = tl.journal \o more /\ IsASequence(more)
    /\ o.nextSeq = tl.nextSeq + Len(more)
    /\ \A i \in 1 .. Len(more) : more[i].seq = tl.nextSeq + i
    /\ Replay(AsView(tl.turns, tl.rounds, tl.blocks), w, more) = AsView(o.turns, o.rounds, o.blocks)

LEMMA SealsRead ==
    ASSUME NEW tl, SoundParts(tl.nextSeq, tl.turns, tl.rounds, tl.blocks),
           AreMaps(tl.turns, tl.rounds, tl.blocks),
           NEW o, o = SealOrphans(tl), NEW w \in Nat, w <= tl.nextSeq
    PROVE  \E more : SealsAs(tl, o, w, more)
<1>1. PICK seals : seals = OrphanSeals(tl)
  OBVIOUS
<1>2. PICK W : W = OwedSeals(tl)
  OBVIOUS
<1>3. /\ seals \in Seq(W) /\ Len(seals) = Cardinality(OwedSeals(tl))
      /\ \A s \in W : \E i \in 1 .. Len(seals) : seals[i] = s
  BY <1>1, <1>2, SealsInOrder
<1>4. PICK L : L = Len(seals)
  OBVIOUS
<1>5. L \in Nat /\ DOMAIN seals = 1 .. L /\ \A i \in 1 .. L : seals[i] \in W
  BY <1>3, <1>4, ElementOfSeq
<1>6. PICK more : more = [i \in 1 .. L |-> [seq |-> tl.nextSeq + i, turn |-> seals[i].turn,
                                            event |-> seals[i].event]]
  OBVIOUS
<1>7. o.journal = tl.journal \o more /\ o.nextSeq = tl.nextSeq + L
  BY <1>1, <1>3, <1>4, <1>5, <1>6 DEF SealOrphans
<1>8. /\ IsASequence(more) /\ Len(more) = L
      /\ \A i \in 1 .. L : /\ more[i].seq = tl.nextSeq + i
                           /\ more[i].turn = seals[i].turn /\ more[i].event = seals[i].event
  <2>1. PICK E : E = {more[i] : i \in 1 .. L}
    OBVIOUS
  <2>2. more \in [1 .. L -> E]
    BY <1>6, <2>1
  <2>3. more \in Seq(E) /\ Len(more) = L
    <3> QED BY <1>5, <2>2
  <2> QED BY <1>6, <2>3 DEF IsASequence
<1>9. tl.nextSeq \in Nat
  BY DEF SoundParts, FewParts
<1>10. PICK ts, rs, bs : ts = tl.turns /\ rs = tl.rounds /\ bs = tl.blocks
  OBVIOUS
<1>11. PICK view : view = AsView(ts, rs, bs)
  OBVIOUS
<1>12. PICK g : Reading(g, view, w, more) /\ Replay(view, w, more) = g[L]
  BY <1>5, <1>8, ReplayIsReading
<1> DEFINE Apart == {n \in 0 .. L : g[n] # AfterSeals(seals, n, ts, rs, bs)}
<1>13. Apart = {}
  <2> SUFFICES ASSUME Apart # {} PROVE FALSE
    OBVIOUS
  <2>1. PICK m \in Apart : \A k \in Apart : m <= k
    <3>1. Apart \subseteq Nat
      OBVIOUS
    <3> HIDE DEF Apart
    <3> QED BY <3>1, Smallest
  <2>2. m \in 0 .. L /\ g[m] = IF m = 0 THEN view ELSE Take(g[m - 1], w, more[m])
    BY <1>8, <1>12 DEF Reading, ReadsUpTo
  <2>3. CASE m = 0
    <3>1. AfterSeals(seals, 0, ts, rs, bs) = view
      BY <1>10, <1>11, BeforeTheSeals
    <3> QED BY <2>1, <2>2, <2>3, <3>1
  <2>4. CASE m # 0
    <3>1. m - 1 \in 0 .. L /\ ~(m <= m - 1) /\ m \in 1 .. L /\ m \in Nat
      BY <1>5, <2>2, <2>4
    <3>2. g[m - 1] = AfterSeals(seals, m - 1, ts, rs, bs)
      BY <2>1, <3>1
    <3>3. PICK x : x = more[m]
      OBVIOUS
    <3>4. x.seq > w /\ x.turn = seals[m].turn /\ x.event = seals[m].event
      BY <1>8, <1>9, <3>1, <3>3
    <3>5. Reduce(AfterSeals(seals, m - 1, ts, rs, bs), x) = AfterSeals(seals, m, ts, rs, bs)
      <4>1. seals[m] \in OwedSeals(tl)
        BY <1>2, <1>5, <3>1
      <4> QED BY <1>10, <2>4, <3>1, <3>4, <4>1, SealReads
    <3>6. g[m] = AfterSeals(seals, m, ts, rs, bs)
      BY <2>2, <2>4, <3>2, <3>3, <3>4, <3>5 DEF Take
    <3> QED BY <2>1, <3>6
  <2> QED BY <2>3, <2>4
<1>14. g[L] = AfterSeals(seals, L, ts, rs, bs)
  BY <1>5, <1>13
<1>15. AfterSeals(seals, L, ts, rs, bs) = AsView(o.turns, o.rounds, o.blocks)
  <2>1. /\ \A i \in 1 .. L : seals[i] \in OwedSeals(tl)
        /\ \A s \in OwedSeals(tl) : \E i \in 1 .. L : seals[i] = s
    BY <1>2, <1>3, <1>4, <1>5
  <2> QED BY <1>5, <1>10, <2>1, AfterTheSeals
<1>16. SealsAs(tl, o, w, more)
  BY <1>7, <1>8, <1>10, <1>11, <1>12, <1>14, <1>15 DEF SealsAs
<1> QED BY <1>16

\* Sealing leaves maps.
LEMMA SealingLeavesMaps ==
    ASSUME NEW tl, NEW o, o = SealOrphans(tl)
    PROVE  AreMaps(o.turns, o.rounds, o.blocks)
<1>1. IsMap(o.turns)
  BY DEF SealOrphans, IsMap
<1>2. IsMap(o.rounds)
  BY DEF SealOrphans, RoundsClosed, IsMap
<1>3. IsMap(o.blocks)
  BY DEF SealOrphans, IsMap
<1> QED BY <1>1, <1>2, <1>3 DEF AreMaps

----------------------------------------------------------------------------
(* What sealing and restoring leave.                                       *)

\* The transcript that is left has the same turns, rounds and blocks, all turns sealed.
LEMMA SealedTranscript ==
    ASSUME NEW tl, SoundParts(tl.nextSeq, tl.turns, tl.rounds, tl.blocks), NEW o, o = SealOrphans(tl)
    PROVE  /\ SoundParts(o.nextSeq, o.turns, o.rounds, o.blocks)
           /\ \A t \in DOMAIN o.turns : o.turns[t].sealed
           /\ o.nextSeq = tl.nextSeq + Cardinality(OwedSeals(tl))
<1> DEFINE ts == tl.turns  rs == tl.rounds  bs == tl.blocks
           ts1 == o.turns  rs1 == o.rounds  bs1 == o.blocks
<1>1. /\ o.nextSeq = tl.nextSeq + Cardinality(OwedSeals(tl))
      /\ ts1 = [t \in DOMAIN ts |-> IF t \in Orphans(tl)
                                    THEN [ts[t] EXCEPT !.sealed = TRUE, !.state = "Interrupted"]
                                    ELSE ts[t]]
      /\ rs1 = RoundsClosed(tl)
      /\ bs1 = [k \in DOMAIN bs |-> IF k[1] \in Orphans(tl) THEN [bs[k] EXCEPT !.sealed = TRUE]
                                    ELSE bs[k]]
  BY DEF SealOrphans
<1>2. /\ rs1 = [k \in DOMAIN rs |-> IF k[1] \in Orphans(tl) /\ ~rs[k].sealed
                                    THEN [sealed |-> TRUE, final |-> TRUE] ELSE rs[k]]
      /\ Orphans(tl) = {t \in DOMAIN ts : ~ts[t].sealed}
  BY <1>1 DEF RoundsClosed, Orphans
<1>3. TypedParts(ts, rs, bs) /\ NestedParts(ts, rs, bs) /\ FewParts(tl.nextSeq, ts, rs, bs)
  BY DEF SoundParts
<1> DEFINE orphans == Orphans(tl)
<1> HIDE DEF ts, rs, bs, ts1, rs1, bs1, orphans
<1>4. DOMAIN ts1 = DOMAIN ts /\ DOMAIN rs1 = DOMAIN rs /\ DOMAIN bs1 = DOMAIN bs
  BY <1>1, <1>2
<1>5. ASSUME NEW t \in DOMAIN ts PROVE ts1[t] \in Turns /\ ts1[t].sealed
  <2>1. ts[t] \in Turns
    BY <1>3 DEF TypedParts
  <2>2. CASE t \in Orphans(tl)
    <3>1. ts1[t] = [ts[t] EXCEPT !.sealed = TRUE, !.state = "Interrupted"]
      BY <1>1, <2>2
    <3>2. "Interrupted" \in TurnStates
      BY DEF TurnStates
    <3> QED BY <2>1, <3>1, <3>2 DEF Turns
  <2>3. CASE t \notin Orphans(tl)
    BY <1>1, <1>2, <2>1, <2>3
  <2> QED BY <2>2, <2>3
<1>6. ASSUME NEW k \in DOMAIN rs
      PROVE  /\ rs1[k] \in Rounds
             /\ k[1] \in DOMAIN ts /\ rs1[k].sealed
  <2>1. rs[k] \in Rounds /\ k[1] \in DOMAIN ts /\ (ts[k[1]].sealed => rs[k].sealed)
    BY <1>3 DEF TypedParts, NestedParts
  <2>2. CASE k[1] \in Orphans(tl) /\ ~rs[k].sealed
    BY <1>2, <2>1, <2>2 DEF Rounds
  <2>3. CASE ~(k[1] \in Orphans(tl) /\ ~rs[k].sealed)
    <3>1. rs1[k] = rs[k]
      BY <1>2, <2>3
    <3>2. rs[k].sealed
      BY <1>2, <2>1, <2>3
    <3> QED BY <2>1, <3>1, <3>2
  <2> QED BY <2>2, <2>3
<1>7. ASSUME NEW k \in DOMAIN bs
      PROVE  /\ bs1[k] \in Blocks /\ (bs1[k].kind = "Tool" <=> bs1[k].tool # NoTool)
             /\ <<k[1], k[2]>> \in DOMAIN rs /\ bs1[k].sealed
  <2>1. /\ bs[k] \in Blocks /\ (bs[k].kind = "Tool" <=> bs[k].tool # NoTool)
        /\ <<k[1], k[2]>> \in DOMAIN rs
        /\ rs[<<k[1], k[2]>>].sealed => bs[k].sealed
    BY <1>3 DEF TypedParts, NestedParts
  <2>2. CASE k[1] \in Orphans(tl)
    <3>1. bs1[k] = [bs[k] EXCEPT !.sealed = TRUE]
      BY <1>1, <2>2
    <3> QED BY <2>1, <3>1 DEF Blocks
  <2>3. CASE k[1] \notin Orphans(tl)
    <3>1. bs1[k] = bs[k]
      BY <1>1, <2>3
    <3>2. <<k[1], k[2]>>[1] \in DOMAIN ts /\ (ts[<<k[1], k[2]>>[1]].sealed => rs[<<k[1], k[2]>>].sealed)
      BY <1>3, <2>1 DEF NestedParts
    <3>3. <<k[1], k[2]>>[1] = k[1]
      OBVIOUS
    <3>4. ts[k[1]].sealed
      BY <1>2, <2>3, <3>2, <3>3
    <3> QED BY <2>1, <3>1, <3>2, <3>3, <3>4
  <2> QED BY <2>2, <2>3
<1>8. TypedParts(ts1, rs1, bs1)
  BY <1>3, <1>4, <1>5, <1>6, <1>7 DEF TypedParts
<1>9. NestedParts(ts1, rs1, bs1)
  BY <1>4, <1>5, <1>6, <1>7 DEF NestedParts
<1>10. FewParts(o.nextSeq, ts1, rs1, bs1)
  <2>1. Cardinality(OwedSeals(tl)) \in Nat /\ tl.nextSeq \in Nat
    BY <1>3, SealsAreFew DEF FewParts
  <2>2. /\ Cardinality(DOMAIN ts1) \in Nat /\ Cardinality(DOMAIN rs1) \in Nat
        /\ Cardinality(DOMAIN bs1) \in Nat
        /\ IsFiniteSet(DOMAIN ts1) /\ IsFiniteSet(DOMAIN rs1) /\ IsFiniteSet(DOMAIN bs1)
    BY <1>3, <1>4, FS_CardinalityType DEF FewParts
  <2> DEFINE c == Cardinality(OwedSeals(tl))  n == tl.nextSeq
  <2>3. o.nextSeq \in Nat /\ 2 * tl.nextSeq <= 2 * o.nextSeq
    <3>1. o.nextSeq = n + c /\ n \in Nat /\ c \in Nat
      BY <1>1, <2>1
    <3> HIDE DEF n, c
    <3>2. n + c \in Nat /\ 2 * n <= 2 * (n + c)
      BY <3>1
    <3> QED BY <3>1, <3>2 DEF n
  <2>4. Cardinality(DOMAIN ts1) + Cardinality(DOMAIN rs1) + Cardinality(DOMAIN bs1) <= 2 * tl.nextSeq
    BY <1>3, <1>4 DEF FewParts
  <2>5. Cardinality(DOMAIN ts1) + Cardinality(DOMAIN rs1) + Cardinality(DOMAIN bs1) <= 2 * o.nextSeq
    BY <2>1, <2>2, <2>3, <2>4
  <2> QED BY <1>4, <1>5, <2>2, <2>3, <2>5 DEF FewParts
<1> QED BY <1>1, <1>4, <1>5, <1>8, <1>9, <1>10 DEF SoundParts, ts1, rs1, bs1

----------------------------------------------------------------------------
(* Facts about single steps.                                               *)

LEMMA CheckpointIsARecord ==
    ASSUME SoundParts(nextSeq, turns, rounds, blocks)
    PROVE  Checkpoint # None /\ Recorded(Checkpoint) /\ Checkpoint.watermark = nextSeq
<1>1. Recorded(Checkpoint) /\ Checkpoint.watermark = nextSeq
  BY DEF Checkpoint, Recorded
<1>2. Checkpoint # None
  <2>1. "blocks" \in DOMAIN Checkpoint
    BY DEF Checkpoint
  <2>2. "blocks" \notin DOMAIN None
    BY DEF None
  <2> QED BY <2>1, <2>2
<1> QED BY <1>1, <1>2

LEMMA NoneIsEmpty == None.watermark = 0
  BY DEF None

\* The numbers that Stamp gives out.
LEMMA StampExtends ==
    ASSUME NEW n \in Nat, written \in Seq(Nat), epoch \in Nat, Len(written) <= n, Stamp(n)
    PROVE  /\ written' \in Seq(Nat) /\ Len(written') = n
           /\ n = Len(written) => written' = written
<1> DEFINE m == n - Len(written)
           more == [i \in 1 .. m |-> epoch]
<1>1. m \in Nat /\ more \in Seq(Nat) /\ Len(more) = m
  OBVIOUS
<1>2. written' = written \o more
  BY DEF Stamp
<1>3. written' \in Seq(Nat) /\ Len(written') = Len(written) + m
  BY <1>1, <1>2
<1>4. n = Len(written) => more = <<>>
  OBVIOUS
<1>5. n = Len(written) => written' = written
  BY <1>2, <1>4
<1> QED BY <1>3, <1>5

\* Before the timeline is loaded there is nothing to seal, and a stop finds as many numbers as
\* the disk has.
LEMMA StampOfNothing ==
    ASSUME written \in Seq(Nat), Stamp(0)
    PROVE  written' = written
<1>1. 1 .. 0 - Len(written) = {}
  OBVIOUS
<1>2. [i \in 1 .. 0 - Len(written) |-> epoch] = <<>>
  BY <1>1
<1>3. written' = written \o <<>>
  BY <1>2 DEF Stamp
<1> QED BY <1>3

LEMMA SealingKeepsParts ==
    ASSUME SoundParts(nextSeq, turns, rounds, blocks), Become(SealOrphans(Timeline))
    PROVE  /\ SoundParts(nextSeq, turns, rounds, blocks)'
           /\ nextSeq' \in nextSeq .. nextSeq + 2 * MaxSeq
           /\ DOMAIN turns = {} /\ DOMAIN rounds = {} /\ DOMAIN blocks = {} =>
                /\ nextSeq' = nextSeq
                /\ DOMAIN turns' = {} /\ DOMAIN rounds' = {} /\ DOMAIN blocks' = {}
<1> DEFINE tl == Timeline
<1>1. tl.nextSeq = nextSeq /\ tl.turns = turns /\ tl.rounds = rounds /\ tl.blocks = blocks
  BY DEF Timeline
<1> HIDE DEF tl
<1> DEFINE o == SealOrphans(tl)
<1>2. nextSeq' = o.nextSeq /\ turns' = o.turns /\ rounds' = o.rounds /\ blocks' = o.blocks
  BY DEF Become, tl
<1>3. /\ DOMAIN o.turns = DOMAIN tl.turns /\ DOMAIN o.rounds = DOMAIN tl.rounds
      /\ DOMAIN o.blocks = DOMAIN tl.blocks
  BY DEF SealOrphans, RoundsClosed
<1>4. DOMAIN tl.turns = {} => OwedSeals(tl) = {}
  BY DEF OwedSeals, BlockSeals, RoundSeals, TurnSeals, Orphans
<1> HIDE DEF o
<1>5. SoundParts(tl.nextSeq, tl.turns, tl.rounds, tl.blocks)
  BY <1>1
<1>6. /\ SoundParts(o.nextSeq, o.turns, o.rounds, o.blocks)
      /\ o.nextSeq = tl.nextSeq + Cardinality(OwedSeals(tl))
  BY <1>5, SealedTranscript DEF o
<1> DEFINE c == Cardinality(OwedSeals(tl))
<1>7. c \in Nat /\ c <= 2 * MaxSeq
  BY <1>5, SealsAreFew
<1>8. DOMAIN tl.turns = {} => c = 0
  BY <1>4, FS_EmptySet
<1> HIDE DEF c
<1>9. SoundParts(nextSeq', turns', rounds', blocks')
  BY <1>2, <1>6
<1>10. nextSeq' = nextSeq + c /\ nextSeq \in Nat /\ MaxSeq \in Nat
  BY <1>1, <1>2, <1>6, BoundsAssumption DEF c, SoundParts, FewParts
<1>11. nextSeq' \in nextSeq .. nextSeq + 2 * MaxSeq
  BY <1>7, <1>10
<1> QED BY <1>1, <1>2, <1>3, <1>8, <1>9, <1>10, <1>11

\* What Load restores, from a record or from none.
LEMMA RestoredParts ==
    ASSUME file # None, Recorded(file),
           NEW restored, restored = [nextSeq |-> file.watermark, turns |-> file.turns,
                                     rounds |-> file.rounds, blocks |-> file.blocks,
                                     journal |-> file.journal],
           Become(SealOrphans(restored))
    PROVE  /\ SoundParts(nextSeq, turns, rounds, blocks)'
           /\ nextSeq' \in file.watermark .. file.watermark + 2 * MaxSeq
<1> DEFINE o == SealOrphans(restored)
<1>1. /\ restored.nextSeq = file.watermark /\ restored.turns = file.turns
      /\ restored.rounds = file.rounds /\ restored.blocks = file.blocks
  OBVIOUS
<1>2. nextSeq' = o.nextSeq /\ turns' = o.turns /\ rounds' = o.rounds /\ blocks' = o.blocks
  BY DEF Become
<1> HIDE DEF o
<1>3. SoundParts(restored.nextSeq, restored.turns, restored.rounds, restored.blocks)
  BY <1>1 DEF Recorded
<1>4. /\ SoundParts(o.nextSeq, o.turns, o.rounds, o.blocks)
      /\ o.nextSeq = restored.nextSeq + Cardinality(OwedSeals(restored))
  BY <1>3, SealedTranscript DEF o
<1> DEFINE c == Cardinality(OwedSeals(restored))
<1>5. c \in Nat /\ c <= 2 * MaxSeq
  BY <1>3, SealsAreFew
<1> HIDE DEF c
<1>6. nextSeq' = file.watermark + c /\ file.watermark \in Nat /\ MaxSeq \in Nat
  BY <1>1, <1>2, <1>3, <1>4, BoundsAssumption DEF c, SoundParts, FewParts
<1>7. SoundParts(nextSeq', turns', rounds', blocks')
  BY <1>2, <1>4
<1>8. nextSeq' \in file.watermark .. file.watermark + 2 * MaxSeq
  BY <1>5, <1>6
<1> QED BY <1>7, <1>8

----------------------------------------------------------------------------
(* The core of the invariant, action by action.                            *)

LEMMA InitCore == Init => PInv
<1> SUFFICES ASSUME Init PROVE PInv
  OBVIOUS
<1>1. DOMAIN turns = {} /\ DOMAIN rounds = {} /\ DOMAIN blocks = {} /\ nextSeq = 0
  BY DEF Init, AppenderInit
<1>2. SoundParts(nextSeq, turns, rounds, blocks)
  <2>1. TypedParts(turns, rounds, blocks) /\ NestedParts(turns, rounds, blocks)
    BY <1>1 DEF TypedParts, NestedParts
  <2>2. FewParts(nextSeq, turns, rounds, blocks)
    <3>1. IsFiniteSet({}) /\ Cardinality({}) = 0
      BY FS_EmptySet
    <3> QED BY <1>1, <3>1 DEF FewParts
  <2> QED BY <2>1, <2>2 DEF SoundParts
<1>3. /\ pc["reader"] = "idle" /\ pc["saver"] = "recv" /\ pc["loader"] = "idle" /\ pc["stopper"] = "off"
      /\ DOMAIN pc = Threads
  BY DEF Init, Threads
<1>4. ThreadsInStep
  BY <1>3 DEF ThreadsInStep, Init, Threads, Holds
<1>5. RecordsAreSound
  BY <1>2, <1>3, <1>4, NoneIsEmpty DEF RecordsAreSound, ThreadsInStep, Init, Holds, Threads
<1>6. NumbersAreTheLog
  <2>1. /\ written \in Seq(Nat) /\ Len(written) = 0 /\ epoch \in Nat
        /\ pending = FALSE /\ wakes = 0 /\ loaded = FALSE /\ file.watermark = 0
    BY NoneIsEmpty DEF Init
  <2> QED BY <1>1, <1>3, <2>1 DEF NumbersAreTheLog
<1>7. AnnouncedIsDurable
  BY <1>1, <1>3, NoneIsEmpty DEF AnnouncedIsDurable, IsDurable, Init, Threads, Holds
<1> QED BY <1>4, <1>5, <1>6, <1>7 DEF PInv, Core

\* Whoever has something to write writes a timeline that is loaded.
LEMMA WritersAreLoaded ==
    ASSUME Core, NEW th \in Threads, pc[th] \in {"lock", "remove", "rename", "unpend"}
    PROVE  loaded /\ Len(written) = nextSeq
  BY DEF Core, NumbersAreTheLog, Threads

\* The transcript and the numbers stay, the file, too: what is left is the threads.
LEMMA ThreadStep ==
    ASSUME Core, UNCHANGED <<nextSeq, turns, rounds, blocks, file, writing, removed, written, epoch>>,
           ThreadsInStep', loaded' = loaded, pending' \in BOOLEAN, wakes' \in Nat,
           ~loaded => /\ \A th \in Threads \ {"stopper"} : pc'[th] = pc[th]
                      /\ pc'["stopper"] \in {"off", "seal", "flush", "stopped"}
                      /\ ~pending' /\ wakes' = 0
    PROVE  Core'
<1>1. \A th \in Threads : Holds(th)' => Holds(th)
  <2>1. \A th \in Threads : Holds(th) <=> writing[th] # None
    BY DEF Core, ThreadsInStep
  <2>2. \A th \in Threads : Holds(th)' <=> writing'[th] # None
    BY DEF ThreadsInStep, Holds
  <2> QED BY <2>1, <2>2
<1>2. RecordsAreSound'
  BY <1>1 DEF Core, RecordsAreSound, Recorded, Holds
<1>3. NumbersAreTheLog'
  BY DEF Core, NumbersAreTheLog, Threads
<1> QED BY <1>2, <1>3 DEF Core

LEMMA BeginWriteCore ==
    ASSUME Core, NEW th \in Threads, BeginWrite(th)
    PROVE  Core' /\ Holds(th)' /\ writing'[th].watermark = nextSeq /\ \A u \in Threads : ~Holds(u)
<1> PICK c : c = Checkpoint
  OBVIOUS
<1>1. c # None /\ Recorded(c) /\ c.watermark = nextSeq
  BY CheckpointIsARecord DEF Core, RecordsAreSound
<1>2. /\ pc[th] = "lock" /\ \A u \in Threads : writing[u] = None
      /\ writing' = [writing EXCEPT ![th] = c] /\ pc' = [pc EXCEPT ![th] = "remove"]
      /\ UNCHANGED <<appenderVars, file, removed, pending, wakes, lifeVars, ghostVars>>
  BY DEF BeginWrite, StoreUnlocked, Goto
<1>3. \A u \in Threads : ~Holds(u)
  BY <1>2 DEF Core, ThreadsInStep
<1>4. ThreadsInStep'
  BY <1>1, <1>2, <1>3 DEF Core, ThreadsInStep, Holds, Threads
<1>5. writing'[th] = c /\ \A u \in Threads : Holds(u)' => u = th
  BY <1>2, <1>3 DEF Core, ThreadsInStep, Holds
<1>6. UNCHANGED <<nextSeq, turns, rounds, blocks, file, written, epoch, loaded, pending, wakes>>
  BY <1>2 DEF appenderVars, lifeVars, ghostVars
<1>7. RecordsAreSound'
  BY <1>1, <1>5, <1>6 DEF Core, RecordsAreSound, Recorded, SoundParts, FewParts
<1>8. NumbersAreTheLog'
  BY <1>2, <1>6, WritersAreLoaded DEF Core, NumbersAreTheLog
<1>9. Holds(th)'
  BY <1>2 DEF Core, ThreadsInStep, Holds
<1> QED BY <1>1, <1>3, <1>4, <1>5, <1>7, <1>8, <1>9 DEF Core

LEMMA RemoveOldCore ==
    ASSUME Core, NEW th \in Threads, RemoveOld(th)
    PROVE  Core'
<1>1. /\ pc[th] = "remove" /\ file' = None
      /\ removed' = [removed EXCEPT ![th] = TRUE] /\ pc' = [pc EXCEPT ![th] = "rename"]
      /\ UNCHANGED <<appenderVars, writing, pending, wakes, lifeVars, ghostVars>>
  BY DEF RemoveOld, Goto
<1>2. UNCHANGED <<nextSeq, turns, rounds, blocks, writing, written, epoch, loaded, pending, wakes>>
  BY <1>1 DEF appenderVars, lifeVars, ghostVars
<1>3. ThreadsInStep'
  BY <1>1 DEF Core, ThreadsInStep, Holds, Threads
<1>4. \A u \in Threads : Holds(u)' => Holds(u)
  BY <1>1 DEF Core, ThreadsInStep, Holds
<1>5. RecordsAreSound'
  BY <1>1, <1>2, <1>4, NoneIsEmpty DEF Core, RecordsAreSound, Recorded, NumbersAreTheLog
<1>6. NumbersAreTheLog'
  BY <1>1, <1>2, WritersAreLoaded DEF Core, NumbersAreTheLog
<1> QED BY <1>3, <1>5, <1>6 DEF Core

LEMMA RenameNewCore ==
    ASSUME Core, NEW th \in Threads, RenameNew(th)
    PROVE  Core' /\ file' = writing[th] /\ \A u \in Threads : ~Holds(u)'
<1>1. /\ pc[th] = "rename" /\ file' = writing[th]
      /\ writing' = [writing EXCEPT ![th] = None]
      /\ removed' = [removed EXCEPT ![th] = FALSE] /\ pc' = [pc EXCEPT ![th] = Afterwards(th)]
      /\ UNCHANGED <<appenderVars, pending, wakes, lifeVars, ghostVars>>
  BY DEF RenameNew, Goto
<1>2. UNCHANGED <<nextSeq, turns, rounds, blocks, written, epoch, loaded, pending, wakes>>
  BY <1>1 DEF appenderVars, lifeVars, ghostVars
<1>3. \/ th = "reader" /\ Afterwards(th) = "announceTerminal"
      \/ th = "saver" /\ Afterwards(th) = "recv"
      \/ th = "loader" /\ Afterwards(th) = "idle"
      \/ th = "stopper" /\ Afterwards(th) = "stopped"
  BY DEF Afterwards, Threads
<1>4. Holds(th) /\ \A u \in Threads : Holds(u) => u = th
  BY <1>1 DEF Core, ThreadsInStep, Holds
<1>5. \A u \in Threads : ~Holds(u)'
  BY <1>1, <1>3, <1>4 DEF Core, ThreadsInStep, Holds
<1>6. ThreadsInStep'
  BY <1>1, <1>3, <1>4, <1>5 DEF Core, ThreadsInStep, Holds, Threads
<1>7. Recorded(file)' /\ file'.watermark \in Nat /\ file'.watermark <= nextSeq
  BY <1>1, <1>4 DEF Core, RecordsAreSound, Recorded, SoundParts, FewParts
<1>8. loaded /\ Len(written) = nextSeq
  BY <1>1, WritersAreLoaded
<1>9. RecordsAreSound'
  BY <1>2, <1>5, <1>7, <1>8 DEF Core, RecordsAreSound
<1>10. NumbersAreTheLog'
  BY <1>2, <1>8 DEF Core, NumbersAreTheLog
<1> QED BY <1>1, <1>5, <1>6, <1>9, <1>10 DEF Core

LEMMA DropPendingCore ==
    ASSUME Core, NEW th \in {"reader", "stopper"}, DropPending(th)
    PROVE  Core'
<1>1. /\ pc[th] = "unpend" /\ pending' = FALSE /\ pc' = [pc EXCEPT ![th] = "lock"]
      /\ UNCHANGED <<appenderVars, file, writing, removed, wakes, lifeVars, ghostVars>>
  BY DEF DropPending, Goto
<1>2. loaded
  BY <1>1, WritersAreLoaded DEF Threads
<1>3. ThreadsInStep'
  BY <1>1 DEF Core, ThreadsInStep, Holds, Threads
<1> QED BY <1>1, <1>2, <1>3, ThreadStep DEF appenderVars, lifeVars, ghostVars, Core, NumbersAreTheLog

LEMMA ApplyCore ==
    ASSUME Core, NEW label \in {"request", "unpend"}, AppenderNext, Apply(AppenderNext, label)
    PROVE  /\ Core' /\ nextSeq' = nextSeq + 1 /\ published' = nextSeq'
           /\ pc' = [pc EXCEPT !["reader"] = label] /\ pc["reader"] = "idle"
           /\ UNCHANGED <<file, writing, terminal, epoch>>
           /\ Len(written) = nextSeq /\ nextSeq' \in Nat
<1>1. /\ loaded /\ pc["reader"] = "idle"
      /\ published' = nextSeq' /\ Stamp(nextSeq') /\ pc' = [pc EXCEPT !["reader"] = label]
      /\ UNCHANGED <<file, writing, removed, pending, wakes, lifeVars, terminal>>
  BY DEF Apply, Goto
<1>2. SoundParts(nextSeq, turns, rounds, blocks)' /\ nextSeq' = nextSeq + 1
  BY IntentKeepsParts DEF Core, RecordsAreSound
<1>3. /\ nextSeq \in Nat /\ Len(written) = nextSeq /\ written \in Seq(Nat) /\ epoch \in Nat
      /\ nextSeq' \in Nat /\ Len(written) <= nextSeq'
  BY <1>1, <1>2 DEF Core, RecordsAreSound, NumbersAreTheLog, SoundParts, FewParts
<1>4. written' \in Seq(Nat) /\ Len(written') = nextSeq'
  BY <1>1, <1>3, StampExtends
<1>5. UNCHANGED <<file, writing, removed, pending, wakes, loaded, epoch, terminal>>
  BY <1>1 DEF lifeVars
<1>6. \A u \in Threads : Holds(u)' <=> Holds(u)
  BY <1>1 DEF Core, ThreadsInStep, Holds
<1>7. ThreadsInStep'
  BY <1>1, <1>5, <1>6 DEF Core, ThreadsInStep, Threads, Holds
<1>8. RecordsAreSound'
  BY <1>2, <1>3, <1>4, <1>5, <1>6 DEF Core, RecordsAreSound, Recorded, SoundParts, FewParts
<1>9. NumbersAreTheLog'
  BY <1>1, <1>4, <1>5 DEF Core, NumbersAreTheLog
<1> QED BY <1>1, <1>2, <1>3, <1>5, <1>7, <1>8, <1>9 DEF Core

LEMMA RequestCheckpointCore ==
    ASSUME Core, RequestCheckpoint
    PROVE  Core'
<1>1. /\ pc["reader"] = "request" /\ pending' = TRUE /\ wakes' \in Nat
      /\ pc' = [pc EXCEPT !["reader"] = "idle"]
      /\ UNCHANGED <<appenderVars, file, writing, removed, lifeVars, ghostVars>>
  BY DEF RequestCheckpoint, Goto, WakeIfNew, Core, NumbersAreTheLog
<1>2. loaded
  BY <1>1 DEF Core, NumbersAreTheLog
<1>3. ThreadsInStep'
  BY <1>1 DEF Core, ThreadsInStep, Holds, Threads
<1> QED BY <1>1, <1>2, <1>3, ThreadStep DEF appenderVars, lifeVars, ghostVars

LEMMA AnnounceTerminalCore ==
    ASSUME Core, AnnounceTerminal
    PROVE  Core'
<1>1. /\ pc["reader"] = "announceTerminal"
      /\ pc' = [pc EXCEPT !["reader"] = "idle"]
      /\ UNCHANGED <<appenderVars, file, writing, removed, pending, wakes, lifeVars, written>>
  BY DEF AnnounceTerminal, Goto
<1>2. loaded
  BY <1>1 DEF Core, NumbersAreTheLog
<1>3. ThreadsInStep'
  BY <1>1 DEF Core, ThreadsInStep, Holds, Threads
<1>4. pending' \in BOOLEAN /\ wakes' \in Nat
  BY <1>1 DEF Core, NumbersAreTheLog
<1> QED BY <1>1, <1>2, <1>3, <1>4, ThreadStep DEF appenderVars, lifeVars

LEMMA SaverCore ==
    ASSUME Core, SaverWakes \/ SaverSwallows \/ SaverDrains
    PROVE  Core'
<1>1. CASE SaverWakes
  <2>1. /\ pc["saver"] = "recv" /\ wakes > 0 /\ wakes' = wakes - 1
        /\ pc' = [pc EXCEPT !["saver"] = "window"]
        /\ UNCHANGED <<appenderVars, file, writing, removed, pending, lifeVars, ghostVars>>
    BY <1>1 DEF SaverWakes, TakeToken, Goto
  <2>2. loaded /\ wakes' \in Nat /\ pending' \in BOOLEAN
    BY <2>1 DEF Core, NumbersAreTheLog
  <2>3. ThreadsInStep'
    BY <2>1 DEF Core, ThreadsInStep, Holds, Threads
  <2> QED BY <2>1, <2>2, <2>3, ThreadStep DEF appenderVars, lifeVars, ghostVars
<1>2. CASE SaverSwallows
  <2>1. /\ pc["saver"] = "window" /\ wakes > 0 /\ wakes' = wakes - 1
        /\ UNCHANGED <<appenderVars, file, writing, removed, pc, pending, lifeVars, ghostVars>>
    BY <1>2 DEF SaverSwallows, TakeToken
  <2>2. loaded /\ wakes' \in Nat /\ pending' \in BOOLEAN
    BY <2>1 DEF Core, NumbersAreTheLog
  <2>3. ThreadsInStep'
    BY <2>1 DEF Core, ThreadsInStep, Holds
  <2> QED BY <2>1, <2>2, <2>3, ThreadStep DEF appenderVars, lifeVars, ghostVars
<1>3. CASE SaverDrains
  <2>1. /\ pc["saver"] = "window" /\ pending' = FALSE
        /\ pc' = [pc EXCEPT !["saver"] = IF pending THEN "lock" ELSE "recv"]
        /\ UNCHANGED <<appenderVars, file, writing, removed, wakes, lifeVars, ghostVars>>
    BY <1>3 DEF SaverDrains, Goto
  <2>2. loaded /\ wakes' \in Nat
    BY <2>1 DEF Core, NumbersAreTheLog
  <2>3. ThreadsInStep'
    BY <2>1 DEF Core, ThreadsInStep, Holds, Threads
  <2> QED BY <2>1, <2>2, <2>3, ThreadStep DEF appenderVars, lifeVars, ghostVars
<1> QED BY <1>1, <1>2, <1>3

LEMMA WorkerDiesCore ==
    ASSUME Core, WorkerDies
    PROVE  Core'
<1>1. UNCHANGED <<appenderVars, persistVars, loaded, epoch, ghostVars>>
  BY DEF WorkerDies
<1>2. ThreadsInStep'
  BY <1>1 DEF persistVars, Core, ThreadsInStep, Holds
<1>3. pending' \in BOOLEAN /\ wakes' \in Nat
  BY <1>1 DEF persistVars, Core, NumbersAreTheLog
<1> QED BY <1>1, <1>2, <1>3, ThreadStep DEF appenderVars, persistVars, ghostVars, Core, NumbersAreTheLog

\* Spawn and StopSeals: orphans are sealed in memory.
LEMMA SealingCore ==
    ASSUME Core, SealOrphansInMemory, UNCHANGED <<file, writing, removed, pending, wakes, loaded, epoch>>,
           \/ pc' = pc
           \/ pc["stopper"] = "seal" /\ pc' = [pc EXCEPT !["stopper"] = "flush"]
    PROVE  /\ Core' /\ nextSeq' \in Nat /\ nextSeq <= nextSeq' /\ nextSeq' <= nextSeq + 2 * MaxSeq
           /\ loaded => Len(written) = nextSeq
           /\ ~loaded => written' = written
<1>1. /\ Become(SealOrphans(Timeline)) /\ Stamp(nextSeq')
      /\ SoundParts(nextSeq, turns, rounds, blocks)
  BY DEF SealOrphansInMemory, Core, RecordsAreSound
<1>2. /\ SoundParts(nextSeq, turns, rounds, blocks)'
      /\ nextSeq' \in nextSeq .. nextSeq + 2 * MaxSeq
      /\ DOMAIN turns = {} /\ DOMAIN rounds = {} /\ DOMAIN blocks = {} =>
           /\ nextSeq' = nextSeq
           /\ DOMAIN turns' = {} /\ DOMAIN rounds' = {} /\ DOMAIN blocks' = {}
  BY <1>1, SealingKeepsParts
<1>3. nextSeq \in Nat /\ nextSeq' \in Nat /\ nextSeq <= nextSeq' /\ nextSeq' <= nextSeq + 2 * MaxSeq
  BY <1>1, <1>2, BoundsAssumption DEF SoundParts, FewParts
<1>4. \A u \in Threads : Holds(u)' <=> Holds(u)
  BY DEF Core, ThreadsInStep, Holds
<1>5. ThreadsInStep'
  BY <1>4 DEF Core, ThreadsInStep, Threads, Holds
<1>6. written \in Seq(Nat) /\ epoch \in Nat
  BY DEF Core, NumbersAreTheLog
<1>7. CASE loaded
  <2>1. Len(written) = nextSeq
    BY <1>7 DEF Core, NumbersAreTheLog
  <2>2. written' \in Seq(Nat) /\ Len(written') = nextSeq'
    BY <1>1, <1>3, <1>6, <2>1, StampExtends
  <2>3. RecordsAreSound'
    BY <1>2, <1>3, <1>4, <2>1, <2>2 DEF Core, RecordsAreSound, Recorded, SoundParts, FewParts
  <2>4. NumbersAreTheLog'
    BY <1>7, <2>2 DEF Core, NumbersAreTheLog
  <2> QED BY <1>3, <1>5, <1>7, <2>1, <2>3, <2>4 DEF Core
<1>8. CASE ~loaded
  <2>1. /\ nextSeq = 0 /\ DOMAIN turns = {} /\ DOMAIN rounds = {} /\ DOMAIN blocks = {}
        /\ Len(written) = file.watermark
    BY <1>8 DEF Core, NumbersAreTheLog
  <2>2. written' = written
    BY <1>1, <1>2, <1>6, <2>1, StampOfNothing
  <2>3. RecordsAreSound'
    BY <1>2, <1>3, <1>4, <2>1, <2>2 DEF Core, RecordsAreSound, Recorded, SoundParts, FewParts
  <2>4. /\ pc'["reader"] = "idle" /\ pc'["saver"] = "recv" /\ pc'["loader"] = "idle"
        /\ pc'["stopper"] \in {"off", "seal", "flush", "stopped"}
    <3>1. /\ pc["reader"] = "idle" /\ pc["saver"] = "recv" /\ pc["loader"] = "idle"
          /\ pc["stopper"] \in {"off", "seal", "flush", "stopped"} /\ DOMAIN pc = Threads
      BY <1>8 DEF Core, NumbersAreTheLog, ThreadsInStep
    <3>2. CASE pc' = pc
      BY <3>1, <3>2
    <3>3. CASE pc' = [pc EXCEPT !["stopper"] = "flush"]
      BY <3>1, <3>3 DEF Threads
    <3> QED BY <3>2, <3>3
  <2>5. nextSeq' = 0 /\ DOMAIN turns' = {} /\ DOMAIN rounds' = {} /\ DOMAIN blocks' = {}
    BY <1>2, <2>1
  <2>6. ~pending' /\ pending' \in BOOLEAN /\ wakes' = 0 /\ ~loaded' /\ epoch' \in Nat
    BY <1>8 DEF Core, NumbersAreTheLog
  <2>7. written' \in Seq(Nat) /\ Len(written') = file'.watermark
    BY <1>6, <2>1, <2>2
  <2>8. NumbersAreTheLog'
    BY <2>4, <2>5, <2>6, <2>7 DEF NumbersAreTheLog
  <2> QED BY <1>3, <1>5, <1>8, <2>2, <2>3, <2>8 DEF Core
<1> QED BY <1>7, <1>8

LEMMA SpawnCore ==
    ASSUME Core, Spawn
    PROVE  /\ Core' /\ nextSeq' \in Nat /\ nextSeq <= nextSeq' /\ nextSeq' <= nextSeq + 2 * MaxSeq
           /\ UNCHANGED <<file, writing, removed, pc, published, terminal, epoch>> /\ Stamp(nextSeq')
           /\ Len(written) = nextSeq
<1>1. /\ SealOrphansInMemory /\ loaded
      /\ UNCHANGED <<persistVars, loaded, epoch, published, terminal>>
  BY DEF Spawn
<1>2. UNCHANGED <<file, writing, removed, pc, pending, wakes>>
  BY <1>1 DEF persistVars
<1> QED BY <1>1, <1>2, SealingCore DEF SealOrphansInMemory

LEMMA StopSealsCore ==
    ASSUME Core, StopSeals
    PROVE  /\ Core' /\ nextSeq' \in Nat /\ nextSeq <= nextSeq' /\ nextSeq' <= nextSeq + 2 * MaxSeq
           /\ UNCHANGED <<file, writing, removed, published, terminal, epoch>> /\ Stamp(nextSeq')
           /\ Len(written) = nextSeq \/ written' = written
           /\ pc["stopper"] = "seal" /\ pc' = [pc EXCEPT !["stopper"] = "flush"]
<1>1. /\ SealOrphansInMemory /\ pc["stopper"] = "seal"
      /\ UNCHANGED <<file, writing, removed, pending, wakes, lifeVars, published, terminal>>
      /\ pc' = [pc EXCEPT !["stopper"] = "flush"]
  BY DEF StopSeals, Goto
<1>2. UNCHANGED <<loaded, epoch>>
  BY <1>1 DEF lifeVars
<1> QED BY <1>1, <1>2, SealingCore DEF SealOrphansInMemory

LEMMA StopCore ==
    ASSUME Core, StopWorkers \/ StopFlushes
    PROVE  Core'
<1>1. CASE StopWorkers
  <2>1. /\ pc["stopper"] = "off" /\ pc' = [pc EXCEPT !["stopper"] = "seal"]
        /\ UNCHANGED <<appenderVars, file, writing, removed, pending, wakes, loaded, epoch, ghostVars>>
    BY <1>1 DEF StopWorkers, Goto
  <2>2. ThreadsInStep'
    BY <2>1 DEF Core, ThreadsInStep, Holds, Threads
  <2>3. pending' \in BOOLEAN /\ wakes' \in Nat /\ (~loaded => ~pending' /\ wakes' = 0)
    BY <2>1 DEF Core, NumbersAreTheLog
  <2>4. /\ pc["stopper"] # pc'["stopper"] /\ \A u \in Threads \ {"stopper"} : pc'[u] = pc[u]
        /\ pc'["stopper"] = "seal"
    BY <2>1 DEF Core, ThreadsInStep, Threads
  <2> QED BY <2>1, <2>2, <2>3, <2>4, ThreadStep DEF appenderVars, ghostVars
<1>2. CASE StopFlushes
  <2>1. /\ pc["stopper"] = "flush" /\ pending' = FALSE
        /\ pc' = [pc EXCEPT !["stopper"] = IF pending THEN "unpend" ELSE "stopped"]
        /\ UNCHANGED <<appenderVars, file, writing, removed, wakes, lifeVars, ghostVars>>
    BY <1>2 DEF StopFlushes, Goto
  <2>2. ThreadsInStep'
    BY <2>1 DEF Core, ThreadsInStep, Holds, Threads
  <2>3. pending' \in BOOLEAN /\ wakes' \in Nat /\ (~loaded => ~pending' /\ wakes' = 0 /\ ~pending)
    BY <2>1 DEF Core, NumbersAreTheLog
  <2>4. /\ pc["stopper"] # pc'["stopper"] /\ \A u \in Threads \ {"stopper"} : pc'[u] = pc[u]
        /\ ~pending => pc'["stopper"] = "stopped"
    BY <2>1 DEF Core, ThreadsInStep, Threads
  <2> QED BY <2>1, <2>2, <2>3, <2>4, ThreadStep DEF appenderVars, lifeVars, ghostVars
<1> QED BY <1>1, <1>2


\* ensure_timeline_loaded.
LEMMA LoadCore ==
    ASSUME Core, Load
    PROVE  /\ Core' /\ UNCHANGED <<file, writing, published, terminal, epoch>>
           /\ \A th \in Threads : ~Holds(th) /\ ~Holds(th)'
           /\ pc'["reader"] = "idle"
           /\ Len(written) = file.watermark /\ written \in Seq(Nat)
           /\ \/ written' = written
              \/ /\ nextSeq' \in Nat /\ Len(written) <= nextSeq'
                 /\ nextSeq' <= Len(written) + 2 * MaxSeq /\ Stamp(nextSeq')
<1>1. /\ ~loaded /\ loaded' /\ \A th \in Threads : writing[th] = None
      /\ UNCHANGED <<file, writing, removed, pending, wakes, epoch, published, terminal>>
  BY DEF Load, StoreUnlocked
<1>2. /\ written \in Seq(Nat) /\ epoch \in Nat /\ Len(written) = file.watermark
      /\ file.watermark \in Nat /\ nextSeq = 0
      /\ pc["reader"] = "idle" /\ pc["loader"] = "idle" /\ pending \in BOOLEAN /\ wakes \in Nat
      /\ SoundParts(nextSeq, turns, rounds, blocks) /\ (file # None => Recorded(file))
  BY <1>1 DEF Core, NumbersAreTheLog, RecordsAreSound
<1>3. \A th \in Threads : ~Holds(th)
  BY <1>1 DEF Core, ThreadsInStep
<1>4. ASSUME pc' = pc \/ \E s \in {"idle", "lock"} : pc' = [pc EXCEPT !["loader"] = s]
      PROVE  ThreadsInStep' /\ (\A th \in Threads : ~Holds(th)') /\ pc'["reader"] = "idle"
  <2>1. CASE pc' = pc
    BY <1>1, <1>2, <1>3, <2>1 DEF Core, ThreadsInStep, Holds
  <2>2. ASSUME NEW s \in {"idle", "lock"}, pc' = [pc EXCEPT !["loader"] = s]
        PROVE  ThreadsInStep' /\ (\A th \in Threads : ~Holds(th)') /\ pc'["reader"] = "idle"
    <3>1. \A th \in Threads : ~Holds(th)'
      BY <1>3, <2>2 DEF Core, ThreadsInStep, Holds
    <3>2. pc'["reader"] = "idle"
      BY <1>2, <2>2 DEF Core, ThreadsInStep, Threads
    <3>3. ThreadsInStep'
      BY <1>1, <1>3, <2>2, <3>1 DEF Core, ThreadsInStep, Holds, Threads
    <3> QED BY <3>1, <3>2, <3>3
  <2> QED BY <1>4, <2>1, <2>2
<1>5. CASE file = None
  <2>1. UNCHANGED <<nextSeq, turns, rounds, blocks, pc, written>>
    BY <1>5 DEF Load, appenderVars
  <2>2. Len(written) = nextSeq
    BY <1>2, <1>5, NoneIsEmpty
  <2>3. RecordsAreSound'
    <3>1. SoundParts(nextSeq', turns', rounds', blocks')
      BY <1>2, <2>1
    <3>2. \A th \in Threads : ~Holds(th)'
      BY <1>4, <2>1
    <3>3. file' = None /\ file'.watermark \in Nat /\ file'.watermark <= Len(written')
      BY <1>1, <1>2, <1>5, <2>1
    <3> QED BY <3>1, <3>2, <3>3 DEF RecordsAreSound
  <2>4. NumbersAreTheLog'
    BY <1>1, <1>2, <2>1, <2>2 DEF NumbersAreTheLog
  <2> QED BY <1>1, <1>2, <1>3, <1>4, <2>1, <2>3, <2>4 DEF Core
<1>6. CASE file # None
  <2> DEFINE r == [nextSeq |-> file.watermark, turns |-> file.turns, rounds |-> file.rounds,
                   blocks |-> file.blocks, journal |-> file.journal]
  <2>1. /\ Become(SealOrphans(r)) /\ Stamp(nextSeq')
        /\ Goto("loader", IF OrphanSeals(r) = <<>> THEN "idle" ELSE "lock")
    BY <1>6 DEF Load
  <2> PICK x : x = r
    OBVIOUS
  <2>2. Become(SealOrphans(x))
    BY <2>1
  <2>3. \E s \in {"idle", "lock"} : pc' = [pc EXCEPT !["loader"] = s]
    BY <2>1 DEF Goto
  <2> HIDE DEF r
  <2>4. /\ SoundParts(nextSeq, turns, rounds, blocks)'
        /\ nextSeq' \in file.watermark .. file.watermark + 2 * MaxSeq
    BY <1>2, <1>6, <2>2, RestoredParts DEF r
  <2>5. /\ nextSeq' \in Nat /\ Len(written) <= nextSeq' /\ nextSeq' <= Len(written) + 2 * MaxSeq
    <3> DEFINE m == file.watermark  n == nextSeq'
    <3>1. m \in Nat /\ n \in m .. m + 2 * MaxSeq /\ m = Len(written) /\ MaxSeq \in Nat
      BY <1>2, <2>4, BoundsAssumption
    <3> HIDE DEF m, n
    <3>2. n \in Nat /\ m <= n /\ n <= m + 2 * MaxSeq
      BY <3>1
    <3> QED BY <3>1, <3>2 DEF n
  <2>6. written' \in Seq(Nat) /\ Len(written') = nextSeq'
    BY <1>2, <2>1, <2>5, StampExtends
  <2>7. RecordsAreSound'
    <3>1. \A th \in Threads : ~Holds(th)'
      BY <1>4, <2>3
    <3>2. file' = file /\ Recorded(file) /\ file'.watermark <= Len(written')
      BY <1>1, <1>2, <1>6, <2>5, <2>6
    <3> QED BY <1>2, <2>4, <3>1, <3>2 DEF RecordsAreSound, Recorded
  <2>8. NumbersAreTheLog'
    BY <1>1, <1>2, <2>6 DEF NumbersAreTheLog
  <2> QED BY <1>1, <1>2, <1>3, <1>4, <2>1, <2>3, <2>5, <2>7, <2>8 DEF Core
<1> QED BY <1>5, <1>6

LEMMA EmptyPartsAreSound ==
    ASSUME NEW ts, NEW rs, NEW bs, DOMAIN ts = {}, DOMAIN rs = {}, DOMAIN bs = {}
    PROVE  SoundParts(0, ts, rs, bs)
<1>1. TypedParts(ts, rs, bs) /\ NestedParts(ts, rs, bs)
  BY DEF TypedParts, NestedParts
<1>2. FewParts(0, ts, rs, bs)
  <2>1. IsFiniteSet({}) /\ Cardinality({}) = 0
    BY FS_EmptySet
  <2> QED BY <2>1 DEF FewParts
<1> QED BY <1>1, <1>2 DEF SoundParts

\* A crash, wherever the threads stood.
LEMMA EndOfProcessCore ==
    ASSUME Core, EndOfProcess
    PROVE  /\ Core' /\ file' = file /\ terminal' = terminal /\ published' = 0
           /\ file.watermark \in Nat /\ file.watermark <= Len(written)
           /\ \A th \in Threads : ~Holds(th)'
           /\ pc'["reader"] = "idle"
<1>1. /\ nextSeq' = 0 /\ turns' = <<>> /\ rounds' = <<>> /\ blocks' = <<>>
      /\ writing' = [th \in Threads |-> None] /\ removed' = [th \in Threads |-> FALSE]
      /\ pc' = [reader |-> "idle", saver |-> "recv", loader |-> "idle", stopper |-> "off"]
      /\ pending' = FALSE /\ wakes' = 0 /\ loaded' = FALSE /\ epoch' = epoch + 1
      /\ published' = 0 /\ terminal' = terminal /\ file' = file
      /\ written' = SubSeq(written, 1, file.watermark)
  BY DEF EndOfProcess
<1>2. /\ file.watermark \in Nat /\ file.watermark <= Len(written)
      /\ written \in Seq(Nat) /\ epoch \in Nat /\ (file # None => Recorded(file))
  BY DEF Core, RecordsAreSound, NumbersAreTheLog
<1>3. written' \in Seq(Nat) /\ Len(written') = file.watermark
  BY <1>1, <1>2
<1>4. /\ pc'["reader"] = "idle" /\ pc'["saver"] = "recv" /\ pc'["loader"] = "idle"
      /\ pc'["stopper"] = "off" /\ DOMAIN pc' = Threads
  BY <1>1 DEF Threads
<1>5. \A th \in Threads : ~Holds(th)'
  BY <1>4 DEF Threads, Holds
<1>6. ThreadsInStep'
  BY <1>1, <1>4, <1>5 DEF ThreadsInStep, Threads, Holds
<1>7. DOMAIN turns' = {} /\ DOMAIN rounds' = {} /\ DOMAIN blocks' = {}
  BY <1>1
<1>8. RecordsAreSound'
  BY <1>1, <1>2, <1>3, <1>5, <1>7, EmptyPartsAreSound DEF RecordsAreSound, Recorded
<1>9. NumbersAreTheLog'
  <2>1. ~loaded' /\ ~pending' /\ pending' \in BOOLEAN /\ wakes' = 0 /\ nextSeq' = 0
    BY <1>1
  <2>2. Len(written') = file'.watermark /\ epoch' \in Nat
    BY <1>1, <1>2, <1>3
  <2> QED BY <1>3, <1>4, <1>7, <2>1, <2>2 DEF NumbersAreTheLog
<1> QED BY <1>1, <1>2, <1>4, <1>5, <1>6, <1>8, <1>9 DEF Core

\* What the two publishing actions have in common.
LEMMA PublishingIsApplying ==
    ASSUME PublishStreaming \/ PublishTerminal
    PROVE  /\ AppenderNext /\ Stamp(nextSeq')
           /\ Apply(AppenderNext, "request") \/ Apply(AppenderNext, "unpend")
  BY DEF PublishStreaming, PublishTerminal, Apply, AppenderNext, Goto

LEMMA CoreStep == Core /\ [Next]_vars => Core'
<1> SUFFICES ASSUME Core, [Next]_vars PROVE Core'
  OBVIOUS
<1>1. CASE PublishStreaming \/ PublishTerminal
  BY <1>1, PublishingIsApplying, ApplyCore
<1>2. CASE RequestCheckpoint
  BY <1>2, RequestCheckpointCore
<1>3. CASE AnnounceTerminal
  BY <1>3, AnnounceTerminalCore
<1>4. CASE SaverWakes \/ SaverSwallows \/ SaverDrains
  BY <1>4, SaverCore
<1>5. ASSUME NEW th \in Threads, Write(th) PROVE Core'
  BY <1>5, BeginWriteCore, RemoveOldCore, RenameNewCore DEF Write
<1>6. ASSUME NEW th \in {"reader", "stopper"}, DropPending(th) PROVE Core'
  BY <1>6, DropPendingCore
<1>7. CASE StopWorkers \/ StopFlushes
  BY <1>7, StopCore
<1>8. CASE StopSeals
  BY <1>8, StopSealsCore
<1>9. CASE WorkerDies
  BY <1>9, WorkerDiesCore
<1>10. CASE Spawn
  BY <1>10, SpawnCore
<1>11. CASE Load
  BY <1>11, LoadCore
<1>12. CASE EndOfProcess
  BY <1>12, EndOfProcessCore
<1>13. CASE UNCHANGED vars
  <2>1. ThreadsInStep'
    BY <1>13 DEF vars, persistVars, Core, ThreadsInStep, Holds
  <2>2. pending' \in BOOLEAN /\ wakes' \in Nat
    BY <1>13 DEF vars, persistVars, Core, NumbersAreTheLog
  <2> QED BY <1>13, <2>1, <2>2, ThreadStep
          DEF vars, appenderVars, persistVars, lifeVars, ghostVars, Core, NumbersAreTheLog
<1> QED BY <1>1, <1>2, <1>3, <1>4, <1>5, <1>6, <1>7, <1>8, <1>9, <1>10, <1>11, <1>12, <1>13
        DEF Next, ReaderNext, SaverNext, StopperNext, LifeNext, Threads

----------------------------------------------------------------------------
(* What is durable stays durable.                                          *)

LEMMA DurableIsNumbered ==
    ASSUME Core, NEW n \in Nat, IsDurable(n)
    PROVE  n <= Len(written) /\ (loaded => n <= nextSeq)
<1>1. CASE \A th \in Threads : pc[th] # "rename"
  BY <1>1 DEF IsDurable, Core, RecordsAreSound, NumbersAreTheLog
<1>2. ASSUME NEW th \in Threads, pc[th] = "rename" PROVE n <= Len(written) /\ loaded /\ n <= nextSeq
  <2>1. Holds(th)
    BY <1>2 DEF Holds
  <2>2. n <= writing[th].watermark /\ writing[th].watermark <= nextSeq
    BY <2>1 DEF IsDurable, Core, RecordsAreSound
  <2>3. loaded /\ Len(written) = nextSeq
    BY <1>2, WritersAreLoaded
  <2>4. writing[th].watermark \in Nat /\ nextSeq \in Nat
    BY <2>1 DEF Core, RecordsAreSound, Recorded, SoundParts, FewParts
  <2> QED BY <2>2, <2>3, <2>4
<1> QED BY <1>1, <1>2

LEMMA QuietStep ==
    ASSUME Core, Core', UNCHANGED <<file, writing, removed>>
    PROVE  /\ \A th \in Threads : Holds(th)' <=> Holds(th)
           /\ \A n : IsDurable(n) => IsDurable(n)'
<1>1. \A th \in Threads : Holds(th)' <=> Holds(th)
  <2>1. \A th \in Threads : Holds(th) <=> writing[th] # None
    BY DEF Core, ThreadsInStep
  <2>2. \A th \in Threads : Holds(th)' <=> writing'[th] # None
    BY DEF Core, ThreadsInStep, Holds
  <2> QED BY <2>1, <2>2
<1>2. \A th \in Threads : pc'[th] = "rename" <=> pc[th] = "rename"
  <2>1. \A th \in Threads : pc[th] = "rename" <=> removed[th]
    BY DEF Core, ThreadsInStep
  <2>2. \A th \in Threads : pc'[th] = "rename" <=> removed'[th]
    BY DEF Core, ThreadsInStep
  <2> QED BY <2>1, <2>2
<1>3. ASSUME NEW n, IsDurable(n) PROVE IsDurable(n)'
  BY <1>1, <1>2, <1>3 DEF IsDurable
<1> QED BY <1>1, <1>3

\* Replacing the file, too, keeps what is durable.
LEMMA WriteKeepsDurable ==
    ASSUME Core, NEW th \in Threads, Write(th), NEW n \in Nat, IsDurable(n)
    PROVE  IsDurable(n)'
<1>1. CASE BeginWrite(th)
  <2>1. /\ Holds(th)' /\ writing'[th].watermark = nextSeq /\ \A u \in Threads : ~Holds(u)
    BY <1>1, BeginWriteCore
  <2>2. /\ file' = file /\ writing' = [writing EXCEPT ![th] = Checkpoint]
        /\ pc[th] = "lock" /\ pc' = [pc EXCEPT ![th] = "remove"]
    BY <1>1 DEF BeginWrite, Goto
  <2>3. \A u \in Threads : Holds(u)' => u = th
    BY <2>1, <2>2 DEF Core, ThreadsInStep, Holds
  <2>4. n <= nextSeq
    BY <2>2, DurableIsNumbered, WritersAreLoaded
  <2>5. \A u \in Threads : pc[u] # "rename"
    BY <2>1 DEF Holds
  <2> QED BY <2>1, <2>2, <2>3, <2>4, <2>5 DEF IsDurable
<1>2. CASE RemoveOld(th)
  <2>1. /\ pc[th] = "remove" /\ pc' = [pc EXCEPT ![th] = "rename"] /\ writing' = writing
    BY <1>2 DEF RemoveOld, Goto
  <2>2. pc'[th] = "rename" /\ \A u \in Threads : Holds(u)' => Holds(u)
    BY <2>1 DEF Core, ThreadsInStep, Holds
  <2> QED BY <2>1, <2>2 DEF IsDurable
<1>3. CASE RenameNew(th)
  <2>1. file' = writing[th] /\ \A u \in Threads : ~Holds(u)'
    BY <1>3, RenameNewCore
  <2>2. pc[th] = "rename"
    BY <1>3 DEF RenameNew
  <2>3. n <= file'.watermark
    BY <2>1, <2>2 DEF IsDurable, Holds
  <2> QED BY <2>1, <2>3 DEF IsDurable
<1> QED BY <1>1, <1>2, <1>3 DEF Write

\* A crash loses the record only between the two calls.
LEMMA CrashKeepsDurable ==
    ASSUME ~CrashInReplace, Core, EndOfProcess, NEW n, IsDurable(n)
    PROVE  IsDurable(n)' /\ n <= file.watermark
<1>1. \A th \in Threads : ~removed[th]
  BY DEF EndOfProcess
<1>2. \A th \in Threads : pc[th] # "rename"
  BY <1>1 DEF Core, ThreadsInStep
<1>3. n <= file.watermark
  BY <1>2 DEF IsDurable
<1>4. file' = file /\ \A th \in Threads : ~Holds(th)'
  BY EndOfProcessCore
<1> QED BY <1>3, <1>4 DEF IsDurable

\* What every other step leaves alone.
LEMMA OtherSteps ==
    ASSUME Core,
           \/ RequestCheckpoint \/ SaverWakes \/ SaverSwallows \/ SaverDrains
           \/ (\E th \in {"reader", "stopper"} : DropPending(th))
           \/ StopWorkers \/ StopFlushes \/ StopSeals \/ WorkerDies \/ Spawn \/ Load
           \/ UNCHANGED vars
    PROVE  /\ UNCHANGED <<file, writing, removed, published, terminal, epoch>>
           /\ nextSeq <= nextSeq'
           /\ \/ pc'["reader"] \in {pc["reader"], "idle"}
              \/ pc["reader"] = "unpend" /\ pc'["reader"] = "lock"
<1> DEFINE Goal == /\ UNCHANGED <<file, writing, removed, published, terminal, epoch>>
                   /\ nextSeq <= nextSeq'
                   /\ \/ pc'["reader"] \in {pc["reader"], "idle"}
                      \/ pc["reader"] = "unpend" /\ pc'["reader"] = "lock"
<1> SUFFICES Goal
  OBVIOUS
<1>1. nextSeq \in Nat /\ DOMAIN pc = Threads
  BY DEF Core, RecordsAreSound, SoundParts, FewParts, ThreadsInStep
<1>2. CASE RequestCheckpoint
  BY <1>1, <1>2 DEF RequestCheckpoint, Goto, appenderVars, lifeVars, ghostVars, Threads
<1>3. CASE SaverWakes \/ SaverDrains
  BY <1>1, <1>3 DEF SaverWakes, SaverDrains, Goto, appenderVars, lifeVars, ghostVars, Threads
<1>4. CASE SaverSwallows
  BY <1>1, <1>4 DEF SaverSwallows, appenderVars, lifeVars, ghostVars
<1>5. ASSUME NEW th \in {"reader", "stopper"}, DropPending(th) PROVE Goal
  BY <1>1, <1>5 DEF DropPending, Goto, appenderVars, lifeVars, ghostVars, Threads
<1>6. CASE StopWorkers \/ StopFlushes
  BY <1>1, <1>6 DEF StopWorkers, StopFlushes, Goto, appenderVars, lifeVars, ghostVars, Threads
<1>7. CASE StopSeals
  BY <1>1, <1>7, StopSealsCore DEF Threads
<1>8. CASE WorkerDies
  BY <1>1, <1>8 DEF WorkerDies, appenderVars, persistVars, ghostVars
<1>9. CASE Spawn
  BY <1>1, <1>9, SpawnCore
<1>10. CASE Load
  <2>1. removed' = removed /\ nextSeq = 0
    BY <1>10 DEF Load, Core, NumbersAreTheLog
  <2>2. nextSeq' \in Nat
    BY <1>10, LoadCore DEF Core, RecordsAreSound, SoundParts, FewParts
  <2> QED BY <1>10, <2>1, <2>2, LoadCore
<1>11. CASE UNCHANGED vars
  BY <1>1, <1>11 DEF vars, appenderVars, persistVars, lifeVars, ghostVars
<1> HIDE DEF Goal
<1> QED BY <1>2, <1>3, <1>4, <1>5, <1>6, <1>7, <1>8, <1>9, <1>10, <1>11

----------------------------------------------------------------------------
(* What was announced is durable.                                          *)

LEMMA WriteKeepsAnnounced ==
    ASSUME PInv, NEW th \in Threads, Write(th)
    PROVE  AnnouncedIsDurable'
<1> DEFINE Saving == {"unpend", "lock", "remove", "rename", "announceTerminal"}
<1>1. Core /\ AnnouncedIsDurable
  BY DEF PInv
<1>2. UNCHANGED <<nextSeq, terminal, published>>
  BY DEF Write, BeginWrite, RemoveOld, RenameNew, appenderVars, ghostVars
<1>3. IsDurable(terminal)'
  <2>1. PICK n : n = terminal
    OBVIOUS
  <2>2. IsDurable(n)'
    BY <1>1, <2>1, WriteKeepsDurable DEF AnnouncedIsDurable
  <2> QED BY <1>2, <2>1, <2>2 DEF IsDurable
<1>4. pc'["reader"] \in Saving => pc["reader"] \in Saving
  <2>1. CASE th = "reader"
    <3>1. pc[th] \in {"lock", "remove", "rename"}
      BY DEF Write, BeginWrite, RemoveOld, RenameNew
    <3> QED BY <2>1, <3>1
  <2>2. CASE th # "reader"
    <3>1. \E s : pc' = [pc EXCEPT ![th] = s]
      BY DEF Write, BeginWrite, RemoveOld, RenameNew, Goto
    <3>2. pc'["reader"] = pc["reader"]
      BY <1>1, <2>2, <3>1 DEF Core, ThreadsInStep, Threads
    <3> QED BY <3>2
  <2> QED BY <2>1, <2>2
<1>5. Holds("reader")' => published' <= writing'["reader"].watermark
  <2>1. CASE BeginWrite(th)
    <3>1. writing'[th].watermark = nextSeq /\ \A u \in Threads : ~Holds(u)
      BY <1>1, <2>1, BeginWriteCore
    <3>2. pc[th] = "lock" /\ pc' = [pc EXCEPT ![th] = "remove"]
      BY <2>1 DEF BeginWrite, Goto
    <3>3. Holds("reader")' => th = "reader"
      BY <1>1, <3>1, <3>2 DEF Core, ThreadsInStep, Holds, Threads
    <3>4. pc["reader"] = "lock" => published <= nextSeq
      BY <1>1 DEF AnnouncedIsDurable
    <3> QED BY <1>2, <3>1, <3>2, <3>3, <3>4
  <2>2. CASE RemoveOld(th)
    <3>1. pc[th] = "remove" /\ pc' = [pc EXCEPT ![th] = "rename"] /\ writing' = writing
      BY <2>2 DEF RemoveOld, Goto
    <3>2. Holds("reader")' => Holds("reader")
      BY <1>1, <3>1 DEF Core, ThreadsInStep, Holds, Threads
    <3> QED BY <1>1, <1>2, <3>1, <3>2 DEF AnnouncedIsDurable
  <2>3. CASE RenameNew(th)
    BY <1>1, <2>3, RenameNewCore DEF Threads
  <2> QED BY <2>1, <2>2, <2>3 DEF Write
<1>6. pc'["reader"] = "announceTerminal" => IsDurable(published)'
  <2>1. ASSUME pc["reader"] = "announceTerminal" PROVE IsDurable(published)'
    <3>1. PICK n : n = published
      OBVIOUS
    <3>2. IsDurable(n)'
      BY <1>1, <2>1, <3>1, WriteKeepsDurable DEF AnnouncedIsDurable
    <3> QED BY <1>2, <3>1, <3>2 DEF IsDurable
  <2>2. ASSUME pc["reader"] # "announceTerminal", pc'["reader"] = "announceTerminal"
        PROVE  IsDurable(published)'
    <3>1. RenameNew(th) /\ th = "reader"
      BY <1>1, <2>2 DEF Write, BeginWrite, RemoveOld, RenameNew, Goto, Core, ThreadsInStep, Threads
    <3>2. file' = writing["reader"] /\ (\A u \in Threads : ~Holds(u)') /\ pc["reader"] = "rename"
      BY <1>1, <3>1, RenameNewCore DEF RenameNew
    <3>3. published <= file'.watermark
      BY <1>1, <3>2 DEF AnnouncedIsDurable, Holds
    <3> QED BY <1>2, <3>2, <3>3 DEF IsDurable
  <2> QED BY <2>1, <2>2
<1> QED BY <1>1, <1>2, <1>3, <1>4, <1>5, <1>6 DEF AnnouncedIsDurable

LEMMA AnnouncedStep ==
    ASSUME ~CrashInReplace, PInv, [Next]_vars, Core'
    PROVE  AnnouncedIsDurable'
<1>1. /\ Core /\ AnnouncedIsDurable /\ IsDurable(terminal)
      /\ terminal \in Nat /\ published \in Nat /\ nextSeq \in Nat
  BY DEF PInv, AnnouncedIsDurable, Core, RecordsAreSound, SoundParts, FewParts
<1>2. CASE PublishStreaming \/ PublishTerminal
  <2>1. PICK label \in {"request", "unpend"} : Apply(AppenderNext, label)
    BY <1>2, PublishingIsApplying
  <2>2. /\ nextSeq' = nextSeq + 1 /\ published' = nextSeq'
        /\ pc' = [pc EXCEPT !["reader"] = label] /\ pc["reader"] = "idle"
        /\ UNCHANGED <<file, writing, terminal>> /\ loaded
    BY <1>1, <1>2, <2>1, PublishingIsApplying, ApplyCore DEF Apply
  <2>3. removed' = removed
    BY <2>1 DEF Apply
  <2>4. IsDurable(terminal)'
    <3>1. PICK n : n = terminal
      OBVIOUS
    <3>2. IsDurable(n)'
      BY <1>1, <2>2, <2>3, <3>1, QuietStep
    <3> QED BY <2>2, <3>1, <3>2 DEF IsDurable
  <2>5. terminal <= nextSeq
    BY <1>1, <2>2, DurableIsNumbered
  <2>6. pc'["reader"] = label
    BY <1>1, <2>2 DEF Core, ThreadsInStep, Threads
  <2> QED BY <1>1, <2>2, <2>4, <2>5, <2>6 DEF AnnouncedIsDurable, Holds
<1>3. CASE AnnounceTerminal
  <2>1. /\ pc["reader"] = "announceTerminal" /\ terminal' = published
        /\ pc' = [pc EXCEPT !["reader"] = "idle"]
        /\ UNCHANGED <<file, writing, removed, published>>
    BY <1>3 DEF AnnounceTerminal, Goto
  <2>2. IsDurable(terminal)'
    <3>1. PICK n : n = published
      OBVIOUS
    <3>2. IsDurable(n)'
      BY <1>1, <2>1, <3>1, QuietStep DEF AnnouncedIsDurable
    <3> QED BY <2>1, <3>1, <3>2 DEF IsDurable
  <2>3. pc'["reader"] = "idle"
    BY <1>1, <2>1 DEF Core, ThreadsInStep, Threads
  <2> QED BY <1>1, <2>1, <2>2, <2>3 DEF AnnouncedIsDurable, Holds
<1>4. ASSUME NEW th \in Threads, Write(th) PROVE AnnouncedIsDurable'
  BY <1>4, WriteKeepsAnnounced
<1>5. CASE EndOfProcess
  <2>1. /\ terminal' = terminal /\ published' = 0 /\ pc'["reader"] = "idle"
    BY <1>1, <1>5, EndOfProcessCore
  <2>2. IsDurable(terminal)'
    <3>1. PICK n : n = terminal
      OBVIOUS
    <3>2. IsDurable(n)'
      BY <1>1, <1>5, <3>1, CrashKeepsDurable
    <3> QED BY <2>1, <3>1, <3>2 DEF IsDurable
  <2> QED BY <1>1, <2>1, <2>2 DEF AnnouncedIsDurable, Holds
<1>6. CASE \/ RequestCheckpoint \/ SaverWakes \/ SaverSwallows \/ SaverDrains
           \/ (\E th \in {"reader", "stopper"} : DropPending(th))
           \/ StopWorkers \/ StopFlushes \/ StopSeals \/ WorkerDies \/ Spawn \/ Load
           \/ UNCHANGED vars
  <2>1. /\ UNCHANGED <<file, writing, removed, published, terminal>>
        /\ nextSeq <= nextSeq'
        /\ \/ pc'["reader"] \in {pc["reader"], "idle"}
           \/ pc["reader"] = "unpend" /\ pc'["reader"] = "lock"
    BY <1>1, <1>6, OtherSteps
  <2>2. nextSeq' \in Nat
    BY DEF Core, RecordsAreSound, SoundParts, FewParts
  <2>3. \A n : IsDurable(n) => IsDurable(n)'
    BY <1>1, <2>1, QuietStep
  <2>4. IsDurable(terminal)'
    <3>1. PICK n : n = terminal
      OBVIOUS
    <3>2. IsDurable(n)'
      BY <1>1, <2>3, <3>1
    <3> QED BY <2>1, <3>1, <3>2 DEF IsDurable
  <2>5. pc["reader"] = "announceTerminal" => IsDurable(published)'
    <3>1. PICK n : n = published
      OBVIOUS
    <3>2. pc["reader"] = "announceTerminal" => IsDurable(n)'
      BY <1>1, <2>3, <3>1 DEF AnnouncedIsDurable
    <3> QED BY <2>1, <3>1, <3>2 DEF IsDurable
  <2>6. pc["reader"] \in {"unpend", "lock", "remove", "rename", "announceTerminal"} =>
            terminal' <= published' /\ published' <= nextSeq'
    BY <1>1, <2>1, <2>2 DEF AnnouncedIsDurable
  <2>7. Holds("reader")' => published' <= writing'["reader"].watermark
    <3>1. Holds("reader")' <=> Holds("reader")
      BY <1>1, <2>1, QuietStep DEF Threads
    <3> QED BY <1>1, <2>1, <3>1 DEF AnnouncedIsDurable
  <2> QED BY <1>1, <2>1, <2>4, <2>5, <2>6, <2>7 DEF AnnouncedIsDurable
<1> QED BY <1>2, <1>3, <1>4, <1>5, <1>6
        DEF Next, ReaderNext, SaverNext, StopperNext, LifeNext, Threads

LEMMA PStep == ASSUME ~CrashInReplace PROVE PInv /\ [Next]_vars => PInv'
<1> SUFFICES ASSUME PInv, [Next]_vars PROVE PInv'
  OBVIOUS
<1>1. Core'
  BY CoreStep DEF PInv
<1>2. AnnouncedIsDurable'
  BY <1>1, AnnouncedStep
<1> QED BY <1>1, <1>2 DEF PInv

----------------------------------------------------------------------------
(* A record and the entries numbered after it are the transcript.          *)

RebuildsTo(c, entries, view) == Replay(AsView(c.turns, c.rounds, c.blocks), c.watermark, entries) = view

\* What a start needs of the record it finds: its own journal tells nothing it has not.
CanStart(c) == AreMaps(c.turns, c.rounds, c.blocks) /\ Numbered(c.journal, c.watermark)

\* Whichever record is on disk, or is about to be.
RecordsCatchUp ==
    /\ MapsAreFunctions
    /\ Numbered(journal, nextSeq)
    /\ file # None => CanStart(file) /\ (loaded => RebuildsTo(file, journal, View))
    /\ \A th \in Threads : Holds(th) => CanStart(writing[th]) /\ RebuildsTo(writing[th], journal, View)

\* While no record changes, each catches up if what is journalled is what is done.
LEMMA CatchUpStays ==
    ASSUME Core, Core', RecordsCatchUp, UNCHANGED <<file, writing, removed, loaded>>,
           MapsAreFunctions', Numbered(journal', nextSeq'),
           \A c : c.watermark \in Nat /\ c.watermark <= nextSeq /\ RebuildsTo(c, journal, View)
                     => RebuildsTo(c, journal', View')
    PROVE  RecordsCatchUp'
<1>1. \A th \in Threads : Holds(th)' <=> Holds(th)
  BY QuietStep
<1>2. file' # None => CanStart(file') /\ (loaded' => RebuildsTo(file', journal', View'))
  <2>1. file # None => file.watermark \in Nat /\ (loaded => file.watermark <= nextSeq)
    BY DEF Core, RecordsAreSound, NumbersAreTheLog
  <2> QED BY <2>1 DEF RecordsCatchUp
<1>3. ASSUME NEW th \in Threads, Holds(th)
      PROVE  CanStart(writing'[th]) /\ RebuildsTo(writing'[th], journal', View')
  <2>1. PICK c : c = writing[th]
    OBVIOUS
  <2>2. c.watermark \in Nat /\ c.watermark <= nextSeq
    BY <1>3, <2>1 DEF Core, RecordsAreSound, Recorded, SoundParts, FewParts
  <2>3. CanStart(c) /\ RebuildsTo(c, journal, View)
    BY <1>3, <2>1 DEF RecordsCatchUp
  <2> QED BY <2>1, <2>2, <2>3
<1> QED BY <1>1, <1>2, <1>3 DEF RecordsCatchUp

LEMMA PublishingCatchesUp ==
    ASSUME Core, RecordsCatchUp, PublishStreaming \/ PublishTerminal
    PROVE  RecordsCatchUp'
<1>1. PICK label \in {"request", "unpend"} : AppenderNext /\ Apply(AppenderNext, label)
  BY PublishingIsApplying
<1>2. Core'
  BY <1>1, ApplyCore
<1>3. UNCHANGED <<file, writing, removed, loaded>>
  BY <1>1 DEF Apply, lifeVars
<1>4. TranscriptIsSound /\ MapsAreFunctions /\ Numbered(journal, nextSeq) /\ nextSeq \in Nat
  BY TranscriptHasSoundParts DEF RecordsCatchUp, Core, RecordsAreSound, SoundParts, FewParts
<1>5. MapsAreFunctions'
  BY <1>1, <1>4, IntentKeepsMaps
<1>6. PICK x : ReadsAs(x)
  BY <1>1, <1>4, IntentReads
<1>7. /\ journal' = Append(journal, x) /\ nextSeq' = nextSeq + 1 /\ x.seq = nextSeq + 1
      /\ Reduce(View, x) = View'
  BY <1>6 DEF ReadsAs
<1>8. PICK s : s = journal
  OBVIOUS
<1>9. IsASequence(s) /\ \A i \in 1 .. Len(s) : s[i].seq \in Nat /\ s[i].seq <= nextSeq
  BY <1>4, <1>8 DEF Numbered
<1>10. PICK S : s \in Seq(S) /\ Append(s, x) \in Seq(S)
  BY <1>9, OneMoreEntry
<1>11. Numbered(journal', nextSeq')
  <2>1. PICK e : e = Append(s, x)
    OBVIOUS
  <2>2. /\ Len(e) = Len(s) + 1 /\ Len(s) \in Nat /\ e[Len(s) + 1] = x
        /\ \A i \in 1 .. Len(s) : e[i] = s[i]
    BY <1>9, <2>1, OneMoreEntry
  <2>3. ASSUME NEW i \in 1 .. Len(e) PROVE e[i].seq \in Nat /\ e[i].seq <= nextSeq + 1
    <3>1. i \in 1 .. Len(s) \/ i = Len(s) + 1
      BY <2>2
    <3>2. CASE i \in 1 .. Len(s)
      BY <1>4, <1>9, <2>2, <3>2
    <3>3. CASE i = Len(s) + 1
      BY <1>4, <1>7, <2>2, <3>3
    <3> QED BY <3>1, <3>2, <3>3
  <2>4. IsASequence(e)
    BY <1>10, <2>1 DEF IsASequence
  <2> QED BY <1>7, <1>8, <2>1, <2>3, <2>4 DEF Numbered
<1>12. ASSUME NEW c, c.watermark \in Nat, c.watermark <= nextSeq, RebuildsTo(c, journal, View)
       PROVE  RebuildsTo(c, journal', View')
  <2>1. PICK v, w : v = AsView(c.turns, c.rounds, c.blocks) /\ w = c.watermark
    OBVIOUS
  <2>2. Replay(v, w, Append(s, x)) = Take(Replay(v, w, s), w, x)
    BY <1>10, ReplayOfOneMore
  <2>3. Replay(v, w, s) = View
    BY <1>8, <1>12, <2>1 DEF RebuildsTo
  <2>4. x.seq > w
    BY <1>4, <1>7, <1>12, <2>1
  <2>5. Replay(v, w, journal') = View'
    BY <1>7, <1>8, <2>2, <2>3, <2>4 DEF Take
  <2> QED BY <2>1, <2>5 DEF RebuildsTo
<1> QED BY <1>2, <1>3, <1>5, <1>11, <1>12, CatchUpStays

\* A journal with the seals of orphans behind it is numbered, too.
LEMMA SealsAreNumbered ==
    ASSUME NEW n \in Nat, NEW s, Numbered(s, n), NEW more, IsASequence(more),
           \A i \in 1 .. Len(more) : more[i].seq = n + i
    PROVE  Numbered(s \o more, n + Len(more))
<1>1. IsASequence(s)
  BY DEF Numbered
<1>2. PICK e : e = s \o more
  OBVIOUS
<1>3. Len(more) \in Nat
  BY DEF IsASequence
<1>4. ASSUME NEW i \in 1 .. Len(e) PROVE e[i].seq \in Nat /\ e[i].seq <= n + Len(more)
  <2>1. CASE i \in 1 .. Len(s) /\ e[i] = s[i]
    BY <1>3, <2>1 DEF Numbered
  <2>2. CASE i - Len(s) \in 1 .. Len(more) /\ e[i] = more[i - Len(s)]
    <3>1. PICK j \in 1 .. Len(more) : e[i] = more[j]
      BY <2>2
    <3> QED BY <1>3, <3>1
  <2> QED BY <1>1, <1>2, <2>1, <2>2, MoreEntries
<1>5. IsASequence(e)
  BY <1>1, <1>2, MoreEntries
<1> QED BY <1>2, <1>4, <1>5 DEF Numbered

\* Orphans sealed in memory.
LEMMA SealingCatchesUp ==
    ASSUME Core, Core', RecordsCatchUp, Become(SealOrphans(Timeline)),
           UNCHANGED <<file, writing, removed, loaded>>
    PROVE  RecordsCatchUp'
<1>1. PICK tl : tl = Timeline
  OBVIOUS
<1>2. /\ tl.nextSeq = nextSeq /\ tl.journal = journal
      /\ tl.turns = turns /\ tl.rounds = rounds /\ tl.blocks = blocks
  BY <1>1 DEF Timeline
<1>3. PICK o : o = SealOrphans(tl)
  OBVIOUS
<1>4. /\ nextSeq' = o.nextSeq /\ journal' = o.journal
      /\ turns' = o.turns /\ rounds' = o.rounds /\ blocks' = o.blocks
  BY <1>1, <1>3 DEF Become
<1>5. /\ SoundParts(tl.nextSeq, tl.turns, tl.rounds, tl.blocks)
      /\ AreMaps(tl.turns, tl.rounds, tl.blocks) /\ Numbered(tl.journal, tl.nextSeq)
      /\ tl.nextSeq \in Nat
  BY <1>2 DEF Core, RecordsAreSound, RecordsCatchUp, MapsAreFunctions, AreMaps, SoundParts, FewParts
<1>6. MapsAreFunctions'
  BY <1>3, <1>4, SealingLeavesMaps DEF AreMaps, MapsAreFunctions
<1>7. Numbered(journal', nextSeq')
  <2>1. PICK w \in Nat : w <= tl.nextSeq
    BY <1>5
  <2>2. PICK more : SealsAs(tl, o, w, more)
    BY <1>3, <1>5, <2>1, SealsRead
  <2>3. /\ o.journal = tl.journal \o more /\ IsASequence(more) /\ o.nextSeq = tl.nextSeq + Len(more)
        /\ \A i \in 1 .. Len(more) : more[i].seq = tl.nextSeq + i
    BY <2>2 DEF SealsAs
  <2> QED BY <1>4, <1>5, <2>3, SealsAreNumbered
<1>8. ASSUME NEW c, c.watermark \in Nat, c.watermark <= nextSeq, RebuildsTo(c, journal, View)
      PROVE  RebuildsTo(c, journal', View')
  <2>1. PICK v, w : v = AsView(c.turns, c.rounds, c.blocks) /\ w = c.watermark
    OBVIOUS
  <2>2. PICK view : view = AsView(tl.turns, tl.rounds, tl.blocks)
    OBVIOUS
  <2>3. PICK more : SealsAs(tl, o, w, more)
    <3>1. w \in Nat /\ w <= tl.nextSeq
      BY <1>2, <1>8, <2>1
    <3> QED BY <1>3, <1>5, <3>1, SealsRead
  <2>4. /\ o.journal = tl.journal \o more /\ IsASequence(more)
        /\ Replay(view, w, more) = AsView(o.turns, o.rounds, o.blocks)
    BY <2>2, <2>3 DEF SealsAs
  <2>5. PICK s : s = tl.journal
    OBVIOUS
  <2>6. Replay(v, w, s \o more) = Replay(Replay(v, w, s), w, more)
    BY <1>5, <2>4, <2>5, MoreEntries DEF Numbered
  <2>7. Replay(v, w, s) = view
    BY <1>2, <1>8, <2>1, <2>2, <2>5, ViewIsItsParts DEF RebuildsTo
  <2>8. AsView(o.turns, o.rounds, o.blocks) = View'
    BY <1>4, ViewIsItsParts
  <2>9. Replay(v, w, journal') = View'
    BY <1>4, <2>4, <2>5, <2>6, <2>7, <2>8
  <2> QED BY <2>1, <2>9 DEF RebuildsTo
<1> QED BY <1>6, <1>7, <1>8, CatchUpStays

LEMMA WriteCatchesUp ==
    ASSUME Core, RecordsCatchUp, NEW th \in Threads, Write(th)
    PROVE  RecordsCatchUp'
<1>1. CASE BeginWrite(th)
  <2>1. Core' /\ \A u \in Threads : ~Holds(u)
    BY <1>1, BeginWriteCore
  <2>2. /\ pc[th] = "lock" /\ pc' = [pc EXCEPT ![th] = "remove"]
        /\ writing' = [writing EXCEPT ![th] = Checkpoint]
        /\ UNCHANGED <<appenderVars, file, loaded>>
    BY <1>1 DEF BeginWrite, Goto, lifeVars
  <2>3. PICK c : c = Checkpoint
    OBVIOUS
  <2>4. /\ c.turns = turns /\ c.rounds = rounds /\ c.blocks = blocks
        /\ c.watermark = nextSeq /\ c.journal = LiveTail
    BY <2>3 DEF Checkpoint
  <2>5. CanStart(c)
    BY <2>4, TailIsNumbered DEF CanStart, RecordsCatchUp, MapsAreFunctions, AreMaps
  <2>6. RebuildsTo(c, journal, View)
    <3>1. PICK v, n, s : v = View /\ n = nextSeq /\ s = journal
      OBVIOUS
    <3>2. n \in Nat /\ Numbered(s, n)
      BY <3>1 DEF RecordsCatchUp, Core, RecordsAreSound, SoundParts, FewParts
    <3>3. Replay(v, n, s) = v
      BY <3>2, NumberedReplay
    <3> QED BY <2>4, <3>1, <3>3, ViewIsItsParts DEF RebuildsTo
  <2>7. writing'[th] = c /\ \A u \in Threads : Holds(u)' => u = th
    BY <2>1, <2>2, <2>3 DEF Core, ThreadsInStep, Holds
  <2>8. UNCHANGED <<turns, rounds, blocks, journal, nextSeq, file, loaded>> /\ View' = View
    BY <2>2 DEF appenderVars, View
  <2> QED BY <2>5, <2>6, <2>7, <2>8 DEF RecordsCatchUp, MapsAreFunctions
<1>2. CASE RemoveOld(th)
  <2>1. /\ pc[th] = "remove" /\ pc' = [pc EXCEPT ![th] = "rename"]
        /\ file' = None /\ UNCHANGED <<appenderVars, writing>>
    BY <1>2 DEF RemoveOld, Goto
  <2>2. \A u \in Threads : Holds(u)' => Holds(u)
    BY <2>1 DEF Core, ThreadsInStep, Holds
  <2>3. UNCHANGED <<turns, rounds, blocks, journal, nextSeq, writing>> /\ View' = View /\ None' = None
    BY <2>1 DEF appenderVars, View, None
  <2> QED BY <2>1, <2>2, <2>3 DEF RecordsCatchUp, MapsAreFunctions
<1>3. CASE RenameNew(th)
  <2>1. file' = writing[th] /\ \A u \in Threads : ~Holds(u)'
    BY <1>3, RenameNewCore
  <2>2. Holds(th) /\ UNCHANGED appenderVars
    BY <1>3 DEF RenameNew, Holds
  <2>3. CanStart(writing[th]) /\ RebuildsTo(writing[th], journal, View)
    BY <2>2 DEF RecordsCatchUp
  <2>4. UNCHANGED <<turns, rounds, blocks, journal, nextSeq>> /\ View' = View
    BY <2>2 DEF appenderVars, View
  <2> QED BY <2>1, <2>3, <2>4 DEF RecordsCatchUp, MapsAreFunctions
<1> QED BY <1>1, <1>2, <1>3 DEF Write

\* What a start restores is the record; the seals it adds are entries after it.
LEMMA LoadCatchesUp ==
    ASSUME Core, RecordsCatchUp, Load
    PROVE  RecordsCatchUp'
<1>1. Core' /\ file' = file /\ \A th \in Threads : ~Holds(th)'
  BY LoadCore
<1>2. CASE file = None
  <2>1. UNCHANGED <<turns, rounds, blocks, journal, nextSeq>> /\ None' = None
    BY <1>2 DEF Load, appenderVars, None
  <2> QED BY <1>1, <1>2, <2>1 DEF RecordsCatchUp, MapsAreFunctions
<1>3. CASE file # None
  <2>1. PICK tl : tl = [nextSeq |-> file.watermark, turns |-> file.turns, rounds |-> file.rounds,
                        blocks |-> file.blocks, journal |-> file.journal]
    OBVIOUS
  <2>2. Become(SealOrphans(tl))
    BY <1>3, <2>1 DEF Load
  <2>3. /\ tl.nextSeq = file.watermark /\ tl.journal = file.journal
        /\ tl.turns = file.turns /\ tl.rounds = file.rounds /\ tl.blocks = file.blocks
    BY <2>1
  <2>4. PICK o : o = SealOrphans(tl)
    OBVIOUS
  <2>5. /\ nextSeq' = o.nextSeq /\ journal' = o.journal
        /\ turns' = o.turns /\ rounds' = o.rounds /\ blocks' = o.blocks
    BY <2>2, <2>4 DEF Become
  <2>6. Recorded(file) /\ CanStart(file)
    BY <1>3 DEF Core, RecordsAreSound, RecordsCatchUp
  <2>7. /\ SoundParts(tl.nextSeq, tl.turns, tl.rounds, tl.blocks)
        /\ AreMaps(tl.turns, tl.rounds, tl.blocks) /\ Numbered(tl.journal, tl.nextSeq)
        /\ tl.nextSeq \in Nat
    BY <2>3, <2>6 DEF Recorded, CanStart, SoundParts, FewParts
  <2>8. PICK w \in Nat : w = tl.nextSeq
    BY <2>7
  <2>9. PICK more : SealsAs(tl, o, w, more)
    <3>1. w <= tl.nextSeq
      BY <2>8
    <3> QED BY <2>4, <2>7, <3>1, SealsRead
  <2>10. PICK view : view = AsView(tl.turns, tl.rounds, tl.blocks)
    OBVIOUS
  <2>11. /\ o.journal = tl.journal \o more /\ IsASequence(more) /\ o.nextSeq = tl.nextSeq + Len(more)
         /\ \A i \in 1 .. Len(more) : more[i].seq = tl.nextSeq + i
         /\ Replay(view, w, more) = AsView(o.turns, o.rounds, o.blocks)
    BY <2>9, <2>10 DEF SealsAs
  <2>12. Numbered(journal', nextSeq')
    BY <2>5, <2>7, <2>11, SealsAreNumbered
  <2>13. MapsAreFunctions'
    BY <2>4, <2>5, SealingLeavesMaps DEF AreMaps, MapsAreFunctions
  <2>14. Replay(view, w, journal') = View'
    <3>1. PICK s : s = tl.journal
      OBVIOUS
    <3>2. Replay(view, w, s \o more) = Replay(Replay(view, w, s), w, more)
      BY <2>7, <2>11, <3>1, MoreEntries DEF Numbered
    <3>3. Replay(view, w, s) = view
      BY <2>7, <2>8, <3>1, NumberedReplay
    <3>4. AsView(o.turns, o.rounds, o.blocks) = View'
      BY <2>5, ViewIsItsParts
    <3> QED BY <2>5, <2>11, <3>1, <3>2, <3>3, <3>4
  <2>15. RebuildsTo(file, journal', View')
    BY <2>3, <2>8, <2>10, <2>14 DEF RebuildsTo
  <2> QED BY <1>1, <2>6, <2>12, <2>13, <2>15 DEF RecordsCatchUp
<1> QED BY <1>2, <1>3

LEMMA EmptyJournalCatchesUp ==
    ASSUME journal = <<>>, nextSeq = 0, turns = <<>>, rounds = <<>>, blocks = <<>>
    PROVE  MapsAreFunctions /\ Numbered(journal, nextSeq)
<1>1. MapsAreFunctions
  BY DEF MapsAreFunctions, IsMap
<1>2. journal \in Seq({}) /\ Len(journal) = 0
  OBVIOUS
<1> QED BY <1>1, <1>2 DEF Numbered, IsASequence

LEMMA EndOfProcessCatchesUp ==
    ASSUME Core, RecordsCatchUp, EndOfProcess
    PROVE  RecordsCatchUp'
<1>1. file' = file /\ \A th \in Threads : ~Holds(th)'
  BY EndOfProcessCore
<1>2. /\ journal' = <<>> /\ nextSeq' = 0 /\ turns' = <<>> /\ rounds' = <<>> /\ blocks' = <<>>
      /\ loaded' = FALSE
  BY DEF EndOfProcess
<1>3. MapsAreFunctions' /\ Numbered(journal', nextSeq')
  <2>1. IsMap(<<>>)
    BY DEF IsMap
  <2>2. Numbered(<<>>, 0)
    <3>1. <<>> \in Seq({}) /\ Len(<<>>) = 0
      OBVIOUS
    <3> QED BY <3>1 DEF Numbered, IsASequence
  <2> QED BY <1>2, <2>1, <2>2 DEF MapsAreFunctions
<1>4. None' = None
  BY DEF None
<1> QED BY <1>1, <1>2, <1>3, <1>4 DEF RecordsCatchUp

\* Steps of the threads that touch neither the transcript nor a record.
LEMMA QuietCatchesUp ==
    ASSUME Core, Core', RecordsCatchUp,
           \/ RequestCheckpoint \/ AnnounceTerminal \/ SaverWakes \/ SaverSwallows \/ SaverDrains
           \/ (\E th \in {"reader", "stopper"} : DropPending(th))
           \/ StopWorkers \/ StopFlushes \/ WorkerDies \/ UNCHANGED vars
    PROVE  RecordsCatchUp'
<1>1. UNCHANGED <<appenderVars, file, writing, removed, loaded>>
  BY DEF RequestCheckpoint, AnnounceTerminal, SaverWakes, SaverSwallows, SaverDrains, DropPending,
         StopWorkers, StopFlushes, WorkerDies, vars, persistVars, lifeVars
<1>2. UNCHANGED <<turns, rounds, blocks, journal, nextSeq>> /\ View' = View
  BY <1>1 DEF appenderVars, View
<1>3. MapsAreFunctions' /\ Numbered(journal', nextSeq')
  BY <1>2 DEF RecordsCatchUp, MapsAreFunctions
<1> QED BY <1>1, <1>2, <1>3, CatchUpStays

LEMMA CatchUpStep == Core /\ RecordsCatchUp /\ [Next]_vars => RecordsCatchUp'
<1> SUFFICES ASSUME Core, RecordsCatchUp, [Next]_vars PROVE RecordsCatchUp'
  OBVIOUS
<1>1. Core'
  BY CoreStep
<1>2. CASE PublishStreaming \/ PublishTerminal
  BY <1>2, PublishingCatchesUp
<1>3. ASSUME NEW th \in Threads, Write(th) PROVE RecordsCatchUp'
  BY <1>3, WriteCatchesUp
<1>4. CASE Spawn
  <2>1. Become(SealOrphans(Timeline)) /\ UNCHANGED <<file, writing, removed, loaded>>
    BY <1>4 DEF Spawn, SealOrphansInMemory, persistVars
  <2> QED BY <1>1, <2>1, SealingCatchesUp
<1>5. CASE StopSeals
  <2>1. Become(SealOrphans(Timeline)) /\ UNCHANGED <<file, writing, removed, loaded>>
    BY <1>5 DEF StopSeals, SealOrphansInMemory, lifeVars
  <2> QED BY <1>1, <2>1, SealingCatchesUp
<1>6. CASE Load
  BY <1>6, LoadCatchesUp
<1>7. CASE EndOfProcess
  BY <1>7, EndOfProcessCatchesUp
<1>8. CASE \/ RequestCheckpoint \/ AnnounceTerminal \/ SaverWakes \/ SaverSwallows \/ SaverDrains
           \/ (\E th \in {"reader", "stopper"} : DropPending(th))
           \/ StopWorkers \/ StopFlushes \/ WorkerDies \/ UNCHANGED vars
  BY <1>1, <1>8, QuietCatchesUp
<1> QED BY <1>2, <1>3, <1>4, <1>5, <1>6, <1>7, <1>8
        DEF Next, ReaderNext, SaverNext, StopperNext, LifeNext, Threads

----------------------------------------------------------------------------
(* The theorems.                                                           *)

\* Seals nest in every transcript the daemon ever holds, over crashes anywhere, restarts from
\* any record and every sealing of orphans: nothing is open inside something sealed.
THEOREM SealsNestOverRestarts == Spec => []SealedOutsideIn
<1>1. Init => Core
  BY InitCore DEF PInv
<1>2. Core /\ [Next]_vars => Core'
  BY CoreStep
<1>3. Core => SealedOutsideIn
  BY TranscriptHasSoundParts DEF Core, RecordsAreSound, TranscriptIsSound
<1> QED BY <1>1, <1>2, <1>3, PTL DEF Spec

\* At most one thread at a time is replacing the record, and what a thread holds and has
\* removed is what its place in the code says.
THEOREM WritersExcludeEachOther == Spec => []ThreadsInStep
<1>1. Init => Core
  BY InitCore DEF PInv
<1>2. Core /\ [Next]_vars => Core'
  BY CoreStep
<1>3. Core => ThreadsInStep
  BY DEF Core
<1> QED BY <1>1, <1>2, <1>3, PTL DEF Spec

\* An announced seal is on disk, or in the record that is replacing the one on disk, whichever
\* threads are writing; no stale record replaces a newer one.
THEOREM AnnouncedSealsAreDurable ==
    ASSUME ~CrashInReplace PROVE Spec => []AnnouncedIsDurable
<1>1. Init => PInv
  BY InitCore
<1>2. PInv /\ [Next]_vars => PInv'
  BY PStep
<1>3. PInv => AnnouncedIsDurable
  BY DEF PInv
<1> QED BY <1>1, <1>2, <1>3, PTL DEF Spec

\* Whoever has the record on disk and replays the entries numbered after it has the transcript:
\* over every crash, even between the two calls that replace the file, every restart with its
\* seals, every pruned journal and every reused turn id.
THEOREM RecordPlusTailIsTheTranscript == Spec => []RecordPlusTailIsCurrent
<1> DEFINE Inv == Core /\ RecordsCatchUp
<1>1. Init => Inv
  <2> SUFFICES ASSUME Init PROVE RecordsCatchUp
    BY InitCore DEF PInv
  <2>1. /\ journal = <<>> /\ nextSeq = 0 /\ turns = <<>> /\ rounds = <<>> /\ blocks = <<>>
        /\ file = None
    BY DEF Init, AppenderInit
  <2>2. \A th \in Threads : ~Holds(th)
    BY DEF Init, Holds, Threads
  <2>3. MapsAreFunctions /\ Numbered(journal, nextSeq)
    BY <2>1, EmptyJournalCatchesUp
  <2> QED BY <2>1, <2>2, <2>3 DEF RecordsCatchUp
<1>2. Inv /\ [Next]_vars => Inv'
  BY CoreStep, CatchUpStep
<1>3. Inv => RecordPlusTailIsCurrent
  BY DEF RecordsCatchUp, RebuildsTo, AsView, RecordPlusTailIsCurrent
<1> HIDE DEF Inv
<1> QED BY <1>1, <1>2, <1>3, PTL DEF Spec

\* New numbers are an extension of the log.
LEMMA StampIsExtend ==
    ASSUME written \in Seq(Nat), epoch \in Nat, NEW n \in Nat, Len(written) <= n,
           n <= Len(written) + 2 * MaxSeq, Stamp(n), UNCHANGED <<epoch, terminal>>
    PROVE  [Log!LogNext]_Log!logVars
<1>1. CASE n = Len(written)
  <2>1. written' = written
    BY <1>1, StampExtends
  <2> QED BY <2>1 DEF Log!logVars
<1>2. CASE n # Len(written)
  <2> DEFINE m == n - Len(written)
  <2>1. m \in 1 .. 2 * MaxSeq + 1
    BY <1>2, BoundsAssumption
  <2>2. Log!Extend(m)
    BY DEF Log!Extend, Stamp
  <2> HIDE DEF m
  <2> QED BY <2>1, <2>2 DEF Log!LogNext
<1> QED BY <1>1, <1>2

LEMMA LogStep == ASSUME ~CrashInReplace PROVE PInv /\ [Next]_vars => [Log!LogNext]_Log!logVars
<1> SUFFICES ASSUME PInv, [Next]_vars PROVE [Log!LogNext]_Log!logVars
  OBVIOUS
<1>1. /\ Core /\ AnnouncedIsDurable /\ written \in Seq(Nat) /\ epoch \in Nat
      /\ IsDurable(terminal) /\ terminal \in Nat /\ published \in Nat /\ nextSeq \in Nat
  BY DEF PInv, AnnouncedIsDurable, Core, RecordsAreSound, NumbersAreTheLog, SoundParts, FewParts
<1>2. CASE PublishStreaming \/ PublishTerminal
  <2>1. PICK label \in {"request", "unpend"} : Apply(AppenderNext, label)
    BY <1>2, PublishingIsApplying
  <2>2. /\ nextSeq' = nextSeq + 1 /\ nextSeq' \in Nat /\ Stamp(nextSeq') /\ Len(written) = nextSeq
        /\ UNCHANGED <<epoch, terminal>>
    BY <1>1, <1>2, <2>1, PublishingIsApplying, ApplyCore
  <2>3. 1 <= 2 * MaxSeq /\ MaxSeq \in Nat
    BY <1>1, <1>2, PublishingIsApplying, IntentAdds, BoundsAssumption
  <2>4. Len(written) <= nextSeq' /\ nextSeq' <= Len(written) + 2 * MaxSeq
    BY <1>1, <2>2, <2>3
  <2> QED BY <1>1, <2>2, <2>4, StampIsExtend
<1>3. CASE Spawn
  <2>1. /\ nextSeq' \in Nat /\ Len(written) <= nextSeq' /\ nextSeq' <= Len(written) + 2 * MaxSeq
        /\ UNCHANGED <<terminal, epoch>> /\ Stamp(nextSeq')
    BY <1>1, <1>3, SpawnCore
  <2> QED BY <1>1, <2>1, StampIsExtend
<1>4. CASE StopSeals
  <2>1. /\ nextSeq' \in Nat /\ nextSeq <= nextSeq' /\ nextSeq' <= nextSeq + 2 * MaxSeq
        /\ UNCHANGED <<terminal, epoch>> /\ Stamp(nextSeq')
        /\ Len(written) = nextSeq \/ written' = written
    BY <1>1, <1>4, StopSealsCore
  <2>2. CASE Len(written) = nextSeq
    BY <1>1, <2>1, <2>2, StampIsExtend
  <2>3. CASE written' = written
    BY <2>1, <2>3 DEF Log!logVars
  <2> QED BY <2>1, <2>2, <2>3
<1>5. CASE Load
  <2>1. /\ UNCHANGED <<terminal, epoch>>
        /\ \/ written' = written
           \/ /\ nextSeq' \in Nat /\ Len(written) <= nextSeq'
              /\ nextSeq' <= Len(written) + 2 * MaxSeq /\ Stamp(nextSeq')
    BY <1>1, <1>5, LoadCore
  <2>2. CASE written' = written
    BY <2>1, <2>2 DEF Log!logVars
  <2>3. CASE /\ nextSeq' \in Nat /\ Len(written) <= nextSeq'
             /\ nextSeq' <= Len(written) + 2 * MaxSeq /\ Stamp(nextSeq')
    BY <1>1, <2>1, <2>3, StampIsExtend
  <2> QED BY <2>1, <2>2, <2>3
<1>6. CASE AnnounceTerminal
  <2>1. /\ pc["reader"] = "announceTerminal" /\ terminal' = published
        /\ written' = written /\ epoch' = epoch
    BY <1>6 DEF AnnounceTerminal, lifeVars
  <2>2. loaded
    BY <1>1, <2>1 DEF Core, NumbersAreTheLog
  <2>3. terminal <= published /\ published <= Len(written)
    BY <1>1, <2>1, <2>2 DEF AnnouncedIsDurable, Core, NumbersAreTheLog
  <2>4. CASE terminal = published
    BY <2>1, <2>4 DEF Log!logVars
  <2>5. CASE terminal # published
    <3>1. published \in terminal + 1 .. Len(written)
      BY <1>1, <2>3, <2>5
    <3>2. Log!Acknowledge(published)
      BY <2>1 DEF Log!Acknowledge
    <3> QED BY <3>1, <3>2 DEF Log!LogNext
  <2> QED BY <2>4, <2>5
<1>7. CASE EndOfProcess
  <2>1. terminal <= file.watermark
    BY <1>1, <1>7, CrashKeepsDurable
  <2>2. /\ epoch' = epoch + 1 /\ terminal' = terminal
        /\ written' = SubSeq(written, 1, file.watermark)
    BY <1>7 DEF EndOfProcess
  <2>3. file.watermark \in terminal .. Len(written)
    BY <1>1, <1>7, <2>1, EndOfProcessCore
  <2>4. Log!Restart(file.watermark)
    BY <2>2 DEF Log!Restart
  <2> QED BY <2>3, <2>4 DEF Log!LogNext
<1>8. ASSUME NEW th \in Threads, Write(th) \/ DropPending(th) PROVE UNCHANGED Log!logVars
  BY <1>8 DEF Write, BeginWrite, RemoveOld, RenameNew, DropPending, lifeVars, ghostVars, Log!logVars
<1>9. CASE \/ RequestCheckpoint \/ SaverWakes \/ SaverSwallows \/ SaverDrains
           \/ StopWorkers \/ StopFlushes \/ WorkerDies \/ UNCHANGED vars
  BY <1>9 DEF RequestCheckpoint, SaverWakes, SaverSwallows, SaverDrains, StopWorkers, StopFlushes,
              WorkerDies, vars, lifeVars, ghostVars, Log!logVars
<1> QED BY <1>2, <1>3, <1>4, <1>5, <1>6, <1>7, <1>8, <1>9
        DEF Next, ReaderNext, SaverNext, StopperNext, LifeNext, Threads

\* The four threads, the worker's death and the restarts together implement the log that
\* clients were promised: numbers are given out in order, nothing is taken back while the
\* daemon runs, and a restart loses no announced seal.
THEOREM PersistenceImplementsEpochLog ==
    ASSUME ~CrashInReplace PROVE Spec => ImplementsEpochLog
<1>1. Init => PInv
  BY InitCore
<1>2. PInv /\ [Next]_vars => PInv'
  BY PStep
<1>3. Init => Log!LogInit
  BY DEF Init, Log!LogInit
<1>4. PInv /\ [Next]_vars => [Log!LogNext]_Log!logVars
  BY LogStep
<1> QED BY <1>1, <1>2, <1>3, <1>4, PTL DEF Spec, ImplementsEpochLog, Log!LogSpec

\* What a step of the log leaves of the entries that were announced.
LEMMA LogStepKeeps ==
    ASSUME written \in Seq(Nat), epoch \in Nat, terminal \in Nat, terminal <= Len(written),
           Log!LogNext
    PROVE  terminal <= Len(written') /\ \A i \in 1 .. terminal : written'[i] = written[i]
<1>1. ASSUME NEW n \in 1 .. 2 * MaxSeq + 1, Log!Extend(n)
      PROVE  terminal <= Len(written') /\ \A i \in 1 .. terminal : written'[i] = written[i]
  <2>1. PICK more : more = [i \in 1 .. n |-> epoch]
    OBVIOUS
  <2>2. n \in Nat
    BY BoundsAssumption
  <2>3. more \in Seq(Nat) /\ Len(more) = n
    BY <2>1, <2>2
  <2>4. written' = written \o more
    BY <1>1, <2>1 DEF Log!Extend
  <2> QED BY <2>2, <2>3, <2>4
<1>2. ASSUME NEW n, Log!Acknowledge(n)
      PROVE  terminal <= Len(written') /\ \A i \in 1 .. terminal : written'[i] = written[i]
  BY <1>2 DEF Log!Acknowledge
<1>3. ASSUME NEW n \in terminal .. Len(written), Log!Restart(n)
      PROVE  terminal <= Len(written') /\ \A i \in 1 .. terminal : written'[i] = written[i]
  BY <1>3 DEF Log!Restart
<1> QED BY <1>1, <1>2, <1>3 DEF Log!LogNext

\* Hence, over any number of crashes outside the replacement of the file, no entry that was
\* announced is lost or comes back with another content.
THEOREM AnnouncedSurvivesCrashes ==
    ASSUME ~CrashInReplace PROVE Spec => Log!AcknowledgedKept
<1> DEFINE Kept == terminal <= Len(written') /\ \A i \in 1 .. terminal : written'[i] = written[i]
<1>1. Init => PInv
  BY InitCore
<1>2. PInv /\ [Next]_vars => PInv'
  BY PStep
<1>3. PInv /\ [Next]_vars => [Kept]_Log!logVars
  <2> SUFFICES ASSUME PInv, Log!LogNext PROVE Kept
    BY LogStep
  <2>1. Core /\ written \in Seq(Nat) /\ epoch \in Nat /\ terminal \in Nat /\ IsDurable(terminal)
    BY DEF PInv, AnnouncedIsDurable, Core, NumbersAreTheLog
  <2>2. terminal <= Len(written)
    <3>1. PICK n : n = terminal
      OBVIOUS
    <3> QED BY <2>1, <3>1, DurableIsNumbered
  <2> QED BY <2>1, <2>2, LogStepKeeps
<1> QED BY <1>1, <1>2, <1>3, PTL DEF Spec, Log!AcknowledgedKept
=============================================================================
