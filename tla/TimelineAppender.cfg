SPECIFICATION AppenderSpec
CONSTANTS
    TurnIds = {t1}
    BlockIds = {b1, b2}
    ToolCalls = {c1}
    Outcomes = {"Completed", "Failed"}
    MaxRounds = 2
    MaxSeq = 7
SYMMETRY Symmetry
INVARIANTS SealedOutsideIn JournalRebuildsTranscript
PROPERTIES SealedBlockImmutable
CHECK_DEADLOCK FALSE
