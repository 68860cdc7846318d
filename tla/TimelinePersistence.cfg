SPECIFICATION FairSpec
CONSTANTS
    TurnIds = {t1}
    BlockIds = {b1}
    ToolCalls = {}
    Outcomes = {"Completed"}
    MaxRounds = 1
    MaxSeq = 4
    MaxEpochs = 2
    CrashInReplace = FALSE
    SpawnAfterStop = TRUE
INVARIANTS RecordPlusTailIsCurrent
PROPERTIES ImplementsEpochLog EveryEntrySaved OrphansEventuallySealed
CHECK_DEADLOCK FALSE
