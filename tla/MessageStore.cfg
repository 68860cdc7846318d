CONSTANTS
    MaxTurns = 3
    MaxToolCalls = 2
    MaxCrashes = 2
    MaxCompactions = 1
    MaxUndos = 1
SPECIFICATION StoreSpec
INVARIANTS NumbersAreFresh FilesMatchMemory SentIsArchived
PROPERTIES RestoresAnswered
CHECK_DEADLOCK FALSE
