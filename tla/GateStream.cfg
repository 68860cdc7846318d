SPECIFICATION GateSpec
CONSTANTS
    Names = {"a", "b"}
    Fragments = 2
    MaxRetries = 2
    MaxPieces = 5
    MaxToolCalls = 2
INVARIANTS MessageIsWhatWasShown CallsAsSent RoundCloses
CHECK_DEADLOCK FALSE
