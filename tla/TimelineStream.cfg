SPECIFICATION FairSpec
CONSTANTS
    MaxLog = 3
    MaxBurst = 2
    MaxEpochs = 2
    MaxFaults = 1
    FaultKinds = {"lease", "stream", "recover"}
    BroadcastSize = 1
INVARIANTS ViewIsLogPrefix BroadcastReachesClient
PROPERTIES CatchesUp
CHECK_DEADLOCK FALSE
