SPECIFICATION FairSpec
CONSTANTS
    Permissions = {p1}
    Asks = {a1, a2}
    MaxTurns = 2
    MaxClicks = 2
    MaxFaults = 1
    PipeSize = 1
    WireSize = 1
INVARIANTS WorkIsSeen SealsOnlyOrphans PromptsReachTheShell
PROPERTIES DeadTurnEnds
CHECK_DEADLOCK FALSE
