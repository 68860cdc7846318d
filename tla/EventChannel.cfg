SPECIFICATION Spec
CONSTANTS
    Seeds = {s1, s2}
    MaxStream = 4
    MaxHistory = 1
    Capacity = 2
    BroadcastSize = 2
    MaxBreaks = 1
    BreakMidReplay = FALSE
SYMMETRY Symmetry
INVARIANTS ExactlyOnce NoStaleCheckpoint
CHECK_DEADLOCK FALSE
