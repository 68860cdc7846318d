SPECIFICATION Spec
CONSTANTS
    MaxTurns = 2
    MaxRounds = 1
    MaxCalls = 2
    MaxCommands = 4
INVARIANTS GateSeesAnsweredCalls RunsOnlyApproved
PROPERTIES InterruptEndsTurn InterruptIsHeard
CHECK_DEADLOCK FALSE
