SPECIFICATION Spec
CONSTANTS
    k1 = k1
    k2 = k2
    Ids = {k1, k2, k3}
    PayloadsOf <- MCPayloads
    Requests = {r1, r2}
    MaxEntries = 2
    MaxRecords = 3
    MaxSessions = 2
    MaxFaults = 2
    BroadcastSize = 1
SYMMETRY Symmetry
INVARIANTS AtMostOnce ResultIsComing
CHECK_DEADLOCK FALSE
