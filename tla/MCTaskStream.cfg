SPECIFICATION Spec
CONSTANTS
    Clients = {c1, c2}
    Full = 2
    QueueMax = 1
    LogLimit = 1
    MaxLogs = 2
    MaxRuns = 1
SYMMETRY Symmetry
INVARIANTS
    CompletedShowsFull
    LogsCaughtUp
CHECK_DEADLOCK FALSE
