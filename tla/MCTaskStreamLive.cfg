SPECIFICATION FairSpec
CONSTANTS
    Clients = {c1}
    Full = 3
    QueueMax = 1
    LogLimit = 2
    MaxLogs = 2
    MaxRuns = 2
INVARIANTS
    ReportFitsProgress
PROPERTIES
    StreamsEnd
CHECK_DEADLOCK FALSE
