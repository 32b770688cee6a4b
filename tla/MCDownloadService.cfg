SPECIFICATION FairSpec
CONSTANTS
    Tasks = {t1, t2, t3}
    a = a
    b = b
    c = c
    Models = {a, b, c}
    Needs <- Loop
    Interruptible = {c}
    NoTask = NoTask
    NoModel = NoModel
INVARIANTS
    RunningHasWorker
    ResumableIsIdle
    JoinedIsAlive
    ChainIsAwaited
    CompletedIsInstalled
PROPERTIES
    EndsForGood
    WorkersEnd
