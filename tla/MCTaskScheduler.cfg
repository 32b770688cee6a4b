SPECIFICATION Spec
CONSTANTS
    Tasks = {t1, t2, t3}
    SubmitKinds = {"image", "video", "training"}
    QueryLimit = 3
    MaxContinues = 1
    MaxFaults = 1
    MaxRestarts = 1
SYMMETRY TaskSymmetry
INVARIANTS
    OneTaskRuns
    HeapIsTheQueue
    NoDuplicates
    QueuedTokenIsLive
    CancelReachesEngine
PROPERTIES
    CancelledNeverCompletes
    StartsInOrder
    ImplementsLifecycle
