SPECIFICATION FairSpec
CONSTANTS
    Trainings = {r1, r2}
    Evaluations = {e1, e2}
    Procs = {p1}
    Requests = {}
    None = None
    EarlyFailures = FALSE
    MaxLives = 0
INVARIANT ResumeHasCheckpoint
PROPERTY EvaluationsSettle
CHECK_DEADLOCK FALSE
