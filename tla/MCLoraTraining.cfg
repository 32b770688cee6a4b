SPECIFICATION Spec
CONSTANTS
    Trainings = {r1}
    Evaluations = {e1, e2}
    Procs = {p1, p2}
    Requests = {q1, q2}
    None = None
    EarlyFailures = TRUE
    MaxLives = 1
SYMMETRY Symmetry
INVARIANTS
    TrainersCounted
    EvaluatingIsUnfinished
    CandidatesListed
    RegistryIsTrue
CHECK_DEADLOCK FALSE
