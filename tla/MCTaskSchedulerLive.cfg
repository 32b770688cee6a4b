SPECIFICATION FairSpec
CONSTANTS
    Tasks = {t1, t2, t3}
    SubmitKinds = {"image", "training"}
    QueryLimit = 3
    MaxContinues = 1
    MaxFaults = 0
    MaxRestarts = 0
PROPERTIES
    QueuedIsTaken
