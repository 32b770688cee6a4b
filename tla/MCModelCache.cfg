SPECIFICATION FairSpec
CONSTANTS
    Keys = {"a", "b", "c"}
    Models = {m1, m2, m3}
    Threads = {t1}
    Loop = Loop
    None = None
    Size <- Sizes
    MaxEntries = 2
    Limit = 4
    Ttls = {1, 2}
    MaxIdle = 3
INVARIANTS
    OnePlace
    NothingLost
    Fits
    OldestFirst
    UnloadsAll
PROPERTIES
    Released
    ImplementsLifecycle
