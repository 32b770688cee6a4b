SPECIFICATION FairSpec
CONSTANTS
    Rooms = {1, 4, 8}
    Rates = {7, 24}
    Lengths = {1, 6, 10}
    Sounds = {40, 73}
    PipeRoom = 1
    MaxReports = 1
    StderrRoom = 1
    MayFail = TRUE
    NoChunk = NoChunk
INVARIANTS
    FileIsTheVideo
    Seamless
PROPERTIES
    DecodeEnds
CHECK_DEADLOCK FALSE
