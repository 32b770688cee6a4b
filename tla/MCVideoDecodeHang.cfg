SPECIFICATION FairSpec
CONSTANTS
    Rooms = {4}
    Rates = {24}
    Lengths = {3}
    Sounds = {17}
    PipeRoom = 1
    MaxReports = 2
    StderrRoom = 1
    MayFail = FALSE
    NoChunk = NoChunk
PROPERTIES
    DecodeEnds
CHECK_DEADLOCK FALSE
