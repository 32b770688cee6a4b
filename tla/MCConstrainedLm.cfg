SPECIFICATION Spec
CONSTANTS
    Tokens = {"0", "2", "3", "4", "9", "A", "C", "minor", "en", "xx", "y", "ue"}
    NoValue = NoValue
    Values <- SmallValues
    UserValues <- SmallUserValues
    Durations = {2, 3}
    Spelled <- SmallSpelled
    NameLength = 2
    CaptionLimit = 2
    PerSecond = 2
    MinDuration = 2
    MaxDuration = 3
    Slack = 1
INVARIANTS
    ValuesRight
    InOrder
    Answered
    CodesExact
