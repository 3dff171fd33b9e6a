CONSTANTS
    fan = fan
    unknown = unknown
    NoOne = NoOne
    Sockets = {c1}
    Pipes = {}
    Setters = {s1}
    CommandList <- AllCommands
    Configured = {fan}
    Values = {1}
    InitialValue = 1
    MaxCommands = 2
    MaxSets = 0
    MaxMoves = 2
    MaxParted = 1
    MaxClosed = 0
SPECIFICATION Spec
CHECK_DEADLOCK FALSE
INVARIANTS
    ReadExactlyReturnsWhatWasSent
