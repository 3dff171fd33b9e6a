CONSTANTS
    fan = fan
    unknown = unknown
    NoOne = NoOne
    Sockets = {c1, c2}
    Pipes = {p1}
    Setters = {s1, s2}
    CommandList <- SomeCommands
    Configured = {fan}
    Values = {1, 2}
    InitialValue = 1
    MaxCommands = 2
    MaxSets = 2
    MaxMoves = 3
    MaxParted = 1
    MaxClosed = 1
SPECIFICATION Spec
CHECK_DEADLOCK FALSE
SYMMETRY Symmetry
INVARIANTS
    ResponsesFollowCommands
    ConnectionsAreTold
