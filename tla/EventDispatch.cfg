CONSTANTS
    Clients = {c1, c2}
    Binders = {b1}
    HalThreads = {h1}
    Config <- SomeConfig
    ClientValues <- FromClients
    HalValues <- FromHal
    Objects = {1, 2}
    SlotCount = 2
    mMaxRecyclableVectorSize = 2
    MaxCalls = 3
    MaxChanges = 2
SPECIFICATION Spec
CHECK_DEADLOCK FALSE
SYMMETRY Symmetry
INVARIANTS
    DeliveredAsSent
    SetIsAnnouncedFirst
