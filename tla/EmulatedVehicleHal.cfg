CONSTANTS
    c1 = c1
    c2 = c2
    startSpeed = startSpeed
    stopSpeed = stopSpeed
    startFile = startFile
    pressKey = pressKey
    Cookies = {c1, c2}
    MaxLate = 1
    Clients = {t1}
    Vehicles = {e1}
    Nobody = Nobody
    CommandOf <- Commands
    Watched <- WatchedProperties
    ClientRequests <- FromClients
    VehicleRequests <- FromVehicle
    MaxCalls = 3
SPECIFICATION FairSpec
CHECK_DEADLOCK FALSE
INVARIANTS
    SetsWerePermitted
    LastEventIsStored
    ReadablePropertiesAnswer
    EveryGeneratorIsQueued
PROPERTIES
    FramesStayUntilCleared
    GeneratorsGoOn
