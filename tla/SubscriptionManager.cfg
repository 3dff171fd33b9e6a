CONSTANTS
    rpm = rpm
    gear = gear
    NoThread = NoThread
    NotRegistered = NotRegistered
    MaxCalls = 4
    Threads = {t1, t2}
    Clients = {c1, c2}
    Props = {rpm, gear}
    Config <- RpmGear
    OptionLists <- RpmGearLists
SPECIFICATION BoundedSpec
CHECK_DEADLOCK FALSE
INVARIANTS
    TypeOK
    PropClientsAreKnown
    RequestsAreCovered
    HalSubscriptionNotLost
    HalOptionsHaveClients
    SweptClientsAreGone
PROPERTIES
    HalRateNeverLowered
    CallsReturn
    DeadClientsAreForgotten
