CONSTANTS
    Producers = {p1, p2}
    Events = {e1, e2}
    MaxEvents = 4
SPECIFICATION FairSpec
CHECK_DEADLOCK FALSE
INVARIANTS
    NothingLostOrReordered
    NoLostWakeup
    AtMostOneBatchAfterStop
    NoCallbackAfterDestruction
PROPERTIES
    ImplementsChannel
    EventsAreDelivered
    DestructorReturns
