CONSTANTS
    Cookies = {a, b}
    Intervals = {2, 3}
    Callers = {u1}
    MaxTime = 5
    NoEvent = NoEvent
    Never = Never
SPECIFICATION FairSpec
CHECK_DEADLOCK FALSE
INVARIANTS
    EventsAreAligned
    AtMostOncePerInterval
    AtMostOneLateNotification
    TimerNeverOversleeps
PROPERTIES
    EventsRecur
    StopReturns
