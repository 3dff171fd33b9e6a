CONSTANTS
    Cookies = {a}
    Intervals = {2}
    Callers = {u1}
    MaxTime = 2
    NoEvent = NoEvent
    Never = Never
SPECIFICATION FairSpec
CHECK_DEADLOCK FALSE
PROPERTY RegisteredEventsAreNotified
