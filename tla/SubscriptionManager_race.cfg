CONSTANTS
    rpm = rpm
    gear = gear
    NoThread = NoThread
    NotRegistered = NotRegistered
    Threads = {t1, t2}
    Clients = {c1, c2}
    Props = {rpm, gear}
    Config <- RpmGear
    OptionLists <- RpmGearLists
SPECIFICATION Spec
CHECK_DEADLOCK FALSE
INVARIANT HalFollowsManager
