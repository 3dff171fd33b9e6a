--------------------------- MODULE RecurrentTimer ---------------------------
(***************************************************************************)
(* RecurrentTimer: threads of the HAL register and unregister recurrent    *)
(* events, one thread of the timer notifies those that are due, and the    *)
(* destructor stops it.                                                    *)
(*                                                                         *)
(* A critical section of mLock is one action; the clock is read before it  *)
(* and mCond notified after it, each in an action of its own, and any      *)
(* amount of time may pass in between.                                     *)
(***************************************************************************)
EXTENDS Naturals

CONSTANTS
    Cookies,
    Intervals,   \* intervals a caller may register
    Callers,     \* threads that register and unregister
    MaxTime,     \* bound: the clock stops
    NoEvent,     \* no entry in mCookieToEventsMap
    Never        \* kInvalidTime, Nanos::max()

ASSUME IntervalsAssumption == Intervals \subseteq Nat \ {0}
ASSUME MaxTimeAssumption == MaxTime \in Nat
ASSUME NoEventAssumption ==
    NoEvent \notin [interval : Nat, absoluteTime : Nat] /\ NoEvent \notin Cookies
ASSUME NeverAssumption == Never \notin Nat

VARIABLES
    clock,
    events,         \* mCookieToEventsMap
    mStopRequested,
    timer,          \* what the timer thread executes
    now, nextEventTime, cookies,  \* local variables of loop()
    caller,         \* what each caller executes
    entry,          \* the event it registers, NoEvent to unregister
    target,         \* the cookie it names, NoEvent outside a call
    owner,          \* what the owner of the timer executes
    start,          \* history: absoluteTime a cookie was registered with
    count,          \* history: how often it was due since then
    late            \* history: notifications since it was unregistered

loopVars == <<timer, now, nextEventTime, cookies>>
callVars == <<caller, entry, target>>
historyVars == <<start, count, late>>
vars == <<clock, events, mStopRequested, loopVars, callVars, owner, historyVars>>

Event == [interval : Intervals, absoluteTime : Nat]
Registered == {c \in Cookies : events[c] # NoEvent}

Init ==
    /\ clock = 0
    /\ events = [c \in Cookies |-> NoEvent]
    /\ mStopRequested = FALSE
    /\ timer = "top" /\ now = 0 /\ nextEventTime = Never /\ cookies = {}
    /\ caller = [u \in Callers |-> "idle"]
    /\ entry = [u \in Callers |-> NoEvent]
    /\ target = [u \in Callers |-> NoEvent]
    /\ owner = "running"
    /\ start = [c \in Cookies |-> 0]
    /\ count = [c \in Cookies |-> 0]
    /\ late = [c \in Cookies |-> 0]

-----------------------------------------------------------------------------
Tick ==
    /\ clock < MaxTime
    /\ clock' = clock + 1
    /\ UNCHANGED <<events, mStopRequested, loopVars, callVars, owner, historyVars>>

\* Mutant of Aligned: an event is due as soon as it is registered.
NotAligned(time, interval) == time

\* The last multiple of the interval.
Aligned(time, interval) == time - (time % interval)

\* registerRecurrentEvent reads the clock ...
Register(u, interval, c) ==
    /\ caller[u] = "idle" /\ owner = "running"
    /\ caller' = [caller EXCEPT ![u] = "lock"]
    /\ entry' = [entry EXCEPT ![u] =
                    [interval |-> interval, absoluteTime |-> Aligned(clock, interval)]]
    /\ target' = [target EXCEPT ![u] = c]
    /\ UNCHANGED <<clock, events, mStopRequested, loopVars, owner, historyVars>>

Unregister(u, c) ==
    /\ caller[u] = "idle" /\ owner = "running"
    /\ caller' = [caller EXCEPT ![u] = "lock"]
    /\ entry' = [entry EXCEPT ![u] = NoEvent]
    /\ target' = [target EXCEPT ![u] = c]
    /\ UNCHANGED <<clock, events, mStopRequested, loopVars, owner, historyVars>>

\* ... and the critical section of either call.
UpdateMap(u) ==
    /\ caller[u] = "lock"
    /\ events' = [events EXCEPT ![target[u]] = entry[u]]
    /\ caller' = [caller EXCEPT ![u] = "notify"]
    /\ start' = [start EXCEPT ![target[u]] =
                    IF entry[u] = NoEvent THEN 0 ELSE entry[u].absoluteTime]
    /\ count' = [count EXCEPT ![target[u]] = 0]
    /\ late' = [late EXCEPT ![target[u]] = 0]
    /\ UNCHANGED <<clock, mStopRequested, loopVars, entry, target, owner>>

\* The timer thread, if it waits on mCond, gets to run again.
WakeTimer == timer' = IF timer = "waiting" THEN "top" ELSE timer

NotifyOne(u) ==
    /\ caller[u] = "notify"
    /\ WakeTimer
    /\ caller' = [caller EXCEPT ![u] = "idle"]
    /\ entry' = [entry EXCEPT ![u] = NoEvent]
    /\ target' = [target EXCEPT ![u] = NoEvent]
    /\ UNCHANGED <<clock, events, mStopRequested, now, nextEventTime, cookies,
                   owner, historyVars>>

-----------------------------------------------------------------------------
\* Mutant of Multiplier: a multiplier of 0 is not corrected.
MultiplierMayBeZero(e, time) == (time - e.absoluteTime) \div e.interval

Multiplier(e, time) ==
    LET n == (time - e.absoluteTime) \div e.interval
    IN  IF n = 0 THEN 1 ELSE n

\* updateNextEventTime, for an event that is due.
UpdateNextEventTime(e, time) ==
    [interval |-> e.interval,
     absoluteTime |-> e.absoluteTime + Multiplier(e, time) * e.interval]

\* Mutant of Cleared: the cookies of the last turn are notified again.
NotCleared == cookies

\* cookies.clear().
Cleared == {}

\* The beginning of loop(): stop, or read the clock.
ReadClock ==
    /\ timer = "top"
    /\ timer' = IF mStopRequested THEN "finished" ELSE "scan"
    /\ now' = clock
    /\ cookies' = Cleared
    /\ UNCHANGED <<clock, events, mStopRequested, nextEventTime, callVars, owner,
                   historyVars>>

Due == {c \in Registered : events[c].absoluteTime <= now}

\* Mutant of Times: an event that was due is left out of nextEventTime.
TimesOfOthers(map) ==
    {map[c].absoluteTime : c \in {d \in Cookies \ Due : map[d] # NoEvent}}

Times(map) == {map[c].absoluteTime : c \in {d \in Cookies : map[d] # NoEvent}}

\* Mutant of Earliest: the latest event is waited for.
Latest(times) ==
    IF times = {} THEN Never ELSE CHOOSE x \in times : \A y \in times : y <= x

Earliest(times) ==
    IF times = {} THEN Never ELSE CHOOSE x \in times : \A y \in times : x <= y

\* The loop over mCookieToEventsMap.
Scan ==
    /\ timer = "scan"
    /\ events' = [c \in Cookies |->
                    IF c \in Due THEN UpdateNextEventTime(events[c], now)
                    ELSE events[c]]
    /\ nextEventTime' = Earliest(Times(events'))
    /\ cookies' = cookies \cup Due
    /\ timer' = IF cookies' = {} THEN "enter" ELSE "act"
    /\ count' = [c \in Cookies |-> IF c \in Due THEN count[c] + 1 ELSE count[c]]
    /\ UNCHANGED <<clock, mStopRequested, now, callVars, owner, start, late>>

\* action(cookies).
Act ==
    /\ timer = "act"
    /\ timer' = "enter"
    /\ late' = [c \in Cookies |->
                    IF c \in cookies \ Registered THEN late[c] + 1 ELSE late[c]]
    /\ UNCHANGED <<clock, events, mStopRequested, now, nextEventTime, cookies,
                   callVars, owner, start, count>>

TimeIsUp == nextEventTime # Never /\ nextEventTime <= clock

\* wait_until is entered with mLock held; a time in the past is not waited for.
EnterWait ==
    /\ timer = "enter"
    /\ timer' = IF TimeIsUp THEN "top" ELSE "waiting"
    /\ UNCHANGED <<clock, events, mStopRequested, now, nextEventTime, cookies,
                   callVars, owner, historyVars>>

Timeout ==
    /\ timer = "waiting" /\ TimeIsUp
    /\ timer' = "top"
    /\ UNCHANGED <<clock, events, mStopRequested, now, nextEventTime, cookies,
                   callVars, owner, historyVars>>

SpuriousWakeup ==
    /\ timer = "waiting"
    /\ timer' = "top"
    /\ UNCHANGED <<clock, events, mStopRequested, now, nextEventTime, cookies,
                   callVars, owner, historyVars>>

-----------------------------------------------------------------------------
\* stop(), from the destructor: no caller is inside the object any more.
RequestStop ==
    /\ owner = "running"
    /\ \A u \in Callers : caller[u] = "idle"
    /\ owner' = "clearing"
    /\ mStopRequested' = TRUE
    /\ UNCHANGED <<clock, events, loopVars, callVars, historyVars>>

ClearEvents ==
    /\ owner = "clearing"
    /\ owner' = "notifying"
    /\ events' = [c \in Cookies |-> NoEvent]
    /\ UNCHANGED <<clock, mStopRequested, loopVars, callVars, historyVars>>

\* Mutant of NotifyStop: nobody wakes the timer thread.
StopSilently ==
    /\ owner = "notifying"
    /\ owner' = "joining"
    /\ UNCHANGED <<clock, events, mStopRequested, loopVars, callVars,
                   historyVars>>

NotifyStop ==
    /\ owner = "notifying"
    /\ owner' = "joining"
    /\ WakeTimer
    /\ UNCHANGED <<clock, events, mStopRequested, now, nextEventTime, cookies,
                   callVars, historyVars>>

Join ==
    /\ owner = "joining"
    /\ timer = "finished"
    /\ owner' = "destroyed"
    /\ UNCHANGED <<clock, events, mStopRequested, loopVars, callVars, historyVars>>

-----------------------------------------------------------------------------
Loop == ReadClock \/ Scan \/ Act \/ EnterWait \/ Timeout
Call(u) == UpdateMap(u) \/ NotifyOne(u)
Stop == ClearEvents \/ NotifyStop \/ Join

Next ==
    \/ Tick
    \/ Loop \/ SpuriousWakeup
    \/ \E u \in Callers :
          \/ Call(u)
          \/ \E c \in Cookies :
                Unregister(u, c) \/ \E i \in Intervals : Register(u, i, c)
    \/ RequestStop \/ Stop

Spec == Init /\ [][Next]_vars

\* Time passes and every thread that can go on goes on.  Nobody has to
\* register or to stop anything, and no wakeup has to be spurious.
Fairness ==
    /\ WF_vars(Tick) /\ WF_vars(Loop) /\ WF_vars(Stop)
    /\ \A u \in Callers : WF_vars(Call(u))

FairSpec == Spec /\ Fairness

-----------------------------------------------------------------------------
(***************************************************************************)
(* Properties.                                                             *)
(***************************************************************************)

\* Type invariant.
TypeOK ==
    /\ clock \in Nat
    /\ events \in [Cookies -> Event \cup {NoEvent}]
    /\ mStopRequested \in BOOLEAN
    /\ timer \in {"top", "scan", "act", "enter", "waiting", "finished"}
    /\ now \in Nat
    /\ nextEventTime \in Nat \cup {Never}
    /\ cookies \in SUBSET Cookies
    /\ caller \in [Callers -> {"idle", "lock", "notify"}]
    /\ entry \in [Callers -> Event \cup {NoEvent}]
    /\ target \in [Callers -> Cookies \cup {NoEvent}]
    /\ owner \in {"running", "clearing", "notifying", "joining", "destroyed"}
    /\ start \in [Cookies -> Nat]
    /\ count \in [Cookies -> Nat]
    /\ late \in [Cookies -> Nat]

\* Events stay aligned to multiples of their interval, however late the timer
\* thread notices them, so that a wakeup of the longer of two intervals is one
\* of the shorter.
EventsAreAligned ==
    \A c \in Registered : events[c].absoluteTime % events[c].interval = 0

\* A late event makes up for lost time, but never runs ahead: since it was
\* registered it has been due at most once per interval that has begun.
AtMostOncePerInterval ==
    \A c \in Registered :
        count[c] * events[c].interval <= (clock - start[c]) + events[c].interval

\* The timer thread may have collected a cookie just before it is
\* unregistered, but that is the only notification that still goes out.
AtMostOneLateNotification == \A c \in Cookies : late[c] <= 1

\* A lost notification can hide a new event from the timer thread, but never
\* one it has seen: it does not wait past the next time of any of those.
TimerNeverOversleeps ==
    timer = "waiting" =>
        \A c \in Registered :
            count[c] > 0 => nextEventTime # Never
                            /\ nextEventTime <= events[c].absoluteTime

\* The time of an event that the timer thread has seen before has come.
IsDueAgain(c) ==
    c \in Registered /\ count[c] > 0 /\ events[c].absoluteTime <= clock

\* An event that the timer thread has seen is not forgotten: when its time
\* comes again the thread notices it and moves it on, however far it is
\* behind, unless somebody changes the event or stops the timer.
EventsRecur ==
    \A c \in Cookies : IsDueAgain(c) ~> ~IsDueAgain(c) \/ mStopRequested

\* The timer thread has yet to look at mStopRequested, or waits on mCond
\* before stop() notifies it.
WillSeeStop ==
    owner \in {"clearing", "notifying"} /\ timer \in {"top", "waiting"}

\* stop() has notified it, too early or not, but its wait has an end.
WillTimeOut ==
    /\ owner = "joining"
    /\ timer \in {"enter", "waiting"}
    /\ nextEventTime \in 0..MaxTime

\* The destructor ends a timer thread that waits, for an event or for ever,
\* and one that is about to test mStopRequested.  What is left is a thread
\* that has made its test and found no event, and enters its wait after the
\* notification of stop(): the destructor then joins it for ever.
StopReturns == WillSeeStop \/ WillTimeOut ~> owner = "destroyed"

\* A registered event is notified for the first time, or the timer thread at
\* least wakes up for some other event.
RegisteredEventsAreNotified ==
    \A c \in Cookies :
        (c \in Registered /\ count[c] = 0)
        ~> (c \notin Registered \/ count[c] > 0 \/ nextEventTime # Never)

=============================================================================
