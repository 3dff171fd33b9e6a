------------------------ MODULE RecurrentTimerProofs ------------------------
(***************************************************************************)
(* Proofs about RecurrentTimer, for every set of cookies, callers and      *)
(* intervals, and however long the clock runs.                             *)
(***************************************************************************)
EXTENDS RecurrentTimer, SelectionProofs

-----------------------------------------------------------------------------
(***************************************************************************)
(* Arithmetic.                                                             *)
(***************************************************************************)

\* A set of points in time that is not empty has an earliest one.
LEMMA EarliestIsLeast ==
    ASSUME NEW times \in SUBSET Nat, times # {}
    PROVE  Earliest(times) \in times /\ \A y \in times : Earliest(times) <= y
BY LeastExists DEF Earliest

\* x = interval * (x \div interval) + (x % interval).
LEMMA DivisionLaw ==
    ASSUME NEW x \in Nat, NEW i \in Nat \ {0}
    PROVE  /\ x \div i \in Nat
           /\ x % i \in 0 .. i - 1
           /\ x = i * (x \div i) + (x % i)
OBVIOUS

LEMMA MultipleHasNoRemainder ==
    ASSUME NEW q \in Nat, NEW i \in Nat \ {0}
    PROVE  (q * i) % i = 0
OBVIOUS

\* What registerRecurrentEvent stores is a multiple of the interval and not
\* in the future.
LEMMA AlignedIsMultiple ==
    ASSUME NEW time \in Nat, NEW i \in Nat \ {0}
    PROVE  /\ Aligned(time, i) \in Nat
           /\ Aligned(time, i) % i = 0
           /\ Aligned(time, i) <= time
<1>1. (time - (time % i)) % i = 0
  <2>1. PICK q \in Nat : time - (time % i) = q * i
    <3>1. /\ time \div i \in Nat
          /\ time % i \in Nat
          /\ time = i * (time \div i) + (time % i)
      BY DivisionLaw
    <3>2. time - (time % i) = (time \div i) * i
      BY <3>1
    <3> QED
      BY <3>1, <3>2
  <2> QED
    BY <2>1, MultipleHasNoRemainder
<1>2. time - (time % i) \in Nat /\ time - (time % i) <= time
  BY DivisionLaw
<1> QED
  BY <1>1, <1>2 DEF Aligned

\* Adding whole intervals keeps a multiple of the interval one.
LEMMA MultiplesAreKept ==
    ASSUME NEW x \in Nat, NEW k \in Nat, NEW i \in Nat \ {0}, x % i = 0
    PROVE  (x + k * i) % i = 0
<1>1. PICK q \in Nat : x = q * i
  <2>1. x \div i \in Nat /\ x = i * (x \div i) + (x % i)
    BY DivisionLaw
  <2>2. x = (x \div i) * i
    BY <2>1
  <2> QED
    BY <2>1, <2>2
<1>2. x + k * i = (q + k) * i /\ q + k \in Nat
  BY <1>1
<1> QED
  BY <1>2, MultipleHasNoRemainder

\* updateNextEventTime moves a due event on by at least one interval, and to
\* the next interval at most.
LEMMA UpdateNextEventTimeMovesOn ==
    ASSUME NEW e \in Event, NEW time \in Nat, e.absoluteTime <= time
    PROVE  LET next == UpdateNextEventTime(e, time)
           IN  /\ next \in Event
               /\ next.interval = e.interval
               /\ next.absoluteTime >= e.absoluteTime + e.interval
               /\ next.absoluteTime <= time + e.interval
               /\ e.absoluteTime % e.interval = 0
                    => next.absoluteTime % e.interval = 0
<1> DEFINE i == e.interval
           a == e.absoluteTime
           n == (time - a) \div i
           m == Multiplier(e, time)
<1>1. i \in Nat \ {0} /\ i \in Intervals /\ a \in Nat /\ time - a \in Nat
  <2>1. i \in Intervals /\ a \in Nat
    BY DEF Event
  <2>2. i \in Nat \ {0}
    BY <2>1, IntervalsAssumption
  <2>3. time - a \in Nat
    BY <2>1
  <2> QED
    BY <2>1, <2>2, <2>3
<1>2. n \in Nat /\ i * n <= time - a
  <2> HIDE DEF i, a
  <2>1. /\ n \in Nat
        /\ (time - a) % i \in 0 .. i - 1
        /\ time - a = i * n + ((time - a) % i)
    BY <1>1, DivisionLaw
  <2>2. i * n \in Nat
    BY <1>1, <2>1
  <2> HIDE DEF n
  <2> QED
    BY <1>1, <2>1, <2>2
<1>3. m = IF n = 0 THEN 1 ELSE n
  BY DEF Multiplier
<1> HIDE DEF i, a, n, m
<1>4. m \in Nat \ {0}
  BY <1>2, <1>3
<1>5. m * i \in Nat /\ m * i >= i /\ m * i <= (time - a) + i
  <2>1. CASE n = 0
    BY <1>1, <1>3, <2>1
  <2>2. CASE n # 0
    <3>1. m = n /\ m * i = i * n
      BY <1>1, <1>2, <1>3, <2>2
    <3>2. PICK k \in Nat : m = k + 1
      BY <1>4
    <3>3. m * i = k * i + i /\ k * i \in Nat
      BY <1>1, <3>2
    <3> QED
      BY <1>1, <1>2, <3>1, <3>3
  <2> QED
    BY <2>1, <2>2
<1>6. UpdateNextEventTime(e, time) = [interval |-> i, absoluteTime |-> a + m * i]
  BY DEF UpdateNextEventTime, i, a, m
<1>7. a % i = 0 => (a + m * i) % i = 0
  BY <1>1, <1>4, MultiplesAreKept
<1>8. a + m * i \in Nat /\ a + m * i >= a + i /\ a + m * i <= time + i
  BY <1>1, <1>5
<1>9. [interval |-> i, absoluteTime |-> a + m * i] \in Event
  BY <1>1, <1>8 DEF Event
<1> QED
  BY <1>6, <1>7, <1>8, <1>9 DEF i, a

-----------------------------------------------------------------------------
(***************************************************************************)
(* The inductive invariant.                                                *)
(***************************************************************************)

\* A caller names a cookie until it has notified the timer thread.
CallsNameCookies == \A u \in Callers : caller[u] # "idle" => target[u] \in Cookies

\* What a caller is about to store is aligned, and its time has come.
EntriesAreAligned ==
    \A u \in Callers :
        entry[u] # NoEvent =>
            /\ entry[u].absoluteTime % entry[u].interval = 0
            /\ entry[u].absoluteTime <= clock

\* The next time of an event accounts for each time it was due, and is at
\* most one interval ahead of the clock.
TimesAccountForTurns ==
    /\ now <= clock
    /\ \A c \in Registered :
          /\ start[c] + count[c] * events[c].interval <= events[c].absoluteTime
          /\ events[c].absoluteTime <= clock + events[c].interval

\* A registered cookie has not been notified late, and neither has one that
\* is about to be notified; a turn begins with no cookies.
LateOnlyOnce ==
    /\ AtMostOneLateNotification
    /\ \A c \in Registered : late[c] = 0
    /\ timer = "act" => \A c \in cookies : late[c] = 0
    /\ timer = "scan" => cookies = {}

\* The thread knows the earliest time of the events it has seen from the scan
\* until it wakes up.
NextEventTimeCovers ==
    timer \in {"act", "enter", "waiting"} =>
        \A c \in Registered :
            count[c] > 0 => /\ nextEventTime # Never
                            /\ nextEventTime <= events[c].absoluteTime

IInv ==
    /\ TypeOK /\ CallsNameCookies
    /\ EntriesAreAligned /\ EventsAreAligned
    /\ TimesAccountForTurns
    /\ LateOnlyOnce
    /\ NextEventTimeCovers

LEMMA EventsAreRecords ==
    /\ NoEvent \notin Event
    /\ \A e \in Event : e.interval \in Nat \ {0} /\ e.absoluteTime \in Nat
<1>1. Intervals \subseteq Nat /\ \A i \in Intervals : i \in Nat \ {0}
  BY IntervalsAssumption
<1>2. Event \subseteq [interval : Nat, absoluteTime : Nat]
  BY <1>1 DEF Event
<1>3. \A e \in Event : e.interval \in Intervals /\ e.absoluteTime \in Nat
  BY DEF Event
<1> QED
  BY <1>1, <1>2, <1>3, NoEventAssumption

\* The scan moves the events that are due, and only those; none is added or
\* removed.
LEMMA ScanEffect ==
    ASSUME TypeOK, Scan
    PROVE  /\ events' \in [Cookies -> Event \cup {NoEvent}]
           /\ \A c \in Cookies : events'[c] # NoEvent <=> c \in Registered
           /\ \A c \in Registered : events'[c].interval = events[c].interval
           /\ \A c \in Due : events'[c] = UpdateNextEventTime(events[c], now)
           /\ \A c \in Cookies \ Due : events'[c] = events[c]
<1>1. ASSUME NEW c \in Due
      PROVE  /\ c \in Cookies /\ events[c] \in Event
             /\ UpdateNextEventTime(events[c], now) \in Event
             /\ UpdateNextEventTime(events[c], now).interval = events[c].interval
             /\ events'[c] = UpdateNextEventTime(events[c], now)
  <2>1. /\ c \in Cookies /\ events[c] \in Event
        /\ events[c].absoluteTime <= now /\ now \in Nat
    BY DEF Due, Registered, TypeOK
  <2> QED
    BY <2>1, UpdateNextEventTimeMovesOn DEF Scan
<1>2. ASSUME NEW c \in Cookies \ Due
      PROVE  events'[c] = events[c] /\ events[c] \in Event \cup {NoEvent}
  BY DEF Scan, TypeOK
<1>3. \A c \in Cookies : events'[c] \in Event \cup {NoEvent}
  BY <1>1, <1>2
<1>4. events' = [c \in Cookies |-> events'[c]]
  BY DEF Scan
<1>5. events' \in [Cookies -> Event \cup {NoEvent}]
  BY <1>3, <1>4
<1>6. \A c \in Due : c \in Registered
  BY DEF Due
<1> QED
  BY <1>1, <1>2, <1>5, <1>6, EventsAreRecords DEF Registered

\* The next event time is the earliest time of a registered event.
LEMMA ScanFindsEarliest ==
    ASSUME TypeOK, Scan
    PROVE  /\ nextEventTime' \in Nat \cup {Never}
           /\ \A c \in Registered' : /\ nextEventTime' # Never
                                     /\ nextEventTime' <= events'[c].absoluteTime
<1> DEFINE T == Times(events')
<1>1. T \in SUBSET Nat
  BY ScanEffect, EventsAreRecords DEF Times
<1>2. \A c \in Registered' : events'[c].absoluteTime \in T
  BY DEF Times, Registered
<1>3. nextEventTime' = Earliest(T)
  BY DEF Scan
<1> HIDE DEF T
<1>4. CASE T = {}
  BY <1>2, <1>3, <1>4 DEF Earliest
<1>5. CASE T # {}
  <2>1. Earliest(T) \in Nat /\ \A y \in T : Earliest(T) <= y
    BY <1>1, <1>5, EarliestIsLeast
  <2> QED
    BY <1>2, <1>3, <2>1, NeverAssumption
<1> QED
  BY <1>4, <1>5

-----------------------------------------------------------------------------
LEMMA TypeStep ==
    ASSUME TypeOK, CallsNameCookies, [Next]_vars
    PROVE  TypeOK'
<1> USE DEF TypeOK, loopVars, callVars, historyVars
<1>1. ASSUME NEW u \in Callers, NEW i \in Intervals, NEW c \in Cookies,
             Register(u, i, c)
      PROVE  TypeOK'
  <2>1. i \in Nat \ {0}
    BY IntervalsAssumption
  <2>2. [interval |-> i, absoluteTime |-> Aligned(clock, i)] \in Event
    BY <2>1, AlignedIsMultiple DEF Event
  <2> QED
    BY <1>1, <2>2 DEF Register
<1>2. ASSUME NEW u \in Callers, NEW c \in Cookies, Unregister(u, c)
      PROVE  TypeOK'
  BY <1>2 DEF Unregister
<1>3. ASSUME NEW u \in Callers, UpdateMap(u)
      PROVE  TypeOK'
  <2>1. target[u] \in Cookies /\ entry[u] \in Event \cup {NoEvent}
    BY <1>3 DEF UpdateMap, CallsNameCookies
  <2>2. (IF entry[u] = NoEvent THEN 0 ELSE entry[u].absoluteTime) \in Nat
    BY <2>1, EventsAreRecords
  <2> QED
    BY <1>3, <2>1, <2>2 DEF UpdateMap
<1>4. ASSUME NEW u \in Callers, NotifyOne(u)
      PROVE  TypeOK'
  BY <1>4 DEF NotifyOne, WakeTimer
<1>5. ASSUME Scan
      PROVE  TypeOK'
  <2>1. events' \in [Cookies -> Event \cup {NoEvent}]
    BY <1>5, ScanEffect
  <2>2. nextEventTime' \in Nat \cup {Never}
    BY <1>5, ScanFindsEarliest
  <2>3. cookies' \in SUBSET Cookies
    BY <1>5 DEF Scan, Due, Registered
  <2>4. count' \in [Cookies -> Nat]
    BY <1>5 DEF Scan
  <2> QED
    BY <1>5, <2>1, <2>2, <2>3, <2>4 DEF Scan
<1>6. ASSUME Tick \/ ReadClock \/ EnterWait \/ Timeout \/ SpuriousWakeup
      PROVE  TypeOK'
  BY <1>6 DEF Tick, ReadClock, Cleared, EnterWait, Timeout, SpuriousWakeup
<1>7. ASSUME Act
      PROVE  TypeOK'
  BY <1>7 DEF Act
<1>8. ASSUME RequestStop \/ ClearEvents \/ NotifyStop \/ Join
      PROVE  TypeOK'
  BY <1>8 DEF RequestStop, ClearEvents, NotifyStop, WakeTimer, Join
<1>9. CASE UNCHANGED vars
  BY <1>9 DEF vars
<1> QED
  BY <1>1, <1>2, <1>3, <1>4, <1>5, <1>6, <1>7, <1>8, <1>9
  DEF Next, Loop, Call, Stop

LEMMA CallStep ==
    ASSUME TypeOK, CallsNameCookies, EntriesAreAligned, [Next]_vars
    PROVE  CallsNameCookies' /\ EntriesAreAligned'
<1> USE DEF TypeOK, CallsNameCookies, EntriesAreAligned
<1>0. /\ clock \in Nat
      /\ \A u \in Callers : entry[u] # NoEvent => entry[u].absoluteTime \in Nat
  BY EventsAreRecords
<1>1. ASSUME NEW u \in Callers, NEW i \in Intervals, NEW c \in Cookies,
             Register(u, i, c)
      PROVE  CallsNameCookies' /\ EntriesAreAligned'
  <2> DEFINE e == [interval |-> i, absoluteTime |-> Aligned(clock, i)]
  <2>1. i \in Nat \ {0}
    BY IntervalsAssumption
  <2>2. e.absoluteTime % e.interval = 0 /\ e.absoluteTime <= clock
    BY <2>1, AlignedIsMultiple
  <2>3. entry' = [entry EXCEPT ![u] = e] /\ UNCHANGED clock
    BY <1>1 DEF Register
  <2>4. CallsNameCookies'
    BY <1>1 DEF Register
  <2> HIDE DEF e
  <2> QED
    BY <2>2, <2>3, <2>4
<1>2. ASSUME NEW u \in Callers, NEW c \in Cookies, Unregister(u, c)
      PROVE  CallsNameCookies' /\ EntriesAreAligned'
  BY <1>2 DEF Unregister
<1>3. ASSUME NEW u \in Callers, UpdateMap(u)
      PROVE  CallsNameCookies' /\ EntriesAreAligned'
  BY <1>3 DEF UpdateMap
<1>4. ASSUME NEW u \in Callers, NotifyOne(u)
      PROVE  CallsNameCookies' /\ EntriesAreAligned'
  BY <1>4 DEF NotifyOne
<1>5. ASSUME Tick
      PROVE  CallsNameCookies' /\ EntriesAreAligned'
  BY <1>0, <1>5 DEF Tick, callVars
<1>6. ASSUME \/ Loop \/ SpuriousWakeup \/ RequestStop \/ Stop
             \/ UNCHANGED vars
      PROVE  UNCHANGED <<callVars, clock>>
  BY <1>6 DEF Loop, ReadClock, Scan, Act, EnterWait, Timeout, SpuriousWakeup,
              RequestStop, Stop, ClearEvents, NotifyStop, Join, vars
<1>7. CASE UNCHANGED <<callVars, clock>>
  BY <1>7 DEF callVars
<1> QED
  BY <1>1, <1>2, <1>3, <1>4, <1>5, <1>6, <1>7 DEF Next, Call

LEMMA AlignedStep ==
    ASSUME TypeOK, CallsNameCookies, EntriesAreAligned, EventsAreAligned,
           [Next]_vars
    PROVE  EventsAreAligned'
<1> USE DEF EventsAreAligned, Registered
<1>1. ASSUME NEW u \in Callers, UpdateMap(u)
      PROVE  EventsAreAligned'
  <2>1. /\ events' = [events EXCEPT ![target[u]] = entry[u]]
        /\ entry[u] # NoEvent => entry[u].absoluteTime % entry[u].interval = 0
        /\ events \in [Cookies -> Event \cup {NoEvent}]
    BY <1>1 DEF UpdateMap, EntriesAreAligned, TypeOK
  <2> QED
    BY <2>1
<1>2. ASSUME Scan
      PROVE  EventsAreAligned'
  <2>1. ASSUME NEW c \in Due
        PROVE  events'[c].absoluteTime % events'[c].interval = 0
    <3>1. /\ events[c] \in Event /\ events[c].absoluteTime <= now
          /\ events[c].absoluteTime % events[c].interval = 0
          /\ now \in Nat
      BY DEF Due, TypeOK
    <3>2. events'[c] = UpdateNextEventTime(events[c], now)
      BY <1>2, ScanEffect
    <3> QED
      BY <3>1, <3>2, UpdateNextEventTimeMovesOn
  <2>2. \A c \in Cookies \ Due : events'[c] = events[c]
    BY <1>2, ScanEffect
  <2> QED
    BY <2>1, <2>2
<1>3. ASSUME ClearEvents
      PROVE  EventsAreAligned'
  BY <1>3 DEF ClearEvents
<1>4. ASSUME \/ Tick \/ ReadClock \/ Act \/ EnterWait \/ Timeout
             \/ SpuriousWakeup \/ RequestStop \/ NotifyStop \/ Join
             \/ \E u \in Callers :
                   \/ NotifyOne(u)
                   \/ \E c \in Cookies :
                         \/ Unregister(u, c)
                         \/ \E i \in Intervals : Register(u, i, c)
             \/ UNCHANGED vars
      PROVE  UNCHANGED events
  BY <1>4 DEF Tick, ReadClock, Act, EnterWait, Timeout, SpuriousWakeup,
              RequestStop, NotifyStop, Join, NotifyOne, Unregister, Register, vars
<1>5. CASE UNCHANGED events
  BY <1>5
<1> QED
  BY <1>1, <1>2, <1>3, <1>4, <1>5 DEF Next, Loop, Call, Stop

LEMMA TimesStep ==
    ASSUME TypeOK, CallsNameCookies, EntriesAreAligned, TimesAccountForTurns,
           [Next]_vars
    PROVE  TimesAccountForTurns'
<1> USE DEF TimesAccountForTurns, Registered
<1>0. /\ clock \in Nat /\ now \in Nat /\ now <= clock
      /\ events \in [Cookies -> Event \cup {NoEvent}]
      /\ start \in [Cookies -> Nat] /\ count \in [Cookies -> Nat]
      /\ \A c \in Registered : /\ events[c].interval \in Nat \ {0}
                               /\ events[c].absoluteTime \in Nat
  BY EventsAreRecords DEF TypeOK
<1>1. ASSUME NEW u \in Callers, UpdateMap(u)
      PROVE  TimesAccountForTurns'
  <2> DEFINE c == target[u]
             e == entry[u]
  <2>1. /\ c \in Cookies
        /\ events' = [events EXCEPT ![c] = e]
        /\ start' = [start EXCEPT ![c] = IF e = NoEvent THEN 0 ELSE e.absoluteTime]
        /\ count' = [count EXCEPT ![c] = 0]
        /\ UNCHANGED <<clock, now>>
    BY <1>1 DEF UpdateMap, CallsNameCookies, loopVars
  <2>2. e # NoEvent => /\ e.absoluteTime \in Nat /\ e.interval \in Nat
                       /\ e.absoluteTime <= clock
    BY EventsAreRecords DEF TypeOK, EntriesAreAligned
  <2> HIDE DEF c, e
  <2>3. ASSUME NEW d \in Registered'
        PROVE  /\ start'[d] + count'[d] * events'[d].interval
                     <= events'[d].absoluteTime
               /\ events'[d].absoluteTime <= clock' + events'[d].interval
    <3>1. CASE d = c
      BY <1>0, <2>1, <2>2, <3>1
    <3>2. CASE d # c
      BY <1>0, <2>1, <3>2
    <3> QED
      BY <3>1, <3>2
  <2> QED
    BY <1>0, <2>1, <2>3
<1>2. ASSUME Scan
      PROVE  TimesAccountForTurns'
  <2>1. UNCHANGED <<clock, now, start>>
    BY <1>2 DEF Scan
  <2>2. ASSUME NEW c \in Due
        PROVE  /\ start'[c] + count'[c] * events'[c].interval
                     <= events'[c].absoluteTime
               /\ events'[c].absoluteTime <= clock' + events'[c].interval
    <3> DEFINE i == events[c].interval
               a == events[c].absoluteTime
               b == events'[c].absoluteTime
               s == start[c]
               n == count[c]
    <3>1. /\ c \in Cookies /\ c \in Registered /\ events[c] \in Event
          /\ events[c].absoluteTime <= now
      BY <1>0 DEF Due
    <3>2. /\ events'[c] \in Event /\ events'[c].interval = i
          /\ b >= a + i /\ b <= now + i
      BY <1>0, <1>2, <3>1, ScanEffect, UpdateNextEventTimeMovesOn
    <3>3. count'[c] = n + 1
      BY <1>2, <3>1 DEF Scan
    <3>4. /\ i \in Nat /\ a \in Nat /\ b \in Nat /\ s \in Nat /\ n \in Nat
          /\ s + n * i <= a
      BY <1>0, <3>1, <3>2, EventsAreRecords
    <3> HIDE DEF i, a, b, s, n
    <3>5. n * i \in Nat /\ (n + 1) * i = n * i + i
      BY <3>4
    <3>6. s + (n + 1) * i <= b /\ b <= clock + i
      BY <1>0, <3>2, <3>4, <3>5
    <3> QED
      BY <2>1, <3>2, <3>3, <3>6 DEF s, b
  <2>3. ASSUME NEW c \in Cookies \ Due
        PROVE  events'[c] = events[c] /\ count'[c] = count[c]
    BY <1>2, ScanEffect DEF Scan
  <2> QED
    BY <1>0, <2>1, <2>2, <2>3
<1>3. ASSUME Tick
      PROVE  TimesAccountForTurns'
  <2>1. clock' = clock + 1 /\ UNCHANGED <<events, now, start, count>>
    BY <1>3 DEF Tick, loopVars, historyVars
  <2> QED
    BY <1>0, <2>1
<1>4. ASSUME ReadClock
      PROVE  TimesAccountForTurns'
  BY <1>0, <1>4 DEF ReadClock, historyVars
<1>5. ASSUME ClearEvents
      PROVE  TimesAccountForTurns'
  BY <1>5 DEF ClearEvents, loopVars
<1>6. ASSUME \/ Act \/ EnterWait \/ Timeout
             \/ SpuriousWakeup \/ RequestStop \/ NotifyStop \/ Join
             \/ \E u \in Callers :
                   \/ NotifyOne(u)
                   \/ \E c \in Cookies :
                         \/ Unregister(u, c)
                         \/ \E i \in Intervals : Register(u, i, c)
             \/ UNCHANGED vars
      PROVE  UNCHANGED <<clock, now, events, start, count>>
  BY <1>6 DEF Act, EnterWait, Timeout, SpuriousWakeup, RequestStop, NotifyStop,
              Join, NotifyOne, Unregister, Register, vars, loopVars, historyVars
<1>7. CASE UNCHANGED <<clock, now, events, start, count>>
  BY <1>7
<1> QED
  BY <1>1, <1>2, <1>3, <1>4, <1>5, <1>6, <1>7 DEF Next, Loop, Call, Stop

LEMMA LateStep ==
    ASSUME TypeOK, CallsNameCookies, LateOnlyOnce, [Next]_vars
    PROVE  LateOnlyOnce'
<1> USE DEF LateOnlyOnce, AtMostOneLateNotification
<1>0. /\ events \in [Cookies -> Event \cup {NoEvent}] /\ cookies \in SUBSET Cookies
      /\ late \in [Cookies -> Nat]
  BY DEF TypeOK
<1>1. ASSUME NEW u \in Callers, UpdateMap(u)
      PROVE  LateOnlyOnce'
  BY <1>0, <1>1 DEF UpdateMap, CallsNameCookies, loopVars, Registered
<1>2. ASSUME NEW u \in Callers, NotifyOne(u)
      PROVE  LateOnlyOnce'
  BY <1>0, <1>2 DEF NotifyOne, WakeTimer, historyVars, Registered
<1>3. ASSUME ReadClock
      PROVE  LateOnlyOnce'
  BY <1>0, <1>3 DEF ReadClock, Cleared, historyVars, Registered
<1>4. ASSUME Scan
      PROVE  LateOnlyOnce'
  <2>1. /\ cookies' = Due
        /\ late' = late
        /\ timer' # "scan"
    BY <1>4 DEF Scan
  <2>2. Registered' = Registered
    BY <1>4, ScanEffect DEF Registered
  <2>3. Due \subseteq Registered
    BY DEF Due
  <2> QED
    BY <1>4, <2>1, <2>2, <2>3
<1>5. ASSUME Act
      PROVE  LateOnlyOnce'
  <2>1. \A c \in Cookies : late'[c] <= 1
    BY <1>0, <1>5 DEF Act
  <2>2. Registered' = Registered /\ \A c \in Registered : late'[c] = late[c]
    BY <1>5 DEF Act, Registered
  <2> QED
    BY <1>5, <2>1, <2>2 DEF Act
<1>6. ASSUME EnterWait \/ Timeout \/ SpuriousWakeup
      PROVE  LateOnlyOnce'
  BY <1>0, <1>6 DEF EnterWait, Timeout, SpuriousWakeup, historyVars, Registered
<1>7. ASSUME ClearEvents
      PROVE  LateOnlyOnce'
  BY <1>0, <1>7 DEF ClearEvents, loopVars, historyVars, Registered
<1>8. ASSUME NotifyStop
      PROVE  LateOnlyOnce'
  BY <1>0, <1>8 DEF NotifyStop, WakeTimer, historyVars, Registered
<1>9. ASSUME \/ Tick \/ RequestStop \/ Join
             \/ \E u \in Callers, c \in Cookies :
                   \/ Unregister(u, c)
                   \/ \E i \in Intervals : Register(u, i, c)
             \/ UNCHANGED vars
      PROVE  LateOnlyOnce'
  <2>1. UNCHANGED <<events, timer, cookies, late>>
    BY <1>9 DEF Tick, RequestStop, Join, Unregister, Register, vars, loopVars,
                historyVars
  <2> QED
    BY <2>1 DEF Registered
<1> QED
  BY <1>1, <1>2, <1>3, <1>4, <1>5, <1>6, <1>7, <1>8, <1>9
  DEF Next, Loop, Call, Stop

LEMMA CoversStep ==
    ASSUME TypeOK, CallsNameCookies, NextEventTimeCovers, [Next]_vars
    PROVE  NextEventTimeCovers'
<1> USE DEF NextEventTimeCovers, Registered
<1>0. /\ events \in [Cookies -> Event \cup {NoEvent}]
      /\ count \in [Cookies -> Nat]
  BY DEF TypeOK
<1>1. ASSUME NEW u \in Callers, UpdateMap(u)
      PROVE  NextEventTimeCovers'
  BY <1>0, <1>1 DEF UpdateMap, CallsNameCookies, loopVars
<1>2. ASSUME NEW u \in Callers, NotifyOne(u)
      PROVE  NextEventTimeCovers'
  BY <1>2 DEF NotifyOne, WakeTimer, historyVars
<1>3. ASSUME Scan
      PROVE  NextEventTimeCovers'
  BY <1>3, ScanFindsEarliest
<1>4. ASSUME ReadClock \/ Act \/ EnterWait \/ Timeout \/ SpuriousWakeup
      PROVE  NextEventTimeCovers'
  BY <1>4 DEF ReadClock, Act, EnterWait, Timeout, SpuriousWakeup, historyVars
<1>5. ASSUME ClearEvents
      PROVE  NextEventTimeCovers'
  BY <1>5 DEF ClearEvents
<1>6. ASSUME NotifyStop
      PROVE  NextEventTimeCovers'
  BY <1>6 DEF NotifyStop, WakeTimer, historyVars
<1>7. ASSUME \/ Tick \/ RequestStop \/ Join
             \/ \E u \in Callers, c \in Cookies :
                   \/ Unregister(u, c)
                   \/ \E i \in Intervals : Register(u, i, c)
             \/ UNCHANGED vars
      PROVE  NextEventTimeCovers'
  <2>1. UNCHANGED <<events, timer, nextEventTime, count>>
    BY <1>7 DEF Tick, RequestStop, Join, Unregister, Register, vars, loopVars,
                historyVars
  <2> QED
    BY <2>1
<1> QED
  BY <1>1, <1>2, <1>3, <1>4, <1>5, <1>6, <1>7 DEF Next, Loop, Call, Stop

LEMMA InitIInv == Init => IInv
<1> SUFFICES ASSUME Init PROVE IInv
  OBVIOUS
<1>1. TypeOK
  BY DEF Init, TypeOK
<1>2. Registered = {}
  BY DEF Init, Registered
<1> QED
  BY <1>1, <1>2 DEF Init, IInv, CallsNameCookies, EntriesAreAligned,
     EventsAreAligned, TimesAccountForTurns, LateOnlyOnce, NextEventTimeCovers,
     AtMostOneLateNotification

\* The inductive invariant holds in every state: for any cookies, intervals,
\* callers and any bound of the clock.
THEOREM Invariance == Spec => []IInv
<1>1. Init => IInv
  BY InitIInv
<1>2. IInv /\ [Next]_vars => IInv'
  BY TypeStep, CallStep, AlignedStep, TimesStep, LateStep, CoversStep
  DEF IInv
<1> QED
  BY <1>1, <1>2, PTL DEF Spec

-----------------------------------------------------------------------------
(***************************************************************************)
(* What follows for the timer.                                             *)
(***************************************************************************)

\* Every variable stays in its type.
THEOREM TypeCorrect == Spec => []TypeOK
<1>1. IInv => TypeOK
  BY DEF IInv
<1> QED
  BY <1>1, Invariance, PTL

\* Events stay aligned to multiples of their interval.
THEOREM Alignment == Spec => []EventsAreAligned
<1>1. IInv => EventsAreAligned
  BY DEF IInv
<1> QED
  BY <1>1, Invariance, PTL

\* An event is due at most once per interval that has begun, however late the
\* timer thread runs.
THEOREM NoRunningAhead == Spec => []AtMostOncePerInterval
<1>1. ASSUME IInv, NEW c \in Registered
      PROVE  count[c] * events[c].interval
                 <= (clock - start[c]) + events[c].interval
  <2> DEFINE i == events[c].interval
             a == events[c].absoluteTime
             s == start[c]
             n == count[c]
  <2>1. events[c] \in Event /\ s \in Nat /\ n \in Nat /\ clock \in Nat
    BY <1>1 DEF IInv, TypeOK, Registered
  <2>2. s + n * i <= a /\ a <= clock + i
    BY <1>1 DEF IInv, TimesAccountForTurns
  <2>3. i \in Nat /\ a \in Nat
    BY <2>1, EventsAreRecords
  <2> HIDE DEF i, a, s, n
  <2>4. n * i \in Nat
    BY <2>1, <2>3
  <2>5. n * i <= (clock - s) + i
    BY <2>1, <2>2, <2>3, <2>4
  <2> QED
    BY <2>5 DEF i, s, n
<1>2. IInv => AtMostOncePerInterval
  BY <1>1 DEF AtMostOncePerInterval
<1> QED
  BY <1>2, Invariance, PTL

\* One notification at most goes out for a cookie that was unregistered.
THEOREM OneLateNotification == Spec => []AtMostOneLateNotification
<1>1. IInv => AtMostOneLateNotification
  BY DEF IInv, LateOnlyOnce
<1> QED
  BY <1>1, Invariance, PTL

\* The timer thread never waits past the next time of an event it has seen.
THEOREM NeverOversleeps == Spec => []TimerNeverOversleeps
<1>1. IInv => TimerNeverOversleeps
  BY DEF IInv, NextEventTimeCovers, TimerNeverOversleeps
<1> QED
  BY <1>1, Invariance, PTL

=============================================================================
