--------------------------- MODULE GeneratorHub ---------------------------
(***************************************************************************)
(* GeneratorHub: one thread that handles the events of all fake value      *)
(* generators in the order of their times.                                 *)
(*                                                                         *)
(* The thread holds mLock but for its two waits.  It keeps a REFERENCE to  *)
(* the first event of the queue (curEvent) while it waits for its time: a  *)
(* registration in that wait may move another event to the front, which    *)
(* the reference then denotes, or make the vector of the queue grow, which *)
(* leaves the reference to freed memory.  The build's outcomes of reading  *)
(* it are the old event, with its vectors moved away.  wait_until returns  *)
(* timeout whenever the time has passed, also when it was notified: the    *)
(* soonest event is then not evaluated again, as the comment in            *)
(* GeneratorHub.cpp:76 says it is (SoonestEventIsHandled).                 *)
(*                                                                         *)
(* Time is relative: due is the number of ticks until an event's time, and *)
(* negative when the thread is late, by no more than MaxLate.  What the    *)
(* callback mOnHalEvent does is left to the module that composes the hub   *)
(* with a HAL: it takes hubPc from "handling" to "handled".                *)
(***************************************************************************)
EXTENDS FakeValueGenerator, FiniteSets, SequencesExt, Maps

CONSTANTS
    Cookies,
    MaxLate   \* bound: ticks by which the hub's thread may be late

ASSUME MaxLateAssumption == MaxLate \in Nat

VARIABLES
    mGenerators,   \* cookie -> generator
    mEventQueue,   \* the heap: its first element, then the others by time
    capacity,      \* of the vector below the heap
    hubPc,
    curEvent,      \* the event that the thread waits for or handles
    grown,         \* the vector has grown since the wait began
    notified,      \* mCond was notified since the wait began
    overtaken,     \* history: cookies whose only event was popped in place
                   \* of the one that was handled
    surplus        \* history: events queued beside one of the same cookie

hubVars == <<mGenerators, mEventQueue, capacity, hubPc, curEvent, grown,
             notified, overtaken, surplus>>

NoEvent == [cookie |-> "none", prop |-> "none", areaId |-> "0", value |-> <<>>, due |-> 0]
Moved(event) == [event EXCEPT !.value = <<>>]

HubInit ==
    /\ mGenerators = <<>>
    /\ mEventQueue = <<>>
    /\ capacity = 0
    /\ hubPc = "start"
    /\ curEvent = NoEvent
    /\ grown = FALSE
    /\ notified = FALSE
    /\ overtaken = {}
    /\ surplus = [c \in Cookies |-> 0]

mLockIsFree == hubPc \in {"start", "empty", "timed"}

EventOf(c, g) ==
    LET e == nextEvent(g)
    IN  [cookie |-> c, prop |-> e.prop, areaId |-> e.areaId, value |-> e.value,
         due |-> e.delay]

-----------------------------------------------------------------------------
\* std::priority_queue: a new event comes behind those of its time, but when
\* the first is popped any of the next time may take its place.

Queued(c) == {i \in DOMAIN mEventQueue : mEventQueue[i].cookie = c}

\* Mutant of Push: the latest event comes first.
LatestFirst(q, e) == InsertAt(q, Cardinality({i \in DOMAIN q : q[i].due >= e.due}) + 1, e)

Push(q, e) == InsertAt(q, Cardinality({i \in DOMAIN q : q[i].due <= e.due}) + 1, e)

Popped(q) ==
    LET rest == Tail(q)
    IN  IF rest = <<>> THEN {<<>>}
        ELSE {<<rest[i]>> \o RemoveAt(rest, i) :
                i \in {j \in DOMAIN rest : rest[j].due = rest[1].due}}

Grown(length) == length > capacity
GrownCapacity(length) ==
    IF ~Grown(length) THEN capacity ELSE IF capacity = 0 THEN 1 ELSE 2 * capacity

-----------------------------------------------------------------------------
\* A new cookie queues its first event; a known one only gets the new
\* generator, and the event of the old one stays queued.
registerGenerator(c, g) ==
    LET new == hasNext(g) /\ c \notin DOMAIN mGenerators
    IN  /\ mLockIsFree
        /\ mEventQueue' = IF new THEN Push(mEventQueue, EventOf(c, g)) ELSE mEventQueue
        /\ mGenerators' = IF ~hasNext(g) THEN mGenerators
                          ELSE Put(mGenerators, c, IF new THEN Advanced(g) ELSE g)
        /\ capacity' = GrownCapacity(Len(mEventQueue'))
        /\ grown' = (hubPc = "timed" /\ (grown \/ Grown(Len(mEventQueue'))))
        /\ notified' = (hubPc = "timed")
        /\ surplus' = [surplus EXCEPT ![c] = IF new /\ Queued(c) # {} THEN @ + 1 ELSE @]
        /\ overtaken' = IF new THEN overtaken \ {c} ELSE overtaken
        /\ UNCHANGED <<hubPc, curEvent>>

unregisterGenerator(c) ==
    /\ mLockIsFree
    /\ mGenerators' = Restrict(mGenerators, DOMAIN mGenerators \ {c})
    /\ notified' = (hubPc = "timed")
    /\ UNCHANGED <<mEventQueue, capacity, hubPc, curEvent, grown, overtaken, surplus>>

-----------------------------------------------------------------------------
\* run

Scanning == hubPc \in {"start", "scan"}
FrontIsDead ==
    mEventQueue # <<>> /\ Head(mEventQueue).cookie \notin DOMAIN mGenerators

\* The first loop pops the events without a generator, and only those that
\* come to the front.
PopDeadEvent ==
    /\ Scanning
    /\ FrontIsDead
    /\ mEventQueue' \in Popped(mEventQueue)
    /\ hubPc' = "scan"
    /\ UNCHANGED <<mGenerators, capacity, curEvent, grown, notified, overtaken, surplus>>

WaitForEvents ==
    /\ Scanning
    /\ mEventQueue = <<>>
    /\ hubPc' = "empty"
    /\ UNCHANGED <<mGenerators, mEventQueue, capacity, curEvent, grown, notified,
                   overtaken, surplus>>

\* After the wait for a nonempty queue the front is not looked at again.
WaitForEventTime ==
    /\ \/ Scanning /\ mEventQueue # <<>> /\ ~FrontIsDead
       \/ hubPc = "empty" /\ mEventQueue # <<>>
    /\ hubPc' = "timed"
    /\ curEvent' = Head(mEventQueue)
    /\ grown' = FALSE
    /\ notified' = FALSE
    /\ UNCHANGED <<mGenerators, mEventQueue, capacity, overtaken, surplus>>

LeavesWait == curEvent' = NoEvent /\ grown' = FALSE /\ notified' = FALSE

WakeEarly ==
    /\ hubPc = "timed"
    /\ notified
    /\ curEvent.due > 0
    /\ hubPc' = "start"
    /\ LeavesWait
    /\ UNCHANGED <<mGenerators, mEventQueue, capacity, overtaken, surplus>>

Timeout ==
    /\ hubPc = "timed"
    /\ curEvent.due <= 0
    /\ hubPc' = "handling"
    /\ curEvent' = IF grown THEN Moved(curEvent) ELSE Head(mEventQueue)
    /\ UNCHANGED <<mGenerators, mEventQueue, capacity, grown, notified, overtaken, surplus>>

\* Mutant of NextEvent: the generator that ended stays registered.
KeepsEnded ==
    /\ hubPc = "handled"
    /\ \E q \in Popped(mEventQueue) :
          LET c == curEvent.cookie
          IN  IF c \in DOMAIN mGenerators /\ hasNext(mGenerators[c])
              THEN /\ mEventQueue' = Push(q, EventOf(c, mGenerators[c]))
                   /\ mGenerators' = [mGenerators EXCEPT ![c] = Advanced(@)]
              ELSE mEventQueue' = q /\ UNCHANGED mGenerators
    /\ hubPc' = "start"
    /\ LeavesWait
    /\ UNCHANGED <<capacity, overtaken, surplus>>

\* What is popped is the first event now, whichever was handled.
NextEvent ==
    LET c == curEvent.cookie
        front == Head(mEventQueue).cookie
        goesOn == c \in DOMAIN mGenerators /\ hasNext(mGenerators[c])
    IN  /\ hubPc = "handled"
        /\ \E q \in Popped(mEventQueue) :
              IF goesOn
              THEN /\ mEventQueue' = Push(q, EventOf(c, mGenerators[c]))
                   /\ mGenerators' = [mGenerators EXCEPT ![c] = Advanced(@)]
              ELSE /\ mEventQueue' = q
                   /\ mGenerators' = Restrict(mGenerators, DOMAIN mGenerators \ {c})
        /\ overtaken' = (IF Cardinality(Queued(front)) = 1 THEN overtaken \cup {front}
                         ELSE overtaken) \ {c}
        /\ surplus' = IF goesOn /\ front # c THEN [surplus EXCEPT ![c] = @ + 1]
                      ELSE surplus
        /\ hubPc' = "start"
        /\ LeavesWait
        /\ UNCHANGED capacity

HubThread ==
    \/ PopDeadEvent \/ WaitForEvents \/ WaitForEventTime
    \/ WakeEarly \/ Timeout \/ NextEvent

Earlier(event) == [event EXCEPT !.due = @ - 1]

Tick ==
    /\ \A i \in DOMAIN mEventQueue : mEventQueue[i].due > -MaxLate
    /\ hubPc = "timed" => curEvent.due > -MaxLate
    /\ mEventQueue # <<>>
    /\ mEventQueue' = [i \in DOMAIN mEventQueue |-> Earlier(mEventQueue[i])]
    /\ curEvent' = IF hubPc = "timed" THEN Earlier(curEvent) ELSE curEvent
    /\ UNCHANGED <<mGenerators, capacity, hubPc, grown, notified, overtaken, surplus>>

=============================================================================
