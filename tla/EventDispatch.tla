--------------------------- MODULE EventDispatch ---------------------------
(***************************************************************************)
(* The way of a value through VehicleHalManager: from IVehicle::set, or a  *)
(* HAL thread, over an object of VehiclePropValuePool and the event queue, *)
(* to the callbacks of the subscribed clients.                             *)
(*                                                                         *)
(* Binder threads announce a set to the clients that listen for sets       *)
(* before they call the HAL; the HAL copies a value into a pooled object   *)
(* and pushes it.  The batching thread hands batches to onBatchHalEvent,   *)
(* which copies values shallowly into slots that all its calls share:      *)
(* what a client reads is still in the pooled object, and objects go back  *)
(* to their pool when the batch has been handled.                          *)
(*                                                                         *)
(* stray: the value has data in a vector that its type does not use, as a  *)
(* value that the emulator's peer sends may.                               *)
(*                                                                         *)
(* The queue is the FIFO of EventChannel, subscriptions are the flags that *)
(* SubscriptionManager keeps, and the HAL accepts or refuses a set as it   *)
(* likes.  External: a callback reaches its client in the order of the     *)
(* calls, whichever thread makes them.                                     *)
(***************************************************************************)
EXTENDS Naturals, SequencesExt, Selection

CONSTANTS
    Clients, Binders, HalThreads,
    Config,        \* [type, access, changeMode] of the properties of the HAL
    ClientValues,  \* values that clients set: [prop, areaId, size, stray]
    HalValues,     \* values that the HAL sends by itself or returns
    Objects,       \* bound: the objects on the heap, numbered
    SlotCount,     \* kMaxHidlVecOfVehiclPropValuePoolSize, 20 in the code
    mMaxRecyclableVectorSize,
    MaxCalls,      \* bound: calls and events of the HAL
    MaxChanges     \* bound: calls of subscribe and unsubscribe

ASSUME ThreadsAssumption == Binders \cap HalThreads = {}
ASSUME ClientsAssumption == IsFiniteSet(Clients)
ASSUME ObjectsAssumption == Objects \subseteq Nat \ {0}
ASSUME SizesAssumption ==
    {SlotCount, mMaxRecyclableVectorSize, MaxCalls, MaxChanges} \subseteq Nat

VARIABLES
    flags,          \* SubscribeFlags of each client for each property
    object,         \* the VehiclePropValue in each object
    home,           \* the InternalPool of each object
    mValueTypePools,
    pc, value, audience, held,       \* of each thread
    mEventQueue,
    consumer,       \* what the batching thread does
    batch, clientValues, slots, vec,
    delivered,      \* calls of each client's callback
    calls, changes,
    pushed,         \* history: the values pushed, and by whom
    distributed,    \* history: how many of them have been distributed
    from            \* history: distributed and calls when a client subscribed

threadVars == <<pc, value, audience, held>>
poolVars == <<object, home, mValueTypePools>>
consumerVars == <<consumer, batch, clientValues, slots, vec>>
historyVars == <<pushed, distributed, from>>
vars == <<flags, poolVars, threadVars, mEventQueue, consumerVars, delivered, calls, changes,
          historyVars>>

Threads == Binders \cup HalThreads
Props == DOMAIN Config
NoObject == 0
Disposable == <<"DISPOSABLE", 0>>
Pools == {Config[p].type : p \in Props} \X (0 .. mMaxRecyclableVectorSize)

NoValue == [prop |-> "INVALID", areaId |-> 0, timestamp |-> 0, size |-> 0, stray |-> FALSE,
            data |-> 0]

Init ==
    /\ flags = [c \in Clients |-> [p \in Props |-> {}]]
    /\ object = [o \in Objects |-> NoValue]
    /\ home = [o \in Objects |-> Disposable]
    /\ mValueTypePools = [pool \in Pools |-> <<>>]
    /\ pc = [t \in Threads |-> "idle"]
    /\ value = [t \in Threads |-> NoValue]
    /\ audience = [t \in Threads |-> {}]
    /\ held = [t \in Threads |-> NoObject]
    /\ mEventQueue = <<>>
    /\ consumer = "waits"
    /\ batch = <<>>
    /\ clientValues = <<>>
    /\ slots = [i \in 1 .. SlotCount |-> [copy |-> NoValue, ref |-> NoObject]]
    /\ vec = <<>>
    /\ delivered = [c \in Clients |-> <<>>]
    /\ calls = 0
    /\ changes = 0
    /\ pushed = <<>>
    /\ distributed = 0
    /\ from = [c \in Clients |-> [p \in Props |-> [events |-> 0, calls |-> 0]]]

-----------------------------------------------------------------------------
\* SubscriptionManager, as far as the dispatch of values sees it.

Subscribe(c) ==
    /\ changes < MaxChanges
    /\ changes' = changes + 1
    /\ \E p \in Props, fs \in SUBSET {"CAR", "ANDROID"} \ {{}} :
          LET new == fs \ flags[c][p]
          IN  /\ Config[p].changeMode # "STATIC"
              /\ flags' = [flags EXCEPT ![c][p] = @ \cup fs]
              /\ from' = [from EXCEPT
                     ![c][p].events = IF "CAR" \in new THEN distributed ELSE @,
                     ![c][p].calls = IF "ANDROID" \in new THEN calls ELSE @]
    /\ UNCHANGED <<poolVars, threadVars, mEventQueue, consumerVars, delivered, calls, pushed,
                   distributed>>

Unsubscribe(c) ==
    /\ changes < MaxChanges
    /\ changes' = changes + 1
    /\ \E p \in Props :
          /\ flags[c][p] # {}
          /\ flags' = [flags EXCEPT ![c][p] = {}]
    /\ UNCHANGED <<poolVars, threadVars, mEventQueue, consumerVars, delivered, calls,
                   historyVars>>

\* getSubscribedClientsLocked.
SubscribedClients(p, flag) == {c \in Clients : flag \in flags[c][p]}

-----------------------------------------------------------------------------
\* VehiclePropValuePool.

IsDisposable(type, size) ==
    size > mMaxRecyclableVectorSize \/ type \in {"STRING", "MIXED"}

HomeOf(v) ==
    LET type == Config[v.prop].type
    IN  IF IsDisposable(type, v.size) THEN Disposable ELSE <<type, v.size>>

InUse ==
    {held[t] : t \in Threads} \cup ToSet(mEventQueue) \cup ToSet(batch)
    \cup UNION {ToSet(mValueTypePools[pool]) : pool \in Pools}
Heap == Objects \ InUse
NewObject == CHOOSE o \in Heap : \A other \in Heap : o <= other

\* Mutant of Filled: the area of the last use of the object stays.
KeepsArea(old, v) == [v EXCEPT !.areaId = IF old.prop = "INVALID" THEN @ ELSE old.areaId]

\* What obtain(src) assigns.
Filled(old, v) == v

\* obtain(src): the object that waits longest in its pool, or a new one.
Obtain(t, v) ==
    LET pool == HomeOf(v)
        waits == pool \in Pools /\ mValueTypePools[pool] # <<>>
        o == IF waits THEN Head(mValueTypePools[pool]) ELSE NewObject
        old == IF waits THEN object[o] ELSE NoValue
    IN  /\ waits \/ Heap # {}
        /\ held' = [held EXCEPT ![t] = o]
        /\ object' = [object EXCEPT ![o] = Filled(old, v)]
        /\ home' = [home EXCEPT ![o] = pool]
        /\ mValueTypePools' = IF waits THEN [mValueTypePools EXCEPT ![pool] = Tail(@)]
                              ELSE mValueTypePools

\* InternalPool::check: only the vector of the type has data, as much as the
\* objects of this pool have.
Fits(o) == home[o] # Disposable /\ object[o].size = home[o][2] /\ ~object[o].stray

\* The deleter of every object in os: back to its pool, or off the heap.
Recycle(os) ==
    LET back == Selected(os, {o \in ToSet(os) : Fits(o)})
        deleted == ToSet(os) \ ToSet(back)
    IN  /\ mValueTypePools' = [pool \in Pools |->
               mValueTypePools[pool] \o Selected(back, {o \in ToSet(back) : home[o] = pool})]
        /\ object' = [o \in Objects |-> IF o \in deleted THEN NoValue ELSE object[o]]
        /\ home' = [o \in Objects |-> IF o \in deleted THEN Disposable ELSE home[o]]

-----------------------------------------------------------------------------
\* VehicleHalManager::get and set.  Without a configuration, or without the
\* access, the call returns before it changes anything.

Permitted(v, access) == v.prop \in Props /\ access \in Config[v.prop].access

\* The serial number of a value stands for its timestamp and its data.
Stamped(v) ==
    [prop |-> v.prop, areaId |-> v.areaId, timestamp |-> calls + 1, size |-> v.size,
     stray |-> v.stray, data |-> calls + 1]

Call == calls < MaxCalls /\ calls' = calls + 1

\* mHal->get returns a pooled copy of what the HAL has stored.
Get(t) ==
    /\ t \in Binders
    /\ pc[t] = "idle"
    /\ Call
    /\ \E v \in HalValues : Permitted(v, "READ") /\ Obtain(t, Stamped(v))
    /\ pc' = [pc EXCEPT ![t] = "reply"]
    /\ UNCHANGED <<flags, value, audience, mEventQueue, consumerVars, delivered, changes,
                   historyVars>>

Reply(t) ==
    /\ pc[t] = "reply"
    /\ Recycle(<<held[t]>>)
    /\ held' = [held EXCEPT ![t] = NoObject]
    /\ pc' = [pc EXCEPT ![t] = "idle"]
    /\ UNCHANGED <<flags, value, audience, mEventQueue, consumerVars, delivered,
                   calls, changes, historyVars>>

\* handlePropertySetEvent finds the clients to announce the set to ...
Set(t) ==
    /\ t \in Binders
    /\ pc[t] = "idle"
    /\ Call
    /\ \E v \in ClientValues :
          /\ Permitted(v, "WRITE")
          /\ value' = [value EXCEPT ![t] = Stamped(v)]
          /\ audience' = [audience EXCEPT ![t] = SubscribedClients(v.prop, "ANDROID")]
    /\ pc' = [pc EXCEPT ![t] = "set"]
    /\ UNCHANGED <<flags, poolVars, held, mEventQueue, consumerVars, delivered, changes,
                   historyVars>>

\* ... and calls one after the other.
OnPropertySet(t) ==
    /\ pc[t] = "set"
    /\ \E c \in audience[t] :
          /\ delivered' = [delivered EXCEPT ![c] = Append(@, <<"set", value[t]>>)]
          /\ audience' = [audience EXCEPT ![t] = @ \ {c}]
    /\ UNCHANGED <<flags, poolVars, pc, value, held, mEventQueue, consumerVars, calls, changes,
                   historyVars>>

\* Mutant of CallsHal: does not wait for the announcements.
CallsHalAtOnce(t) == pc[t] = "set"

CallsHal(t) == pc[t] = "set" /\ audience[t] = {}

\* mHal->set returns an error: nobody is told.
HalRefuses(t) ==
    /\ t \in Binders
    /\ CallsHal(t)
    /\ pc' = [pc EXCEPT ![t] = "idle"]
    /\ value' = [value EXCEPT ![t] = NoValue]
    /\ UNCHANGED <<flags, poolVars, audience, held, mEventQueue, consumerVars, delivered, calls,
                   changes, historyVars>>

\* A value of the HAL's own: a generator's, the server's, a timer's.
HalProduces(t) ==
    /\ t \in HalThreads
    /\ pc[t] = "idle"
    /\ Call
    /\ \E v \in HalValues : value' = [value EXCEPT ![t] = Stamped(v)]
    /\ pc' = [pc EXCEPT ![t] = "set"]
    /\ UNCHANGED <<flags, poolVars, audience, held, mEventQueue, consumerVars, delivered,
                   changes, historyVars>>

HalObtains(t) ==
    /\ CallsHal(t)
    /\ Obtain(t, value[t])
    /\ pc' = [pc EXCEPT ![t] = "push"]
    /\ UNCHANGED <<flags, value, audience, mEventQueue, consumerVars, delivered, calls, changes,
                   historyVars>>

\* doHalEvent, onHalEvent.
OnHalEvent(t) ==
    /\ pc[t] = "push"
    /\ mEventQueue' = Append(mEventQueue, held[t])
    /\ pushed' = Append(pushed, [by |-> t, value |-> value[t]])
    /\ held' = [held EXCEPT ![t] = NoObject]
    /\ pc' = [pc EXCEPT ![t] = "idle"]
    /\ value' = [value EXCEPT ![t] = NoValue]
    /\ UNCHANGED <<flags, poolVars, audience, consumerVars, delivered, calls, changes,
                   distributed, from>>

-----------------------------------------------------------------------------
\* The batching thread, in onBatchHalEvent.

TakeBatch ==
    /\ consumer = "waits"
    /\ mEventQueue # <<>>
    /\ consumer' = "distributes"
    /\ batch' = mEventQueue
    /\ mEventQueue' = <<>>
    /\ UNCHANGED <<flags, poolVars, threadVars, clientValues, slots, vec, delivered, calls, changes,
                   historyVars>>

\* distributeValuesToClients, in one critical section of the manager.  The
\* map is ordered by address: the clients come in any order.
DistributeValuesToClients ==
    /\ consumer = "distributes"
    /\ consumer' = "calls"
    /\ LET valuesOf(c) ==
               Selected(batch, {o \in ToSet(batch) : c \in SubscribedClients(object[o].prop, "CAR")})
           receivers == {c \in Clients : valuesOf(c) # <<>>}
       IN  \E order \in SetToSeqs(receivers) :
              clientValues' = [i \in DOMAIN order |->
                                 [client |-> order[i], values |-> valuesOf(order[i])]]
    /\ distributed' = distributed + Len(batch)
    /\ UNCHANGED <<flags, poolVars, threadVars, mEventQueue, batch, slots, vec, delivered, calls,
                   changes, pushed, from>>

\* shallowCopy.
ShallowCopies(values) ==
    [i \in DOMAIN values |-> [copy |-> object[values[i]], ref |-> values[i]]]

\* A list that is as long as the slots gets a vector of its own.
CopyValues ==
    /\ clientValues # <<>>
    /\ vec = <<>>
    /\ LET copies == ShallowCopies(Head(clientValues).values)
       IN  IF Len(copies) < SlotCount
           THEN /\ slots' = copies \o SubSeq(slots, Len(copies) + 1, SlotCount)
                /\ vec' = SubSeq(slots', 1, Len(copies))
           ELSE /\ vec' = copies
                /\ UNCHANGED slots
    /\ UNCHANGED <<flags, poolVars, threadVars, mEventQueue, consumer, batch, clientValues,
                   delivered, calls, changes, historyVars>>

\* The callback reads the data through the copies.
OnPropertyEvent ==
    /\ vec # <<>>
    /\ LET c == Head(clientValues).client
       IN  delivered' = [delivered EXCEPT ![c] =
                             @ \o [i \in DOMAIN vec |->
                                     <<"event", [vec[i].copy EXCEPT
                                                    !.data = object[vec[i].ref].data]>>]]
    /\ vec' = <<>>
    /\ clientValues' = Tail(clientValues)
    /\ UNCHANGED <<flags, poolVars, threadVars, mEventQueue, consumer, batch, slots, calls,
                   changes, historyVars>>

ReleaseBatch ==
    /\ consumer = "calls"
    /\ clientValues = <<>>
    /\ consumer' = "waits"
    /\ Recycle(batch)
    /\ batch' = <<>>
    /\ UNCHANGED <<flags, threadVars, mEventQueue, clientValues, slots, vec,
                   delivered, calls, changes, historyVars>>

-----------------------------------------------------------------------------
Thread(t) ==
    \/ Get(t) \/ Reply(t)
    \/ Set(t) \/ OnPropertySet(t) \/ HalRefuses(t)
    \/ HalProduces(t) \/ HalObtains(t) \/ OnHalEvent(t)

BatchingThread ==
    \/ TakeBatch \/ DistributeValuesToClients \/ CopyValues \/ OnPropertyEvent \/ ReleaseBatch

Next ==
    \/ \E c \in Clients : Subscribe(c) \/ Unsubscribe(c)
    \/ \E t \in Threads : Thread(t)
    \/ BatchingThread

Spec == Init /\ [][Next]_vars

-----------------------------------------------------------------------------
Sent == [i \in DOMAIN pushed |-> pushed[i].value]
OfProp(values, p) == Selected(values, {v \in ToSet(values) : v.prop = p})

\* The values of a client's property events.
Events(c) ==
    LET events == Selected(delivered[c], {call \in ToSet(delivered[c]) : call[1] = "event"})
    IN  [i \in DOMAIN events |-> events[i][2]]

\* Every client gets what the HAL pushed, in that order, each value once and
\* in every field, although objects and slots are used again while it is on
\* its way; and, when no batch is being handled, all of what was distributed
\* since it subscribed.  VehicleHalManager.cpp:226-252,
\* VehicleObjectPool.cpp:37-54, VehicleObjectPool.h:80-104.
DeliveredAsSent ==
    \A c \in Clients :
        /\ Events(c) = Selected(Sent, ToSet(Events(c)))
        /\ consumer = "waits" =>
              \A p \in Props :
                  "CAR" \in flags[c][p] =>
                      IsSuffix(OfProp(SubSeq(Sent, from[c][p].events + 1, distributed), p),
                               OfProp(Events(c), p))

\* A client that listens for sets and for events of a property learns of a
\* set before it gets the event of the value, on whichever threads both come.
\* VehicleHalManager.cpp:113-115.
SetIsAnnouncedFirst ==
    \A c \in Clients, j \in DOMAIN pushed :
        LET v == pushed[j].value
        IN  /\ pushed[j].by \in Binders
            /\ "ANDROID" \in flags[c][v.prop]
            /\ from[c][v.prop].calls < v.timestamp
            => \A i \in DOMAIN delivered[c] :
                  delivered[c][i] = <<"event", v>> =>
                      \E k \in 1 .. i - 1 : delivered[c][k] = <<"set", v>>

=============================================================================
