------------------------ MODULE EmulatedVehicleHal ------------------------
(***************************************************************************)
(* EmulatedVehicleHal: clients set properties from binder threads, the     *)
(* vehicle side sets them from the read threads of the emulator's          *)
(* connections, the hub's thread from fake value generators, and the       *)
(* recurrent timer sends the continuous ones.  They share nothing but the  *)
(* property store, whose methods are atomic: every handler is a sequence   *)
(* of them.                                                                *)
(*                                                                         *)
(* get takes one step and changes nothing: it is the operator Get.  What   *)
(* set tells the emulator is EmulatorConnections, and the way of an event  *)
(* to the clients, which keeps the order of doHalEvent, EventDispatch.     *)
(* The model starts when init has returned.                                *)
(***************************************************************************)
EXTENDS GeneratorHub, VehiclePropertyStore

CONSTANTS
    Clients,           \* binder threads
    Vehicles,          \* read threads of the emulator's connections
    Watched,           \* the configured properties that the instance looks at
    ClientRequests,    \* what clients set
    VehicleRequests,   \* what the vehicle side sets
    CommandOf,         \* the command that the value of a fake data request is
    Nobody,            \* no request
    MaxCalls           \* bound: calls of set, subscribe and unsubscribe

ASSUME MaxCallsAssumption == MaxCalls \in Nat
ASSUME ThreadsAssumption == Clients \cap Vehicles = {}

VARIABLES
    mPropStore,
    pc, request,       \* of each client and vehicle thread
    sampled,           \* the cookies of mRecurrentTimer
    timerTodo,         \* the properties left of a timer callback
    timerHand,         \* the value read for the next event
    lastEvent,         \* for each record, the value of its last event
    calls,             \* counts up to MaxCalls
    overlapped,        \* history: see LastEventIsStored
    permitted          \* history: see SetsWerePermitted

callVars == <<pc, request>>
timerVars == <<sampled, timerTodo, timerHand>>
vars == <<hubVars, mPropStore, callVars, timerVars, lastEvent, calls, overlapped,
          permitted>>

Threads == Clients \cup Vehicles

FREEZE_FRAME == "OBD2_FREEZE_FRAME"
kHvacPowerProperties == {"HVAC_FAN_SPEED", "HVAC_FAN_DIRECTION"}

Value(prop, area, status, value) ==
    [prop |-> prop, areaId |-> area, timestamp |-> 0, status |-> status,
     value |-> value]

-----------------------------------------------------------------------------
\* Construction and onCreate.

\* Only freeze frames have a token function.
initStaticConfig ==
    [i \in DOMAIN kVehicleProperties |->
        Registration(kVehicleProperties[i], kVehicleProperties[i].prop = FREEZE_FRAME)]

\* The constructor registers everything once more, without token functions.
mConfigs ==
    Registered(initStaticConfig \o [i \in DOMAIN kVehicleProperties |->
                                       Registration(kVehicleProperties[i], FALSE)])

ASSUME WatchedAssumption ==
    /\ Watched \subseteq DOMAIN mConfigs
    /\ \A v \in ClientRequests \cup VehicleRequests : v.prop \in Watched

isDiagnosticProperty(prop) ==
    prop \in {"OBD2_LIVE_FRAME", FREEZE_FRAME, "OBD2_FREEZE_FRAME_CLEAR",
              "OBD2_FREEZE_FRAME_INFO"}

\* One value for every area, or one for each: an area that is missing there
\* gets an empty value, not the common one.
InitialValue(row, area) ==
    IF DOMAIN row.initialAreaValues = {} THEN row.initialValue
    ELSE IF area \in DOMAIN row.initialAreaValues THEN row.initialAreaValues[area]
    ELSE <<>>

\* Mutant of AreasToCreate: a global property is not given its one area.
ListedAreas(row) == row.areaConfigs

AreasToCreate(row) == IF isGlobalProp(row) THEN {GlobalArea} ELSE row.areaConfigs

InitialIds ==
    UNION {{[prop |-> prop, area |-> area, token |-> 0] :
               area \in AreasToCreate(mConfigs[prop].row)} : prop \in DOMAIN mConfigs}

\* The property that is listed twice is written twice, with the same value.
InitialRecords ==
    [id \in {i \in InitialIds : ~isDiagnosticProperty(i.prop)} |->
        Value(id.prop, id.area, "AVAILABLE", InitialValue(mConfigs[id.prop].row, id.area))]

\* The sensor values of fillDefaultObd2Frame, all constants, and a code.
DefaultObd2Frame(prop, dtc, timestamp) ==
    [Value(prop, GlobalArea, "AVAILABLE", <<"defaultSensors", dtc>>)
        EXCEPT !.timestamp = timestamp]

\* Two literals without a comma between them are one trouble code.
sampleDtcs == <<"P0070", "P0102P0123">>

onCreate ==
    LET live == writeValue(mConfigs, InitialRecords,
                           DefaultObd2Frame("OBD2_LIVE_FRAME", "", 1), TRUE)
        frame(i) == DefaultObd2Frame(FREEZE_FRAME, sampleDtcs[i], i)
    IN  writeValue(mConfigs, writeValue(mConfigs, live, frame(1), TRUE), frame(2), TRUE)

\* The configurations and initial records of what the instance looks at.
Restricted(records) ==
    Restrict(records, {id \in DOMAIN records : id.prop \in Watched})

NoPermit == [available |-> FALSE, powered |-> FALSE]

Init ==
    /\ HubInit
    /\ mPropStore = Restricted(onCreate)
    /\ pc = [t \in Threads |-> "idle"]
    /\ request = [t \in Threads |-> Nobody]
    /\ sampled = {}
    /\ timerTodo = {}
    /\ timerHand = Nobody
    /\ lastEvent = [id \in DOMAIN Restricted(onCreate) |-> onCreate[id].value]
    /\ calls = 0
    /\ overlapped = {}
    /\ permitted = [c \in Clients |-> NoPermit]

-----------------------------------------------------------------------------
IdOf(v) == RecordId(mConfigs, v)
ReadValueOrNull(v) == IF Holds(mPropStore, IdOf(v)) THEN {mPropStore[IdOf(v)]} ELSE {}
Store(v, updateStatus) ==
    mPropStore' = writeValue(mConfigs, mPropStore, v, updateStatus)

doHalEvent(v) == lastEvent' = Put(lastEvent, IdOf(v), v.value)

\* get, for the properties with a case of their own and for the others.
fillObd2FreezeFrame(timestamp) ==
    ReadValueOrNull(DefaultObd2Frame(FREEZE_FRAME, "", timestamp))

fillObd2DtcInfo ==
    LET frames == readValuesForProperty(mPropStore, FREEZE_FRAME)
    IN  [i \in DOMAIN frames |-> frames[i].timestamp]

Get(v) ==
    IF v.prop = FREEZE_FRAME THEN fillObd2FreezeFrame(v.timestamp)
    ELSE IF v.prop = "OBD2_FREEZE_FRAME_INFO"
         THEN {Value(v.prop, GlobalArea, "AVAILABLE", fillObd2DtcInfo)}
         ELSE ReadValueOrNull(v)

-----------------------------------------------------------------------------
\* handleGenerateFakeDataRequest.  A command that lacks an argument is refused;
\* KeyPress sends two events of a property that is not written.

Command(v) == CommandOf[v.value[1]]
WellFormed(v) == v.value # <<>> /\ Command(v).complete
KeyEvents == Value("HW_KEY_INPUT", GlobalArea, "AVAILABLE", <<"ACTION_UP">>)

HandleCommand(v) ==
    \/ /\ Command(v).name = "Start"
       /\ registerGenerator(Command(v).cookie, Command(v).generator)
       /\ UNCHANGED lastEvent
    \/ /\ Command(v).name = "Stop"
       /\ unregisterGenerator(Command(v).cookie)
       /\ UNCHANGED lastEvent
    \/ /\ Command(v).name = "KeyPress"
       /\ doHalEvent(KeyEvents)
       /\ UNCHANGED hubVars

MovesTo(t, v, place) ==
    /\ pc' = [pc EXCEPT ![t] = place]
    /\ request' = [request EXCEPT ![t] = IF place = "idle" THEN Nobody ELSE v]

\* A refused command changes nothing, and its caller goes back to "idle".
handleGenerateFakeDataRequest(t, v, place) ==
    IF WellFormed(v) THEN HandleCommand(v) /\ MovesTo(t, v, place)
    ELSE UNCHANGED <<hubVars, lastEvent, callVars>>

-----------------------------------------------------------------------------
\* set: the step that looks at the property, then the checks of the status,
\* the write, and the event, each beside whatever other threads do.

IsFan(v) == v.prop \in kHvacPowerProperties
IsCommand(v) == v.prop = "GENERATE_FAKE_DATA"
PowerIsOff(records) ==
    \E id \in DOMAIN records :
        id.prop = "HVAC_POWER_ON" /\ id.area = "HVAC_ALL" /\ records[id].value = <<0>>

\* Mutant of FanIsRefused: a fan can be set whatever the power.
NeverRefused(v) == FALSE

FanIsRefused(v) == IsFan(v) /\ PowerIsOff(mPropStore)

PowerReply(report) ==
    IF report \in {"DEEP_SLEEP_EXIT", "SHUTDOWN_CANCELLED", "WAIT_FOR_VHAL"} THEN {"ON"}
    ELSE IF report \in {"DEEP_SLEEP_ENTRY", "SHUTDOWN_START"} THEN {"FINISHED"}
    ELSE {}

\* The request to change the state of the power is an event, never written.
ReplyToPowerReport(v) ==
    IF v.prop = "AP_POWER_STATE_REPORT" /\ PowerReply(Head(v.value)) # {}
    THEN \E state \in PowerReply(Head(v.value)) :
            doHalEvent(Value("AP_POWER_STATE_REQ", GlobalArea, "AVAILABLE", <<state, 0>>))
    ELSE UNCHANGED lastEvent

\* These two return before the checks.
HasOwnReturn(v) == v.prop \in {"VEHICLE_MAP_SERVICE", "OBD2_FREEZE_FRAME_CLEAR"}

MayStart(t) ==
    /\ calls < MaxCalls
    /\ calls' = calls + 1
    /\ pc[t] = "idle"

SetCommand(t, v) ==
    /\ IsCommand(v)
    /\ MayStart(t)
    /\ handleGenerateFakeDataRequest(t, v, "check")
    /\ UNCHANGED <<mPropStore, timerVars, overlapped>>

SetProperty(t, v) ==
    /\ ~IsCommand(v)
    /\ ~HasOwnReturn(v)
    /\ MayStart(t)
    /\ MovesTo(t, v, IF FanIsRefused(v) THEN "idle" ELSE "check")
    /\ ReplyToPowerReport(v)
    /\ UNCHANGED <<hubVars, mPropStore, timerVars, overlapped>>

\* Without a timestamp every freeze frame goes at once; otherwise those of
\* the list, one by one, up to the first that is unknown.
ClearFreezeFrames(t, v) ==
    /\ v.prop = "OBD2_FREEZE_FRAME_CLEAR"
    /\ MayStart(t)
    /\ IF v.value = <<>>
       THEN /\ mPropStore' = removeValuesForProperty(mPropStore, FREEZE_FRAME)
            /\ UNCHANGED callVars
       ELSE MovesTo(t, v, "find") /\ UNCHANGED mPropStore
    /\ UNCHANGED <<hubVars, timerVars, lastEvent, overlapped>>

\* Nothing is stored and no event is sent: set just returns OK.
SetMapService(t, v) ==
    /\ v.prop = "VEHICLE_MAP_SERVICE"
    /\ MayStart(t)
    /\ UNCHANGED <<hubVars, mPropStore, callVars, timerVars, lastEvent, overlapped>>

FrameAt(t) == DefaultObd2Frame(FREEZE_FRAME, "", Head(request[t].value))

FindFrame(t) ==
    /\ pc[t] = "find"
    /\ MovesTo(t, request[t], IF ReadValueOrNull(FrameAt(t)) = {} THEN "idle" ELSE "remove")
    /\ UNCHANGED <<hubVars, mPropStore, timerVars, lastEvent, calls, overlapped>>

Shortened(v) == [v EXCEPT !.value = Tail(@)]

RemoveFrame(t) ==
    /\ pc[t] = "remove"
    /\ mPropStore' = removeValue(mConfigs, mPropStore, FrameAt(t))
    /\ MovesTo(t, Shortened(request[t]),
               IF Tail(request[t].value) = <<>> THEN "idle" ELSE "find")
    /\ UNCHANGED <<hubVars, timerVars, lastEvent, calls, overlapped>>

\* Clients cannot set a status, nor a property that is not available.
MaySet(v) ==
    /\ v.status = "AVAILABLE"
    /\ \E current \in ReadValueOrNull(v) : current.status = "AVAILABLE"

CheckStatus(t) ==
    /\ pc[t] = "check"
    /\ MovesTo(t, request[t], IF MaySet(request[t]) THEN "write" ELSE "idle")
    /\ UNCHANGED <<hubVars, mPropStore, timerVars, lastEvent, calls, overlapped>>

\* onFakeValueGenerated gives every value the status AVAILABLE.
Generated == Value(curEvent.prop, curEvent.areaId, "AVAILABLE", curEvent.value)

\* Some thread has written this record and not yet sent the event.
IsPending(id) ==
    \/ \E t \in Threads : pc[t] = "notify" /\ IdOf(request[t]) = id
    \/ hubPc = "written" /\ IdOf(Generated) = id

\* A write beside a pending event of the same record: the two events may go
\* in the other order.
MarkOverlap(id) ==
    overlapped' = IF IsPending(id) THEN overlapped \cup {id} ELSE overlapped \ {id}

\* A client's write never changes the status, the vehicle's does.
WriteValue(t) ==
    /\ pc[t] = "write"
    /\ Store(request[t], t \in Vehicles)
    /\ MarkOverlap(IdOf(request[t]))
    /\ MovesTo(t, request[t], "notify")
    /\ UNCHANGED <<hubVars, timerVars, lastEvent, calls>>

\* Mutant of Notify: no event of what was set.
ForgetsEvent(t) ==
    /\ pc[t] = "notify"
    /\ MovesTo(t, request[t], "idle")
    /\ UNCHANGED <<hubVars, mPropStore, timerVars, lastEvent, calls, overlapped>>

Notify(t) ==
    /\ pc[t] = "notify"
    /\ doHalEvent(request[t])
    /\ MovesTo(t, request[t], "idle")
    /\ UNCHANGED <<hubVars, mPropStore, timerVars, calls, overlapped>>

\* setPropertyFromVehicle, which the emulator calls: no check, and the write
\* takes the status too.
SetPropertyFromVehicle(t, v) ==
    /\ MayStart(t)
    /\ IF IsCommand(v) THEN handleGenerateFakeDataRequest(t, v, "write")
       ELSE MovesTo(t, v, "write") /\ UNCHANGED <<hubVars, lastEvent>>
    /\ UNCHANGED <<mPropStore, timerVars, overlapped>>

-----------------------------------------------------------------------------
\* onFakeValueGenerated, under the hub's lock.  A linear generator names no
\* area: in a zoned property its values make a record of area 0.

WriteGenerated ==
    /\ hubPc = "handling"
    /\ Store(Generated, FALSE)
    /\ MarkOverlap(IdOf(Generated))
    /\ hubPc' = "written"
    /\ UNCHANGED <<mGenerators, mEventQueue, capacity, curEvent, grown, notified,
                   overtaken, surplus, callVars, timerVars, lastEvent, calls>>

NotifyGenerated ==
    /\ hubPc = "written"
    /\ IF mConfigs[curEvent.prop].row.changeMode = "ON_CHANGE"
       THEN doHalEvent(Generated) ELSE UNCHANGED lastEvent
    /\ hubPc' = "handled"
    /\ UNCHANGED <<mGenerators, mEventQueue, capacity, curEvent, grown, notified,
                   overtaken, surplus, mPropStore, callVars, timerVars, calls, overlapped>>

-----------------------------------------------------------------------------
\* Continuous properties.

isContinuousProperty(prop) ==
    prop \in DOMAIN mConfigs /\ mConfigs[prop].row.changeMode = "CONTINUOUS"

\* For any other property subscribe and unsubscribe change nothing.
Subscribe(t, prop) ==
    /\ isContinuousProperty(prop)
    /\ MayStart(t)
    /\ sampled' = sampled \cup {prop}
    /\ UNCHANGED <<hubVars, mPropStore, callVars, timerTodo, timerHand, lastEvent, overlapped>>

Unsubscribe(t, prop) ==
    /\ isContinuousProperty(prop)
    /\ MayStart(t)
    /\ sampled' = sampled \ {prop}
    /\ UNCHANGED <<hubVars, mPropStore, callVars, timerTodo, timerHand, lastEvent, overlapped>>

\* onContinuousPropertyTimer: the timer collected these properties earlier.
TimerCallback ==
    /\ timerTodo = {} /\ timerHand = Nobody
    /\ timerTodo' \in SUBSET sampled \ {{}}
    /\ UNCHANGED <<hubVars, mPropStore, callVars, sampled, timerHand, lastEvent, calls,
                   overlapped>>

\* Always the record of area 0: a zoned property has none.
TimerReads(prop) ==
    LET found == ReadValueOrNull(Value(prop, GlobalArea, "AVAILABLE", <<>>))
    IN  /\ timerHand = Nobody
        /\ timerTodo' = timerTodo \ {prop}
        /\ timerHand' \in IF found = {} THEN {Nobody} ELSE found
        /\ UNCHANGED <<hubVars, mPropStore, callVars, sampled, lastEvent, calls, overlapped>>

TimerNotifies ==
    /\ timerHand # Nobody
    /\ doHalEvent(timerHand)
    /\ timerHand' = Nobody
    /\ UNCHANGED <<hubVars, mPropStore, callVars, sampled, timerTodo, calls, overlapped>>

-----------------------------------------------------------------------------
EmulatorUnchanged == UNCHANGED <<mPropStore, callVars, timerVars, lastEvent, calls, overlapped>>

Continue(t) ==
    FindFrame(t) \/ RemoveFrame(t) \/ CheckStatus(t) \/ WriteValue(t) \/ Notify(t)

ClientCalls(t) ==
    \/ \E v \in ClientRequests :
          SetCommand(t, v) \/ SetProperty(t, v) \/ ClearFreezeFrames(t, v) \/ SetMapService(t, v)
    \/ \E prop \in Watched : Subscribe(t, prop) \/ Unsubscribe(t, prop)

Timer ==
    TimerCallback \/ TimerNotifies \/ \E prop \in timerTodo : TimerReads(prop)

Hub == (HubThread /\ EmulatorUnchanged) \/ WriteGenerated \/ NotifyGenerated

Steps ==
    \/ \E t \in Clients : ClientCalls(t)
    \/ \E t \in Vehicles, v \in VehicleRequests : SetPropertyFromVehicle(t, v)
    \/ \E t \in Threads : Continue(t)
    \/ Hub
    \/ Tick /\ EmulatorUnchanged
    \/ Timer

\* What the client's set would be permitted to do, had it looked now.
PermitFrom(records, v) ==
    [available |-> \E id \in DOMAIN records : id = IdOf(v) /\ records[id].status = "AVAILABLE",
     powered |-> ~(IsFan(v) /\ PowerIsOff(records))]

Either(a, b) ==
    [available |-> a.available \/ b.available, powered |-> a.powered \/ b.powered]

RecordPermits ==
    permitted' = [t \in Clients |->
        IF pc'[t] \notin {"check", "write"} THEN NoPermit
        ELSE Either(Either(permitted[t], PermitFrom(mPropStore, request'[t])),
                    PermitFrom(mPropStore', request'[t]))]

Next == Steps /\ RecordPermits

Spec == Init /\ [][Next]_vars

\* The hub's thread and the clock go on.
FairSpec ==
    /\ Spec
    /\ WF_vars(Hub /\ RecordPermits)
    /\ WF_vars(Tick /\ EmulatorUnchanged /\ RecordPermits)

-----------------------------------------------------------------------------
\* What a client writes it was permitted to write at some time of its call:
\* the property was available, and for a fan the power was on.  The checks
\* and the write are separate steps, so no more than this is true.
SetsWerePermitted ==
    \A t \in Clients :
        pc[t] = "write" => permitted[t].available /\ permitted[t].powered

\* Once nobody is about to send an event of it, the last event of a property
\* that notifies its changes carries the value that is stored, whichever of
\* the three kinds of writers wrote it.  Two writers of one record that
\* overlap are the exception: their events may go in the other order.  Key
\* presses and power requests are events that nobody stores.
\* EmulatedVehicleHal.cpp:204-209, 333-341, 455-467.
EventOnly == {"HW_KEY_INPUT", "AP_POWER_STATE_REQ"}

LastEventIsStored ==
    \A id \in DOMAIN mPropStore :
        (mConfigs[id.prop].row.changeMode = "ON_CHANGE" /\ ~IsPending(id)
            /\ id \notin overlapped /\ id.prop \notin EventOnly \cup {FREEZE_FRAME})
        => lastEvent[id] = mPropStore[id].value

\* A freeze frame is kept, beside the frames that come later, until it is
\* cleared by its timestamp or with all the others.
Listed == {mPropStore[id].timestamp : id \in RecordsOf(mPropStore, FREEZE_FRAME)}
FramesStayUntilCleared ==
    [][\A timestamp \in Listed \ Listed' :
            \/ Listed' = {}
            \/ \E t \in Clients : pc[t] = "remove" /\ Head(request[t].value) = timestamp]_mPropStore

\* What a client may read, but for the freeze frames, which need a timestamp.
Readable ==
    {prop \in Watched \ {FREEZE_FRAME} : mConfigs[prop].row.access # "WRITE"}

\* get answers for each area of every property that a client may read, from
\* the start and for ever.
ReadablePropertiesAnswer ==
    \A prop \in Readable :
        LET areas == mConfigs[prop].row.areaConfigs
        IN  \A area \in IF areas = {} THEN {GlobalArea} ELSE areas :
                Get(Value(prop, area, "AVAILABLE", <<>>)) # {}

\* A registered generator has an event in the queue, unless its only one was
\* popped in place of the event that was handled (overtaken); other
\* generators keep theirs, that one's until it is registered anew.  A cookie
\* has one event queued, and one more for each time that it was registered
\* again, or moved on, beside an event of its own that was still queued.
\* GeneratorHub.cpp:34-45, 58-93.
EveryGeneratorIsQueued ==
    /\ \A c \in DOMAIN mGenerators \ overtaken : Queued(c) # {}
    /\ \A c \in Cookies : Cardinality(Queued(c)) <= 1 + surplus[c]

\* A generator that stays registered gets its events handled again and again,
\* although others are registered, replaced and stopped meanwhile, and
\* although events of others may be popped unhandled.  It falls silent only
\* if its own event was: SoonestEventIsHandled is why that can happen.
GeneratorsGoOn ==
    \A c \in Cookies :
        []<>(\/ c \notin DOMAIN mGenerators
             \/ c \in overtaken
             \/ hubPc = "handling" /\ curEvent.cookie = c)

\* The event that the thread turns to is the soonest one.  GeneratorHub.cpp:76 says of
\* the wait: "It is possible that a new generator is registered and produced
\* a sooner event [...] in this case the thread will re-evaluate the soonest
\* event".  It does not when the time of the event it waits for has passed
\* before it runs again.  What it then pops is the sooner event, which nobody
\* has handled, and its generator never gets another.
SoonestEventIsHandled ==
    [][hubPc = "timed" /\ hubPc' = "handling" =>
          \A i \in DOMAIN mEventQueue : curEvent'.due <= mEventQueue[i].due]_hubVars

=============================================================================
