--------------------------- MODULE VisVehicleHal ---------------------------
(***************************************************************************)
(* VisVehicleHal: the property store as a cache of a VIS server.           *)
(*                                                                         *)
(* get and set of a mapped property fetch all values when they are dirty,  *)
(* holding mLock for the whole call, the answers of the server included.   *)
(* subscribe runs the same fetch WITHOUT mLock.  A thread of VisClient     *)
(* delivers notifications to subscriptionHandler, without mLock, and       *)
(* another one connection changes to onVisConnectionStatusUpdate, with it. *)
(* Fetch and handler read a record, convert the server's value into it and *)
(* write it, in two steps of the store; what cannot be read or converted   *)
(* is passed over.                                                         *)
(*                                                                         *)
(* External: VisClient and the server, as the code uses them.  A request   *)
(* is answered, or fails; the server may have executed a request that      *)
(* failed or timed out.  An answer may lack names.  A connection delivers  *)
(* its notifications in order, a lost one may lose those in flight, and    *)
(* its subscriptions.  A second subscription only repeats the              *)
(* notifications of the first.                                             *)
(*                                                                         *)
(* The events that the handler sends go to the event queue (EventQueue)    *)
(* and change nothing here; the timer that subscribe feeds is              *)
(* RecurrentTimer.  VehicleHalManager asks only for configured properties. *)
(***************************************************************************)
EXTENDS VisMapping

CONSTANTS
    Threads,
    Names,                \* VIS properties
    mVPropertyToVisName,  \* after onCreate, a function on (property, area)
    mVisNameToVProperty,  \* after onCreate, a set of <<name, key>>
    Gets, Sets,           \* requests: keys, and [key, value]
    JsonValues,           \* what others may give each name on the server
    FirstValues,          \* what the server may start with
    AlwaysAnswered,       \* names that no answer to a fetch lacks
    Handler, NoThread,
    MaxChanges,           \* bound: values that the server takes, from anybody
    MaxDrops              \* bound: lost connections

Mapped == DOMAIN mVPropertyToVisName
VisNameOfKey(key) == mVPropertyToVisName[key]

\* The entries that equal_range finds.
PropsOf(name) == {entry[2] : entry \in {e \in mVisNameToVProperty : e[1] = name}}
MappedNames == {entry[1] : entry \in mVisNameToVProperty}

\* multimap::find returns some entry with the key, and always the same one.
Found[name \in MappedNames] == CHOOSE key \in PropsOf(name) : TRUE

\* The records that onCreate writes, of these properties.
Keys == Mapped \cup {entry[2] : entry \in mVisNameToVProperty}
        \cup Gets \cup {request.key : request \in Sets}
InitialRecords == {RecordOf(key) : key \in Keys} \cap VisRecords

\* Every mapping file leaves maps like these (MappingsLeadBack).
ASSUME MappingsAssumption ==
    /\ LeadBack([forward |-> mVPropertyToVisName, back |-> mVisNameToVProperty])
    /\ MappedNames \subseteq Names
ASSUME ServerAssumption ==
    /\ \A first \in FirstValues : first = [n \in Names |-> first[n]]
    /\ AlwaysAnswered \subseteq Names
ASSUME NoThreadAssumption == NoThread \notin Threads /\ Handler \notin Threads
ASSUME BoundsAssumption == MaxChanges \in Nat /\ MaxDrops \in Nat

VARIABLES
    pc, call,         \* what each thread executes, and for which call
    snapshot,         \* the part of a fetched result still to be applied
    updating,         \* by thread: a converted value not yet written
    mLock, mValuesAreDirty,
    store,            \* mPropStore: a map from its records to their values
    inHand,           \* subscriptionHandler: what it has still to convert
    connected,        \* VisClient::getConnectedState
    statusUpdates,    \* connection changes still to be reported
    inbox,            \* notifications still to be handled
    server,           \* external: the values the server holds
    subscribed,       \* external: the server knows our subscription
    changes, drops,   \* count up to the bounds
    held,             \* history: values the server has held
    bypassed,         \* history: records last written by a set that did not
                      \* send its value, as its area is not a mapped one
    lost, raced,      \* history: see DisconnectIsNoticed
    missed            \* history: see CacheFollowsServer

callVars == <<pc, call, snapshot>>
storeVars == <<store, bypassed>>
handlerVars == <<inHand, inbox>>
visVars == <<connected, statusUpdates, server, subscribed>>
historyVars == <<changes, drops, held, lost, raced, missed>>
vars == <<callVars, updating, mLock, mValuesAreDirty, storeVars, handlerVars,
          visVars, historyVars>>

\* subscribe does not look at its arguments before it has fetched the values.
Calls ==
    [op : {"get"}, key : Gets]
    \cup {[op |-> "set", key |-> request.key, value |-> request.value] : request \in Sets}
    \cup {[op |-> "subscribe"]}
NoCall == [op |-> "none"]

\* get and set look the name up with the area of the request, whichever
\* record the store will find.
IsMapped(t) == call[t].key \in Mapped

NoUpdate == <<>>

\* fetchAllAndSubscribe between the test of mValuesAreDirty and its reset.
FetchSteps == {"asked", "apply", "clean"}
Fetching(t) == pc[t] \in FetchSteps
Setting(t) == pc[t] \in {"send", "write"}
SettingName(t, name) ==
    Setting(t) /\ IsMapped(t) /\ VisNameOfKey(call[t].key) = name

\* onCreate has written the initial values and started VisClient; its first
\* subscribeToAll may still be under way.
Init ==
    /\ pc = [t \in Threads |-> "creating"]
    /\ call = [t \in Threads |-> NoCall]
    /\ server \in FirstValues
    /\ snapshot = [t \in Threads |-> <<>>]
    /\ updating = [t \in Threads \cup {Handler} |-> NoUpdate]
    /\ mLock = NoThread
    /\ mValuesAreDirty = TRUE
    /\ store = [record \in InitialRecords |-> FirstValue(record)]
    /\ bypassed = {}
    /\ inHand = {} /\ inbox = <<>>
    /\ connected \in BOOLEAN
    /\ statusUpdates = <<>>
    /\ subscribed = FALSE
    /\ changes = 0 /\ drops = 0
    /\ held = [n \in Names |-> {server[n]}]
    /\ lost = FALSE /\ raced = FALSE
    /\ missed = Names

-----------------------------------------------------------------------------
\* The server's answer to subscribeToAll: accepted, refused or cut off, or
\* accepted too late for the four seconds that the code waits.  The code goes
\* on in the same way.
SubscribeToAll ==
    subscribed' \in {subscribed} \cup (IF connected THEN {TRUE} ELSE {})

OnCreateReturns ==
    /\ \A t \in Threads : pc[t] = "creating"
    /\ SubscribeToAll
    /\ pc' = [t \in Threads |-> "idle"]
    /\ UNCHANGED <<call, snapshot, updating, mLock, mValuesAreDirty, storeVars,
                   handlerVars, connected, statusUpdates, server, historyVars>>

StartCall(t, c) ==
    /\ pc[t] = "idle"
    /\ call' = [call EXCEPT ![t] = c]
    /\ pc' = [pc EXCEPT ![t] = IF c.op = "subscribe" THEN "fetch" ELSE "lock"]
    /\ UNCHANGED <<snapshot, updating, mLock, mValuesAreDirty, storeVars,
                   handlerVars, visVars, historyVars>>

\* Mutant of Unlock: the lock is not released.
UnlockForgotten(t) == mLock' = mLock

Unlock(t) == mLock' = IF mLock = t THEN NoThread ELSE mLock

\* The call returns and with it goes the lock guard of get and set.
Return(t) ==
    /\ Unlock(t)
    /\ pc' = [pc EXCEPT ![t] = "idle"]
    /\ call' = [call EXCEPT ![t] = NoCall]

\* The call goes on, its lock guard included.
GoOn(t, step) ==
    /\ pc' = [pc EXCEPT ![t] = step]
    /\ UNCHANGED <<call, mLock>>

Access(t) == IF call[t].op = "get" THEN "read"
             ELSE IF IsMapped(t) THEN "send" ELSE "write"

\* get and set up to the call of fetchAllAndSubscribe.
Lock(t) ==
    /\ pc[t] = "lock" /\ mLock = NoThread
    /\ IF IsMapped(t) /\ mValuesAreDirty
       THEN IF connected
            THEN mLock' = t /\ pc' = [pc EXCEPT ![t] = "fetch"] /\ UNCHANGED call
            ELSE Return(t)    \* TRY_AGAIN
       ELSE mLock' = t /\ pc' = [pc EXCEPT ![t] = Access(t)] /\ UNCHANGED call
    /\ UNCHANGED <<snapshot, updating, mValuesAreDirty, storeVars, handlerVars,
                   visVars, historyVars>>

-----------------------------------------------------------------------------
\* fetchAllAndSubscribe: the test at its beginning, and getPropertySync.
Ask(t) ==
    /\ pc[t] = "fetch"
    /\ mValuesAreDirty /\ connected
    /\ pc' = [pc EXCEPT ![t] = "asked"]
    /\ lost' = FALSE
    /\ UNCHANGED <<call, snapshot, updating, mLock, mValuesAreDirty, storeVars,
                   handlerVars, visVars, changes, drops, held, raced, missed>>

\* Mutant of AfterFailure: the caller goes on without values.
IgnoreFailure(t) ==
    IF call[t].op = "subscribe" THEN Return(t) ELSE GoOn(t, Access(t))

\* fetchAllAndSubscribe returns false: get and set return TRY_AGAIN, and
\* subscribe does not look at it.
AfterFailure(t) == Return(t)

NothingToFetch(t) ==
    /\ pc[t] = "fetch"
    /\ ~(mValuesAreDirty /\ connected)
    /\ AfterFailure(t)
    /\ UNCHANGED <<snapshot, updating, mValuesAreDirty, storeVars, handlerVars,
                   visVars, historyVars>>

FetchFails(t) ==
    /\ pc[t] = "asked"
    /\ AfterFailure(t)
    /\ UNCHANGED <<snapshot, updating, mValuesAreDirty, storeVars, handlerVars,
                   visVars, historyVars>>

\* Nothing that is under way can put an older value into the store.
NothingUnderWay(t) ==
    /\ inbox = <<>> /\ inHand = {} /\ updating[Handler] = NoUpdate
    /\ \A u \in Threads \ {t} : ~Fetching(u) /\ ~Setting(u)

\* The answer has values of some names; those that are not mapped are passed
\* over.
Answer(t) ==
    /\ pc[t] = "asked" /\ connected
    /\ \E answered \in SUBSET MappedNames :
          /\ AlwaysAnswered \cap MappedNames \subseteq answered
          /\ snapshot' = [snapshot EXCEPT ![t] = Restrict(server, answered)]
          /\ missed' = IF NothingUnderWay(t) THEN missed \ answered ELSE missed
    /\ pc' = [pc EXCEPT ![t] = "apply"]
    /\ UNCHANGED <<call, updating, mLock, mValuesAreDirty, storeVars,
                   handlerVars, visVars, changes, drops, held, lost, raced>>

\* readValueOrNull and jsonToVehicle: the record of a key, read and with the
\* value converted into it, or nothing when one of the two fails.
Conversion(key, json) ==
    LET record == RecordOf(key)
    IN  IF record \in DOMAIN store /\ Convertible(TypeOf(key), json)
        THEN [record |-> record,
              value |-> jsonToVehicle(TypeOf(key), json, store[record])]
        ELSE NoUpdate

\* One turn of the loop over the result, up to the write.  The result is a
\* map: any order.
ConvertAnswer(t) ==
    /\ pc[t] = "apply" /\ updating[t] = NoUpdate
    /\ \E name \in DOMAIN snapshot[t] :
          /\ updating' = [updating EXCEPT
                             ![t] = Conversion(Found[name], snapshot[t][name])]
          /\ snapshot' = [snapshot EXCEPT ![t] = Restrict(@, DOMAIN @ \ {name})]
    /\ UNCHANGED <<pc, call, mLock, mValuesAreDirty, storeVars, handlerVars,
                   visVars, historyVars>>

\* writeValue of a converted value, by the fetch or by the handler.
WriteConverted(a) ==
    /\ updating[a] # NoUpdate
    /\ store' = Put(store, updating[a].record, updating[a].value)
    /\ bypassed' = bypassed \ {updating[a].record}
    /\ updating' = [updating EXCEPT ![a] = NoUpdate]
    /\ UNCHANGED <<callVars, mLock, mValuesAreDirty, handlerVars, visVars,
                   historyVars>>

Resubscribe(t) ==
    /\ pc[t] = "apply" /\ updating[t] = NoUpdate /\ snapshot[t] = <<>>
    /\ SubscribeToAll
    /\ pc' = [pc EXCEPT ![t] = "clean"]
    /\ UNCHANGED <<call, snapshot, updating, mLock, mValuesAreDirty, storeVars,
                   handlerVars, connected, statusUpdates, server, historyVars>>

Clean(t) ==
    /\ pc[t] = "clean"
    /\ mValuesAreDirty' = FALSE
    /\ IF call[t].op = "subscribe" THEN Return(t) ELSE GoOn(t, Access(t))
    /\ UNCHANGED <<snapshot, updating, storeVars, handlerVars, visVars,
                   historyVars>>

-----------------------------------------------------------------------------
\* get reads the store and returns.
Read(t) ==
    /\ pc[t] = "read"
    /\ Return(t)
    /\ UNCHANGED <<snapshot, updating, mValuesAreDirty, storeVars, handlerVars,
                   visVars, historyVars>>

Notification(name, json) == [name |-> name, json |-> json]

\* A value that the server takes now may not reach the store: there is no
\* subscription, or one of the threads is about to overwrite it.
MayBeMissed(name, threads) ==
    \/ ~subscribed
    \/ \E u \in Threads : Fetching(u)
    \/ \E u \in threads : SettingName(u, name)

\* External: the server takes a new value and notifies its subscriber.
ServerTakes(name, json, threads) ==
    /\ changes < MaxChanges
    /\ changes' = changes + 1
    /\ server' = [server EXCEPT ![name] = json]
    /\ held' = [held EXCEPT ![name] = @ \cup {json}]
    /\ inbox' = IF subscribed THEN Append(inbox, Notification(name, json)) ELSE inbox
    /\ missed' = IF MayBeMissed(name, threads) THEN missed \cup {name} ELSE missed

\* Mutant of AfterSend: the status of setPropertySync is ignored.
AfterSendAlways(t, ok) == GoOn(t, "write")

AfterSend(t, ok) ==
    IF ok THEN GoOn(t, "write") ELSE Return(t)    \* TRY_AGAIN

SentText(t) == vehiclePropValueToString(TypeOf(call[t].key), call[t].value)

\* setPropertySync: executed by the server, with or without an answer, or not
\* executed.
Send(t) ==
    /\ pc[t] = "send"
    /\ \/ /\ connected /\ SentText(t).kind # "none"
          /\ ServerTakes(VisNameOfKey(call[t].key), SentText(t), Threads \ {t})
          /\ \E ok \in BOOLEAN : AfterSend(t, ok)
       \/ AfterSend(t, FALSE) /\ UNCHANGED <<server, changes, held, inbox, missed>>
    /\ UNCHANGED <<snapshot, updating, mValuesAreDirty, storeVars, inHand,
                   connected, statusUpdates, subscribed, drops, lost, raced>>

\* The write of the store at the end of set: a record that is not there is
\* made.
Write(t) ==
    /\ pc[t] = "write"
    /\ LET record == RecordOf(call[t].key)
       IN  /\ store' = Put(store, record, call[t].value)
           /\ bypassed' = IF IsMapped(t) THEN bypassed \ {record}
                          ELSE bypassed \cup {record}
    /\ Return(t)
    /\ UNCHANGED <<snapshot, updating, mValuesAreDirty, handlerVars, visVars,
                   historyVars>>

-----------------------------------------------------------------------------
\* External: somebody else changes a value on the server.
ServerChanges(name, json) ==
    /\ json # server[name]
    /\ ServerTakes(name, json, Threads)
    /\ UNCHANGED <<callVars, updating, mLock, mValuesAreDirty, storeVars, inHand,
                   connected, statusUpdates, subscribed, drops, lost, raced>>

NextNotification == Head(inbox)

\* subscriptionHandler: the next item, and all properties mapped to it ...
TakeNotification ==
    /\ inHand = {} /\ updating[Handler] = NoUpdate /\ inbox # <<>>
    /\ inHand' = [key : PropsOf(NextNotification.name),
                  json : {NextNotification.json}]
    /\ inbox' = Tail(inbox)
    /\ UNCHANGED <<callVars, updating, mLock, mValuesAreDirty, storeVars,
                   visVars, historyVars>>

\* ... each of which is read, converted and, when both succeed, written.
ConvertNotification ==
    /\ updating[Handler] = NoUpdate
    /\ \E item \in inHand :
          /\ updating' = [updating EXCEPT ![Handler] = Conversion(item.key, item.json)]
          /\ inHand' = inHand \ {item}
    /\ UNCHANGED <<callVars, mLock, mValuesAreDirty, storeVars, inbox, visVars,
                   historyVars>>

Disconnect ==
    /\ connected /\ drops < MaxDrops
    /\ drops' = drops + 1
    /\ connected' = FALSE
    /\ subscribed' = FALSE
    /\ inbox' \in {inbox, <<>>}
    /\ statusUpdates' = Append(statusUpdates, FALSE)
    /\ missed' = Names
    /\ UNCHANGED <<callVars, updating, mLock, mValuesAreDirty, storeVars, inHand,
                   server, changes, held, lost, raced>>

Connect ==
    /\ ~connected
    /\ connected' = TRUE
    /\ statusUpdates' = Append(statusUpdates, TRUE)
    /\ UNCHANGED <<callVars, updating, mLock, mValuesAreDirty, storeVars,
                   handlerVars, server, subscribed, historyVars>>

\* Mutant of BecomesDirty: the present state of the connection is looked at.
DirtyIfDisconnected(up) == ~connected

BecomesDirty(up) == ~up

OnVisConnectionStatusUpdate ==
    /\ statusUpdates # <<>> /\ mLock = NoThread
    /\ LET up == Head(statusUpdates)
       IN  /\ mValuesAreDirty' = (mValuesAreDirty \/ BecomesDirty(up))
           /\ lost' = (lost \/ ~up)
           /\ raced' = IF up THEN raced ELSE \E t \in Threads : Fetching(t)
    /\ statusUpdates' = Tail(statusUpdates)
    /\ UNCHANGED <<callVars, updating, mLock, storeVars, handlerVars, connected,
                   server, subscribed, changes, drops, held, missed>>

-----------------------------------------------------------------------------
Continue(t) ==
    \/ Lock(t)
    \/ Ask(t) \/ NothingToFetch(t) \/ FetchFails(t) \/ Answer(t)
    \/ ConvertAnswer(t) \/ WriteConverted(t) \/ Resubscribe(t) \/ Clean(t)
    \/ Read(t) \/ Send(t) \/ Write(t)

VisClientThreads ==
    \/ OnVisConnectionStatusUpdate
    \/ TakeNotification \/ ConvertNotification \/ WriteConverted(Handler)

Environment ==
    \/ \E n \in Names : \E json \in JsonValues[n] : ServerChanges(n, json)
    \/ Disconnect \/ Connect

Next ==
    \/ OnCreateReturns
    \/ \E t \in Threads : Continue(t) \/ \E c \in Calls : StartCall(t, c)
    \/ VisClientThreads
    \/ Environment

Spec == Init /\ [][Next]_vars

-----------------------------------------------------------------------------
(***************************************************************************)
(* Properties.                                                             *)
(***************************************************************************)

\* The values that the server may get, and what is made of them.
ServerJson ==
    (UNION {{first[n] : n \in Names} : first \in FirstValues})
    \cup (UNION {JsonValues[n] : n \in Names})
    \cup {vehiclePropValueToString(TypeOf(request.key), request.value) : request \in Sets}
Notifications == [name : Names, json : ServerJson]
Results == UNION {[names -> ServerJson] : names \in SUBSET MappedNames}

\* Type invariant.
TypeOK ==
    /\ pc \in [Threads -> {"creating", "idle", "lock", "fetch", "asked", "apply",
                           "clean", "read", "send", "write"}]
    /\ call \in [Threads -> Calls \cup {NoCall}]
    /\ snapshot \in [Threads -> Results]
    /\ DOMAIN updating = Threads \cup {Handler}
    /\ mLock \in Threads \cup {NoThread}
    /\ mValuesAreDirty \in BOOLEAN
    /\ InitialRecords \subseteq DOMAIN store
    /\ inHand \in SUBSET [key : Keys, json : ServerJson]
    /\ inbox \in Seq(Notifications)
    /\ connected \in BOOLEAN /\ statusUpdates \in Seq(BOOLEAN)
    /\ server \in [Names -> ServerJson] /\ DOMAIN held = Names
    /\ subscribed \in BOOLEAN
    /\ changes \in Nat /\ drops \in Nat
    /\ lost \in BOOLEAN /\ raced \in BOOLEAN
    /\ missed \in SUBSET Names

\* The names that a record has in one of the two maps.
NamesOf(record) ==
    {name \in MappedNames : \E key \in PropsOf(name) : RecordOf(key) = record}

\* What the server has held under this name, as a value of the record.
IsHeldValue(record, value, name) ==
    \E json \in held[name] : Agrees(TypeOf(record), value, json)
HasHeldValue(record, name) ==
    record \in DOMAIN store /\ IsHeldValue(record, store[record], name)

IsInitial(record) ==
    IF record \in InitialRecords THEN store[record] = FirstValue(record)
    ELSE record \notin DOMAIN store

\* The record of a mapped property never holds a value that the server has not
\* held under a name of this record, whatever fails or is cut off, cannot be
\* converted or keeps elements of its own: set does not run ahead of the server,
\* and a value does not end up under another property's name.  A set with
\* another area of a global property goes past the server to the same record:
\* bypassed has the records that were last written so.
StoreHoldsServerValues ==
    \A key \in Mapped :
        LET record == RecordOf(key)
        IN  \/ record \in bypassed
            \/ IsInitial(record)
            \/ \E name \in NamesOf(record) : HasHeldValue(record, name)

\* All values that the server has held under this name fit the record.
AlwaysConverts(name) ==
    /\ RecordOf(Found[name]) \in InitialRecords
    /\ \A json \in held[name] : Convertible(TypeOf(Found[name]), json)

\* A get that goes on to read the store finds a value of the server there and
\* not the initial value of the configuration, although the call that fetched
\* the values may have been another one, and was allowed to fail.  A name that
\* is missing in an answer or has a value that cannot be converted is passed
\* over, and the values count as clean nevertheless: the property is about the
\* names that are never missing and whose values fit.
GetFindsFetchedValue ==
    \A t \in Threads :
        LET name == VisNameOfKey(call[t].key)
            record == RecordOf(call[t].key)
        IN  /\ pc[t] = "read"
            /\ IsMapped(t)
            /\ record = RecordOf(Found[name])
            /\ name \in AlwaysAnswered /\ AlwaysConverts(name)
            => \/ record \in bypassed
               \/ \E n \in NamesOf(record) : HasHeldValue(record, n)

\* After a reported disconnection the values count as dirty until they have
\* been asked for again, unless a subscribe, which does not take mLock, was
\* fetching them while the disconnection was reported.
DisconnectIsNoticed == lost /\ ~mValuesAreDirty => raced

Quiet ==
    /\ \A t \in Threads : pc[t] = "idle"
    /\ inbox = <<>> /\ inHand = {} /\ statusUpdates = <<>>
    /\ updating[Handler] = NoUpdate

\* The record that a fetch of this name writes, and that no other name has.
HasItsRecord(name) ==
    LET record == RecordOf(Found[name])
    IN  record \in InitialRecords /\ NamesOf(record) = {name}

\* When everything has been handled and the values are not dirty, the store
\* agrees with the server, but for the names that have changed at a moment when
\* the code can miss it: with no subscription in force, or while a fetch or a
\* set was about to write what it knew before; for those that an answer lacked
\* and those whose present value cannot be converted; and for records that are
\* bypassed or shared by several names.
CacheFollowsServer ==
    Quiet /\ ~mValuesAreDirty =>
        \A name \in MappedNames \ missed :
            LET key == Found[name]
                record == RecordOf(key)
            IN  /\ HasItsRecord(name)
                /\ record \notin bypassed
                /\ Convertible(TypeOf(key), server[name])
                => Agrees(TypeOf(key), store[record], server[name])

\* All properties mapped to one VIS property are updated together, by the
\* fetch as by the handler of notifications.
AllMappedPropertiesAreUpdated ==
    Quiet /\ ~mValuesAreDirty =>
        \A name \in AlwaysAnswered : \A key \in PropsOf(name) :
            AlwaysConverts(name) => HasHeldValue(RecordOf(key), name)

=============================================================================
