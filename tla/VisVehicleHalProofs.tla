------------------------ MODULE VisVehicleHalProofs ------------------------
(***************************************************************************)
(* Proofs about VisVehicleHal, for every set of threads, of properties and *)
(* of values, every mapping, whatever fails or cannot be converted, and    *)
(* however often the server changes a value or loses the connection.       *)
(***************************************************************************)
EXTENDS VisVehicleHal, SelectionProofs

-----------------------------------------------------------------------------
(***************************************************************************)
(* The inductive invariant.                                                *)
(***************************************************************************)

\* What a thread executes fits its call: subscribe only fetches, only a mapped
\* property is fetched for or sent, and only a fetch has values to apply.
StepsFitCalls ==
    \A t \in Threads :
        /\ pc[t] = "lock" => call[t].op \in {"get", "set"}
        /\ pc[t] \in FetchSteps \cup {"fetch"} =>
              \/ call[t].op = "subscribe"
              \/ call[t].op \in {"get", "set"} /\ IsMapped(t)
        /\ pc[t] = "read" => call[t].op = "get"
        /\ pc[t] \in {"send", "write"} => call[t].op = "set"
        /\ pc[t] = "send" => IsMapped(t)
        /\ pc[t] # "apply" => DOMAIN snapshot[t] = {} /\ updating[t] = NoUpdate

\* get and set hold mLock from their first step to their last.
InCriticalSection(t) ==
    /\ pc[t] \in FetchSteps \cup {"fetch", "read", "send", "write"}
    /\ call[t].op # "subscribe"

LockIsHeld == \A t \in Threads : InCriticalSection(t) => mLock = t

\* Whatever may still be written to the store has been a value of the server
\* under a name of its record.
Updaters == Threads \cup {Handler}
Updates(a, record) == updating[a] # NoUpdate /\ updating[a].record = record

WillWriteHeldValue(a) ==
    LET record == updating[a].record
    IN  /\ record \in DOMAIN store
        /\ \E name \in NamesOf(record) : IsHeldValue(record, updating[a].value, name)

PendingValuesAreHeld ==
    /\ \A n \in Names : server[n] \in held[n]
    /\ \A t \in Threads : \A n \in DOMAIN snapshot[t] : snapshot[t][n] \in held[n]
    /\ \A i \in DOMAIN inbox : inbox[i].json \in held[inbox[i].name]
    /\ \A item \in inHand :
          \E name \in MappedNames : item.key \in PropsOf(name) /\ item.json \in held[name]
    /\ \A a \in Updaters : updating[a] # NoUpdate => WillWriteHeldValue(a)
    /\ \A t \in Threads :
          pc[t] = "write" /\ IsMapped(t)
          => SentText(t).kind # "none" /\ SentText(t) \in held[VisNameOfKey(call[t].key)]

\* A fetch has written the names that are no longer in its result, and from
\* then on the record of each of them has a value of the server, unless it is
\* bypassed or the name has had a value that cannot be converted.
HeldOrBypassed(record) ==
    record \in bypassed \/ \E n \in NamesOf(record) : HasHeldValue(record, n)
Got(name) == AlwaysConverts(name) => HeldOrBypassed(RecordOf(Found[name]))

AnsweredNames == AlwaysAnswered \cap MappedNames
AllGot == \A name \in AnsweredNames : Got(name)

FetchedNamesHaveValues ==
    /\ ~mValuesAreDirty => AllGot
    /\ \A t \in Threads :
          /\ pc[t] = "apply" =>
                \A name \in AnsweredNames :
                    \/ name \in DOMAIN snapshot[t]
                    \/ Updates(t, RecordOf(Found[name]))
                    \/ Got(name)
          /\ pc[t] = "clean" => AllGot
          /\ pc[t] = "read" /\ IsMapped(t) => AllGot

\* A disconnection that is reported while values are fetched counts as raced.
FetchesAreRaced ==
    lost /\ (~mValuesAreDirty \/ \E t \in Threads : Fetching(t)) => raced

\* The last value on its way to the record is the one the server has: the last
\* notification, or what subscriptionHandler has in hand, or else a result that
\* is being applied or the store itself.
IsFor(i, name) == inbox[i].name = name
NoneInInbox(name) == \A i \in DOMAIN inbox : ~IsFor(i, name)
LastInInbox(i, name) ==
    IsFor(i, name) /\ \A j \in DOMAIN inbox : j > i => ~IsFor(j, name)

AgreesWithServer(record, value, name) == Agrees(TypeOf(record), value, server[name])
InHandFor(record) == {item \in inHand : RecordOf(item.key) = record}

\* With record being that of the name ...
ThreadsBring(record, name) ==
    \A t \in Threads :
        /\ name \in DOMAIN snapshot[t] => snapshot[t][name] = server[name]
        /\ Updates(t, record) => AgreesWithServer(record, updating[t].value, name)
        /\ pc[t] = "write" /\ SettingName(t, name) => SentText(t) = server[name]

HandlerBrings(record, name) ==
    /\ \A item \in InHandFor(record) : item.json = server[name]
    /\ Updates(Handler, record) => AgreesWithServer(record, updating[Handler].value, name)

HasArrived(record, name) ==
    \/ record \in bypassed
    \/ ~Convertible(TypeOf(record), server[name])
    \/ AgreesWithServer(record, store[record], name)

IsOnItsWay(record, name) ==
    \/ InHandFor(record) # {}
    \/ \E t \in Threads : name \in DOMAIN snapshot[t]
    \/ \E a \in Updaters : Updates(a, record)

LastValueIsServers(record, name) ==
    /\ ThreadsBring(record, name)
    /\ \A i \in DOMAIN inbox : LastInInbox(i, name) => inbox[i].json = server[name]
    /\ NoneInInbox(name) =>
          /\ HandlerBrings(record, name)
          /\ IsOnItsWay(record, name) \/ HasArrived(record, name)

LastValuesAreServers ==
    \A name \in MappedNames \ missed :
        HasItsRecord(name) => LastValueIsServers(RecordOf(Found[name]), name)

IInv ==
    /\ TypeOK /\ StepsFitCalls /\ LockIsHeld
    /\ PendingValuesAreHeld /\ StoreHoldsServerValues
    /\ FetchedNamesHaveValues
    /\ FetchesAreRaced
    /\ LastValuesAreServers

-----------------------------------------------------------------------------
(***************************************************************************)
(* The maps, the records and the conversions.                              *)
(***************************************************************************)

LEMMA PropsOfNames ==
    /\ MappedNames \subseteq Names
    /\ \A key \in Mapped :
          /\ VisNameOfKey(key) \in MappedNames
          /\ key \in PropsOf(VisNameOfKey(key))
    /\ \A name \in MappedNames : Found[name] \in PropsOf(name)
    /\ \A name : \A key \in PropsOf(name) : key \in Keys /\ name \in MappedNames
<1>1. MappedNames \subseteq Names
  BY MappingsAssumption
<1>2. ASSUME NEW key \in Mapped
      PROVE  /\ VisNameOfKey(key) \in MappedNames
             /\ key \in PropsOf(VisNameOfKey(key))
  <2>1. <<VisNameOfKey(key), key>> \in mVisNameToVProperty
    BY MappingsAssumption DEF LeadBack, Mapped, VisNameOfKey
  <2> QED
    BY <2>1 DEF MappedNames, PropsOf
<1>3. ASSUME NEW name \in MappedNames
      PROVE  Found[name] \in PropsOf(name)
  <2>1. PropsOf(name) # {}
    BY DEF MappedNames, PropsOf
  <2> QED
    BY <2>1 DEF Found
<1>4. \A name : \A key \in PropsOf(name) : key \in Keys /\ name \in MappedNames
  BY DEF PropsOf, Keys, MappedNames
<1> QED
  BY <1>1, <1>2, <1>3, <1>4

LEMMA RecordsOfKeys ==
    \A key : TypeOf(RecordOf(key)) = TypeOf(key)
BY DEF TypeOf, RecordOf

\* The record of a key is one that its name has.
LEMMA NamesOfRecords ==
    \A name : \A key \in PropsOf(name) : name \in NamesOf(RecordOf(key))
BY PropsOfNames DEF NamesOf

\* A converted value says what was converted, whatever was there before.
LEMMA ConversionSettles ==
    ASSUME NEW type, NEW json, NEW old, Convertible(type, json)
    PROVE  Agrees(type, jsonToVehicle(type, json, old), json)
<1> DEFINE value == jsonToVehicle(type, json, old)
<1>1. CASE IsVector(type)
  <2>1. value = [i \in DOMAIN old |->
                    IF i \in DOMAIN json.data THEN json.data[i].data ELSE old[i]]
    BY <1>1 DEF jsonToVehicle
  <2>2. DOMAIN value = DOMAIN old
    BY <2>1
  <2> HIDE DEF value
  <2>3. jsonToVehicle(type, json, value) =
            [i \in DOMAIN value |->
                IF i \in DOMAIN json.data THEN json.data[i].data ELSE value[i]]
    BY <1>1 DEF jsonToVehicle
  <2>4. jsonToVehicle(type, json, value) = value
    BY <2>1, <2>2, <2>3
  <2> QED
    BY <2>4 DEF Agrees, value
<1>2. CASE ~IsVector(type)
  BY <1>2 DEF jsonToVehicle, Agrees
<1> QED
  BY <1>1, <1>2

\* What a conversion leaves to be written.
LEMMA Conversions ==
    ASSUME NEW key, NEW json
    PROVE  /\ Conversion(key, json) # NoUpdate =>
                 /\ Conversion(key, json).record = RecordOf(key)
                 /\ RecordOf(key) \in DOMAIN store
                 /\ Convertible(TypeOf(key), json)
                 /\ Agrees(TypeOf(key), Conversion(key, json).value, json)
           /\ RecordOf(key) \in DOMAIN store /\ Convertible(TypeOf(key), json)
              => Conversion(key, json) # NoUpdate
<1> DEFINE old == store[RecordOf(key)]
           converted == [record |-> RecordOf(key),
                         value |-> jsonToVehicle(TypeOf(key), json, old)]
<1>1. converted # NoUpdate
  BY DEF NoUpdate
<1>2. Convertible(TypeOf(key), json) => Agrees(TypeOf(key), converted.value, json)
  BY ConversionSettles
<1>3. Conversion(key, json) =
          IF RecordOf(key) \in DOMAIN store /\ Convertible(TypeOf(key), json)
          THEN converted ELSE NoUpdate
  BY DEF Conversion
<1> QED
  BY <1>1, <1>2, <1>3

\* What was sent as a text agrees with it.
LEMMA SentTextAgrees ==
    ASSUME NEW t, SentText(t).kind # "none"
    PROVE  Agrees(TypeOf(RecordOf(call[t].key)), call[t].value, SentText(t))
BY RecordsOfKeys DEF Agrees, SentText

LEMMA CallsAreTyped ==
    ASSUME TypeOK, NEW t \in Threads
    PROVE  /\ call[t].op \in {"get", "set", "subscribe", "none"}
           /\ call[t].op = "set" => call[t].key \in Keys /\ SentText(t) \in ServerJson
<1>1. call[t] \in Calls \cup {NoCall}
  BY DEF TypeOK
<1>2. CASE call[t] \in [op : {"get"}, key : Gets] \/ call[t] = NoCall
           \/ call[t] \in {[op |-> "subscribe"]}
  BY <1>2 DEF NoCall
<1>3. CASE call[t] \in {[op |-> "set", key |-> request.key, value |-> request.value] :
                           request \in Sets}
  <2>1. PICK request \in Sets :
            call[t] = [op |-> "set", key |-> request.key, value |-> request.value]
    BY <1>3
  <2>2. SentText(t) = vehiclePropValueToString(TypeOf(request.key), request.value)
    BY <2>1 DEF SentText
  <2>3. vehiclePropValueToString(TypeOf(request.key), request.value) \in ServerJson
    <3>1. vehiclePropValueToString(TypeOf(request.key), request.value)
              \in {vehiclePropValueToString(TypeOf(r.key), r.value) : r \in Sets}
      OBVIOUS
    <3> QED
      BY <3>1, Zenon DEF ServerJson
  <2>4. request.key \in Keys
    BY DEF Keys
  <2> QED
    BY <2>1, <2>2, <2>3, <2>4
<1> QED
  BY <1>1, <1>2, <1>3 DEF Calls

LEMMA ServerValues ==
    /\ \A name \in Names : JsonValues[name] \subseteq ServerJson
    /\ \A first \in FirstValues : first \in [Names -> ServerJson]
<1>1. ASSUME NEW name \in Names, NEW json \in JsonValues[name]
      PROVE  json \in ServerJson
  <2>1. json \in UNION {JsonValues[n] : n \in Names}
    OBVIOUS
  <2> QED
    BY <2>1, Zenon DEF ServerJson
<1>2. ASSUME NEW first \in FirstValues
      PROVE  first \in [Names -> ServerJson]
  <2>1. \A n \in Names : first[n] \in UNION {{f[m] : m \in Names} : f \in FirstValues}
    OBVIOUS
  <2>2. \A n \in Names : first[n] \in ServerJson
    BY <2>1, Zenon DEF ServerJson
  <2> HIDE DEF ServerJson
  <2> QED
    BY <2>2, ServerAssumption
<1> QED
  BY <1>1, <1>2

LEMMA ResultsAreFunctions ==
    /\ \A r \in Results : DOMAIN r \subseteq MappedNames /\ r \in [DOMAIN r -> ServerJson]
    /\ \A N \in SUBSET MappedNames : \A r \in [N -> ServerJson] : r \in Results
BY DEF Results

-----------------------------------------------------------------------------
(***************************************************************************)
(* What the steps do to the values on their way.                           *)
(***************************************************************************)

\* The server's answer is a part of what it holds.
LEMMA AnswerEffect ==
    ASSUME TypeOK, NEW t \in Threads, Answer(t)
    PROVE  /\ pc[t] = "asked" /\ pc' = [pc EXCEPT ![t] = "apply"]
           /\ \A u \in Threads \ {t} : snapshot'[u] = snapshot[u]
           /\ \E answered \in SUBSET MappedNames :
                 /\ AnsweredNames \subseteq answered
                 /\ snapshot'[t] \in [answered -> ServerJson]
                 /\ snapshot' \in [Threads -> Results]
                 /\ \A n \in answered : snapshot'[t][n] = server[n]
                 /\ missed' = IF NothingUnderWay(t) THEN missed \ answered ELSE missed
<1>1. PICK answered \in SUBSET MappedNames :
          /\ AlwaysAnswered \cap MappedNames \subseteq answered
          /\ snapshot' = [snapshot EXCEPT ![t] = Restrict(server, answered)]
          /\ missed' = IF NothingUnderWay(t) THEN missed \ answered ELSE missed
  BY DEF Answer
<1>2. snapshot \in [Threads -> Results] /\ server \in [Names -> ServerJson]
  BY DEF TypeOK
<1>3. /\ Restrict(server, answered) \in [answered -> ServerJson]
      /\ \A n \in answered : Restrict(server, answered)[n] = server[n]
  BY <1>2, PropsOfNames DEF Restrict
<1>4. Restrict(server, answered) \in Results
  BY <1>3, ResultsAreFunctions
<1> HIDE DEF ServerJson
<1>5. snapshot' \in [Threads -> Results] /\ snapshot'[t] = Restrict(server, answered)
      /\ \A u \in Threads \ {t} : snapshot'[u] = snapshot[u]
  BY <1>1, <1>2, <1>4
<1> QED
  BY <1>1, <1>3, <1>5 DEF Answer, AnsweredNames

\* One value is taken out of the result and converted.
Converts(t, name) ==
    /\ name \in DOMAIN snapshot[t] /\ name \in MappedNames
    /\ DOMAIN snapshot'[t] = DOMAIN snapshot[t] \ {name}
    /\ \A n \in DOMAIN snapshot'[t] : snapshot'[t][n] = snapshot[t][n]
    /\ \A u \in Threads \ {t} : snapshot'[u] = snapshot[u]
    /\ updating[t] = NoUpdate
    /\ updating'[t] = Conversion(Found[name], snapshot[t][name])
    /\ \A a \in Updaters \ {t} : updating'[a] = updating[a]

LEMMA ConvertEffect ==
    ASSUME TypeOK, NEW t \in Threads, ConvertAnswer(t)
    PROVE  /\ snapshot' \in [Threads -> Results]
           /\ \E name \in MappedNames : Converts(t, name)
<1>1. PICK name \in DOMAIN snapshot[t] :
          /\ updating' = [updating EXCEPT ![t] = Conversion(Found[name], snapshot[t][name])]
          /\ snapshot' = [snapshot EXCEPT ![t] = Restrict(@, DOMAIN @ \ {name})]
  BY DEF ConvertAnswer
<1> DEFINE rest == DOMAIN snapshot[t] \ {name}
<1>2. snapshot \in [Threads -> Results] /\ DOMAIN updating = Updaters
  BY DEF TypeOK, Updaters
<1>3. snapshot[t] \in [DOMAIN snapshot[t] -> ServerJson] /\ DOMAIN snapshot[t] \subseteq MappedNames
  BY <1>2, ResultsAreFunctions
<1>4. /\ Restrict(snapshot[t], rest) \in [rest -> ServerJson]
      /\ \A n \in rest : Restrict(snapshot[t], rest)[n] = snapshot[t][n]
  BY <1>3 DEF Restrict
<1>5. Restrict(snapshot[t], rest) \in Results
  BY <1>3, <1>4, ResultsAreFunctions
<1>6. /\ snapshot' \in [Threads -> Results] /\ snapshot'[t] = Restrict(snapshot[t], rest)
      /\ \A u \in Threads \ {t} : snapshot'[u] = snapshot[u]
  BY <1>1, <1>2, <1>5
<1>7. /\ updating'[t] = Conversion(Found[name], snapshot[t][name])
      /\ \A a \in Updaters \ {t} : updating'[a] = updating[a]
  BY <1>1, <1>2 DEF Updaters
<1> QED
  BY <1>3, <1>4, <1>6, <1>7 DEF Converts, ConvertAnswer

\* The server's notification goes to the end of the inbox.
LEMMA ServerTakesEffect ==
    ASSUME TypeOK, NEW name \in Names, NEW json \in ServerJson, NEW threads,
           ServerTakes(name, json, threads)
    PROVE  /\ server' = [server EXCEPT ![name] = json]
           /\ held' = [held EXCEPT ![name] = held[name] \cup {json}]
           /\ inbox' \in Seq(Notifications)
           /\ ~subscribed => inbox' = inbox
           /\ subscribed =>
                /\ Len(inbox') = Len(inbox) + 1
                /\ \A i \in 1 .. Len(inbox) : inbox'[i] = inbox[i]
                /\ inbox'[Len(inbox) + 1].name = name
                /\ inbox'[Len(inbox) + 1].json = json
<1> DEFINE new == Notification(name, json)
<1> HIDE DEF ServerJson
<1>1. new \in Notifications /\ new.name = name /\ new.json = json
  BY DEF Notification, Notifications
<1>2. inbox \in Seq(Notifications)
  BY DEF TypeOK
<1>3. inbox' = IF subscribed THEN Append(inbox, new) ELSE inbox
  BY DEF ServerTakes
<1> HIDE DEF new
<1>4. /\ Append(inbox, new) \in Seq(Notifications)
      /\ Len(Append(inbox, new)) = Len(inbox) + 1
      /\ \A i \in 1 .. Len(inbox) : Append(inbox, new)[i] = inbox[i]
      /\ Append(inbox, new)[Len(inbox) + 1] = new
  BY <1>1, <1>2, AppendProperties
<1> QED
  BY <1>1, <1>2, <1>3, <1>4 DEF ServerTakes

LEMMA TakeEffect ==
    ASSUME TypeOK, TakeNotification
    PROVE  /\ Len(inbox) \in Nat \ {0} /\ DOMAIN inbox = 1 .. Len(inbox)
           /\ inbox[1] \in Notifications
           /\ inbox' \in Seq(Notifications)
           /\ DOMAIN inbox' = 1 .. (Len(inbox) - 1)
           /\ \A i \in DOMAIN inbox' : inbox'[i] = inbox[i + 1]
           /\ inHand' = [key : PropsOf(inbox[1].name), json : {inbox[1].json}]
<1>1. inbox \in Seq(Notifications) /\ inbox # <<>>
  BY DEF TypeOK, TakeNotification
<1>2. inbox' = Tail(inbox) /\ NextNotification = inbox[1]
  BY DEF TakeNotification, NextNotification
<1>3. /\ Tail(inbox) \in Seq(Notifications)
      /\ Len(Tail(inbox)) = Len(inbox) - 1
      /\ \A i \in 1 .. Len(Tail(inbox)) : Tail(inbox)[i] = inbox[i + 1]
      /\ Len(inbox) \in Nat \ {0}
  BY <1>1, HeadTailProperties, EmptySeq
<1>4. DOMAIN inbox = 1 .. Len(inbox) /\ DOMAIN Tail(inbox) = 1 .. Len(Tail(inbox))
  BY <1>1, <1>3
<1>5. inbox[1] \in Notifications
  BY <1>1, <1>3, <1>4
<1> QED
  BY <1>2, <1>3, <1>4, <1>5 DEF TakeNotification

\* A converted value is written.
LEMMA WriteEffect ==
    ASSUME TypeOK, NEW a \in Updaters, WriteConverted(a)
    PROVE  /\ updating[a] # NoUpdate
           /\ DOMAIN store' = DOMAIN store \cup {updating[a].record}
           /\ \A record \in DOMAIN store' :
                 store'[record] = IF record = updating[a].record THEN updating[a].value
                                  ELSE store[record]
           /\ bypassed' = bypassed \ {updating[a].record}
           /\ updating'[a] = NoUpdate
           /\ \A b \in Updaters \ {a} : updating'[b] = updating[b]
           /\ DOMAIN updating' = Updaters
BY DEF TypeOK, WriteConverted, Put, Updaters

\* A set that has been executed by the server, or not, goes on or returns.
LEMMA SendEffect ==
    ASSUME TypeOK, StepsFitCalls, NEW t \in Threads, Send(t)
    PROVE  LET name == VisNameOfKey(call[t].key)
           IN  /\ pc[t] = "send" /\ IsMapped(t) /\ name \in Names
               /\ SentText(t) \in ServerJson
               /\ UNCHANGED <<snapshot, updating, mValuesAreDirty, storeVars, inHand,
                              lost, raced>>
               /\ \A u \in Threads \ {t} : pc'[u] = pc[u] /\ call'[u] = call[u]
               /\ pc'[t] \in {"idle", "write"}
               /\ pc'[t] = "write" =>
                    /\ call'[t] = call[t]
                    /\ SentText(t).kind # "none"
                    /\ ServerTakes(name, SentText(t), Threads \ {t})
               /\ \/ ServerTakes(name, SentText(t), Threads \ {t})
                  \/ UNCHANGED <<server, changes, held, inbox, missed>>
<1>1. pc[t] = "send" /\ IsMapped(t) /\ SentText(t) \in ServerJson
  BY CallsAreTyped DEF Send, StepsFitCalls
<1>2. VisNameOfKey(call[t].key) \in Names
  BY <1>1, PropsOfNames DEF IsMapped
<1>3. DOMAIN pc = Threads /\ DOMAIN call = Threads
  BY DEF TypeOK
<1>4. ASSUME NEW ok \in BOOLEAN, AfterSend(t, ok)
      PROVE  /\ \A u \in Threads \ {t} : pc'[u] = pc[u] /\ call'[u] = call[u]
             /\ pc'[t] \in {"idle", "write"}
             /\ pc'[t] = "write" => call'[t] = call[t] /\ ok
  BY <1>3, <1>4 DEF AfterSend, GoOn, Return
<1> QED
  BY <1>1, <1>2, <1>4 DEF Send

-----------------------------------------------------------------------------
LEMMA TypeStep ==
    ASSUME TypeOK, StepsFitCalls, [Next]_vars
    PROVE  TypeOK'
<1> USE DEF TypeOK, callVars, storeVars, handlerVars, visVars, historyVars, FetchSteps
<1> HIDE DEF ServerJson, Results, Notifications
<1>1. ASSUME OnCreateReturns
      PROVE  TypeOK'
  BY <1>1 DEF OnCreateReturns, SubscribeToAll
<1>2. ASSUME NEW t \in Threads, NEW c \in Calls, StartCall(t, c)
      PROVE  TypeOK'
  BY <1>2 DEF StartCall
<1>3. ASSUME NEW t \in Threads, Lock(t)
      PROVE  TypeOK'
  BY <1>3 DEF Lock, Return, Unlock, Access
<1>4. ASSUME NEW t \in Threads,
             \/ Ask(t) \/ NothingToFetch(t) \/ FetchFails(t)
             \/ Resubscribe(t) \/ Clean(t) \/ Read(t)
      PROVE  TypeOK'
  BY <1>4 DEF Ask, NothingToFetch, FetchFails, AfterFailure, Resubscribe,
              SubscribeToAll, Clean, Read, Return, GoOn, Unlock, Access
<1>5. ASSUME NEW t \in Threads, Answer(t)
      PROVE  TypeOK'
  <2>1. snapshot' \in [Threads -> Results] /\ missed' \in SUBSET Names
    BY <1>5, AnswerEffect
  <2> QED
    BY <1>5, <2>1 DEF Answer
<1>6. ASSUME NEW t \in Threads, ConvertAnswer(t)
      PROVE  TypeOK'
  <2>1. snapshot' \in [Threads -> Results]
    BY <1>6, ConvertEffect
  <2>2. DOMAIN updating' = Threads \cup {Handler}
    BY <1>6 DEF ConvertAnswer
  <2> QED
    BY <1>6, <2>1, <2>2 DEF ConvertAnswer
<1>7. ASSUME NEW a \in Threads \cup {Handler}, WriteConverted(a)
      PROVE  TypeOK'
  <2>1. DOMAIN store \subseteq DOMAIN store' /\ DOMAIN updating' = Threads \cup {Handler}
    BY <1>7, WriteEffect DEF Updaters
  <2> QED
    BY <1>7, <2>1 DEF WriteConverted
<1>8. ASSUME NEW t \in Threads, Send(t)
      PROVE  TypeOK'
  <2> DEFINE name == VisNameOfKey(call[t].key)
             json == SentText(t)
  <2>1. name \in Names /\ json \in ServerJson
        /\ UNCHANGED <<snapshot, updating, mValuesAreDirty, storeVars, inHand, lost, raced>>
    BY <1>8, SendEffect
  <2>2. /\ pc' \in [Threads -> FetchSteps \cup {"creating", "idle", "lock", "fetch",
                                               "read", "send", "write"}]
        /\ call' \in [Threads -> Calls \cup {NoCall}]
        /\ mLock' \in Threads \cup {NoThread}
    BY <1>8 DEF Send, AfterSend, GoOn, Return, Unlock
  <2>3. UNCHANGED <<connected, statusUpdates, subscribed, drops>>
    BY <1>8 DEF Send
  <2>4. CASE ServerTakes(name, json, Threads \ {t})
    <3>1. inbox' \in Seq(Notifications)
          /\ server' = [server EXCEPT ![name] = json]
          /\ held' = [held EXCEPT ![name] = held[name] \cup {json}]
      BY <2>1, <2>4, ServerTakesEffect
    <3> HIDE DEF name, json
    <3>2. changes' \in Nat /\ missed' \in SUBSET Names
      BY <2>1, <2>4 DEF ServerTakes
    <3>3. server' \in [Names -> ServerJson] /\ DOMAIN held' = Names
      BY <2>1, <3>1
    <3> QED
      BY <2>1, <2>2, <2>3, <3>1, <3>2, <3>3
  <2>5. CASE UNCHANGED <<server, changes, held, inbox, missed>>
    BY <2>1, <2>2, <2>3, <2>5
  <2> QED
    BY <1>8, <2>4, <2>5, SendEffect
<1>9. ASSUME NEW t \in Threads, Write(t)
      PROVE  TypeOK'
  <2>1. DOMAIN store \subseteq DOMAIN store'
    BY <1>9 DEF Write, Put
  <2> QED
    BY <1>9, <2>1 DEF Write, Return, Unlock
<1>10. ASSUME NEW name \in Names, NEW json \in JsonValues[name], ServerChanges(name, json)
       PROVE  TypeOK'
  <2>1. json \in ServerJson
    BY ServerValues
  <2>2. ServerTakes(name, json, Threads)
    BY <1>10 DEF ServerChanges
  <2>3. inbox' \in Seq(Notifications)
        /\ server' = [server EXCEPT ![name] = json]
        /\ held' = [held EXCEPT ![name] = held[name] \cup {json}]
    BY <2>1, <2>2, ServerTakesEffect
  <2>4. changes' \in Nat /\ missed' \in SUBSET Names
    BY <2>2 DEF ServerTakes
  <2> QED
    BY <1>10, <2>1, <2>3, <2>4 DEF ServerChanges
<1>11. ASSUME TakeNotification
       PROVE  TypeOK'
  <2>1. /\ inbox[1] \in Notifications /\ inbox' \in Seq(Notifications)
        /\ inHand' = [key : PropsOf(inbox[1].name), json : {inbox[1].json}]
    BY <1>11, TakeEffect
  <2>2. inHand' \in SUBSET [key : Keys, json : ServerJson]
    BY <2>1, PropsOfNames DEF Notifications
  <2> QED
    BY <1>11, <2>1, <2>2 DEF TakeNotification
<1>12. ASSUME ConvertNotification
       PROVE  TypeOK'
  BY <1>12 DEF ConvertNotification
<1>13. ASSUME Disconnect \/ Connect
       PROVE  TypeOK'
  <2>1. /\ Append(statusUpdates, TRUE) \in Seq(BOOLEAN)
        /\ Append(statusUpdates, FALSE) \in Seq(BOOLEAN)
    BY AppendProperties
  <2>2. statusUpdates' \in Seq(BOOLEAN)
    BY <1>13, <2>1, Zenon DEF Disconnect, Connect
  <2>3. inbox' \in Seq(Notifications)
    BY <1>13, EmptySeq DEF Disconnect, Connect
  <2>4. UNCHANGED <<callVars, updating, mLock, mValuesAreDirty, storeVars, inHand,
                    server, changes, held, lost, raced>>
    BY <1>13 DEF Disconnect, Connect
  <2>5. connected' \in BOOLEAN /\ subscribed' \in BOOLEAN
    BY <1>13, Zenon DEF Disconnect, Connect
  <2>6. drops' \in Nat /\ missed' \in SUBSET Names
    <3>1. drops + 1 \in Nat
      OBVIOUS
    <3> QED
      BY <1>13, <3>1 DEF Disconnect, Connect
  <2> QED
    BY <2>2, <2>3, <2>4, <2>5, <2>6
<1>14. ASSUME OnVisConnectionStatusUpdate
       PROVE  TypeOK'
  <2>1. Tail(statusUpdates) \in Seq(BOOLEAN) /\ Head(statusUpdates) \in BOOLEAN
    BY <1>14, HeadTailProperties DEF OnVisConnectionStatusUpdate
  <2>2. mValuesAreDirty' \in BOOLEAN /\ lost' \in BOOLEAN /\ raced' \in BOOLEAN
    BY <1>14, <2>1, Zenon DEF OnVisConnectionStatusUpdate, BecomesDirty
  <2> QED
    BY <1>14, <2>1, <2>2 DEF OnVisConnectionStatusUpdate
<1>15. CASE UNCHANGED vars
  BY <1>15 DEF vars
<1> QED
  BY <1>1, <1>2, <1>3, <1>4, <1>5, <1>6, <1>7, <1>8, <1>9, <1>10, <1>11, <1>12,
     <1>13, <1>14, <1>15 DEF Next, Continue, VisClientThreads, Environment

\* What every other step leaves to the calls.
LEMMA OtherStepsKeepCalls ==
    ASSUME VisClientThreads \/ Environment
    PROVE  UNCHANGED <<pc, call, snapshot, mLock>>
BY DEF VisClientThreads, Environment, TakeNotification, ConvertNotification,
       WriteConverted, OnVisConnectionStatusUpdate, ServerChanges, Disconnect,
       Connect, callVars

LEMMA OtherStepsKeepUpdates ==
    ASSUME TypeOK, VisClientThreads \/ Environment
    PROVE  \A t \in Threads : updating'[t] = updating[t]
<1>1. DOMAIN updating = Threads \cup {Handler} /\ Handler \notin Threads
  BY NoThreadAssumption DEF TypeOK
<1> QED
  BY <1>1 DEF VisClientThreads, Environment, TakeNotification, ConvertNotification,
              WriteConverted, OnVisConnectionStatusUpdate, ServerChanges, Disconnect,
              Connect

LEMMA CallStep ==
    ASSUME TypeOK, StepsFitCalls, LockIsHeld, [Next]_vars
    PROVE  StepsFitCalls' /\ LockIsHeld'
<1> USE DEF StepsFitCalls, LockIsHeld, InCriticalSection, FetchSteps, IsMapped
<1>0. /\ pc \in [Threads -> FetchSteps \cup {"creating", "idle", "lock", "fetch",
                                            "read", "send", "write"}]
      /\ call \in [Threads -> Calls \cup {NoCall}]
      /\ DOMAIN snapshot = Threads
      /\ DOMAIN updating = Updaters /\ Threads \subseteq Updaters
      /\ NoThread \notin Threads
      /\ NoCall.op = "none"
      /\ \A t \in Threads : call[t].op \in {"get", "set", "subscribe", "none"}
  BY NoThreadAssumption, CallsAreTyped DEF TypeOK, NoCall, Updaters
<1>1. ASSUME OnCreateReturns
      PROVE  StepsFitCalls' /\ LockIsHeld'
  BY <1>0, <1>1 DEF OnCreateReturns
<1>2. ASSUME NEW t \in Threads, NEW c \in Calls, StartCall(t, c)
      PROVE  StepsFitCalls' /\ LockIsHeld'
  <2>1. c.op \in {"get", "set", "subscribe"}
    BY DEF Calls
  <2> QED
    BY <1>0, <1>2, <2>1 DEF StartCall
<1>3. ASSUME NEW t \in Threads, Lock(t)
      PROVE  StepsFitCalls' /\ LockIsHeld'
  <2>1. CASE Return(t)
    BY <1>0, <1>3, <2>1 DEF Lock, Return, Unlock
  <2>2. CASE mLock' = t /\ pc' = [pc EXCEPT ![t] = "fetch"] /\ UNCHANGED call
             /\ call[t].key \in Mapped
    BY <1>0, <1>3, <2>2 DEF Lock
  <2>3. CASE mLock' = t /\ pc' = [pc EXCEPT ![t] = Access(t)] /\ UNCHANGED call
    BY <1>0, <1>3, <2>3 DEF Lock, Access
  <2> QED
    BY <1>3, <2>1, <2>2, <2>3 DEF Lock
<1>4. ASSUME NEW t \in Threads, Return(t), UNCHANGED <<snapshot, updating>>,
             pc[t] # "apply"
      PROVE  StepsFitCalls' /\ LockIsHeld'
  <2>1. \A u \in Threads \ {t} : mLock = u => mLock' = u
    BY <1>0, <1>4 DEF Return, Unlock
  <2> QED
    BY <1>0, <1>4, <2>1 DEF Return
<1>5. ASSUME NEW t \in Threads, NothingToFetch(t) \/ FetchFails(t) \/ Read(t) \/ Write(t)
      PROVE  StepsFitCalls' /\ LockIsHeld'
  BY <1>4, <1>5 DEF NothingToFetch, FetchFails, AfterFailure, Read, Write
<1>6. ASSUME NEW t \in Threads, Ask(t) \/ Resubscribe(t)
      PROVE  StepsFitCalls' /\ LockIsHeld'
  BY <1>0, <1>6 DEF Ask, Resubscribe
<1>7. ASSUME NEW t \in Threads, Answer(t)
      PROVE  StepsFitCalls' /\ LockIsHeld'
  <2>1. pc' = [pc EXCEPT ![t] = "apply"] /\ pc[t] = "asked"
        /\ UNCHANGED <<call, updating, mLock>>
        /\ \A u \in Threads \ {t} : snapshot'[u] = snapshot[u]
    BY <1>7, AnswerEffect DEF Answer
  <2> QED
    BY <1>0, <2>1
<1>8. ASSUME NEW t \in Threads, ConvertAnswer(t)
      PROVE  StepsFitCalls' /\ LockIsHeld'
  <2>1. UNCHANGED <<pc, call, mLock>> /\ pc[t] = "apply"
    BY <1>8 DEF ConvertAnswer
  <2>2. /\ \A u \in Threads \ {t} : snapshot'[u] = snapshot[u]
        /\ \A a \in Updaters \ {t} : updating'[a] = updating[a]
    BY <1>8, ConvertEffect DEF Converts
  <2> QED
    BY <1>0, <2>1, <2>2
<1>9. ASSUME NEW t \in Threads, WriteConverted(t)
      PROVE  StepsFitCalls' /\ LockIsHeld'
  <2>1. UNCHANGED <<callVars, mLock>> /\ updating[t] # NoUpdate
    BY <1>9 DEF WriteConverted
  <2>2. /\ updating'[t] = NoUpdate
        /\ \A a \in Updaters \ {t} : updating'[a] = updating[a]
    BY <1>0, <1>9, WriteEffect
  <2> QED
    BY <1>0, <2>1, <2>2 DEF callVars
<1>10. ASSUME NEW t \in Threads, Clean(t)
       PROVE  StepsFitCalls' /\ LockIsHeld'
  <2>1. CASE GoOn(t, Access(t)) /\ call[t].op # "subscribe"
    BY <1>0, <1>10, <2>1 DEF Clean, GoOn, Access
  <2> QED
    BY <1>4, <1>10, <2>1 DEF Clean
<1>11. ASSUME NEW t \in Threads, Send(t)
       PROVE  StepsFitCalls' /\ LockIsHeld'
  <2>1. CASE GoOn(t, "write")
    BY <1>0, <1>11, <2>1 DEF Send, GoOn
  <2> QED
    BY <1>4, <1>11, <2>1 DEF Send, AfterSend
<1>12. CASE UNCHANGED <<pc, call, snapshot, mLock>>
            /\ \A t \in Threads : updating'[t] = updating[t]
  BY <1>12
<1>13. CASE UNCHANGED vars
  BY <1>12, <1>13 DEF vars, callVars
<1> QED
  BY <1>1, <1>2, <1>3, <1>5, <1>6, <1>7, <1>8, <1>9, <1>10, <1>11, <1>12, <1>13,
     OtherStepsKeepCalls, OtherStepsKeepUpdates DEF Next, Continue

-----------------------------------------------------------------------------
(***************************************************************************)
(* Values that are held, on their way and in the store.                    *)
(***************************************************************************)

\* Steps that write nothing to the store and send nothing on its way there.
NothingNewUnderWay ==
    /\ UNCHANGED <<server, held, snapshot, updating, inbox, inHand, storeVars, missed>>
    /\ \A t \in Threads : pc'[t] = "write" =>
           /\ call'[t] = call[t]
           /\ pc[t] = "write" \/ ~IsMapped(t)

LEMMA StepsAside ==
    ASSUME TypeOK
    PROVE  /\ OnCreateReturns \/ Connect \/ OnVisConnectionStatusUpdate
              => NothingNewUnderWay
           /\ \A t \in Threads :
                 \/ Lock(t) \/ Ask(t) \/ NothingToFetch(t) \/ FetchFails(t)
                 \/ Resubscribe(t) \/ Clean(t) \/ Read(t)
                 \/ \E c \in Calls : StartCall(t, c)
                 => NothingNewUnderWay
<1>0. /\ pc \in [Threads -> FetchSteps \cup {"creating", "idle", "lock", "fetch",
                                            "read", "send", "write"}]
      /\ call \in [Threads -> Calls \cup {NoCall}]
  BY DEF TypeOK, FetchSteps
<1>1. ASSUME OnCreateReturns \/ Connect \/ OnVisConnectionStatusUpdate
      PROVE  NothingNewUnderWay
  <2>1. UNCHANGED <<server, held, snapshot, updating, inbox, inHand, storeVars, missed>>
    BY <1>1 DEF OnCreateReturns, Connect, OnVisConnectionStatusUpdate, handlerVars,
                historyVars, callVars
  <2>2. \A u \in Threads : pc'[u] = "write" => pc[u] = "write" /\ call'[u] = call[u]
    BY <1>0, <1>1 DEF OnCreateReturns, Connect, OnVisConnectionStatusUpdate, callVars
  <2> QED
    BY <2>1, <2>2 DEF NothingNewUnderWay
<1>2. ASSUME NEW t \in Threads,
             \/ Lock(t) \/ Ask(t) \/ NothingToFetch(t) \/ FetchFails(t)
             \/ Resubscribe(t) \/ Clean(t) \/ Read(t)
             \/ \E c \in Calls : StartCall(t, c)
      PROVE  NothingNewUnderWay
  <2>1. UNCHANGED <<server, held, snapshot, updating, inbox, inHand, storeVars, missed>>
    BY <1>2 DEF Lock, Ask, NothingToFetch, FetchFails, Resubscribe, Clean, Read,
                StartCall, handlerVars, visVars, historyVars
  <2>2. \A u \in Threads \ {t} : pc'[u] = pc[u] /\ call'[u] = call[u]
    BY <1>0, <1>2 DEF Lock, Ask, NothingToFetch, FetchFails, AfterFailure, Resubscribe,
                Clean, Read, StartCall, Return, GoOn
  <2>3. pc'[t] = "write" => call'[t] = call[t] /\ ~IsMapped(t)
    BY <1>0, <1>2 DEF Lock, Ask, NothingToFetch, FetchFails, AfterFailure,
                Resubscribe, Clean, Read, StartCall, Return, GoOn, Access
  <2> QED
    BY <2>1, <2>2, <2>3 DEF NothingNewUnderWay
<1> QED
  BY <1>1, <1>2

LEMMA SameCall ==
    ASSUME NEW t, call'[t] = call[t]
    PROVE  /\ IsMapped(t)' = IsMapped(t) /\ SentText(t)' = SentText(t)
           /\ call'[t].key = call[t].key
BY DEF IsMapped, SentText

\* The server forgets nothing that it has held.
HeldGrows ==
    \A n \in Names : held[n] \subseteq held'[n]

LEMMA NamesOfAreNames == \A record : NamesOf(record) \subseteq Names
BY PropsOfNames DEF NamesOf

\* A step writes nothing to the store, or a value that the server has held, or
\* one that bypasses it.
StoreStep ==
    \/ UNCHANGED storeVars
    \/ \E record, value :
          /\ DOMAIN store' = DOMAIN store \cup {record}
          /\ \A r \in DOMAIN store' :
                store'[r] = IF r = record THEN value ELSE store[r]
          /\ \/ bypassed' = bypassed \cup {record}
             \/ /\ bypassed' = bypassed \ {record}
                /\ \E name \in NamesOf(record) : IsHeldValue(record, value, name)

LEMMA StoreSteps ==
    ASSUME TypeOK, StepsFitCalls, PendingValuesAreHeld, [Next]_vars
    PROVE  StoreStep /\ HeldGrows
<1>1. ASSUME NothingNewUnderWay
      PROVE  StoreStep /\ HeldGrows
  BY <1>1 DEF NothingNewUnderWay, StoreStep, HeldGrows
<1>2. ASSUME NEW t \in Threads, Answer(t) \/ ConvertAnswer(t)
      PROVE  StoreStep /\ HeldGrows
  BY <1>2 DEF Answer, ConvertAnswer, historyVars, StoreStep, HeldGrows
<1>3. ASSUME NEW a \in Updaters, WriteConverted(a)
      PROVE  StoreStep /\ HeldGrows
  <2>1. HeldGrows
    BY <1>3 DEF WriteConverted, historyVars, HeldGrows
  <2>2. WillWriteHeldValue(a)
    BY <1>3, WriteEffect DEF PendingValuesAreHeld
  <2> QED
    BY <1>3, <2>1, <2>2, WriteEffect DEF WillWriteHeldValue, StoreStep
<1>4. ASSUME NEW name \in Names, NEW json \in ServerJson, NEW threads,
             ServerTakes(name, json, threads)
      PROVE  HeldGrows
  <2>1. held' = [held EXCEPT ![name] = held[name] \cup {json}] /\ DOMAIN held = Names
    BY <1>4 DEF ServerTakes, TypeOK
  <2> QED
    BY <2>1 DEF HeldGrows
<1>5. ASSUME NEW t \in Threads, Send(t)
      PROVE  StoreStep /\ HeldGrows
  <2>1. UNCHANGED storeVars
    BY <1>5, SendEffect
  <2>2. HeldGrows
    BY <1>4, <1>5, SendEffect DEF HeldGrows
  <2> QED
    BY <2>1, <2>2 DEF StoreStep
<1>6. ASSUME NEW name \in Names, NEW json \in JsonValues[name], ServerChanges(name, json)
      PROVE  StoreStep /\ HeldGrows
  <2>1. /\ held' = [held EXCEPT ![name] = held[name] \cup {json}] /\ DOMAIN held = Names
        /\ UNCHANGED storeVars
    BY <1>6 DEF ServerChanges, ServerTakes, TypeOK
  <2> QED
    BY <2>1 DEF StoreStep, HeldGrows
<1>7. ASSUME NEW t \in Threads, Write(t)
      PROVE  StoreStep /\ HeldGrows
  <2>1. HeldGrows
    BY <1>7 DEF Write, historyVars, HeldGrows
  <2> DEFINE record == RecordOf(call[t].key)
             value == call[t].value
  <2>2. /\ DOMAIN store' = DOMAIN store \cup {record}
        /\ \A r \in DOMAIN store' : store'[r] = IF r = record THEN value ELSE store[r]
        /\ bypassed' = IF IsMapped(t) THEN bypassed \ {record} ELSE bypassed \cup {record}
        /\ pc[t] = "write"
    BY <1>7 DEF Write, Put
  <2>3. CASE IsMapped(t)
    <3> DEFINE name == VisNameOfKey(call[t].key)
    <3>1. SentText(t).kind # "none" /\ SentText(t) \in held[name]
      BY <2>2, <2>3 DEF PendingValuesAreHeld
    <3>2. IsHeldValue(record, value, name)
      BY <3>1, SentTextAgrees DEF IsHeldValue
    <3>3. name \in NamesOf(record)
      BY <2>3, PropsOfNames, NamesOfRecords DEF IsMapped
    <3> HIDE DEF record, value, name
    <3> QED
      BY <2>1, <2>2, <2>3, <3>2, <3>3 DEF StoreStep
  <2>4. CASE ~IsMapped(t)
    <3> HIDE DEF record, value
    <3> QED
      BY <2>1, <2>2, <2>4 DEF StoreStep
  <2> QED
    BY <2>3, <2>4
<1>8. ASSUME TakeNotification \/ ConvertNotification \/ Disconnect \/ UNCHANGED vars
      PROVE  StoreStep /\ HeldGrows
  BY <1>8 DEF TakeNotification, ConvertNotification, Disconnect, vars, historyVars,
              StoreStep, HeldGrows
<1> QED
  BY <1>1, <1>2, <1>3, <1>5, <1>6, <1>7, <1>8, StepsAside
  DEF Next, Continue, VisClientThreads, Environment, Updaters

\* What a record has of the server stays so.
LEMMA RecordsKeepValues ==
    ASSUME TypeOK, StoreStep, HeldGrows, NEW record
    PROVE  /\ HeldOrBypassed(record) => HeldOrBypassed(record)'
           /\ HeldOrBypassed(record) \/ IsInitial(record)
              => HeldOrBypassed(record)' \/ IsInitial(record)'
<1>1. \A value : \A name \in NamesOf(record) :
          IsHeldValue(record, value, name) => IsHeldValue(record, value, name)'
  BY NamesOfAreNames DEF IsHeldValue, HeldGrows
<1>2. CASE UNCHANGED storeVars
  BY <1>1, <1>2 DEF storeVars, HeldOrBypassed, HasHeldValue, IsInitial
<1>3. CASE \E r, value :
              /\ DOMAIN store' = DOMAIN store \cup {r}
              /\ \A s \in DOMAIN store' :
                    store'[s] = IF s = r THEN value ELSE store[s]
              /\ \/ bypassed' = bypassed \cup {r}
                 \/ /\ bypassed' = bypassed \ {r}
                    /\ \E name \in NamesOf(r) : IsHeldValue(r, value, name)
  <2>1. PICK r, value :
              /\ DOMAIN store' = DOMAIN store \cup {r}
              /\ \A s \in DOMAIN store' :
                    store'[s] = IF s = r THEN value ELSE store[s]
              /\ \/ bypassed' = bypassed \cup {r}
                 \/ /\ bypassed' = bypassed \ {r}
                    /\ \E name \in NamesOf(r) : IsHeldValue(r, value, name)
    BY <1>3
  <2>2. CASE r = record
    <3>1. record \in DOMAIN store' /\ store'[record] = value
      BY <2>1, <2>2
    <3>2. HeldOrBypassed(record)'
      BY <1>1, <2>1, <2>2, <3>1 DEF HeldOrBypassed, HasHeldValue
    <3> QED
      BY <3>2
  <2>3. CASE r # record
    <3>1. /\ record \in DOMAIN store' <=> record \in DOMAIN store
          /\ record \in DOMAIN store => store'[record] = store[record]
          /\ record \in bypassed' <=> record \in bypassed
      BY <2>1, <2>3
    <3>2. HeldOrBypassed(record) => HeldOrBypassed(record)'
      BY <1>1, <3>1 DEF HeldOrBypassed, HasHeldValue
    <3>3. IsInitial(record) => HeldOrBypassed(record)' \/ IsInitial(record)'
      BY <3>1 DEF IsInitial, TypeOK
    <3> QED
      BY <3>2, <3>3
  <2> QED
    BY <2>2, <2>3
<1> QED
  BY <1>2, <1>3 DEF StoreStep

LEMMA StoreHoldsStep ==
    ASSUME TypeOK, StoreHoldsServerValues, StoreStep, HeldGrows
    PROVE  StoreHoldsServerValues'
<1>1. SUFFICES ASSUME NEW key \in Mapped
               PROVE  HeldOrBypassed(RecordOf(key))' \/ IsInitial(RecordOf(key))'
  BY DEF StoreHoldsServerValues, HeldOrBypassed
<1>2. HeldOrBypassed(RecordOf(key)) \/ IsInitial(RecordOf(key))
  BY DEF StoreHoldsServerValues, HeldOrBypassed
<1> QED
  BY <1>2, RecordsKeepValues

\* What is converted is a value of the record's.
LEMMA ConversionsAreHeld ==
    ASSUME NEW name \in MappedNames, NEW key \in PropsOf(name), NEW json \in held[name],
           NEW update, update = Conversion(key, json), update # NoUpdate
    PROVE  /\ update.record \in DOMAIN store
           /\ \E n \in NamesOf(update.record) : IsHeldValue(update.record, update.value, n)
<1>1. /\ update.record = RecordOf(key) /\ RecordOf(key) \in DOMAIN store
      /\ Agrees(TypeOf(key), update.value, json)
  BY Conversions
<1>2. name \in NamesOf(update.record) /\ TypeOf(update.record) = TypeOf(key)
  BY <1>1, NamesOfRecords, RecordsOfKeys
<1>3. IsHeldValue(update.record, update.value, name)
  BY <1>1, <1>2 DEF IsHeldValue
<1> QED
  BY <1>1, <1>2, <1>3

LEMMA UpdatesStayHeld ==
    ASSUME StoreStep, HeldGrows, NEW a, updating'[a] = updating[a], WillWriteHeldValue(a)
    PROVE  WillWriteHeldValue(a)'
<1>1. DOMAIN store \subseteq DOMAIN store'
  BY DEF StoreStep, storeVars
<1>2. PICK name \in NamesOf(updating[a].record) :
          IsHeldValue(updating[a].record, updating[a].value, name)
  BY DEF WillWriteHeldValue
<1>3. IsHeldValue(updating[a].record, updating[a].value, name)'
  BY <1>2, NamesOfAreNames DEF IsHeldValue, HeldGrows
<1> QED
  BY <1>1, <1>2, <1>3 DEF WillWriteHeldValue

LEMMA PendingStep ==
    ASSUME TypeOK, StepsFitCalls, PendingValuesAreHeld, StoreStep, HeldGrows, [Next]_vars
    PROVE  PendingValuesAreHeld'
<1> USE DEF PendingValuesAreHeld
<1>0. /\ pc \in [Threads -> FetchSteps \cup {"creating", "idle", "lock", "fetch",
                                            "read", "send", "write"}]
      /\ call \in [Threads -> Calls \cup {NoCall}]
      /\ DOMAIN server = Names
      /\ inbox \in Seq(Notifications) /\ MappedNames \subseteq Names
      /\ DOMAIN updating = Updaters /\ Handler \notin Threads
      /\ Threads \subseteq Updaters /\ Handler \in Updaters
      /\ \A t \in Threads : snapshot[t] \in Results
      /\ \A n \in Names : held[n] \subseteq held'[n]
      /\ \A i \in DOMAIN inbox : inbox[i].name \in Names
  <2>1. \A i \in DOMAIN inbox : inbox[i].name \in Names
    <3>1. inbox \in Seq(Notifications)
      BY DEF TypeOK
    <3>2. \A i \in DOMAIN inbox : inbox[i] \in Notifications
      BY <3>1
    <3> QED
      BY <3>2 DEF Notifications
  <2> QED
    BY <2>1, PropsOfNames, NoThreadAssumption DEF TypeOK, Updaters, FetchSteps, HeldGrows
<1>1. ASSUME NEW a \in Updaters, updating'[a] = updating[a]
      PROVE  updating'[a] # NoUpdate => WillWriteHeldValue(a)'
  BY <1>1, UpdatesStayHeld
<1>2. ASSUME NothingNewUnderWay
      PROVE  PendingValuesAreHeld'
  <2>1. UNCHANGED <<server, held, snapshot, updating, inbox, inHand>>
    BY <1>2 DEF NothingNewUnderWay
  <2>2. \A a \in Updaters : updating'[a] # NoUpdate => WillWriteHeldValue(a)'
    BY <1>1, <2>1
  <2>3. \A t \in Threads :
            pc'[t] = "write" /\ IsMapped(t)'
            => SentText(t)'.kind # "none"
               /\ SentText(t)' \in held[VisNameOfKey(call[t].key)] /\ call'[t] = call[t]
    BY <1>2, SameCall DEF NothingNewUnderWay
  <2> QED
    BY <2>1, <2>2, <2>3
<1>3. ASSUME UNCHANGED <<server, held, snapshot, inbox, inHand>>,
             \A t \in Threads : pc'[t] = "write" => pc[t] = "write" /\ call'[t] = call[t],
             \A a \in Updaters : updating'[a] # NoUpdate => WillWriteHeldValue(a)'
      PROVE  PendingValuesAreHeld'
  <2>1. \A t \in Threads :
            pc'[t] = "write" /\ IsMapped(t)'
            => SentText(t)'.kind # "none"
               /\ SentText(t)' \in held[VisNameOfKey(call[t].key)] /\ call'[t] = call[t]
    BY <1>3, SameCall
  <2> QED
    BY <1>3, <2>1
<1>4. ASSUME UNCHANGED <<server, held, pc, call>>
      PROVE  /\ \A n \in Names : server'[n] \in held'[n]
             /\ \A t \in Threads :
                   pc'[t] = "write" /\ IsMapped(t)'
                   => /\ SentText(t)'.kind # "none"
                      /\ SentText(t)' \in held'[VisNameOfKey(call'[t].key)]
  BY <1>4, SameCall
<1>5. ASSUME NEW t \in Threads, Answer(t)
      PROVE  PendingValuesAreHeld'
  <2>1. UNCHANGED <<server, held, inbox, inHand, call, updating>>
    BY <1>5 DEF Answer, handlerVars, visVars
  <2>2. \A u \in Threads : pc'[u] = "write" => pc[u] = "write"
    BY <1>0, <1>5 DEF Answer
  <2>3. \A u \in Threads : \A n \in DOMAIN snapshot'[u] : snapshot'[u][n] \in held[n]
    <3>1. PICK answered \in SUBSET MappedNames :
              /\ snapshot'[t] \in [answered -> ServerJson]
              /\ \A n \in answered : snapshot'[t][n] = server[n]
      BY <1>5, AnswerEffect
    <3>2. \A n \in DOMAIN snapshot'[t] : snapshot'[t][n] \in held[n]
      BY <1>0, <3>1
    <3> QED
      BY <1>5, <3>2, AnswerEffect
  <2>4. \A a \in Updaters : updating'[a] # NoUpdate => WillWriteHeldValue(a)'
    BY <1>1, <2>1
  <2>5. \A u \in Threads :
            pc'[u] = "write" /\ IsMapped(u)'
            => SentText(u)'.kind # "none"
               /\ SentText(u)' \in held[VisNameOfKey(call[u].key)]
    BY <2>1, <2>2, SameCall
  <2> QED
    BY <2>1, <2>3, <2>4, <2>5
<1>6. ASSUME NEW t \in Threads, ConvertAnswer(t)
      PROVE  PendingValuesAreHeld'
  <2>1. UNCHANGED <<server, held, inbox, inHand, pc, call, store>>
    BY <1>6 DEF ConvertAnswer, handlerVars, visVars, historyVars, storeVars
  <2>2. PICK name \in MappedNames : Converts(t, name)
    BY <1>6, ConvertEffect
  <2>3. \A u \in Threads : \A n \in DOMAIN snapshot'[u] : snapshot'[u][n] \in held[n]
    BY <2>2 DEF Converts
  <2>4. updating'[t] # NoUpdate => WillWriteHeldValue(t)'
    <3>1. Found[name] \in PropsOf(name) /\ snapshot[t][name] \in held[name]
      BY <2>2, PropsOfNames DEF Converts
    <3>2. updating'[t] = Conversion(Found[name], snapshot[t][name])
      BY <2>2 DEF Converts
    <3>3. updating'[t] # NoUpdate =>
              /\ updating'[t].record \in DOMAIN store
              /\ \E n \in NamesOf(updating'[t].record) :
                    IsHeldValue(updating'[t].record, updating'[t].value, n)
      BY <3>1, <3>2, ConversionsAreHeld
    <3> QED
      BY <2>1, <3>3 DEF WillWriteHeldValue, IsHeldValue
  <2>5. \A a \in Updaters : updating'[a] # NoUpdate => WillWriteHeldValue(a)'
    BY <1>1, <2>2, <2>4 DEF Converts
  <2> QED
    BY <1>4, <2>1, <2>3, <2>5
<1>7. ASSUME NEW a \in Updaters, WriteConverted(a)
      PROVE  PendingValuesAreHeld'
  <2>1. UNCHANGED <<server, held, inbox, inHand, pc, call, snapshot>>
    BY <1>7 DEF WriteConverted, handlerVars, visVars, historyVars, callVars
  <2>2. \A b \in Updaters : updating'[b] # NoUpdate => WillWriteHeldValue(b)'
    BY <1>1, <1>7, WriteEffect
  <2> QED
    BY <1>3, <2>1, <2>2
<1>8. ASSUME NEW name \in Names, NEW json \in ServerJson, NEW threads,
             ServerTakes(name, json, threads), UNCHANGED <<snapshot, updating, inHand>>,
             \A t \in Threads : pc'[t] = "write" =>
                 /\ call'[t] = call[t]
                 /\ \/ pc[t] = "write"
                    \/ /\ SentText(t) = json /\ json.kind # "none"
                       /\ VisNameOfKey(call[t].key) = name
      PROVE  PendingValuesAreHeld'
  <2>1. /\ server' = [server EXCEPT ![name] = json]
        /\ held' = [held EXCEPT ![name] = held[name] \cup {json}]
        /\ DOMAIN held = Names
    BY <1>8, ServerTakesEffect DEF TypeOK
  <2>2. json \in held'[name] /\ \A n \in Names : server'[n] \in held'[n]
    BY <1>0, <2>1
  <2>3. \A i \in DOMAIN inbox' : inbox'[i].json \in held'[inbox'[i].name]
    <3>1. CASE ~subscribed
      <4>1. inbox' = inbox
        BY <1>8, <3>1, ServerTakesEffect
      <4> QED
        BY <1>0, <4>1
    <3>2. CASE subscribed
      <4>1. /\ inbox' \in Seq(Notifications)
            /\ Len(inbox') = Len(inbox) + 1
            /\ \A i \in 1 .. Len(inbox) : inbox'[i] = inbox[i]
            /\ inbox'[Len(inbox) + 1].name = name
            /\ inbox'[Len(inbox) + 1].json = json
        BY <1>8, <3>2, ServerTakesEffect
      <4>2. ASSUME NEW i \in DOMAIN inbox' PROVE inbox'[i].json \in held'[inbox'[i].name]
        <5>1. (i \in DOMAIN inbox /\ i \in 1 .. Len(inbox)) \/ i = Len(inbox) + 1
          BY <1>0, <4>1
        <5> QED
          BY <1>0, <2>2, <4>1, <5>1
      <4> QED
        BY <4>2
    <3> QED
      BY <3>1, <3>2
  <2>4. \A t \in Threads : \A n \in DOMAIN snapshot'[t] : snapshot'[t][n] \in held'[n]
    BY <1>0, <1>8, ResultsAreFunctions
  <2>5. \A item \in inHand' :
            \E n \in MappedNames : item.key \in PropsOf(n) /\ item.json \in held'[n]
    BY <1>0, <1>8
  <2>6. \A a \in Updaters : updating'[a] # NoUpdate => WillWriteHeldValue(a)'
    BY <1>1, <1>8
  <2>7. \A t \in Threads :
            pc'[t] = "write" /\ IsMapped(t)'
            => /\ SentText(t)'.kind # "none"
               /\ SentText(t)' \in held'[VisNameOfKey(call'[t].key)]
    <3>1. SUFFICES ASSUME NEW t \in Threads, pc'[t] = "write", IsMapped(t)'
                   PROVE  /\ SentText(t)'.kind # "none"
                          /\ SentText(t)' \in held'[VisNameOfKey(call'[t].key)]
      OBVIOUS
    <3>2. /\ call'[t] = call[t] /\ IsMapped(t) /\ SentText(t)' = SentText(t)
          /\ VisNameOfKey(call[t].key) \in Names
      BY <1>8, <3>1, SameCall, PropsOfNames DEF IsMapped
    <3> QED
      BY <1>0, <1>8, <2>2, <3>1, <3>2
  <2> QED
    BY <2>2, <2>3, <2>4, <2>5, <2>6, <2>7
<1>9. ASSUME NEW t \in Threads, Send(t)
      PROVE  PendingValuesAreHeld'
  <2> DEFINE name == VisNameOfKey(call[t].key)
  <2>1. /\ name \in Names /\ SentText(t) \in ServerJson
        /\ UNCHANGED <<snapshot, updating, storeVars, inHand>>
    BY <1>9, SendEffect
  <2>2. CASE ServerTakes(name, SentText(t), Threads \ {t})
    <3>1. \A u \in Threads : pc'[u] = "write" =>
              /\ call'[u] = call[u]
              /\ \/ pc[u] = "write"
                 \/ /\ SentText(u) = SentText(t) /\ SentText(t).kind # "none"
                    /\ VisNameOfKey(call[u].key) = name
      BY <1>9, SendEffect
    <3> HIDE DEF PendingValuesAreHeld, name
    <3> QED
      BY <1>8, <2>1, <2>2, <3>1
  <2>3. CASE UNCHANGED <<server, changes, held, inbox, missed>> /\ pc'[t] # "write"
    <3>1. NothingNewUnderWay
      BY <1>9, <2>1, <2>3, SendEffect DEF NothingNewUnderWay
    <3> HIDE DEF PendingValuesAreHeld
    <3> QED
      BY <1>2, <3>1
  <2> HIDE DEF PendingValuesAreHeld
  <2> QED
    BY <1>9, <2>2, <2>3, SendEffect
<1>10. ASSUME NEW name \in Names, NEW json \in JsonValues[name], ServerChanges(name, json)
       PROVE  PendingValuesAreHeld'
  <2>1. /\ ServerTakes(name, json, Threads)
        /\ UNCHANGED <<snapshot, updating, inHand, pc, call>>
    BY <1>10 DEF ServerChanges, callVars
  <2>2. json \in ServerJson
    BY ServerValues
  <2> HIDE DEF PendingValuesAreHeld
  <2> QED
    BY <1>8, <2>1, <2>2
<1>11. ASSUME NEW t \in Threads, Write(t)
       PROVE  PendingValuesAreHeld'
  <2>1. UNCHANGED <<server, held, snapshot, updating, inbox, inHand>>
    BY <1>11 DEF Write, handlerVars, visVars, historyVars
  <2>2. \A u \in Threads : pc'[u] = "write" => call'[u] = call[u] /\ pc[u] = "write"
    BY <1>0, <1>11 DEF Write, Return
  <2> QED
    BY <1>1, <1>3, <2>1, <2>2
<1>12. ASSUME TakeNotification
       PROVE  PendingValuesAreHeld'
  <2>1. UNCHANGED <<server, held, snapshot, updating, storeVars, pc, call>>
    BY <1>12 DEF TakeNotification, visVars, historyVars, callVars
  <2>2. 1 \in DOMAIN inbox /\ \A i \in DOMAIN inbox' : i + 1 \in DOMAIN inbox /\ inbox'[i] = inbox[i + 1]
    BY <1>12, TakeEffect
  <2>3. \A item \in inHand' : /\ item.key \in PropsOf(inbox[1].name)
                              /\ item.json = inbox[1].json
    <3>1. inHand' = [key : PropsOf(inbox[1].name), json : {inbox[1].json}]
      BY <1>12, TakeEffect
    <3> QED
      BY <3>1
  <2>4. \A item \in inHand' :
            \E n \in MappedNames : item.key \in PropsOf(n) /\ item.json \in held'[n]
    BY <2>1, <2>2, <2>3, PropsOfNames
  <2>5. \A a \in Updaters : updating'[a] # NoUpdate => WillWriteHeldValue(a)'
    BY <1>1, <2>1
  <2>6. \A i \in DOMAIN inbox' : inbox'[i].json \in held'[inbox'[i].name]
    BY <2>1, <2>2
  <2> QED
    BY <1>4, <2>1, <2>4, <2>5, <2>6
<1>13. ASSUME ConvertNotification
       PROVE  PendingValuesAreHeld'
  <2>1. UNCHANGED <<server, held, snapshot, inbox, pc, call, storeVars>>
    BY <1>13 DEF ConvertNotification, visVars, historyVars, callVars
  <2>2. PICK item \in inHand :
            /\ updating' = [updating EXCEPT ![Handler] = Conversion(item.key, item.json)]
            /\ inHand' = inHand \ {item}
    BY <1>13 DEF ConvertNotification
  <2>3. updating'[Handler] # NoUpdate => WillWriteHeldValue(Handler)'
    <3>1. PICK name \in MappedNames : item.key \in PropsOf(name) /\ item.json \in held[name]
      OBVIOUS
    <3>2. updating'[Handler] = Conversion(item.key, item.json)
      BY <1>0, <2>2
    <3>3. updating'[Handler] # NoUpdate =>
              /\ updating'[Handler].record \in DOMAIN store
              /\ \E n \in NamesOf(updating'[Handler].record) :
                    IsHeldValue(updating'[Handler].record, updating'[Handler].value, n)
      BY <3>1, <3>2, ConversionsAreHeld
    <3> QED
      BY <2>1, <3>3 DEF WillWriteHeldValue, IsHeldValue, storeVars
  <2>4. \A a \in Updaters : updating'[a] # NoUpdate => WillWriteHeldValue(a)'
    BY <1>0, <1>1, <2>2, <2>3
  <2> QED
    BY <1>4, <2>1, <2>2, <2>4
<1>14. ASSUME Disconnect
       PROVE  PendingValuesAreHeld'
  <2>1. UNCHANGED <<server, held, snapshot, updating, inHand, storeVars, pc, call>>
    BY <1>14 DEF Disconnect, callVars
  <2>2. inbox' = inbox \/ inbox' = <<>>
    BY <1>14 DEF Disconnect
  <2>3. \A a \in Updaters : updating'[a] # NoUpdate => WillWriteHeldValue(a)'
    BY <1>1, <2>1
  <2> QED
    BY <1>4, <2>1, <2>2, <2>3
<1>15. CASE UNCHANGED vars
  <2>1. NothingNewUnderWay
    BY <1>15 DEF vars, callVars, handlerVars, visVars, historyVars, NothingNewUnderWay
  <2> HIDE DEF PendingValuesAreHeld
  <2> QED
    BY <1>2, <2>1
<1> HIDE DEF PendingValuesAreHeld
<1> QED
  BY <1>2, <1>5, <1>6, <1>7, <1>9, <1>10, <1>11, <1>12, <1>13, <1>14, <1>15, StepsAside
  DEF Next, Continue, VisClientThreads, Environment, Updaters

-----------------------------------------------------------------------------
(***************************************************************************)
(* What a fetch has found.                                                 *)
(***************************************************************************)

LEMMA GotStays ==
    ASSUME TypeOK, StoreStep, HeldGrows, NEW name \in AnsweredNames, Got(name)
    PROVE  Got(name)'
<1>1. AlwaysConverts(name)' => AlwaysConverts(name)
  BY PropsOfNames DEF AlwaysConverts, HeldGrows, AnsweredNames
<1>2. HeldOrBypassed(RecordOf(Found[name])) => HeldOrBypassed(RecordOf(Found[name]))'
  BY RecordsKeepValues
<1> QED
  BY <1>1, <1>2 DEF Got

\* A value of the name is converted, or one of its values cannot be.
LEMMA ConvertedOrNot ==
    ASSUME TypeOK, PendingValuesAreHeld, NEW t \in Threads, NEW name \in MappedNames,
           Converts(t, name)
    PROVE  Updates(t, RecordOf(Found[name]))' \/ ~AlwaysConverts(name)
<1> DEFINE key == Found[name]
           json == snapshot[t][name]
<1>1. json \in held[name] /\ updating'[t] = Conversion(key, json)
  BY DEF Converts, PendingValuesAreHeld
<1>2. AlwaysConverts(name) => RecordOf(key) \in DOMAIN store /\ Convertible(TypeOf(key), json)
  BY <1>1 DEF AlwaysConverts, TypeOK
<1> HIDE DEF key, json
<1>3. AlwaysConverts(name) => updating'[t] # NoUpdate /\ updating'[t].record = RecordOf(key)
  BY <1>1, <1>2, Conversions
<1> QED
  BY <1>3 DEF Updates, key

\* The write of a thread's update leaves a value in its record.
LEMMA WrittenIsHeld ==
    ASSUME TypeOK, PendingValuesAreHeld, NEW a \in Updaters, WriteConverted(a),
           NEW record, Updates(a, record)
    PROVE  HeldOrBypassed(record)'
<1>1. WillWriteHeldValue(a) /\ record = updating[a].record
  BY DEF PendingValuesAreHeld, Updates
<1>2. /\ record \in DOMAIN store' /\ store'[record] = updating[a].value
      /\ UNCHANGED held
  BY <1>1, WriteEffect DEF WriteConverted, historyVars
<1> QED
  BY <1>1, <1>2 DEF WillWriteHeldValue, HeldOrBypassed, HasHeldValue, IsHeldValue

LEMMA FetchedStep ==
    ASSUME TypeOK, StepsFitCalls, PendingValuesAreHeld, FetchedNamesHaveValues,
           StoreStep, HeldGrows, [Next]_vars
    PROVE  FetchedNamesHaveValues'
<1> USE DEF FetchedNamesHaveValues
<1>0. /\ pc \in [Threads -> FetchSteps \cup {"creating", "idle", "lock", "fetch",
                                            "read", "send", "write"}]
      /\ DOMAIN call = Threads
      /\ Threads \subseteq Updaters /\ Handler \notin Threads
      /\ AnsweredNames \subseteq MappedNames
  BY NoThreadAssumption DEF TypeOK, FetchSteps, Updaters, AnsweredNames
<1>1. \A name \in AnsweredNames : Got(name) => Got(name)'
  BY GotStays
<1>2. AllGot => AllGot'
  BY <1>1 DEF AllGot
<1>3. \A t \in Threads : \A record :
          updating'[t] = updating[t] => (Updates(t, record) => Updates(t, record)')
  BY DEF Updates
\* A thread that stays where it is.
<1>4. ASSUME NEW u \in Threads, pc'[u] = pc[u], call'[u] = call[u],
             snapshot'[u] = snapshot[u], updating'[u] = updating[u]
      PROVE  /\ pc'[u] = "apply" =>
                   \A name \in AnsweredNames :
                       \/ name \in DOMAIN snapshot'[u]
                       \/ Updates(u, RecordOf(Found[name]))'
                       \/ Got(name)'
             /\ pc'[u] = "clean" => AllGot'
             /\ pc'[u] = "read" /\ IsMapped(u)' => AllGot'
  <2>1. \A name \in AnsweredNames :
            pc[u] = "apply" => \/ name \in DOMAIN snapshot[u]
                               \/ Updates(u, RecordOf(Found[name]))
                               \/ Got(name)
    OBVIOUS
  <2>2. IsMapped(u)' = IsMapped(u)
    BY <1>4, SameCall
  <2> QED
    BY <1>1, <1>2, <1>3, <1>4, <2>1, <2>2
<1>5. ASSUME NEW t \in Threads,
             \A u \in Threads \ {t} :
                 /\ pc'[u] = pc[u] /\ call'[u] = call[u]
                 /\ snapshot'[u] = snapshot[u] /\ updating'[u] = updating[u],
             mValuesAreDirty' = mValuesAreDirty \/ AllGot,
             pc'[t] = "apply" =>
                 \A name \in AnsweredNames :
                     \/ name \in DOMAIN snapshot'[t]
                     \/ Updates(t, RecordOf(Found[name]))'
                     \/ Got(name)',
             pc'[t] = "clean" => AllGot,
             pc'[t] = "read" /\ IsMapped(t)' => AllGot
      PROVE  FetchedNamesHaveValues'
  BY <1>2, <1>4, <1>5
<1>6. ASSUME UNCHANGED <<pc, call, snapshot>>, mValuesAreDirty => mValuesAreDirty',
             \A t \in Threads : updating'[t] = updating[t],
             mValuesAreDirty \in BOOLEAN
      PROVE  FetchedNamesHaveValues'
  BY <1>2, <1>4, <1>6
<1>7. ASSUME OnCreateReturns
      PROVE  FetchedNamesHaveValues'
  <2>1. UNCHANGED <<mValuesAreDirty>> /\ \A t \in Threads : pc'[t] = "idle"
    BY <1>7 DEF OnCreateReturns
  <2> QED
    BY <1>2, <2>1
<1>8. ASSUME NEW t \in Threads, NEW c \in Calls, StartCall(t, c)
      PROVE  FetchedNamesHaveValues'
  BY <1>0, <1>5, <1>8 DEF StartCall
<1>9. ASSUME NEW t \in Threads, Return(t), UNCHANGED <<snapshot, updating>>,
             mValuesAreDirty' = mValuesAreDirty \/ AllGot
      PROVE  FetchedNamesHaveValues'
  BY <1>0, <1>5, <1>9 DEF Return
<1>10. ASSUME NEW t \in Threads, Lock(t)
       PROVE  FetchedNamesHaveValues'
  <2>1. UNCHANGED <<snapshot, updating, mValuesAreDirty>>
    BY <1>10 DEF Lock
  <2>2. CASE mLock' = t /\ pc' = [pc EXCEPT ![t] = "fetch"] /\ UNCHANGED call
    BY <1>0, <1>5, <2>1, <2>2
  <2>3. CASE /\ ~(IsMapped(t) /\ mValuesAreDirty)
             /\ pc' = [pc EXCEPT ![t] = Access(t)] /\ UNCHANGED call
    <3>1. IsMapped(t)' = IsMapped(t)
      BY <2>3, SameCall
    <3>2. pc'[t] \notin {"apply", "clean"}
      BY <1>0, <2>3 DEF Access
    <3>3. pc'[t] = "read" /\ IsMapped(t)' => AllGot
      BY <2>3, <3>1
    <3> QED
      BY <1>0, <1>5, <2>1, <2>3, <3>2, <3>3
  <2> QED
    BY <1>9, <1>10, <2>1, <2>2, <2>3 DEF Lock
<1>11. ASSUME NEW t \in Threads, NothingToFetch(t) \/ FetchFails(t) \/ Read(t) \/ Write(t)
       PROVE  FetchedNamesHaveValues'
  BY <1>9, <1>11 DEF NothingToFetch, FetchFails, AfterFailure, Read, Write
<1>12. ASSUME NEW t \in Threads, Ask(t)
       PROVE  FetchedNamesHaveValues'
  BY <1>0, <1>5, <1>12 DEF Ask
<1>13. ASSUME NEW t \in Threads, Answer(t)
       PROVE  FetchedNamesHaveValues'
  <2>1. /\ UNCHANGED <<call, updating, mValuesAreDirty>> /\ pc'[t] = "apply"
        /\ \A u \in Threads \ {t} : pc'[u] = pc[u] /\ snapshot'[u] = snapshot[u]
    BY <1>0, <1>13, AnswerEffect DEF Answer
  <2>2. AnsweredNames \subseteq DOMAIN snapshot'[t]
    BY <1>13, AnswerEffect
  <2> QED
    BY <1>5, <2>1, <2>2
<1>14. ASSUME NEW t \in Threads, ConvertAnswer(t)
       PROVE  FetchedNamesHaveValues'
  <2>1. UNCHANGED <<pc, call, mValuesAreDirty, held>> /\ pc[t] = "apply"
    BY <1>14 DEF ConvertAnswer, historyVars
  <2>2. PICK name \in MappedNames : Converts(t, name)
    BY <1>14, ConvertEffect
  <2>3. /\ updating[t] = NoUpdate
        /\ DOMAIN snapshot'[t] = DOMAIN snapshot[t] \ {name}
        /\ \A u \in Threads \ {t} :
              snapshot'[u] = snapshot[u] /\ updating'[u] = updating[u]
    BY <1>0, <2>2 DEF Converts
  <2>4. ASSUME NEW n \in AnsweredNames
        PROVE  \/ n \in DOMAIN snapshot'[t]
               \/ Updates(t, RecordOf(Found[n]))'
               \/ Got(n)'
    <3>1. CASE n = name
      <4>1. Updates(t, RecordOf(Found[name]))' \/ ~AlwaysConverts(name)
        BY <2>2, ConvertedOrNot
      <4>2. ~AlwaysConverts(name) => Got(name)
        BY DEF Got
      <4> QED
        BY <1>1, <3>1, <4>1, <4>2
    <3>2. CASE n # name
      BY <1>1, <2>1, <2>3, <3>2 DEF Updates
    <3> QED
      BY <3>1, <3>2
  <2> QED
    BY <1>5, <2>1, <2>3, <2>4
<1>15. ASSUME NEW t \in Threads, WriteConverted(t)
       PROVE  FetchedNamesHaveValues'
  <2>1. UNCHANGED <<pc, call, snapshot, mValuesAreDirty>>
    BY <1>15 DEF WriteConverted, callVars
  <2>2. \A u \in Threads \ {t} : updating'[u] = updating[u]
    BY <1>0, <1>15, WriteEffect
  <2>3. pc[t] = "apply"
    BY <1>0, <1>15, WriteEffect DEF StepsFitCalls
  <2>4. ASSUME NEW n \in AnsweredNames, n \notin DOMAIN snapshot[t]
        PROVE  Got(n)'
    <3>1. CASE Updates(t, RecordOf(Found[n]))
      <4>1. HeldOrBypassed(RecordOf(Found[n]))'
        BY <1>0, <1>15, <3>1, WrittenIsHeld
      <4> QED
        BY <4>1 DEF Got
    <3>2. CASE ~Updates(t, RecordOf(Found[n]))
      BY <1>1, <2>3, <2>4, <3>2
    <3> QED
      BY <3>1, <3>2
  <2> QED
    BY <1>5, <2>1, <2>2, <2>3, <2>4
<1>16. ASSUME NEW t \in Threads, Resubscribe(t)
       PROVE  FetchedNamesHaveValues'
  <2>1. /\ UNCHANGED <<call, snapshot, updating, mValuesAreDirty>>
        /\ pc' = [pc EXCEPT ![t] = "clean"]
        /\ pc[t] = "apply" /\ updating[t] = NoUpdate /\ DOMAIN snapshot[t] = {}
    BY <1>16 DEF Resubscribe
  <2>2. AllGot
    BY <2>1 DEF AllGot, Updates
  <2> QED
    BY <1>0, <1>5, <2>1, <2>2
<1>17. ASSUME NEW t \in Threads, Clean(t)
       PROVE  FetchedNamesHaveValues'
  <2>1. AllGot /\ UNCHANGED <<snapshot, updating>>
    BY <1>17 DEF Clean
  <2>2. CASE GoOn(t, Access(t))
    BY <1>0, <1>5, <2>1, <2>2 DEF GoOn, Access
  <2> QED
    BY <1>9, <1>17, <2>1, <2>2 DEF Clean
<1>18. ASSUME NEW t \in Threads, Send(t)
       PROVE  FetchedNamesHaveValues'
  <2>1. /\ UNCHANGED <<snapshot, updating, mValuesAreDirty>>
        /\ \A u \in Threads \ {t} : pc'[u] = pc[u] /\ call'[u] = call[u]
        /\ pc'[t] \in {"idle", "write"}
    BY <1>18, SendEffect
  <2> QED
    BY <1>5, <2>1
<1>19. ASSUME VisClientThreads \/ Environment \/ UNCHANGED vars
       PROVE  FetchedNamesHaveValues'
  <2>1. UNCHANGED <<pc, call, snapshot>> /\ \A t \in Threads : updating'[t] = updating[t]
    BY <1>19, OtherStepsKeepCalls, OtherStepsKeepUpdates DEF vars, callVars
  <2>2. (mValuesAreDirty => mValuesAreDirty') /\ mValuesAreDirty \in BOOLEAN
    BY <1>19 DEF TypeOK, VisClientThreads, Environment, TakeNotification,
                 ConvertNotification, WriteConverted, OnVisConnectionStatusUpdate,
                 ServerChanges, Disconnect, Connect, vars
  <2> QED
    BY <1>6, <2>1, <2>2
<1> HIDE DEF FetchedNamesHaveValues
<1> QED
  BY <1>7, <1>8, <1>10, <1>11, <1>12, <1>13, <1>14, <1>15, <1>16, <1>17, <1>18, <1>19
  DEF Next, Continue

-----------------------------------------------------------------------------
LEMMA RacedStep ==
    ASSUME TypeOK, FetchesAreRaced, [Next]_vars
    PROVE  FetchesAreRaced'
<1> USE DEF FetchesAreRaced, Fetching, FetchSteps
<1>0. /\ pc \in [Threads -> FetchSteps \cup {"creating", "idle", "lock", "fetch",
                                            "read", "send", "write"}]
      /\ mValuesAreDirty \in BOOLEAN /\ lost \in BOOLEAN /\ raced \in BOOLEAN
  BY DEF TypeOK
<1>1. ASSUME NEW t \in Threads, Ask(t)
      PROVE  FetchesAreRaced'
  BY <1>1 DEF Ask
<1>2. ASSUME NEW t \in Threads, Clean(t)
      PROVE  FetchesAreRaced'
  <2>1. UNCHANGED <<lost, raced>> /\ pc[t] = "clean"
    BY <1>2 DEF Clean, historyVars
  <2> QED
    BY <2>1
<1>3. ASSUME OnVisConnectionStatusUpdate
      PROVE  FetchesAreRaced'
  <2>1. UNCHANGED pc
    BY <1>3 DEF OnVisConnectionStatusUpdate, callVars
  <2> DEFINE up == Head(statusUpdates)
  <2>2. CASE up
    BY <1>0, <1>3, <2>1, <2>2 DEF OnVisConnectionStatusUpdate, BecomesDirty
  <2>3. CASE ~up
    <3>1. mValuesAreDirty' /\ raced' = \E t \in Threads : Fetching(t)
      BY <1>3, <2>3, Zenon DEF OnVisConnectionStatusUpdate, BecomesDirty
    <3> QED
      BY <2>1, <3>1
  <2> QED
    BY <2>2, <2>3
<1>4. ASSUME NEW t \in Threads,
             \/ Lock(t) \/ NothingToFetch(t) \/ FetchFails(t) \/ Answer(t)
             \/ Resubscribe(t) \/ Read(t) \/ Send(t) \/ Write(t)
             \/ \E c \in Calls : StartCall(t, c)
      PROVE  /\ UNCHANGED <<lost, raced, mValuesAreDirty>>
             /\ \A u \in Threads : Fetching(u)' => Fetching(u)
  <2>1. UNCHANGED <<lost, raced, mValuesAreDirty>>
    BY <1>4 DEF Lock, NothingToFetch, FetchFails, Answer, Resubscribe, Read, Send,
                Write, StartCall, historyVars
  <2>2. \A u \in Threads : Fetching(u)' => Fetching(u)
    BY <1>0, <1>4 DEF Lock, NothingToFetch, FetchFails, AfterFailure, Answer,
                      Resubscribe, Read, Send, AfterSend, Write, StartCall, Return,
                      GoOn, Access
  <2> QED
    BY <2>1, <2>2
<1>5. ASSUME \/ OnCreateReturns \/ TakeNotification \/ ConvertNotification
             \/ Environment \/ UNCHANGED vars
             \/ \E t \in Threads : ConvertAnswer(t)
             \/ \E a \in Updaters : WriteConverted(a)
      PROVE  /\ UNCHANGED <<lost, raced, mValuesAreDirty>>
             /\ \A u \in Threads : Fetching(u)' => Fetching(u)
  BY <1>0, <1>5 DEF OnCreateReturns, TakeNotification, ConvertNotification,
                    ConvertAnswer, WriteConverted, Environment, ServerChanges,
                    Disconnect, Connect, vars, callVars, historyVars
<1>6. ASSUME /\ UNCHANGED <<lost, raced, mValuesAreDirty>>
             /\ \A u \in Threads : Fetching(u)' => Fetching(u)
      PROVE  FetchesAreRaced'
  BY <1>6
<1> HIDE DEF FetchesAreRaced, Fetching
<1> QED
  BY <1>1, <1>2, <1>3, <1>4, <1>5, <1>6 DEF Next, Continue, VisClientThreads, Updaters

-----------------------------------------------------------------------------
(***************************************************************************)
(* The last value on its way to a record.                                  *)
(***************************************************************************)

\* The name of a record that has no other name.
LEMMA ItsRecord ==
    ASSUME NEW name \in MappedNames, HasItsRecord(name)
    PROVE  /\ NamesOf(RecordOf(Found[name])) = {name}
           /\ RecordOf(Found[name]) \in InitialRecords
           /\ TypeOf(RecordOf(Found[name])) = TypeOf(Found[name])
           /\ \A other : \A key \in PropsOf(other) :
                 RecordOf(key) = RecordOf(Found[name]) => other = name
<1>1. NamesOf(RecordOf(Found[name])) = {name} /\ RecordOf(Found[name]) \in InitialRecords
  BY DEF HasItsRecord
<1> QED
  BY <1>1, NamesOfRecords, RecordsOfKeys

\* ServerTakes leaves the last value on its way the server's, or counts the
\* name as missed.
LEMMA LastValueAfterServerTakes ==
    ASSUME TypeOK, StepsFitCalls, NEW n \in MappedNames, n \notin missed', NEW record,
           n \notin missed => LastValueIsServers(record, n),
           NEW name \in Names, NEW json \in ServerJson, NEW threads \in SUBSET Threads,
           ServerTakes(name, json, threads),
           UNCHANGED <<snapshot, updating, inHand, storeVars>>,
           \A t \in Threads : pc'[t] = "write" =>
               /\ call'[t] = call[t]
               /\ \/ t \in threads /\ pc[t] = "write"
                  \/ SentText(t) = json /\ VisNameOfKey(call[t].key) = name
    PROVE  LastValueIsServers(record, n)'
<1>0. /\ inbox \in Seq(Notifications) /\ server \in [Names -> ServerJson]
      /\ n \in Names /\ n \notin missed
  BY PropsOfNames DEF TypeOK, ServerTakes
<1>1. LastValueIsServers(record, n)
  BY <1>0
<1>2. server' = [server EXCEPT ![name] = json]
  BY ServerTakesEffect
<1>3. \A t \in Threads :
          pc'[t] = "write" /\ SettingName(t, n)' =>
              /\ SentText(t)' = SentText(t) /\ VisNameOfKey(call[t].key) = n /\ IsMapped(t)
              /\ \/ t \in threads /\ pc[t] = "write"
                 \/ SentText(t) = json /\ name = n
  BY SameCall DEF SettingName, Setting
<1>4. CASE name # n
  <2>1. server'[n] = server[n]
    BY <1>0, <1>2, <1>4
  <2>2. /\ \A i \in DOMAIN inbox :
              LastInInbox(i, n)' => LastInInbox(i, n) /\ inbox'[i] = inbox[i]
        /\ \A i \in DOMAIN inbox' : IsFor(i, n)' => i \in DOMAIN inbox
        /\ NoneInInbox(n)' => NoneInInbox(n)
    <3>1. CASE subscribed
      <4>1. /\ inbox' \in Seq(Notifications)
            /\ Len(inbox') = Len(inbox) + 1
            /\ \A i \in 1 .. Len(inbox) : inbox'[i] = inbox[i]
            /\ inbox'[Len(inbox) + 1].name # n
        BY <1>4, <3>1, ServerTakesEffect
      <4>2. /\ DOMAIN inbox = 1 .. Len(inbox) /\ DOMAIN inbox' = 1 .. Len(inbox) + 1
            /\ Len(inbox) \in Nat
        BY <1>0, <4>1
      <4>3. /\ \A i \in DOMAIN inbox : i \in DOMAIN inbox' /\ inbox'[i] = inbox[i]
            /\ \A i \in DOMAIN inbox' : i \in DOMAIN inbox \/ i = Len(inbox) + 1
        BY <4>1, <4>2
      <4> QED
        BY <4>1, <4>3 DEF LastInInbox, NoneInInbox, IsFor
    <3>2. CASE ~subscribed
      <4>1. inbox' = inbox
        BY <3>2, ServerTakesEffect
      <4> QED
        BY <4>1 DEF LastInInbox, NoneInInbox, IsFor
    <3> QED
      BY <3>1, <3>2
  <2>3. \A i \in DOMAIN inbox' : LastInInbox(i, n)' => inbox'[i].json = server'[n]
    BY <1>1, <2>1, <2>2 DEF LastInInbox, LastValueIsServers
  <2>4. ThreadsBring(record, n)'
    <3>1. ThreadsBring(record, n)
      BY <1>1 DEF LastValueIsServers
    <3>2. \A t \in Threads : Updates(t, record)' => Updates(t, record)
      BY DEF Updates
    <3>3. \A t \in Threads : Updates(t, record) =>
              AgreesWithServer(record, updating[t].value, n)
      BY <3>1 DEF ThreadsBring
    <3>4. \A t \in Threads : Updates(t, record)' =>
              Agrees(TypeOf(record), updating'[t].value, server'[n])
      BY <2>1, <3>2, <3>3 DEF AgreesWithServer
    <3>5. \A t \in Threads : pc'[t] = "write" /\ SettingName(t, n)'
                             => SentText(t)' = server'[n]
      BY <1>3, <1>4, <2>1, <3>1 DEF ThreadsBring, SettingName, Setting
    <3> QED
      BY <2>1, <3>1, <3>4, <3>5 DEF ThreadsBring, AgreesWithServer
  <2>5. ASSUME NoneInInbox(n)'
        PROVE  HandlerBrings(record, n)' /\ (IsOnItsWay(record, n)' \/ HasArrived(record, n)')
    <3>1. HandlerBrings(record, n) /\ (IsOnItsWay(record, n) \/ HasArrived(record, n))
      BY <1>1, <2>2, <2>5 DEF LastValueIsServers
    <3>2. HandlerBrings(record, n)'
      BY <2>1, <3>1 DEF HandlerBrings, InHandFor, Updates, AgreesWithServer
    <3>3. IsOnItsWay(record, n) => IsOnItsWay(record, n)'
      BY DEF IsOnItsWay, InHandFor, Updates
    <3>4. HasArrived(record, n) => HasArrived(record, n)'
      BY <2>1 DEF HasArrived, AgreesWithServer, storeVars
    <3> QED
      BY <3>1, <3>2, <3>3, <3>4
  <2> QED
    BY <2>3, <2>4, <2>5 DEF LastValueIsServers
<1>5. CASE name = n
  <2>1. ~MayBeMissed(n, threads)
    BY <1>0, <1>5 DEF ServerTakes
  <2>2. /\ subscribed
        /\ \A t \in Threads : ~Fetching(t)
        /\ \A t \in threads : ~SettingName(t, n)
    BY <2>1 DEF MayBeMissed
  <2>3. \A t \in Threads : DOMAIN snapshot[t] = {} /\ updating[t] = NoUpdate
    BY <2>2 DEF StepsFitCalls, Fetching, FetchSteps
  <2>4. server'[n] = json
    BY <1>0, <1>2, <1>5
  <2>5. \A t \in Threads : pc'[t] = "write" /\ SettingName(t, n)' => SentText(t)' = server'[n]
    BY <1>3, <2>2, <2>4 DEF SettingName, Setting
  <2>6. ThreadsBring(record, n)'
    BY <2>3, <2>5 DEF ThreadsBring, Updates
  <2>7. PICK k \in Nat : k = Len(inbox) + 1
    BY <1>0
  <2>8. /\ inbox' \in Seq(Notifications) /\ Len(inbox') = k
        /\ inbox'[k].name = n /\ inbox'[k].json = json
    BY <1>0, <1>5, <2>2, <2>7, ServerTakesEffect
  <2>9. DOMAIN inbox' = 1 .. k /\ k \in DOMAIN inbox' /\ IsFor(k, n)'
    BY <1>0, <2>7, <2>8 DEF IsFor
  <2>10. \A i \in DOMAIN inbox' : LastInInbox(i, n)' => i = k
    <3>1. \A i \in DOMAIN inbox' : i = k \/ k > i
      BY <2>7, <2>9
    <3> QED
      BY <2>9, <3>1 DEF LastInInbox
  <2>11. ~NoneInInbox(n)'
    BY <2>9 DEF NoneInInbox
  <2> QED
    BY <2>4, <2>6, <2>8, <2>10, <2>11 DEF LastValueIsServers
<1> QED
  BY <1>4, <1>5

LEMMA ThreadsStillBring ==
    ASSUME NEW record, NEW n, ThreadsBring(record, n), UNCHANGED server,
           \A t \in Threads :
               /\ n \in DOMAIN snapshot'[t]
                  => n \in DOMAIN snapshot[t] /\ snapshot'[t][n] = snapshot[t][n]
               /\ updating'[t] = updating[t]
                  \/ (Updates(t, record)' => AgreesWithServer(record, updating'[t].value, n))
               /\ pc'[t] = "write" /\ IsMapped(t)' => pc[t] = "write" /\ call'[t] = call[t]
    PROVE  ThreadsBring(record, n)'
<1>1. \A t \in Threads :
          Updates(t, record)' => Agrees(TypeOf(record), updating'[t].value, server[n])
  BY DEF ThreadsBring, Updates, AgreesWithServer
<1>2. \A t \in Threads : pc'[t] = "write" /\ SettingName(t, n)' => SentText(t)' = server[n]
  BY SameCall DEF ThreadsBring, SettingName, Setting
<1> QED
  BY <1>1, <1>2 DEF ThreadsBring, AgreesWithServer

LEMMA InboxStillLast ==
    ASSUME NEW record, NEW n, LastValueIsServers(record, n), UNCHANGED <<server, inbox>>,
           ThreadsBring(record, n)',
           NoneInInbox(n) => /\ HandlerBrings(record, n)'
                             /\ IsOnItsWay(record, n)' \/ HasArrived(record, n)'
    PROVE  LastValueIsServers(record, n)'
BY DEF LastValueIsServers, LastInInbox, NoneInInbox, IsFor

\* A step of the fetch or of the handler that writes what it has converted.
LEMMA LastValueAfterWrite ==
    ASSUME TypeOK, NEW a \in Updaters, WriteConverted(a), NEW n \in MappedNames,
           NEW record \in DOMAIN store, LastValueIsServers(record, n)
    PROVE  LastValueIsServers(record, n)'
<1>0. Threads \subseteq Updaters /\ Updaters = Threads \cup {Handler} /\ Handler \notin Threads
  BY NoThreadAssumption DEF Updaters
<1>1. UNCHANGED <<server, inbox, inHand, snapshot, pc, call>>
  BY DEF WriteConverted, handlerVars, visVars, callVars
<1>2. /\ updating[a] # NoUpdate /\ updating'[a] = NoUpdate
      /\ \A b \in Updaters \ {a} : updating'[b] = updating[b]
      /\ record \in DOMAIN store'
      /\ store'[record] = IF record = updating[a].record THEN updating[a].value
                          ELSE store[record]
      /\ bypassed' = bypassed \ {updating[a].record}
  <2>1. /\ updating[a] # NoUpdate /\ updating'[a] = NoUpdate
        /\ \A b \in Updaters \ {a} : updating'[b] = updating[b]
        /\ DOMAIN store' = DOMAIN store \cup {updating[a].record}
        /\ \A r \in DOMAIN store' :
              store'[r] = IF r = updating[a].record THEN updating[a].value ELSE store[r]
        /\ bypassed' = bypassed \ {updating[a].record}
    BY WriteEffect
  <2>2. record \in DOMAIN store'
    BY <2>1
  <2> QED
    BY <2>1, <2>2
<1>3. \A b \in Updaters : Updates(b, record)' => Updates(b, record) /\ updating'[b] = updating[b]
  BY <1>2 DEF Updates
<1>4. ThreadsBring(record, n)'
  <2>1. ThreadsBring(record, n)
    BY DEF LastValueIsServers
  <2>2. \A t \in Threads :
            updating'[t] = updating[t]
            \/ (Updates(t, record)' => AgreesWithServer(record, updating'[t].value, n))
    BY <1>0, <1>2, <1>3
  <2>3. \A t \in Threads :
            /\ n \in DOMAIN snapshot'[t]
               => n \in DOMAIN snapshot[t] /\ snapshot'[t][n] = snapshot[t][n]
            /\ pc'[t] = "write" /\ IsMapped(t)' => pc[t] = "write" /\ call'[t] = call[t]
    BY <1>1
  <2> QED
    BY <1>1, <2>1, <2>2, <2>3, ThreadsStillBring
<1>5. ASSUME NoneInInbox(n)
      PROVE  /\ HandlerBrings(record, n)'
             /\ IsOnItsWay(record, n)' \/ HasArrived(record, n)'
  <2>1. HandlerBrings(record, n) /\ (IsOnItsWay(record, n) \/ HasArrived(record, n))
        /\ ThreadsBring(record, n)
    BY <1>5 DEF LastValueIsServers
  <2>2. InHandFor(record)' = InHandFor(record)
    BY <1>1 DEF InHandFor
  <2>3. HandlerBrings(record, n)'
    BY <1>0, <1>1, <1>3, <2>1, <2>2 DEF HandlerBrings, AgreesWithServer
  <2>4. CASE Updates(a, record)
    <3>1. AgreesWithServer(record, updating[a].value, n)
      BY <1>0, <2>1, <2>4 DEF HandlerBrings, ThreadsBring
    <3>2. Agrees(TypeOf(record), store'[record], server[n])
      BY <1>2, <2>4, <3>1 DEF Updates, AgreesWithServer
    <3> QED
      BY <1>1, <2>3, <3>2 DEF HasArrived, AgreesWithServer
  <2>5. CASE ~Updates(a, record)
    <3>1. store'[record] = store[record] /\ (record \in bypassed => record \in bypassed')
      BY <1>2, <2>5 DEF Updates
    <3>2. HasArrived(record, n) => HasArrived(record, n)'
      BY <1>1, <3>1 DEF HasArrived, AgreesWithServer
    <3>3. \A b \in Updaters : Updates(b, record) => Updates(b, record)'
      BY <1>2, <2>5 DEF Updates
    <3>4. IsOnItsWay(record, n) => IsOnItsWay(record, n)'
      BY <1>1, <2>2, <3>3 DEF IsOnItsWay
    <3> QED
      BY <2>1, <2>3, <3>2, <3>4
  <2> QED
    BY <2>4, <2>5
<1> QED
  BY <1>1, <1>4, <1>5, InboxStillLast

LEMMA LastValueStep ==
    ASSUME TypeOK, StepsFitCalls, PendingValuesAreHeld, LastValuesAreServers, [Next]_vars
    PROVE  LastValuesAreServers'
<1> SUFFICES ASSUME NEW n \in MappedNames, n \notin missed', HasItsRecord(n),
                    NEW record, record = RecordOf(Found[n])
             PROVE  LastValueIsServers(record, n)'
  BY DEF LastValuesAreServers, HasItsRecord
<1>0. /\ pc \in [Threads -> FetchSteps \cup {"creating", "idle", "lock", "fetch",
                                            "read", "send", "write"}]
      /\ call \in [Threads -> Calls \cup {NoCall}]
      /\ record \in DOMAIN store /\ n \in Names
      /\ Found[n] \in PropsOf(n)
      /\ inbox \in Seq(Notifications)
      /\ DOMAIN updating = Updaters /\ Handler \notin Threads
      /\ Updaters = Threads \cup {Handler}
      /\ TypeOf(record) = TypeOf(Found[n])
      /\ \A other : \A key \in PropsOf(other) : RecordOf(key) = record => other = n
  BY PropsOfNames, NoThreadAssumption, ItsRecord DEF TypeOK, FetchSteps, Updaters
<1>1. n \notin missed => LastValueIsServers(record, n)
  BY DEF LastValuesAreServers
<1>2. ASSUME NothingNewUnderWay
      PROVE  LastValueIsServers(record, n)'
  <2>1. /\ UNCHANGED <<server, snapshot, updating, inbox, inHand, store, bypassed>>
        /\ LastValueIsServers(record, n)
        /\ \A t \in Threads : pc'[t] = "write" => call'[t] = call[t] /\
                                  (pc[t] = "write" \/ ~IsMapped(t))
    BY <1>1, <1>2 DEF NothingNewUnderWay, storeVars
  <2>2. \A t \in Threads : pc'[t] = "write" /\ IsMapped(t)' => pc[t] = "write" /\ call'[t] = call[t]
    BY <2>1, SameCall
  <2>3. ThreadsBring(record, n)'
    BY <2>1, <2>2, ThreadsStillBring DEF LastValueIsServers
  <2>4. NoneInInbox(n) => /\ HandlerBrings(record, n)'
                          /\ IsOnItsWay(record, n)' \/ HasArrived(record, n)'
    BY <2>1 DEF LastValueIsServers, HandlerBrings, IsOnItsWay, HasArrived, InHandFor,
                Updates, AgreesWithServer
  <2> QED
    BY <2>1, <2>3, <2>4, InboxStillLast
<1>3. ASSUME NEW t \in Threads, Answer(t)
      PROVE  LastValueIsServers(record, n)'
  <2>1. PICK answered \in SUBSET MappedNames :
            /\ snapshot'[t] \in [answered -> ServerJson]
            /\ \A m \in answered : snapshot'[t][m] = server[m]
            /\ missed' = IF NothingUnderWay(t) THEN missed \ answered ELSE missed
    BY <1>3, AnswerEffect
  <2>2. /\ UNCHANGED <<server, inbox, inHand, store, bypassed, call, updating>>
        /\ \A u \in Threads : pc'[u] = "write" => pc[u] = "write" /\ u # t
        /\ \A u \in Threads \ {t} : snapshot'[u] = snapshot[u]
        /\ DOMAIN snapshot[t] = {} /\ updating[t] = NoUpdate /\ pc[t] = "asked"
    BY <1>0, <1>3, AnswerEffect DEF Answer, handlerVars, visVars, storeVars, StepsFitCalls
  <2>3. n \in DOMAIN snapshot'[t] => snapshot'[t][n] = server[n]
    BY <2>1
  <2>4. CASE LastValueIsServers(record, n)
    <3>1. ThreadsBring(record, n)'
      <4>1. \A u \in Threads : pc'[u] = "write" /\ SettingName(u, n)' => SentText(u)' = server[n]
        BY <2>2, <2>4, SameCall DEF LastValueIsServers, ThreadsBring, SettingName, Setting
      <4>2. \A u \in Threads : n \in DOMAIN snapshot'[u] => snapshot'[u][n] = server[n]
        BY <2>2, <2>3, <2>4 DEF LastValueIsServers, ThreadsBring
      <4>3. \A u \in Threads : Updates(u, record)' => AgreesWithServer(record, updating'[u].value, n)
        BY <2>2, <2>4 DEF LastValueIsServers, ThreadsBring, Updates
      <4> QED
        BY <2>2, <4>1, <4>2, <4>3 DEF ThreadsBring, AgreesWithServer
    <3>2. NoneInInbox(n) => /\ HandlerBrings(record, n)'
                            /\ IsOnItsWay(record, n)' \/ HasArrived(record, n)'
      <4>1. IsOnItsWay(record, n) => IsOnItsWay(record, n)'
        BY <2>2 DEF IsOnItsWay, InHandFor, Updates
      <4>2. HasArrived(record, n) => HasArrived(record, n)'
        BY <2>2 DEF HasArrived, AgreesWithServer
      <4>3. HandlerBrings(record, n) => HandlerBrings(record, n)'
        BY <2>2 DEF HandlerBrings, InHandFor, Updates, AgreesWithServer
      <4> QED
        BY <2>4, <4>1, <4>2, <4>3 DEF LastValueIsServers
    <3> QED
      BY <2>2, <2>4, <3>1, <3>2, InboxStillLast
  <2>5. CASE n \in answered /\ NothingUnderWay(t)
    <3>1. /\ inbox = <<>> /\ inHand = {} /\ updating[Handler] = NoUpdate
          /\ \A u \in Threads \ {t} :
                DOMAIN snapshot[u] = {} /\ pc[u] # "write" /\ updating[u] = NoUpdate
      BY <2>5 DEF NothingUnderWay, StepsFitCalls, Fetching, FetchSteps, Setting
    <3>2. DOMAIN inbox' = {}
      BY <2>2, <3>1
    <3>3. n \in DOMAIN snapshot'[t]
      BY <2>1, <2>5
    <3>4. ThreadsBring(record, n)'
      BY <2>2, <2>3, <3>1 DEF ThreadsBring, Updates
    <3>5. HandlerBrings(record, n)' /\ IsOnItsWay(record, n)'
      BY <2>2, <3>1, <3>3 DEF HandlerBrings, IsOnItsWay, InHandFor, Updates
    <3> QED
      BY <3>2, <3>4, <3>5 DEF LastValueIsServers
  <2> QED
    BY <1>1, <2>1, <2>4, <2>5
<1>4. ASSUME NEW t \in Threads, ConvertAnswer(t)
      PROVE  LastValueIsServers(record, n)'
  <2>1. /\ UNCHANGED <<server, inbox, inHand, store, bypassed, pc, call, missed>>
    BY <1>4 DEF ConvertAnswer, handlerVars, visVars, storeVars, historyVars
  <2>2. PICK name \in MappedNames : Converts(t, name)
    BY <1>4, ConvertEffect
  <2>3. LastValueIsServers(record, n)
    BY <1>1, <2>1
  <2>4. /\ \A u \in Threads : n \in DOMAIN snapshot'[u]
               => n \in DOMAIN snapshot[u] /\ snapshot'[u][n] = snapshot[u][n]
        /\ updating[t] = NoUpdate
        /\ \A a \in Updaters \ {t} : updating'[a] = updating[a]
        /\ \A u \in Threads : n # name /\ n \in DOMAIN snapshot[u] => n \in DOMAIN snapshot'[u]
        /\ updating'[t] = Conversion(Found[name], snapshot[t][name])
    BY <2>2 DEF Converts
  <2>5. Updates(t, record)' =>
            /\ name = n
            /\ Agrees(TypeOf(record), updating'[t].value, server[n])
    <3>1. SUFFICES ASSUME Updates(t, record)'
                   PROVE  /\ name = n
                          /\ Agrees(TypeOf(record), updating'[t].value, server[n])
      OBVIOUS
    <3>2. updating'[t] # NoUpdate /\ updating'[t].record = record
      BY <3>1 DEF Updates
    <3>3. /\ record = RecordOf(Found[name])
          /\ Agrees(TypeOf(Found[name]), updating'[t].value, snapshot[t][name])
      BY <2>4, <3>2, Conversions
    <3>4. name = n
      BY <1>0, <3>3, PropsOfNames
    <3>5. snapshot[t][n] = server[n]
      BY <2>2, <2>3, <3>4 DEF Converts, LastValueIsServers, ThreadsBring
    <3> QED
      BY <1>0, <3>3, <3>4, <3>5
  <2>6. ThreadsBring(record, n)'
    <3>1. ThreadsBring(record, n)
      BY <2>3 DEF LastValueIsServers
    <3>2. \A u \in Threads :
              updating'[u] = updating[u]
              \/ (Updates(u, record)' => AgreesWithServer(record, updating'[u].value, n))
      BY <1>0, <2>4, <2>5 DEF AgreesWithServer
    <3>3. \A u \in Threads : pc'[u] = "write" /\ IsMapped(u)' => pc[u] = "write" /\ call'[u] = call[u]
      BY <2>1
    <3> QED
      BY <2>1, <2>4, <3>1, <3>2, <3>3, ThreadsStillBring
  <2>7. ASSUME NoneInInbox(n)
        PROVE  /\ HandlerBrings(record, n)'
               /\ IsOnItsWay(record, n)' \/ HasArrived(record, n)'
    <3>1. HandlerBrings(record, n) /\ (IsOnItsWay(record, n) \/ HasArrived(record, n))
      BY <2>3, <2>7 DEF LastValueIsServers
    <3>2. HandlerBrings(record, n)'
      BY <1>0, <2>1, <2>4, <3>1 DEF HandlerBrings, InHandFor, Updates, AgreesWithServer
    <3>3. HasArrived(record, n) => HasArrived(record, n)'
      BY <2>1 DEF HasArrived, AgreesWithServer
    <3>4. InHandFor(record) # {} => IsOnItsWay(record, n)'
      BY <2>1 DEF IsOnItsWay, InHandFor
    <3>5. ASSUME NEW a \in Updaters, Updates(a, record) PROVE IsOnItsWay(record, n)'
      BY <2>4, <3>5 DEF IsOnItsWay, Updates
    <3>6. ASSUME NEW u \in Threads, n \in DOMAIN snapshot[u]
          PROVE  IsOnItsWay(record, n)' \/ HasArrived(record, n)'
      <4>1. CASE n # name
        BY <2>4, <3>6, <4>1 DEF IsOnItsWay
      <4>2. CASE n = name /\ Convertible(TypeOf(record), server[n])
        <5>1. snapshot[t][n] = server[n]
          BY <2>2, <2>3, <4>2 DEF Converts, LastValueIsServers, ThreadsBring
        <5>2. updating'[t] # NoUpdate /\ updating'[t].record = record
          BY <1>0, <2>4, <4>2, <5>1, Conversions
        <5> QED
          BY <1>0, <5>2 DEF IsOnItsWay, Updates
      <4>3. CASE ~Convertible(TypeOf(record), server[n])
        BY <2>1, <4>3 DEF HasArrived
      <4> QED
        BY <4>1, <4>2, <4>3
    <3> QED
      BY <3>1, <3>2, <3>3, <3>4, <3>5, <3>6 DEF IsOnItsWay
  <2> QED
    BY <2>1, <2>3, <2>6, <2>7, InboxStillLast
<1>5. ASSUME NEW a \in Updaters, WriteConverted(a)
      PROVE  LastValueIsServers(record, n)'
  <2>1. UNCHANGED missed
    BY <1>5 DEF WriteConverted, historyVars
  <2> QED
    BY <1>0, <1>1, <1>5, <2>1, LastValueAfterWrite
<1>6. ASSUME NEW t \in Threads, Send(t)
      PROVE  LastValueIsServers(record, n)'
  <2> DEFINE name == VisNameOfKey(call[t].key)
  <2>1. /\ name \in Names /\ SentText(t) \in ServerJson
        /\ UNCHANGED <<snapshot, updating, inHand, storeVars>>
    BY <1>6, SendEffect
  <2>2. CASE ServerTakes(name, SentText(t), Threads \ {t})
    <3>1. \A u \in Threads : pc'[u] = "write" =>
              /\ call'[u] = call[u]
              /\ \/ u \in Threads \ {t} /\ pc[u] = "write"
                 \/ SentText(u) = SentText(t) /\ VisNameOfKey(call[u].key) = name
      BY <1>6, SendEffect
    <3> HIDE DEF name
    <3> QED
      BY <1>1, <2>1, <2>2, <3>1, LastValueAfterServerTakes
  <2>3. CASE UNCHANGED <<server, changes, held, inbox, missed>> /\ pc'[t] # "write"
    <3>1. NothingNewUnderWay
      BY <1>6, <2>1, <2>3, SendEffect DEF NothingNewUnderWay
    <3> QED
      BY <1>2, <3>1
  <2> QED
    BY <1>6, <2>2, <2>3, SendEffect
<1>7. ASSUME NEW name \in Names, NEW json \in JsonValues[name], ServerChanges(name, json)
      PROVE  LastValueIsServers(record, n)'
  <2>1. /\ ServerTakes(name, json, Threads)
        /\ UNCHANGED <<snapshot, updating, inHand, storeVars, pc, call>>
    BY <1>7 DEF ServerChanges, callVars
  <2>2. json \in ServerJson
    BY ServerValues
  <2> QED
    BY <1>1, <2>1, <2>2, LastValueAfterServerTakes
<1>8. ASSUME NEW t \in Threads, Write(t)
      PROVE  LastValueIsServers(record, n)'
  <2> DEFINE written == RecordOf(call[t].key)
  <2>1. /\ UNCHANGED <<server, snapshot, updating, inbox, inHand, missed, held>>
        /\ DOMAIN store' = DOMAIN store \cup {written}
        /\ \A r \in DOMAIN store' :
              store'[r] = IF r = written THEN call[t].value ELSE store[r]
        /\ bypassed' = IF IsMapped(t) THEN bypassed \ {written} ELSE bypassed \cup {written}
        /\ pc[t] = "write"
    BY <1>8 DEF Write, Put, handlerVars, visVars, historyVars
  <2>2. \A u \in Threads : pc'[u] = "write" => call'[u] = call[u] /\ pc[u] = "write"
    BY <1>0, <1>8 DEF Write, Return
  <2>3. LastValueIsServers(record, n)
    BY <1>1, <2>1
  <2>4. ThreadsBring(record, n)'
    BY <2>1, <2>2, <2>3, ThreadsStillBring DEF LastValueIsServers
  <2>5. HandlerBrings(record, n) => HandlerBrings(record, n)'
    BY <2>1 DEF HandlerBrings, InHandFor, Updates, AgreesWithServer
  <2>6. IsOnItsWay(record, n) => IsOnItsWay(record, n)'
    BY <2>1 DEF IsOnItsWay, InHandFor, Updates
  <2>7. HasArrived(record, n) => HasArrived(record, n)'
    <3>1. CASE written = record /\ ~IsMapped(t)
      BY <2>1, <3>1 DEF HasArrived
    <3>2. CASE written = record /\ IsMapped(t)
      <4>1. VisNameOfKey(call[t].key) = n
        BY <1>0, <3>2, PropsOfNames DEF IsMapped
      <4>2. SentText(t) = server[n]
        BY <2>1, <2>3, <3>2, <4>1 DEF LastValueIsServers, ThreadsBring, SettingName, Setting
      <4>3. Agrees(TypeOf(record), call[t].value, server[n])
        BY <2>1, <3>2, <4>2, SentTextAgrees DEF PendingValuesAreHeld
      <4>4. store'[record] = call[t].value
        BY <2>1, <3>2
      <4> QED
        BY <2>1, <4>3, <4>4 DEF HasArrived, AgreesWithServer
    <3>3. CASE written # record
      <4>1. store'[record] = store[record] /\ (record \in bypassed => record \in bypassed')
        BY <1>0, <2>1, <3>3
      <4> QED
        BY <2>1, <4>1 DEF HasArrived, AgreesWithServer
    <3> QED
      BY <3>1, <3>2, <3>3
  <2>8. NoneInInbox(n) => /\ HandlerBrings(record, n)'
                          /\ IsOnItsWay(record, n)' \/ HasArrived(record, n)'
    BY <2>3, <2>5, <2>6, <2>7 DEF LastValueIsServers
  <2> QED
    BY <2>1, <2>3, <2>4, <2>8, InboxStillLast
<1>9. ASSUME TakeNotification
      PROVE  LastValueIsServers(record, n)'
  <2>1. UNCHANGED <<server, snapshot, updating, store, bypassed, pc, call, missed>>
    BY <1>9 DEF TakeNotification, visVars, historyVars, callVars, storeVars
  <2>2. LastValueIsServers(record, n) /\ inHand = {} /\ updating[Handler] = NoUpdate
    BY <1>1, <1>9, <2>1 DEF TakeNotification
  <2>3. /\ Len(inbox) \in Nat \ {0} /\ DOMAIN inbox = 1 .. Len(inbox)
        /\ DOMAIN inbox' = 1 .. (Len(inbox) - 1)
        /\ \A i \in DOMAIN inbox' : inbox'[i] = inbox[i + 1]
    BY <1>9, TakeEffect
  <2>4. inHand' = [key : PropsOf(inbox[1].name), json : {inbox[1].json}]
    BY <1>9, TakeEffect
  <2>5. ASSUME NEW i \in DOMAIN inbox', LastInInbox(i, n)'
        PROVE  inbox'[i].json = server[n]
    <3>1. i + 1 \in DOMAIN inbox /\ inbox'[i] = inbox[i + 1]
      BY <2>3
    <3>2. ASSUME NEW j \in DOMAIN inbox, j > i + 1 PROVE ~IsFor(j, n)
      <4>1. j - 1 \in DOMAIN inbox' /\ j - 1 > i /\ (j - 1) + 1 = j
        BY <2>3, <3>2
      <4>2. ~IsFor(j - 1, n)'
        BY <2>5, <4>1 DEF LastInInbox
      <4> QED
        BY <2>3, <4>1, <4>2 DEF IsFor
    <3>3. LastInInbox(i + 1, n)
      BY <2>5, <3>1, <3>2 DEF LastInInbox, IsFor
    <3> QED
      BY <2>2, <3>1, <3>3 DEF LastValueIsServers
  <2>6. NoneInInbox(n)' => \A j \in DOMAIN inbox : j > 1 => ~IsFor(j, n)
    <3>1. \A j \in DOMAIN inbox : j > 1 => j - 1 \in DOMAIN inbox' /\ (j - 1) + 1 = j
      BY <2>3
    <3>2. SUFFICES ASSUME NoneInInbox(n)', NEW j \in DOMAIN inbox, j > 1
                   PROVE  ~IsFor(j, n)
      OBVIOUS
    <3>3. inbox'[j - 1] = inbox[j] /\ j - 1 \in DOMAIN inbox'
      BY <2>3, <3>1, <3>2
    <3> QED
      BY <3>2, <3>3 DEF NoneInInbox, IsFor
  <2>7. ThreadsBring(record, n)'
    BY <2>1, <2>2, ThreadsStillBring DEF LastValueIsServers
  <2>8. ASSUME NoneInInbox(n)'
        PROVE  /\ HandlerBrings(record, n)'
               /\ IsOnItsWay(record, n)' \/ HasArrived(record, n)'
    <3>1. CASE IsFor(1, n)
      <4>1. inbox[1].json = server[n]
        <5>1. 1 \in DOMAIN inbox
          BY <2>3
        <5> QED
          BY <2>2, <2>6, <2>8, <3>1, <5>1 DEF LastInInbox, LastValueIsServers
      <4>2. \A item \in inHand' : item.json = inbox[1].json
        BY <2>4
      <4>3. HandlerBrings(record, n)'
        BY <2>1, <2>2, <4>1, <4>2 DEF HandlerBrings, InHandFor, Updates
      <4>4. [key |-> Found[n], json |-> inbox[1].json] \in inHand'
        BY <1>0, <2>4, <3>1 DEF IsFor
      <4>5. InHandFor(record)' # {}
        BY <4>4 DEF InHandFor
      <4> QED
        BY <4>3, <4>5 DEF IsOnItsWay
    <3>2. CASE ~IsFor(1, n)
      <4>1. NoneInInbox(n)
        <5>1. \A j \in DOMAIN inbox : j = 1 \/ j > 1
          BY <2>3
        <5> QED
          BY <2>6, <2>8, <3>2, <5>1 DEF NoneInInbox
      <4>2. \A item \in inHand' : RecordOf(item.key) # record
        BY <1>0, <2>4, <3>2 DEF IsFor
      <4>3. HandlerBrings(record, n)'
        BY <2>1, <2>2, <4>2 DEF HandlerBrings, InHandFor, Updates
      <4>4. IsOnItsWay(record, n) \/ HasArrived(record, n)
        BY <2>2, <4>1 DEF LastValueIsServers
      <4>5. InHandFor(record) = {}
        BY <2>2 DEF InHandFor
      <4>6. IsOnItsWay(record, n) => IsOnItsWay(record, n)'
        BY <2>1, <4>5 DEF IsOnItsWay, Updates
      <4>7. HasArrived(record, n) => HasArrived(record, n)'
        BY <2>1 DEF HasArrived, AgreesWithServer
      <4> QED
        BY <4>3, <4>4, <4>6, <4>7
    <3> QED
      BY <3>1, <3>2
  <2> QED
    BY <2>1, <2>5, <2>7, <2>8 DEF LastValueIsServers
<1>10. ASSUME ConvertNotification
       PROVE  LastValueIsServers(record, n)'
  <2>1. UNCHANGED <<server, snapshot, inbox, store, bypassed, pc, call, missed>>
        /\ updating[Handler] = NoUpdate
    BY <1>10 DEF ConvertNotification, visVars, historyVars, callVars, storeVars
  <2>2. PICK item \in inHand :
            /\ updating' = [updating EXCEPT ![Handler] = Conversion(item.key, item.json)]
            /\ inHand' = inHand \ {item}
    BY <1>10 DEF ConvertNotification
  <2>3. LastValueIsServers(record, n)
    BY <1>1, <2>1
  <2>4. /\ updating'[Handler] = Conversion(item.key, item.json)
        /\ \A t \in Threads : updating'[t] = updating[t]
    BY <1>0, <2>2
  <2>5. ThreadsBring(record, n)'
    BY <2>1, <2>3, <2>4, ThreadsStillBring DEF LastValueIsServers
  <2>6. ASSUME NoneInInbox(n)
        PROVE  /\ HandlerBrings(record, n)'
               /\ IsOnItsWay(record, n)' \/ HasArrived(record, n)'
    <3>1. HandlerBrings(record, n) /\ (IsOnItsWay(record, n) \/ HasArrived(record, n))
      BY <2>3, <2>6 DEF LastValueIsServers
    <3>2. InHandFor(record)' = InHandFor(record) \ {item}
      BY <2>2 DEF InHandFor
    <3>3. RecordOf(item.key) = record => item.json = server[n] /\ TypeOf(item.key) = TypeOf(record)
      BY <3>1, RecordsOfKeys DEF HandlerBrings, InHandFor
    <3>4. Updates(Handler, record)' =>
              Agrees(TypeOf(record), updating'[Handler].value, server[n])
      BY <2>4, <3>3, Conversions DEF Updates
    <3>5. HandlerBrings(record, n)'
      BY <2>1, <3>1, <3>2, <3>4 DEF HandlerBrings, AgreesWithServer
    <3>6. HasArrived(record, n) => HasArrived(record, n)'
      BY <2>1 DEF HasArrived, AgreesWithServer
    <3>7. CASE RecordOf(item.key) = record
      <4>1. CASE Convertible(TypeOf(record), server[n])
        <5>1. updating'[Handler] # NoUpdate /\ updating'[Handler].record = record
          BY <1>0, <2>4, <3>3, <3>7, <4>1, Conversions
        <5> QED
          BY <1>0, <3>5, <5>1 DEF IsOnItsWay, Updates
      <4>2. CASE ~Convertible(TypeOf(record), server[n])
        BY <2>1, <3>5, <4>2 DEF HasArrived
      <4> QED
        BY <4>1, <4>2
    <3>8. CASE RecordOf(item.key) # record
      <4>1. InHandFor(record)' = InHandFor(record)
        BY <3>2, <3>8 DEF InHandFor
      <4>2. \A a \in Updaters : Updates(a, record) => Updates(a, record)'
        BY <1>0, <2>1, <2>4 DEF Updates
      <4>3. IsOnItsWay(record, n) => IsOnItsWay(record, n)'
        BY <2>1, <4>1, <4>2 DEF IsOnItsWay
      <4> QED
        BY <3>1, <3>5, <3>6, <4>3
    <3> QED
      BY <3>7, <3>8
  <2> QED
    BY <2>1, <2>3, <2>5, <2>6, InboxStillLast
<1>11. ASSUME Disconnect
       PROVE  LastValueIsServers(record, n)'
  BY <1>0, <1>11 DEF Disconnect
<1>12. CASE UNCHANGED vars
  <2>1. NothingNewUnderWay
    BY <1>12 DEF vars, callVars, handlerVars, visVars, historyVars, NothingNewUnderWay
  <2> QED
    BY <1>2, <2>1
<1> QED
  BY <1>2, <1>3, <1>4, <1>5, <1>6, <1>7, <1>8, <1>9, <1>10, <1>11, <1>12, StepsAside
  DEF Next, Continue, VisClientThreads, Environment, Updaters

-----------------------------------------------------------------------------
LEMMA InitIInv == Init => IInv
<1> SUFFICES ASSUME Init PROVE IInv
  OBVIOUS
<1> USE DEF Init
<1> HIDE DEF ServerJson, Results, Notifications
<1>1. TypeOK
  <2>1. snapshot \in [Threads -> Results]
    <3>1. <<>> \in [{} -> ServerJson] /\ {} \in SUBSET MappedNames
      OBVIOUS
    <3>2. <<>> \in Results
      BY <3>1, ResultsAreFunctions
    <3> QED
      BY <3>2
  <2>2. server \in [Names -> ServerJson]
    BY ServerValues
  <2>3. inbox \in Seq(Notifications) /\ statusUpdates \in Seq(BOOLEAN)
    BY EmptySeq
  <2> QED
    BY <2>1, <2>2, <2>3 DEF TypeOK
<1>2. /\ \A t \in Threads : /\ pc[t] = "creating"
                            /\ DOMAIN snapshot[t] = {} /\ updating[t] = NoUpdate
      /\ \A a \in Updaters : updating[a] = NoUpdate
  BY DEF Updaters
<1>3. StepsFitCalls /\ LockIsHeld
  BY <1>2 DEF StepsFitCalls, LockIsHeld, InCriticalSection, FetchSteps
<1>4. PendingValuesAreHeld
  BY <1>2 DEF PendingValuesAreHeld
<1>5. StoreHoldsServerValues
  BY DEF StoreHoldsServerValues, IsInitial
<1>6. FetchedNamesHaveValues
  BY <1>2 DEF FetchedNamesHaveValues
<1>7. FetchesAreRaced
  BY DEF FetchesAreRaced
<1>8. LastValuesAreServers
  BY PropsOfNames DEF LastValuesAreServers
<1> QED
  BY <1>1, <1>3, <1>4, <1>5, <1>6, <1>7, <1>8 DEF IInv

\* The inductive invariant holds in every state: for any threads, names and
\* properties, and whatever the server and the connection do.
THEOREM Invariance == Spec => []IInv
<1>1. Init => IInv
  BY InitIInv
<1>2. ASSUME IInv, [Next]_vars
      PROVE  IInv'
  <2>1. StoreStep /\ HeldGrows
    BY <1>2, StoreSteps DEF IInv
  <2>2. TypeOK' /\ StepsFitCalls' /\ LockIsHeld'
    BY <1>2, TypeStep, CallStep DEF IInv
  <2>3. PendingValuesAreHeld' /\ StoreHoldsServerValues' /\ FetchedNamesHaveValues'
    BY <1>2, <2>1, PendingStep, StoreHoldsStep, FetchedStep DEF IInv
  <2>4. FetchesAreRaced' /\ LastValuesAreServers'
    BY <1>2, RacedStep, LastValueStep DEF IInv
  <2> QED
    BY <2>2, <2>3, <2>4 DEF IInv
<1> QED
  BY <1>1, <1>2, PTL DEF Spec

-----------------------------------------------------------------------------
(***************************************************************************)
(* What follows for the cache.                                             *)
(***************************************************************************)

\* Every variable stays in its type.
THEOREM TypeCorrect == Spec => []TypeOK
<1>1. IInv => TypeOK
  BY DEF IInv
<1> QED
  BY <1>1, Invariance, PTL

\* The record of a mapped property never holds a value that the server has not
\* held under one of its names, with every conversion that fails, every name
\* that an answer lacks and every vector that keeps elements of its own; only a
\* set of another area of a global property goes past the server.
THEOREM StoreIsNeverAhead == Spec => []StoreHoldsServerValues
<1>1. IInv => StoreHoldsServerValues
  BY DEF IInv
<1> QED
  BY <1>1, Invariance, PTL

\* A get that goes on to read finds a value of the server, of a name that no
\* answer lacks and whose values fit.
THEOREM GetFindsValues == Spec => []GetFindsFetchedValue
<1>1. IInv => GetFindsFetchedValue
  <2>1. SUFFICES ASSUME IInv, NEW t \in Threads, NEW name, NEW record,
                        name = VisNameOfKey(call[t].key), record = RecordOf(call[t].key),
                        pc[t] = "read", IsMapped(t), record = RecordOf(Found[name]),
                        name \in AlwaysAnswered, AlwaysConverts(name)
                 PROVE  HeldOrBypassed(record)
    BY DEF GetFindsFetchedValue, HeldOrBypassed
  <2>2. AllGot
    BY <2>1 DEF IInv, FetchedNamesHaveValues
  <2>3. name \in AnsweredNames
    BY <2>1, PropsOfNames DEF IsMapped, AnsweredNames
  <2> QED
    BY <2>1, <2>2, <2>3 DEF AllGot, Got
<1> QED
  BY <1>1, Invariance, PTL

\* Clean values with a disconnection behind them mean that the disconnection
\* was reported during a fetch.
THEOREM DisconnectionsAreNoticed == Spec => []DisconnectIsNoticed
<1>1. IInv => DisconnectIsNoticed
  BY DEF IInv, FetchesAreRaced, DisconnectIsNoticed
<1> QED
  BY <1>1, Invariance, PTL

\* Once everything has been handled, the store says what the server holds, but
\* for the names that the code can miss and for the values it cannot convert.
THEOREM CacheIsCoherent == Spec => []CacheFollowsServer
<1>1. IInv => CacheFollowsServer
  <2>1. SUFFICES ASSUME IInv, Quiet, NEW name \in MappedNames \ missed,
                        NEW record, record = RecordOf(Found[name]),
                        HasItsRecord(name), record \notin bypassed,
                        Convertible(TypeOf(Found[name]), server[name])
                 PROVE  Agrees(TypeOf(Found[name]), store[record], server[name])
    BY DEF CacheFollowsServer
  <2>2. LastValueIsServers(record, name)
    BY <2>1 DEF IInv, LastValuesAreServers
  <2>3. \A t \in Threads : DOMAIN snapshot[t] = {} /\ updating[t] = NoUpdate
    BY <2>1 DEF IInv, StepsFitCalls, Quiet
  <2>4. NoneInInbox(name) /\ ~IsOnItsWay(record, name)
    BY <2>1, <2>3 DEF Quiet, NoneInInbox, IsOnItsWay, InHandFor, Updates, Updaters
  <2>5. HasArrived(record, name)
    BY <2>2, <2>4 DEF LastValueIsServers
  <2> QED
    BY <2>1, <2>5, RecordsOfKeys DEF HasArrived, AgreesWithServer
<1> QED
  BY <1>1, Invariance, PTL

\* Two threads are never both inside get or set.
THEOREM CallsExcludeEachOther ==
    Spec => [](\A t, u \in Threads :
                  InCriticalSection(t) /\ InCriticalSection(u) => t = u)
<1>1. IInv => \A t, u \in Threads :
                 InCriticalSection(t) /\ InCriticalSection(u) => t = u
  BY DEF IInv, LockIsHeld
<1> QED
  BY <1>1, Invariance, PTL

\* onVisConnectionStatusUpdate waits for the get or set that fetches values:
\* the only fetch it can come in the middle of is the one of subscribe, which
\* does not take mLock.
THEOREM OnlySubscribeIsRaced ==
    Spec => [][OnVisConnectionStatusUpdate =>
                  \A t \in Threads : Fetching(t) => call[t].op = "subscribe"]_vars
<1> DEFINE Waits == OnVisConnectionStatusUpdate =>
                       \A t \in Threads : Fetching(t) => call[t].op = "subscribe"
<1>1. ASSUME IInv, OnVisConnectionStatusUpdate, NEW t \in Threads, Fetching(t)
      PROVE  call[t].op = "subscribe"
  <2>1. mLock = NoThread
    BY <1>1 DEF OnVisConnectionStatusUpdate
  <2>2. ~InCriticalSection(t)
    BY <1>1, <2>1, NoThreadAssumption DEF IInv, LockIsHeld
  <2> QED
    BY <1>1, <2>2 DEF InCriticalSection, Fetching
<1>2. IInv /\ [Next]_vars => [Waits]_vars
  BY <1>1
<1> QED
  BY <1>2, Invariance, PTL DEF Spec

-----------------------------------------------------------------------------
(***************************************************************************)
(* The two conversions of a value.                                         *)
(***************************************************************************)

\* A value that can be sent: a scalar has one element, a vector at least one.
HasText(type, value) ==
    /\ KindOf(type) # "none"
    /\ \E n \in Nat \ {0} : DOMAIN value = 1 .. n /\ (IsVector(type) \/ n = 1)
    /\ type = "BOOLEAN" => value[1] \in {0, 1}

\* What the text has of an element.
Sent(type, x) == IF KindOf(type) = "real" THEN SixDecimals(x) ELSE x

\* What a set sends comes back in six decimals, and a vector in the length that
\* it has in the store.
THEOREM ConversionsAgree ==
    ASSUME NEW type, NEW value, HasText(type, value),
           NEW old, IsVector(type) \/ DOMAIN old = 1 .. 1
    PROVE  jsonToVehicle(type, vehiclePropValueToString(type, value), old) =
               [i \in DOMAIN old |->
                   IF i \in DOMAIN value THEN Sent(type, value[i]) ELSE old[i]]
<1> DEFINE json == vehiclePropValueToString(type, value)
           back == [i \in DOMAIN old |->
                       IF i \in DOMAIN value THEN Sent(type, value[i]) ELSE old[i]]
<1>1. PICK n \in Nat \ {0} : DOMAIN value = 1 .. n /\ (IsVector(type) \/ n = 1)
  BY DEF HasText
<1>2. \A x : JsonElement(type, x) = Json(KindOf(type), Sent(type, x))
  BY DEF JsonElement, Sent
<1>3. CASE ~IsVector(type)
  <2>1. json = JsonElement(type, value[1]) /\ 1 \in DOMAIN value
    BY <1>1, <1>3 DEF HasText, vehiclePropValueToString
  <2>2. json.kind = KindOf(type) /\ json.data = Sent(type, value[1])
    BY <1>2, <2>1 DEF Json
  <2>3. Accepts(type, KindOf(type))
    BY <1>3 DEF HasText, KindOf, IsVector, Accepts
  <2> HIDE DEF json
  <2>4. Convertible(type, json)
    BY <1>3, <2>2, <2>3 DEF Convertible
  <2>5. type = "BOOLEAN" => Sent(type, value[1]) \in {0, 1}
    BY DEF HasText, Sent, KindOf
  <2>6. jsonToVehicle(type, json, old) = <<Sent(type, value[1])>>
    <3>1. CASE type = "BOOLEAN"
      <4>1. jsonToVehicle(type, json, old) = << IF json.data = 0 THEN 0 ELSE 1 >>
        BY <1>3, <2>4, <3>1 DEF jsonToVehicle
      <4> QED
        BY <2>2, <2>5, <3>1, <4>1
    <3>2. CASE type # "BOOLEAN"
      BY <1>3, <2>2, <2>4, <3>2 DEF jsonToVehicle
    <3> QED
      BY <3>1, <3>2
  <2>7. back = <<Sent(type, value[1])>>
    BY <1>3, <2>1
  <2> QED
    BY <2>6, <2>7 DEF json
<1>4. CASE IsVector(type)
  <2> DEFINE list == [i \in DOMAIN value |-> JsonElement(type, value[i])]
  <2>1. DOMAIN value = 1 .. n /\ value # <<>> /\ 1 \in 1 .. n
    BY <1>1
  <2>2. json = Json("array", list)
    BY <1>4, <2>1 DEF vehiclePropValueToString
  <2>3. /\ DOMAIN list = DOMAIN value
        /\ \A i \in DOMAIN value :
              list[i].kind = KindOf(type) /\ list[i].data = Sent(type, value[i])
    BY <1>2 DEF Json
  <2>4. Accepts(type, KindOf(type))
    BY <1>4 DEF IsVector, KindOf, Accepts
  <2> HIDE DEF list
  <2>5. json.kind = "array" /\ json.data = list
    BY <2>2 DEF Json
  <2> HIDE DEF json
  <2>6. FirstElement(json).kind = KindOf(type)
    BY <2>1, <2>3, <2>5 DEF FirstElement
  <2>7. Convertible(type, json)
    BY <1>4, <2>4, <2>5, <2>6 DEF Convertible
  <2>8. jsonToVehicle(type, json, old) =
            [i \in DOMAIN old |-> IF i \in DOMAIN list THEN list[i].data ELSE old[i]]
    BY <1>4, <2>5, <2>7 DEF jsonToVehicle
  <2>9. jsonToVehicle(type, json, old) = back
    BY <2>3, <2>8
  <2> QED
    BY <2>9 DEF json
<1> QED
  BY <1>3, <1>4

\* What has come back once comes back unchanged from then on.
THEOREM SecondRoundIsExact ==
    ASSUME NEW type, NEW value, HasText(type, value),
           NEW back, back = [i \in DOMAIN value |-> Sent(type, value[i])]
    PROVE  /\ jsonToVehicle(type, vehiclePropValueToString(type, value), value) = back
           /\ jsonToVehicle(type, vehiclePropValueToString(type, back), back) = back
<1>1. IsVector(type) \/ DOMAIN value = 1 .. 1
  BY DEF HasText
<1>2. \A x : Sent(type, Sent(type, x)) = Sent(type, x)
  BY RoundedAssumption DEF Sent, SixDecimals
<1>3. type = "BOOLEAN" => back[1] = value[1]
  BY DEF HasText, Sent, KindOf
<1>4. DOMAIN back = DOMAIN value /\ HasText(type, back)
  BY <1>3 DEF HasText
<1>5. jsonToVehicle(type, vehiclePropValueToString(type, value), value) =
          [i \in DOMAIN value |->
              IF i \in DOMAIN value THEN Sent(type, value[i]) ELSE value[i]]
  BY <1>1, ConversionsAgree
<1>6. jsonToVehicle(type, vehiclePropValueToString(type, back), back) =
          [i \in DOMAIN back |->
              IF i \in DOMAIN back THEN Sent(type, back[i]) ELSE back[i]]
  BY <1>1, <1>4, ConversionsAgree
<1>7. \A i \in DOMAIN back : back[i] = Sent(type, value[i]) /\ Sent(type, back[i]) = back[i]
  BY <1>2, <1>4
<1> QED
  BY <1>4, <1>5, <1>6, <1>7

-----------------------------------------------------------------------------
(***************************************************************************)
(* Reading the mapping file: the recursive function exists, and all of its *)
(* values are maps that agree.                                             *)
(***************************************************************************)

\* Whether or not the old entry is erased: it is of the same property.
LEMMA AddMappingLeadsBack ==
    ASSUME NEW maps, NEW key, NEW name, NEW after \in AddMapping(maps, key, name),
           LeadBack(maps)
    PROVE  LeadBack(after)
<1>1. PICK erased : /\ after = [forward |-> Put(maps.forward, key, name),
                                back |-> (maps.back \ erased) \cup {<<name, key>>}]
                    /\ \A entry \in erased : entry[2] = key
  BY DEF AddMapping
<1>2. SUFFICES ASSUME NEW k \in DOMAIN after.forward
               PROVE  <<after.forward[k], k>> \in after.back
  BY DEF LeadBack
<1>3. CASE k = key
  BY <1>1, <1>3 DEF Put
<1>4. CASE k # key
  <2>1. k \in DOMAIN maps.forward /\ after.forward[k] = maps.forward[k]
    BY <1>1, <1>4 DEF Put
  <2>2. <<maps.forward[k], k>> \in maps.back
    BY <2>1 DEF LeadBack
  <2>3. <<maps.forward[k], k>> \notin erased
    BY <1>1, <1>4
  <2> QED
    BY <1>1, <2>1, <2>2, <2>3
<1> QED
  BY <1>3, <1>4

LEMMA TableLeadsBack == LeadBack(TableMappings)
BY DEF LeadBack, TableMappings

Entered(file, m, f) ==
    f = [n \in 0 .. m |->
            IF n = 0 THEN {TableMappings}
            ELSE UNION {AddMapping(maps, file[n].key, file[n].name) : maps \in f[n - 1]}]

LEMMA EnteredExists ==
    ASSUME NEW file, NEW m \in Nat
    PROVE  \E f : Entered(file, m, f)
<1> DEFINE AllAdded(S, n) == UNION {AddMapping(maps, file[n].key, file[n].name) : maps \in S}
           N == {n \in Nat : \E f : Entered(file, n, f)}
<1>1. 0 \in N
  <2> DEFINE f == [n \in 0 .. 0 |-> {TableMappings}]
  <2>1. f = [n \in 0 .. 0 |-> IF n = 0 THEN {TableMappings} ELSE AllAdded(f[n - 1], n)]
    <3> HIDE DEF AllAdded
    <3> QED
      OBVIOUS
  <2> QED
    BY <2>1 DEF Entered
<1>2. \A n \in N : n + 1 \in N
  <2>1. SUFFICES ASSUME NEW n \in N PROVE \E f : Entered(file, n + 1, f)
    OBVIOUS
  <2>2. PICK f : Entered(file, n, f)
    OBVIOUS
  <2>3. n \in Nat
    OBVIOUS
  <2> DEFINE g == [i \in 0 .. n + 1 |-> IF i = n + 1 THEN AllAdded(f[n], n + 1) ELSE f[i]]
             h == [i \in 0 .. n + 1 |->
                      IF i = 0 THEN {TableMappings} ELSE AllAdded(g[i - 1], i)]
  <2>4. \A i \in 0 .. n : f[i] = IF i = 0 THEN {TableMappings} ELSE AllAdded(f[i - 1], i)
    BY <2>2 DEF Entered
  <2> HIDE DEF AllAdded, N
  <2>5. \A i \in 0 .. n + 1 : g[i] = h[i]
    <3>1. TAKE i \in 0 .. n + 1
    <3>2. CASE i = n + 1
      <4>1. i # 0 /\ i - 1 = n /\ n \in 0 .. n + 1 /\ n # n + 1
        BY <2>3, <3>2
      <4>2. g[i - 1] = f[n]
        BY <4>1
      <4> QED
        BY <3>2, <4>1, <4>2
    <3>3. CASE i # n + 1
      <4>1. i \in 0 .. n /\ g[i] = f[i]
        BY <2>3, <3>3
      <4>2. i # 0 => i - 1 \in 0 .. n + 1 /\ i - 1 # n + 1
        BY <2>3, <4>1
      <4>3. i # 0 => g[i - 1] = f[i - 1]
        BY <4>2
      <4> HIDE DEF g
      <4> QED
        BY <2>4, <4>1, <4>3
    <3> QED
      BY <3>2, <3>3
  <2>6. g = h
    BY <2>5
  <2>7. Entered(file, n + 1, g)
    <3> HIDE DEF g
    <3> QED
      BY <2>6 DEF Entered, AllAdded
  <2> QED
    BY <2>7
<1>3. N = Nat
  <2>1. N \in SUBSET Nat
    OBVIOUS
  <2> HIDE DEF N
  <2> QED
    BY <1>1, <1>2, <2>1, InductionOverNat
<1> QED
  BY <1>3

\* Whatever a mapping file has, and whether or not the old entries are erased, the
\* notification of what a set has sent finds its way back to the property: what
\* MappingsAssumption takes for granted of the two maps.
THEOREM MappingsLeadBack ==
    ASSUME NEW file, Len(file) \in Nat, NEW maps \in MappingsAfter(file)
    PROVE  LeadBack(maps)
<1>1. PICK after : /\ MappingsAfter(file) = after[Len(file)]
                   /\ Entered(file, Len(file), after)
  <2>1. MappingsAfter(file) = (CHOOSE f : Entered(file, Len(file), f))[Len(file)]
    BY DEF MappingsAfter, Entered
  <2> QED
    BY <2>1, EnteredExists
<1> DEFINE AllAdded(S, n) == UNION {AddMapping(some, file[n].key, file[n].name) : some \in S}
           N == {n \in Nat : n <= Len(file) => \A some \in after[n] : LeadBack(some)}
<1>2. after = [n \in 0 .. Len(file) |->
                   IF n = 0 THEN {TableMappings} ELSE AllAdded(after[n - 1], n)]
  BY <1>1 DEF Entered
<1>3. /\ after[0] = {TableMappings}
      /\ \A n \in 1 .. Len(file) : after[n] = AllAdded(after[n - 1], n)
  <2>1. /\ \A n \in 1 .. Len(file) : n \in 0 .. Len(file) /\ n # 0
        /\ 0 \in 0 .. Len(file)
    OBVIOUS
  <2> HIDE DEF AllAdded
  <2> QED
    BY <1>2, <2>1
<1>4. 0 \in N
  BY <1>3, TableLeadsBack
<1>5. \A n \in N : n + 1 \in N
  <2>1. SUFFICES ASSUME NEW n \in N, n + 1 <= Len(file), NEW some \in after[n + 1]
                 PROVE  LeadBack(some)
    OBVIOUS
  <2>2. n \in Nat /\ n + 1 \in 1 .. Len(file) /\ (n + 1) - 1 = n /\ n <= Len(file)
    BY <2>1
  <2>3. \A before \in after[n] : LeadBack(before)
    BY <2>2
  <2>4. PICK before \in after[n] :
            some \in AddMapping(before, file[n + 1].key, file[n + 1].name)
    <3> HIDE DEF N
    <3> QED
      BY <1>3, <2>1, <2>2
  <2> HIDE DEF N
  <2> QED
    BY <2>3, <2>4, AddMappingLeadsBack
<1>6. N = Nat
  <2>1. N \in SUBSET Nat
    OBVIOUS
  <2> HIDE DEF N
  <2> QED
    BY <1>4, <1>5, <2>1, InductionOverNat
<1> QED
  BY <1>1, <1>6

=============================================================================
