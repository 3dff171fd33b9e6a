------------------------ MODULE EventDispatchProofs ------------------------
(***************************************************************************)
(* Proofs about EventDispatch, for any number of clients, threads and      *)
(* objects, every configuration, and calls, changes and batches without    *)
(* end.                                                                    *)
(***************************************************************************)
EXTENDS EventDispatch, SelectionProofs

-----------------------------------------------------------------------------
(***************************************************************************)
(* Types.                                                                  *)
(***************************************************************************)

Asked == ClientValues \cup HalValues

PropValues ==
    [prop : {v.prop : v \in Asked} \cup {"INVALID"}, areaId : {v.areaId : v \in Asked} \cup {0},
     timestamp : Nat, size : {v.size : v \in Asked} \cup {0},
     stray : {v.stray : v \in Asked} \cup {FALSE}, data : Nat]

CallsOfClients == {"set", "event"} \X PropValues
Copies == [copy : PropValues, ref : Objects \cup {NoObject}]

TypeOK ==
    /\ flags \in [Clients -> [Props -> SUBSET {"CAR", "ANDROID"}]]
    /\ object \in [Objects -> PropValues]
    /\ home \in [Objects -> {HomeOf(v) : v \in PropValues} \cup {Disposable}]
    /\ mValueTypePools \in [Pools -> Seq(Objects)]
    /\ pc \in [Threads -> {"idle", "reply", "set", "push"}]
    /\ value \in [Threads -> PropValues]
    /\ audience \in [Threads -> SUBSET Clients]
    /\ held \in [Threads -> Objects \cup {NoObject}]
    /\ mEventQueue \in Seq(Objects)
    /\ consumer \in {"waits", "distributes", "calls"}
    /\ batch \in Seq(Objects)
    /\ clientValues \in Seq([client : Clients, values : Seq(Objects)])
    /\ slots \in Seq(Copies) /\ Len(slots) = SlotCount
    /\ vec \in Seq(Copies)
    /\ delivered \in [Clients -> Seq(CallsOfClients)]
    /\ calls \in Nat
    /\ pushed \in Seq([by : Threads, value : PropValues])
    /\ distributed \in Nat
    /\ from \in [Clients -> [Props -> [events : Nat, calls : Nat]]]

-----------------------------------------------------------------------------
(***************************************************************************)
(* Every object is in one place: with one thread, once in the queue, once  *)
(* in the batch or once in the pool that is its home.                      *)
(***************************************************************************)

HoldersHold ==
    /\ \A t \in Threads : held[t] # NoObject <=> pc[t] \in {"reply", "push"}
    /\ \A t, u \in Threads : t # u => held[t] = NoObject \/ held[t] # held[u]
    /\ \A t \in Threads : held[t] \notin ToSet(mEventQueue) \cup ToSet(batch)

WaitingOnce ==
    /\ IsInjective(mEventQueue)
    /\ IsInjective(batch)
    /\ ToSet(mEventQueue) \cap ToSet(batch) = {}

PooledOnce ==
    \A pool \in Pools :
        /\ IsInjective(mValueTypePools[pool])
        /\ \A o \in ToSet(mValueTypePools[pool]) :
              /\ home[o] = pool
              /\ o \notin {held[t] : t \in Threads} \cup ToSet(mEventQueue) \cup ToSet(batch)

OneOwner == HoldersHold /\ WaitingOnce /\ PooledOnce

-----------------------------------------------------------------------------
(***************************************************************************)
(* The objects on their way hold the last values that were pushed.         *)
(***************************************************************************)

Before == Len(pushed) - Len(batch) - Len(mEventQueue)

ObjectsHoldValues ==
    /\ \A t \in Threads : pc[t] = "push" => object[held[t]] = value[t]
    /\ Before \in Nat
    /\ distributed = IF consumer = "calls" THEN Before + Len(batch) ELSE Before
    /\ \A i \in 1 .. Len(batch) : object[batch[i]] = pushed[Before + i].value
    /\ \A i \in 1 .. Len(mEventQueue) :
          object[mEventQueue[i]] = pushed[Before + Len(batch) + i].value

\* What the batching thread has still to do belongs to its batch.
BatchIsHandled ==
    /\ consumer = "waits" => batch = <<>>
    /\ consumer # "calls" => clientValues = <<>>
    /\ clientValues = <<>> => vec = <<>>
    /\ vec # <<>> => vec = ShallowCopies(Head(clientValues).values)
    /\ \A k \in 1 .. Len(clientValues) :
          clientValues[k].values = Selected(batch, ToSet(clientValues[k].values))
    /\ \A k, l \in 1 .. Len(clientValues) :
          k # l => clientValues[k].client # clientValues[l].client

-----------------------------------------------------------------------------
(***************************************************************************)
(* Serial numbers tell the values apart.                                   *)
(***************************************************************************)

Carries(t) == pc[t] \in {"set", "push"}

SerialsDiffer ==
    /\ \A t \in Threads : Carries(t) => value[t].timestamp \in 1 .. calls
    /\ \A t, u \in Threads :
          t # u /\ Carries(t) /\ Carries(u) => value[t].timestamp # value[u].timestamp
    /\ \A j \in 1 .. Len(pushed) :
          /\ pushed[j].value.timestamp \in 1 .. calls
          /\ \A t \in Threads : Carries(t) => value[t].timestamp # pushed[j].value.timestamp
          /\ \A i \in 1 .. Len(pushed) :
                i # j => pushed[i].value.timestamp # pushed[j].value.timestamp

-----------------------------------------------------------------------------
(***************************************************************************)
(* A set is announced before its value is pushed.                          *)
(***************************************************************************)

\* The clients that have to hear of the set of v.
Hears(c, v) ==
    /\ "ANDROID" \in flags[c][v.prop]
    /\ from[c][v.prop].calls < v.timestamp

SetsAreAnnounced ==
    /\ \A c \in Clients, p \in Props : from[c][p].calls <= calls
    /\ \A t \in Threads : pc[t] = "push" => audience[t] = {}
    /\ \A t \in Binders : Carries(t) =>
          /\ value[t].prop \in Props
          /\ \A c \in Clients :
                Hears(c, value[t]) =>
                    c \in audience[t] \/ <<"set", value[t]>> \in ToSet(delivered[c])
    /\ \A t \in HalThreads : audience[t] = {}
    /\ \A j \in 1 .. Len(pushed) : pushed[j].by \in Binders =>
          /\ pushed[j].value.prop \in Props
          /\ \A c \in Clients :
                Hears(c, pushed[j].value) => <<"set", pushed[j].value>> \in ToSet(delivered[c])

-----------------------------------------------------------------------------
(***************************************************************************)
(* Clients have got the values of the batches, as far as these have been   *)
(* handled.                                                                *)
(***************************************************************************)

Awaits(c) == \E k \in 1 .. Len(clientValues) : clientValues[k].client = c
Reach(c) == IF consumer = "calls" /\ Awaits(c) THEN Before ELSE distributed

EventsAreSelected ==
    \A c \in Clients : Events(c) = Selected(SubSeq(Sent, 1, Reach(c)), ToSet(Events(c)))

\* The values that c is still going to get of the batch.
Coming(c) ==
    UNION {{object[o] : o \in ToSet(clientValues[k].values)} :
              k \in {l \in 1 .. Len(clientValues) : clientValues[l].client = c}}

EventsAreComplete ==
    \A c \in Clients, p \in Props : "CAR" \in flags[c][p] =>
        \A j \in from[c][p].events + 1 .. distributed :
            pushed[j].value.prop = p => pushed[j].value \in ToSet(Events(c)) \cup Coming(c)

IInv ==
    /\ TypeOK
    /\ OneOwner
    /\ ObjectsHoldValues
    /\ BatchIsHandled
    /\ SerialsDiffer
    /\ SetsAreAnnounced
    /\ SetIsAnnouncedFirst
    /\ EventsAreSelected
    /\ EventsAreComplete

-----------------------------------------------------------------------------
(***************************************************************************)
(* The operators.                                                          *)
(***************************************************************************)

LEMMA Numbers == /\ SlotCount \in Nat /\ NoObject \notin Objects /\ Objects \subseteq Nat
                 /\ MaxCalls \in Nat
BY ObjectsAssumption, SizesAssumption DEF NoObject

LEMMA NoValueIsValue == NoValue \in PropValues
BY DEF NoValue, PropValues

LEMMA StampedIsValue ==
    ASSUME calls \in Nat, NEW v \in Asked
    PROVE  Stamped(v) \in PropValues /\ Stamped(v).timestamp = calls + 1
<1>1. /\ v.prop \in {w.prop : w \in Asked} /\ v.areaId \in {w.areaId : w \in Asked}
      /\ v.size \in {w.size : w \in Asked} /\ v.stray \in {w.stray : w \in Asked}
      /\ calls + 1 \in Nat
  OBVIOUS
<1> QED
  BY <1>1 DEF Stamped, PropValues

\* A set of numbers that is not empty has a least one.
LEMMA NewObjectIsFree ==
    ASSUME Heap # {}
    PROVE  NewObject \in Heap
<1>1. Heap \in SUBSET Nat
  BY Numbers DEF Heap
<1>2. \E o \in Heap : \A other \in Heap : o <= other
  BY <1>1, LeastExists
<1> QED
  BY <1>2 DEF NewObject

LEMMA TailProperties ==
    ASSUME NEW T, NEW s \in Seq(T), s # <<>>
    PROVE  /\ Head(s) \in ToSet(s) /\ Tail(s) \in Seq(T)
           /\ ToSet(Tail(s)) \subseteq ToSet(s)
           /\ IsInjective(s) => IsInjective(Tail(s)) /\ Head(s) \notin ToSet(Tail(s))
<1>1. /\ Tail(s) \in Seq(T) /\ Len(s) \in Nat \ {0} /\ Head(s) = s[1]
      /\ Len(Tail(s)) = Len(s) - 1
      /\ \A i \in 1 .. Len(s) - 1 : Tail(s)[i] = s[i + 1]
  OBVIOUS
<1>2. DOMAIN s = 1 .. Len(s) /\ DOMAIN Tail(s) = 1 .. Len(s) - 1 /\ 1 \in DOMAIN s
  BY <1>1
<1>3. \A i \in DOMAIN Tail(s) : i + 1 \in DOMAIN s /\ Tail(s)[i] = s[i + 1] /\ i + 1 # 1 /\ i \in Nat
  BY <1>1, <1>2
<1>4. Head(s) \in ToSet(s)
  BY <1>1, <1>2 DEF ToSet
<1>5. ToSet(Tail(s)) \subseteq ToSet(s)
  BY <1>3 DEF ToSet
<1>6. ASSUME IsInjective(s) PROVE IsInjective(Tail(s)) /\ Head(s) \notin ToSet(Tail(s))
  <2>1. \A i, j \in DOMAIN Tail(s) : Tail(s)[i] = Tail(s)[j] => i + 1 = j + 1
    BY <1>3, <1>6 DEF IsInjective
  <2>2. \A i \in DOMAIN Tail(s) : Tail(s)[i] # s[1]
    BY <1>2, <1>3, <1>6 DEF IsInjective
  <2>3. \A i, j \in DOMAIN Tail(s) : i + 1 = j + 1 => i = j
    BY <1>3
  <2>4. IsInjective(Tail(s))
    BY <2>1, <2>3 DEF IsInjective
  <2>5. Head(s) \notin ToSet(Tail(s))
    BY <1>1, <2>2 DEF ToSet
  <2> QED
    BY <2>4, <2>5
<1> QED
  BY <1>1, <1>4, <1>5, <1>6

\* What obtain returns was nowhere else, and holds the value.
LEMMA ObtainEffect ==
    ASSUME TypeOK, OneOwner, NEW t \in Threads, NEW v \in PropValues, Obtain(t, v)
    PROVE  \E o \in Objects :
              /\ held' = [held EXCEPT ![t] = o]
              /\ object' = [object EXCEPT ![o] = v]
              /\ o \notin {held[u] : u \in Threads} \cup ToSet(mEventQueue) \cup ToSet(batch)
              /\ home' = [home EXCEPT ![o] = HomeOf(v)]
              /\ mValueTypePools' \in [Pools -> Seq(Objects)]
              /\ \A pool \in Pools :
                    /\ o \notin ToSet(mValueTypePools'[pool])
                    /\ ToSet(mValueTypePools'[pool]) \subseteq ToSet(mValueTypePools[pool])
                    /\ IsInjective(mValueTypePools'[pool])
<1> DEFINE pool0 == HomeOf(v)
           waits == pool0 \in Pools /\ mValueTypePools[pool0] # <<>>
           o == IF waits THEN Head(mValueTypePools[pool0]) ELSE NewObject
<1>1. /\ waits \/ Heap # {}
      /\ held' = [held EXCEPT ![t] = o]
      /\ object' = [object EXCEPT ![o] = v]
      /\ home' = [home EXCEPT ![o] = HomeOf(v)]
      /\ mValueTypePools' = IF waits THEN [mValueTypePools EXCEPT ![pool0] = Tail(@)]
                            ELSE mValueTypePools
  BY DEF Obtain, Filled
<1>2. mValueTypePools \in [Pools -> Seq(Objects)]
  BY DEF TypeOK
<1>3. CASE waits
  <2>1. o = Head(mValueTypePools[pool0]) /\ pool0 \in Pools /\ mValueTypePools[pool0] # <<>>
        /\ mValueTypePools[pool0] \in Seq(Objects)
    BY <1>2, <1>3
  <2>2. /\ o \in ToSet(mValueTypePools[pool0]) /\ Tail(mValueTypePools[pool0]) \in Seq(Objects)
        /\ ToSet(Tail(mValueTypePools[pool0])) \subseteq ToSet(mValueTypePools[pool0])
        /\ IsInjective(Tail(mValueTypePools[pool0])) /\ o \notin ToSet(Tail(mValueTypePools[pool0]))
    <3>1. IsInjective(mValueTypePools[pool0])
      BY <2>1 DEF OneOwner, PooledOnce
    <3> QED
      BY <2>1, <3>1, TailProperties
  <2>3. o \in Objects
    BY <2>1, <2>2 DEF ToSet
  <2>4. /\ home[o] = pool0
        /\ o \notin {held[u] : u \in Threads} \cup ToSet(mEventQueue) \cup ToSet(batch)
    BY <2>1, <2>2 DEF OneOwner, PooledOnce
  <2>5. mValueTypePools' = [mValueTypePools EXCEPT ![pool0] = Tail(mValueTypePools[pool0])]
    BY <1>1, <1>3
  <2>6. mValueTypePools' \in [Pools -> Seq(Objects)]
    BY <1>2, <2>1, <2>2, <2>5
  <2>7. ASSUME NEW pool \in Pools
        PROVE  /\ o \notin ToSet(mValueTypePools'[pool])
               /\ ToSet(mValueTypePools'[pool]) \subseteq ToSet(mValueTypePools[pool])
               /\ IsInjective(mValueTypePools'[pool])
    <3>1. CASE pool = pool0
      <4>1. mValueTypePools'[pool] = Tail(mValueTypePools[pool0])
        BY <1>2, <2>1, <2>5, <3>1
      <4> QED
        BY <2>2, <3>1, <4>1
    <3>2. CASE pool # pool0
      <4>1. mValueTypePools'[pool] = mValueTypePools[pool]
        BY <1>2, <2>5, <3>2
      <4>2. o \notin ToSet(mValueTypePools[pool]) /\ IsInjective(mValueTypePools[pool])
        BY <2>4, <3>2 DEF OneOwner, PooledOnce
      <4> QED
        BY <4>1, <4>2
    <3> QED
      BY <3>1, <3>2
  <2> HIDE DEF o, waits, pool0
  <2> QED
    BY <1>1, <2>3, <2>4, <2>6, <2>7
<1>4. CASE ~waits
  <2>1. o = NewObject /\ o \in Heap /\ mValueTypePools' = mValueTypePools
    BY <1>1, <1>4, NewObjectIsFree
  <2>2. /\ o \in Objects
        /\ o \notin {held[u] : u \in Threads} \cup ToSet(mEventQueue) \cup ToSet(batch)
        /\ \A pool \in Pools : o \notin ToSet(mValueTypePools[pool])
    BY <2>1 DEF Heap, InUse
  <2>3. \A pool \in Pools : IsInjective(mValueTypePools[pool])
    BY DEF OneOwner, PooledOnce
  <2> HIDE DEF o, waits
  <2> QED
    BY <1>1, <1>2, <2>1, <2>2, <2>3
<1> QED
  BY <1>3, <1>4

\* The deleter puts an object into its home, or drops it.
Returns(os) ==
    /\ object' \in [Objects -> PropValues]
    /\ home' \in [Objects -> {HomeOf(v) : v \in PropValues} \cup {Disposable}]
    /\ \A o \in Objects \ ToSet(os) : object'[o] = object[o]
    /\ mValueTypePools' \in [Pools -> Seq(Objects)]
    /\ \A pool \in Pools :
          /\ IsInjective(mValueTypePools'[pool])
          /\ \A o \in ToSet(mValueTypePools'[pool]) :
                home'[o] = pool /\ o \in ToSet(mValueTypePools[pool]) \cup ToSet(os)

LEMMA RecycleEffect ==
    ASSUME TypeOK, OneOwner, NEW os \in Seq(Objects), IsInjective(os),
           \A pool \in Pools : ToSet(os) \cap ToSet(mValueTypePools[pool]) = {},
           Recycle(os)
    PROVE  Returns(os)
<1> DEFINE Fitting == {o \in ToSet(os) : Fits(o)}
           back == Selected(os, Fitting)
           deleted == ToSet(os) \ ToSet(back)
           returned(pool) == Selected(back, {o \in ToSet(back) : home[o] = pool})
<1>1. /\ mValueTypePools' = [pool \in Pools |-> mValueTypePools[pool] \o returned(pool)]
      /\ object' = [o \in Objects |-> IF o \in deleted THEN NoValue ELSE object[o]]
      /\ home' = [o \in Objects |-> IF o \in deleted THEN Disposable ELSE home[o]]
  BY DEF Recycle
<1>2. /\ object \in [Objects -> PropValues] /\ mValueTypePools \in [Pools -> Seq(Objects)]
      /\ home \in [Objects -> {HomeOf(v) : v \in PropValues} \cup {Disposable}]
  BY DEF TypeOK
<1>3. back \in Seq(Objects) /\ ToSet(back) \subseteq ToSet(os) /\ IsInjective(back)
  <2>1. back \in Seq(Objects) /\ ToSet(back) = ToSet(os) \cap Fitting
    BY SelectedElements
  <2>2. IsInjective(back)
    BY SelectedInjective
  <2> QED
    BY <2>1, <2>2
<1>4. ASSUME NEW pool \in Pools
      PROVE  /\ returned(pool) \in Seq(Objects) /\ IsInjective(returned(pool))
             /\ ToSet(returned(pool)) = {o \in ToSet(back) : home[o] = pool}
  <2> HIDE DEF back
  <2>1. returned(pool) \in Seq(Objects)
        /\ ToSet(returned(pool)) = ToSet(back) \cap {o \in ToSet(back) : home[o] = pool}
    BY <1>3, SelectedElements
  <2>2. IsInjective(returned(pool))
    BY <1>3, SelectedInjective
  <2> QED
    BY <2>1, <2>2
<1> HIDE DEF back, returned
<1>5. object' \in [Objects -> PropValues]
  BY <1>1, <1>2, NoValueIsValue
<1>6. home' \in [Objects -> {HomeOf(v) : v \in PropValues} \cup {Disposable}]
  BY <1>1, <1>2
<1>7. \A o \in Objects \ ToSet(os) : object'[o] = object[o]
  BY <1>1
<1>8. mValueTypePools' \in [Pools -> Seq(Objects)]
  BY <1>1, <1>2, <1>4
<1>9. ASSUME NEW pool \in Pools
      PROVE  /\ IsInjective(mValueTypePools'[pool])
             /\ \A o \in ToSet(mValueTypePools'[pool]) :
                   home'[o] = pool /\ o \in ToSet(mValueTypePools[pool]) \cup ToSet(os)
  <2>1. /\ mValueTypePools[pool] \in Seq(Objects) /\ returned(pool) \in Seq(Objects)
        /\ mValueTypePools'[pool] = mValueTypePools[pool] \o returned(pool)
    BY <1>1, <1>2, <1>4
  <2>2. ToSet(mValueTypePools'[pool]) = ToSet(mValueTypePools[pool]) \cup ToSet(returned(pool))
    BY <2>1, ToSetConcat
  <2>3. ToSet(mValueTypePools[pool]) \cap ToSet(returned(pool)) = {}
    BY <1>3, <1>4
  <2>4. IsInjective(mValueTypePools[pool])
        /\ \A o \in ToSet(mValueTypePools[pool]) : home[o] = pool /\ o \in Objects
    BY <1>2 DEF OneOwner, PooledOnce, ToSet
  <2>5. IsInjective(mValueTypePools'[pool])
    BY <1>4, <2>1, <2>3, <2>4, ConcatInjective
  <2>6. ASSUME NEW o \in ToSet(mValueTypePools'[pool])
        PROVE  home'[o] = pool /\ o \in ToSet(mValueTypePools[pool]) \cup ToSet(os)
    <3>1. CASE o \in ToSet(mValueTypePools[pool])
      <4>1. o \notin deleted
        BY <3>1
      <4> QED
        BY <1>1, <2>4, <3>1, <4>1
    <3>2. CASE o \in ToSet(returned(pool))
      <4>1. o \in ToSet(back) /\ home[o] = pool /\ o \in Objects /\ o \in ToSet(os)
        BY <1>3, <1>4, <3>2, ToSetOfSeq
      <4> QED
        BY <1>1, <4>1
    <3> QED
      BY <2>2, <3>1, <3>2
  <2> QED
    BY <2>5, <2>6
<1> QED
  BY <1>5, <1>6, <1>7, <1>8, <1>9 DEF Returns

LEMMA ReplyReturns ==
    ASSUME TypeOK, OneOwner, NEW t \in Threads, Reply(t)
    PROVE  Returns(<<held[t]>>) /\ held[t] \in Objects /\ ToSet(<<held[t]>>) = {held[t]}
<1>1. held[t] \in Objects
  BY DEF Reply, TypeOK, OneOwner, HoldersHold
<1>2. /\ <<held[t]>> \in Seq(Objects) /\ IsInjective(<<held[t]>>)
      /\ ToSet(<<held[t]>>) = {held[t]}
  BY <1>1 DEF IsInjective, ToSet
<1>3. \A pool \in Pools : ToSet(<<held[t]>>) \cap ToSet(mValueTypePools[pool]) = {}
  BY <1>2 DEF OneOwner, PooledOnce
<1>4. Recycle(<<held[t]>>)
  BY DEF Reply
<1> QED
  BY <1>1, <1>2, <1>3, <1>4, RecycleEffect

LEMMA ReleaseReturns ==
    ASSUME TypeOK, OneOwner, ReleaseBatch
    PROVE  Returns(batch)
<1>1. batch \in Seq(Objects) /\ IsInjective(batch) /\ Recycle(batch)
  BY DEF ReleaseBatch, TypeOK, OneOwner, WaitingOnce
<1>2. \A pool \in Pools : ToSet(batch) \cap ToSet(mValueTypePools[pool]) = {}
  BY DEF OneOwner, PooledOnce
<1> QED
  BY <1>1, <1>2, RecycleEffect

\* What the batching thread has to do once it has distributed a batch.
ForClient(c) == Selected(batch, {o \in ToSet(batch) : c \in SubscribedClients(object[o].prop, "CAR")})

LEMMA DistributeEffect ==
    ASSUME TypeOK, DistributeValuesToClients
    PROVE  /\ clientValues' \in Seq([client : Clients, values : Seq(Objects)])
           /\ \A k \in 1 .. Len(clientValues') :
                 clientValues'[k].values = ForClient(clientValues'[k].client)
           /\ \A k, l \in 1 .. Len(clientValues') :
                 k # l => clientValues'[k].client # clientValues'[l].client
           /\ \A c \in Clients :
                 ForClient(c) # <<>> =>
                     \E k \in 1 .. Len(clientValues') : clientValues'[k].client = c
<1> DEFINE receivers == {c \in Clients : ForClient(c) # <<>>}
           n == Cardinality(receivers)
<1>1. PICK order \in SetToSeqs(receivers) :
          clientValues' = [i \in DOMAIN order |->
                              [client |-> order[i], values |-> ForClient(order[i])]]
  BY DEF DistributeValuesToClients, ForClient
<1>2. IsFiniteSet(receivers) /\ n \in Nat
  <2>1. IsFiniteSet(receivers)
    <3>1. receivers \in SUBSET Clients
      OBVIOUS
    <3> HIDE DEF receivers
    <3> QED
      BY <3>1, ClientsAssumption, FS_Subset
  <2> QED
    BY <2>1, FS_CardinalityType
<1>3. order \in [1 .. n -> receivers] /\ \A i, j \in 1 .. n : i # j => order[i] # order[j]
  BY DEF SetToSeqs
<1>4. \A c \in receivers : \E i \in 1 .. n : order[i] = c
  <2> HIDE DEF receivers, n
  <2>1. order \in Injection(1 .. n, receivers)
    BY <1>3 DEF Injection, IsInjective
  <2>2. Cardinality(1 .. n) = Cardinality(receivers)
    <3>1. Cardinality(1 .. n) = IF 1 > n THEN 0 ELSE n - 1 + 1
      BY <1>2, FS_Interval
    <3> QED
      BY <1>2, <3>1 DEF n
  <2>3. order \in Surjection(1 .. n, receivers)
    BY <1>2, <2>1, <2>2, FS_Injection
  <2> QED
    BY <2>3 DEF Surjection
<1>5. \A c \in Clients : ForClient(c) \in Seq(Objects)
  BY SelectedElements DEF ForClient, TypeOK
<1> HIDE DEF n
<1>6. /\ clientValues' = [i \in 1 .. n |-> [client |-> order[i], values |-> ForClient(order[i])]]
      /\ clientValues' \in Seq([client : Clients, values : Seq(Objects)])
      /\ Len(clientValues') = n
  <2>1. clientValues' = [i \in 1 .. n |-> [client |-> order[i], values |-> ForClient(order[i])]]
    BY <1>1, <1>3
  <2>2. \A i \in 1 .. n : [client |-> order[i], values |-> ForClient(order[i])]
                              \in [client : Clients, values : Seq(Objects)]
    BY <1>3, <1>5
  <2> QED
    BY <1>2, <2>1, <2>2
<1>7. \A k \in 1 .. n : /\ clientValues'[k].client = order[k]
                        /\ clientValues'[k].values = ForClient(order[k])
  BY <1>6
<1>8. \A c \in Clients :
          ForClient(c) # <<>> => \E k \in 1 .. Len(clientValues') : clientValues'[k].client = c
  BY <1>4, <1>6, <1>7
<1>9. \A k \in 1 .. Len(clientValues') :
          clientValues'[k].values = ForClient(clientValues'[k].client)
  BY <1>6, <1>7
<1>10. \A k, l \in 1 .. Len(clientValues') :
           k # l => clientValues'[k].client # clientValues'[l].client
  BY <1>3, <1>6, <1>7
<1> QED
  BY <1>6, <1>8, <1>9, <1>10

LEMMA ShallowCopiesAreCopies ==
    ASSUME TypeOK, NEW s \in Seq(Objects)
    PROVE  /\ ShallowCopies(s) \in Seq(Copies)
           /\ Len(ShallowCopies(s)) = Len(s)
           /\ \A i \in 1 .. Len(s) : ShallowCopies(s)[i] = [copy |-> object[s[i]], ref |-> s[i]]
<1>1. \A i \in 1 .. Len(s) : [copy |-> object[s[i]], ref |-> s[i]] \in Copies
  BY DEF TypeOK, Copies
<1> QED
  BY <1>1 DEF ShallowCopies

\* Whether in the slots or in a vector of its own, the client gets copies of
\* all its values.
LEMMA CopyEffect ==
    ASSUME TypeOK, CopyValues
    PROVE  /\ vec' = ShallowCopies(Head(clientValues).values)
           /\ slots' \in Seq(Copies) /\ Len(slots') = SlotCount
           /\ clientValues # <<>> /\ Head(clientValues).values \in Seq(Objects)
<1> DEFINE copies == ShallowCopies(Head(clientValues).values)
<1>1. clientValues # <<>> /\ Head(clientValues).values \in Seq(Objects)
  <2>1. Head(clientValues) \in [client : Clients, values : Seq(Objects)]
    <3>1. /\ clientValues \in Seq([client : Clients, values : Seq(Objects)])
          /\ clientValues # <<>>
      BY DEF CopyValues, TypeOK
    <3> QED
      BY <3>1, HeadTailProperties
  <2> QED
    BY <2>1 DEF CopyValues
<1>2. copies \in Seq(Copies)
  BY <1>1, ShallowCopiesAreCopies
<1>3. slots \in Seq(Copies) /\ Len(slots) = SlotCount /\ SlotCount \in Nat
  BY Numbers DEF TypeOK
<1>4. IF Len(copies) < SlotCount
      THEN /\ slots' = copies \o SubSeq(slots, Len(copies) + 1, SlotCount)
           /\ vec' = SubSeq(slots', 1, Len(copies))
      ELSE vec' = copies /\ slots' = slots
  BY DEF CopyValues
<1> HIDE DEF copies
<1>5. CASE Len(copies) < SlotCount
  <2> DEFINE rest == SubSeq(slots, Len(copies) + 1, SlotCount)
  <2>1. rest \in Seq(Copies) /\ Len(rest) = SlotCount - Len(copies) /\ Len(copies) \in Nat
    BY <1>2, <1>3, <1>5
  <2>2. slots' = copies \o rest /\ vec' = SubSeq(slots', 1, Len(copies))
    BY <1>4, <1>5
  <2> HIDE DEF rest
  <2>3. slots' \in Seq(Copies) /\ Len(slots') = SlotCount
    BY <1>2, <1>3, <2>1, <2>2
  <2>4. vec' = copies
    <3>1. /\ vec' \in Seq(Copies) /\ Len(vec') = Len(copies)
          /\ \A i \in 1 .. Len(copies) : vec'[i] = copies[i]
      BY <1>2, <1>3, <2>1, <2>2, <2>3
    <3> QED
      BY <1>2, <3>1, SeqEqual
  <2> QED
    BY <1>1, <2>3, <2>4 DEF copies
<1>6. CASE ~(Len(copies) < SlotCount)
  BY <1>1, <1>3, <1>4, <1>6 DEF copies
<1> QED
  BY <1>5, <1>6

\* What the callback gets are the values of the objects.
LEMMA DeliveryEffect ==
    ASSUME TypeOK, BatchIsHandled, OnPropertyEvent
    PROVE  LET c == Head(clientValues).client
               s == Head(clientValues).values
               w == EachOf(object, s)
           IN  /\ c \in Clients /\ s \in Seq(Objects) /\ w \in Seq(PropValues)
               /\ clientValues # <<>>
               /\ delivered' = [delivered EXCEPT ![c] =
                                   @ \o [i \in DOMAIN w |-> <<"event", w[i]>>]]
<1> DEFINE c == Head(clientValues).client
           s == Head(clientValues).values
           w == EachOf(object, s)
<1>1. clientValues # <<>> /\ vec = ShallowCopies(s)
  BY DEF OnPropertyEvent, BatchIsHandled
<1>2. c \in Clients /\ s \in Seq(Objects)
  <2>1. Head(clientValues) \in [client : Clients, values : Seq(Objects)]
    <3>1. clientValues \in Seq([client : Clients, values : Seq(Objects)])
      BY DEF TypeOK
    <3> QED
      BY <1>1, <3>1, HeadTailProperties
  <2> QED
    BY <2>1
<1>3. object \in [Objects -> PropValues]
  BY DEF TypeOK
<1>4. w \in Seq(PropValues) /\ Len(w) = Len(s) /\ \A i \in 1 .. Len(s) : w[i] = object[s[i]]
  <2> HIDE DEF s
  <2> QED
    BY <1>2, <1>3 DEF EachOf
<1> HIDE DEF s, w
<1>5. /\ vec \in Seq(Copies) /\ Len(vec) = Len(s)
      /\ \A i \in 1 .. Len(s) : vec[i] = [copy |-> object[s[i]], ref |-> s[i]]
  BY <1>1, <1>2, ShallowCopiesAreCopies
<1>6. \A i \in 1 .. Len(s) : [vec[i].copy EXCEPT !.data = object[vec[i].ref].data] = w[i]
  <2>1. SUFFICES ASSUME NEW i \in 1 .. Len(s)
                 PROVE  [vec[i].copy EXCEPT !.data = object[vec[i].ref].data] = w[i]
    OBVIOUS
  <2>2. vec[i].copy = object[s[i]] /\ vec[i].ref = s[i] /\ w[i] = object[s[i]]
    <3>1. vec[i] = [copy |-> object[s[i]], ref |-> s[i]]
      BY <1>5
    <3>2. w[i] = object[s[i]]
      BY <1>4
    <3> QED
      BY <3>1, <3>2
  <2>3. object[s[i]] \in PropValues
    BY <1>2, <1>3
  <2>4. [object[s[i]] EXCEPT !.data = object[s[i]].data] = object[s[i]]
    BY <2>3 DEF PropValues
  <2> QED
    BY <2>2, <2>4
<1>7. [i \in DOMAIN vec |-> <<"event", [vec[i].copy EXCEPT !.data = object[vec[i].ref].data]>>]
          = [i \in DOMAIN w |-> <<"event", w[i]>>]
  <2>1. DOMAIN vec = 1 .. Len(s) /\ DOMAIN w = 1 .. Len(s)
    BY <1>4, <1>5
  <2> QED
    BY <1>6, <2>1
<1>8. delivered' = [delivered EXCEPT ![c] =
          @ \o [i \in DOMAIN vec |->
                   <<"event", [vec[i].copy EXCEPT !.data = object[vec[i].ref].data]>>]]
  BY DEF OnPropertyEvent
<1>9. delivered' = [delivered EXCEPT ![c] = @ \o [i \in DOMAIN w |-> <<"event", w[i]>>]]
  BY <1>7, <1>8
<1> QED
  BY <1>1, <1>2, <1>4, <1>9 DEF s, w

-----------------------------------------------------------------------------
(***************************************************************************)
(* Type correctness.                                                       *)
(***************************************************************************)

\* c subscribes to p with the flags fs.
SubscribesTo(c, p, fs) ==
    /\ flags' \in [Clients -> [Props -> SUBSET {"CAR", "ANDROID"}]]
    /\ from' \in [Clients -> [Props -> [events : Nat, calls : Nat]]]
    /\ \A d \in Clients, q \in Props :
          IF d = c /\ q = p
          THEN /\ flags'[d][q] = flags[d][q] \cup fs
               /\ from'[d][q].events =
                     IF "CAR" \in fs \ flags[d][q] THEN distributed ELSE from[d][q].events
               /\ from'[d][q].calls =
                     IF "ANDROID" \in fs \ flags[d][q] THEN calls ELSE from[d][q].calls
          ELSE flags'[d][q] = flags[d][q] /\ from'[d][q] = from[d][q]

LEMMA SubscribeEffect ==
    ASSUME TypeOK, NEW c \in Clients, Subscribe(c)
    PROVE  \E p \in Props, fs \in SUBSET {"CAR", "ANDROID"} : SubscribesTo(c, p, fs)
<1>1. PICK p \in Props, fs \in SUBSET {"CAR", "ANDROID"} \ {{}} :
          /\ flags' = [flags EXCEPT ![c][p] = @ \cup fs]
          /\ from' = [from EXCEPT
                 ![c][p].events = IF "CAR" \in fs \ flags[c][p] THEN distributed ELSE @,
                 ![c][p].calls = IF "ANDROID" \in fs \ flags[c][p] THEN calls ELSE @]
  BY DEF Subscribe
<1>2. /\ flags \in [Clients -> [Props -> SUBSET {"CAR", "ANDROID"}]]
      /\ from \in [Clients -> [Props -> [events : Nat, calls : Nat]]]
      /\ distributed \in Nat /\ calls \in Nat
  BY DEF TypeOK
<1>3. flags[c][p] \cup fs \in SUBSET {"CAR", "ANDROID"}
  <2>1. flags[c] \in [Props -> SUBSET {"CAR", "ANDROID"}]
    BY <1>2
  <2>2. flags[c][p] \in SUBSET {"CAR", "ANDROID"}
    BY <2>1
  <2> QED
    BY <2>2
<1>4. /\ flags' \in [Clients -> [Props -> SUBSET {"CAR", "ANDROID"}]]
      /\ \A d \in Clients, q \in Props :
            flags'[d][q] = IF d = c /\ q = p THEN flags[d][q] \cup fs ELSE flags[d][q]
  BY <1>1, <1>2, <1>3
<1> DEFINE events == IF "CAR" \in fs \ flags[c][p] THEN distributed ELSE from[c][p].events
           since == IF "ANDROID" \in fs \ flags[c][p] THEN calls ELSE from[c][p].calls
           new == [from[c][p] EXCEPT !.events = events, !.calls = since]
<1>5. from' = [from EXCEPT ![c][p] = new]
  BY <1>1, <1>2
<1>6. new \in [events : Nat, calls : Nat] /\ new.events = events /\ new.calls = since
  <2>1. from[c][p] \in [events : Nat, calls : Nat] /\ events \in Nat /\ since \in Nat
    BY <1>2
  <2> HIDE DEF events, since
  <2> QED
    BY <2>1
<1> HIDE DEF new
<1>7. /\ from' \in [Clients -> [Props -> [events : Nat, calls : Nat]]]
      /\ \A d \in Clients, q \in Props :
            from'[d][q] = IF d = c /\ q = p THEN new ELSE from[d][q]
  BY <1>2, <1>5, <1>6
<1>8. fs \in SUBSET {"CAR", "ANDROID"}
  OBVIOUS
<1>9. ASSUME NEW d \in Clients, NEW q \in Props
      PROVE  IF d = c /\ q = p
             THEN /\ flags'[d][q] = flags[d][q] \cup fs
                  /\ from'[d][q].events =
                        IF "CAR" \in fs \ flags[d][q] THEN distributed ELSE from[d][q].events
                  /\ from'[d][q].calls =
                        IF "ANDROID" \in fs \ flags[d][q] THEN calls ELSE from[d][q].calls
             ELSE flags'[d][q] = flags[d][q] /\ from'[d][q] = from[d][q]
  <2>1. CASE d = c /\ q = p
    <3>1. flags'[d][q] = flags[d][q] \cup fs /\ from'[d][q] = new
      BY <1>4, <1>7, <2>1
    <3> QED
      BY <1>6, <2>1, <3>1
  <2>2. CASE ~(d = c /\ q = p)
    BY <1>4, <1>7, <2>2
  <2> QED
    BY <2>1, <2>2
<1> QED
  BY <1>4, <1>7, <1>8, <1>9 DEF SubscribesTo

LEMMA TypeStep ==
    ASSUME TypeOK, OneOwner, BatchIsHandled, [Next]_vars
    PROVE  TypeOK'
<1>1. ASSUME NEW c \in Clients, Subscribe(c) PROVE TypeOK'
  <2>1. /\ flags' \in [Clients -> [Props -> SUBSET {"CAR", "ANDROID"}]]
        /\ from' \in [Clients -> [Props -> [events : Nat, calls : Nat]]]
    BY <1>1, SubscribeEffect DEF SubscribesTo
  <2> QED
    BY <1>1, <2>1 DEF Subscribe, TypeOK, poolVars, threadVars, consumerVars
<1>2. ASSUME NEW c \in Clients, Unsubscribe(c) PROVE TypeOK'
  BY <1>2 DEF Unsubscribe, TypeOK, poolVars, threadVars, consumerVars, historyVars
<1>3. ASSUME NEW t \in Threads, Get(t) PROVE TypeOK'
  <2>1. PICK v \in HalValues : Obtain(t, Stamped(v))
    BY <1>3 DEF Get
  <2>2. Stamped(v) \in PropValues
    BY StampedIsValue DEF TypeOK, Asked
  <2>3. PICK o \in Objects :
           /\ held' = [held EXCEPT ![t] = o]
           /\ object' = [object EXCEPT ![o] = Stamped(v)]
           /\ home' = [home EXCEPT ![o] = HomeOf(Stamped(v))]
           /\ mValueTypePools' \in [Pools -> Seq(Objects)]
    BY <2>1, <2>2, ObtainEffect
  <2>4. calls' \in Nat
    BY <1>3 DEF Get, Call, TypeOK
  <2> QED
    BY <1>3, <2>2, <2>3, <2>4 DEF Get, TypeOK, consumerVars, historyVars
<1>4. ASSUME NEW t \in Threads, Reply(t) PROVE TypeOK'
  <2>1. Returns(<<held[t]>>)
    BY <1>4, ReplyReturns
  <2> QED
    BY <1>4, <2>1 DEF Returns, Reply, TypeOK, consumerVars, historyVars
<1>5. ASSUME NEW t \in Threads, Set(t) PROVE TypeOK'
  <2>1. PICK v \in ClientValues :
           /\ value' = [value EXCEPT ![t] = Stamped(v)]
           /\ audience' = [audience EXCEPT ![t] = SubscribedClients(v.prop, "ANDROID")]
    BY <1>5 DEF Set
  <2>2. Stamped(v) \in PropValues
    BY StampedIsValue DEF TypeOK, Asked
  <2>3. SubscribedClients(v.prop, "ANDROID") \in SUBSET Clients
    BY DEF SubscribedClients
  <2>4. calls' \in Nat
    BY <1>5 DEF Set, Call, TypeOK
  <2> QED
    BY <1>5, <2>1, <2>2, <2>3, <2>4 DEF Set, TypeOK, poolVars, consumerVars, historyVars
<1>6. ASSUME NEW t \in Threads, OnPropertySet(t) PROVE TypeOK'
  <2>1. PICK c \in audience[t] :
           /\ delivered' = [delivered EXCEPT ![c] = Append(@, <<"set", value[t]>>)]
           /\ audience' = [audience EXCEPT ![t] = @ \ {c}]
    BY <1>6 DEF OnPropertySet
  <2>2. c \in Clients /\ <<"set", value[t]>> \in CallsOfClients
    BY DEF TypeOK, CallsOfClients
  <2>3. Append(delivered[c], <<"set", value[t]>>) \in Seq(CallsOfClients)
    BY <2>2 DEF TypeOK
  <2> QED
    BY <1>6, <2>1, <2>2, <2>3 DEF OnPropertySet, TypeOK, poolVars, consumerVars, historyVars
<1>7. ASSUME NEW t \in Threads, HalRefuses(t) PROVE TypeOK'
  BY <1>7, NoValueIsValue DEF HalRefuses, TypeOK, poolVars, consumerVars, historyVars
<1>8. ASSUME NEW t \in Threads, HalProduces(t) PROVE TypeOK'
  <2>1. PICK v \in HalValues : value' = [value EXCEPT ![t] = Stamped(v)]
    BY <1>8 DEF HalProduces
  <2>2. Stamped(v) \in PropValues
    BY StampedIsValue DEF TypeOK, Asked
  <2>3. calls' \in Nat
    BY <1>8 DEF HalProduces, Call, TypeOK
  <2> QED
    BY <1>8, <2>1, <2>2, <2>3 DEF HalProduces, TypeOK, poolVars, consumerVars, historyVars
<1>9. ASSUME NEW t \in Threads, HalObtains(t) PROVE TypeOK'
  <2>1. Obtain(t, value[t]) /\ value[t] \in PropValues
    BY <1>9 DEF HalObtains, TypeOK
  <2>2. PICK o \in Objects :
           /\ held' = [held EXCEPT ![t] = o]
           /\ object' = [object EXCEPT ![o] = value[t]]
           /\ home' = [home EXCEPT ![o] = HomeOf(value[t])]
           /\ mValueTypePools' \in [Pools -> Seq(Objects)]
    BY <2>1, ObtainEffect
  <2> QED
    BY <1>9, <2>1, <2>2 DEF HalObtains, TypeOK, consumerVars, historyVars
<1>10. ASSUME NEW t \in Threads, OnHalEvent(t) PROVE TypeOK'
  <2>1. held[t] \in Objects
    BY <1>10 DEF OnHalEvent, TypeOK, OneOwner, HoldersHold
  <2>2. mEventQueue' \in Seq(Objects)
    BY <1>10, <2>1 DEF OnHalEvent, TypeOK
  <2>3. pushed' \in Seq([by : Threads, value : PropValues])
    <3>1. [by |-> t, value |-> value[t]] \in [by : Threads, value : PropValues]
      BY DEF TypeOK
    <3> QED
      BY <1>10, <3>1 DEF OnHalEvent, TypeOK
  <2> QED
    BY <1>10, <2>2, <2>3, NoValueIsValue DEF OnHalEvent, TypeOK, poolVars, consumerVars
<1>11. ASSUME TakeBatch PROVE TypeOK'
  BY <1>11 DEF TakeBatch, TypeOK, poolVars, threadVars, historyVars
<1>12. ASSUME DistributeValuesToClients PROVE TypeOK'
  <2>1. clientValues' \in Seq([client : Clients, values : Seq(Objects)])
    BY <1>12, DistributeEffect
  <2>2. distributed' \in Nat
    BY <1>12 DEF DistributeValuesToClients, TypeOK
  <2> QED
    BY <1>12, <2>1, <2>2 DEF DistributeValuesToClients, TypeOK, poolVars, threadVars
<1>13. ASSUME CopyValues PROVE TypeOK'
  <2>1. /\ vec' = ShallowCopies(Head(clientValues).values)
        /\ slots' \in Seq(Copies) /\ Len(slots') = SlotCount
        /\ Head(clientValues).values \in Seq(Objects)
    BY <1>13, CopyEffect
  <2>2. vec' \in Seq(Copies)
    BY <2>1, ShallowCopiesAreCopies
  <2> QED
    BY <1>13, <2>1, <2>2 DEF CopyValues, TypeOK, poolVars, threadVars, historyVars
<1>14. ASSUME OnPropertyEvent PROVE TypeOK'
  <2> DEFINE c == Head(clientValues).client
             w == EachOf(object, Head(clientValues).values)
             e == [i \in DOMAIN w |-> <<"event", w[i]>>]
  <2>1. /\ c \in Clients /\ w \in Seq(PropValues) /\ clientValues # <<>>
        /\ delivered' = [delivered EXCEPT ![c] = @ \o e]
    BY <1>14, DeliveryEffect
  <2>2. e \in Seq(CallsOfClients)
    <3> HIDE DEF w
    <3>1. DOMAIN w = 1 .. Len(w) /\ Len(w) \in Nat /\ \A i \in 1 .. Len(w) : w[i] \in PropValues
      BY <2>1, ElementOfSeq, LenProperties
    <3>2. \A i \in 1 .. Len(w) : <<"event", w[i]>> \in CallsOfClients
      BY <3>1 DEF CallsOfClients
    <3>3. e = [i \in 1 .. Len(w) |-> <<"event", w[i]>>]
      BY <3>1
    <3> HIDE DEF e
    <3> QED
      BY <3>1, <3>2, <3>3
  <2> HIDE DEF c, e
  <2>3. delivered' \in [Clients -> Seq(CallsOfClients)]
    <3>1. delivered[c] \o e \in Seq(CallsOfClients)
      BY <2>1, <2>2 DEF TypeOK
    <3> QED
      BY <2>1, <3>1 DEF TypeOK
  <2>4. clientValues' \in Seq([client : Clients, values : Seq(Objects)])
    <3>1. /\ clientValues \in Seq([client : Clients, values : Seq(Objects)])
          /\ clientValues' = Tail(clientValues)
      BY <1>14 DEF OnPropertyEvent, TypeOK
    <3> QED
      BY <2>1, <3>1, HeadTailProperties
  <2>5. vec' \in Seq(Copies)
    BY <1>14 DEF OnPropertyEvent
  <2> QED
    BY <1>14, <2>3, <2>4, <2>5 DEF OnPropertyEvent, TypeOK, poolVars, threadVars, historyVars
<1>15. ASSUME ReleaseBatch PROVE TypeOK'
  <2>1. Returns(batch)
    BY <1>15, ReleaseReturns
  <2>2. batch' \in Seq(Objects)
    BY <1>15 DEF ReleaseBatch
  <2> QED
    BY <1>15, <2>1, <2>2 DEF Returns, ReleaseBatch, TypeOK, threadVars, historyVars
<1>16. CASE UNCHANGED vars
  BY <1>16 DEF vars, TypeOK, poolVars, threadVars, consumerVars, historyVars
<1> QED
  BY <1>1, <1>2, <1>3, <1>4, <1>5, <1>6, <1>7, <1>8, <1>9, <1>10, <1>11, <1>12, <1>13, <1>14,
     <1>15, <1>16 DEF Next, Thread, BatchingThread

-----------------------------------------------------------------------------
(***************************************************************************)
(* One owner for every object.                                             *)
(***************************************************************************)

LEMMA ObtainKeepsOwners ==
    ASSUME TypeOK, OneOwner, NEW t \in Threads, NEW v \in PropValues, Obtain(t, v),
           pc[t] \notin {"reply", "push"},
           pc' = [pc EXCEPT ![t] = "reply"] \/ pc' = [pc EXCEPT ![t] = "push"],
           UNCHANGED <<mEventQueue, batch>>
    PROVE  OneOwner'
<1>1. PICK o \in Objects :
        /\ held' = [held EXCEPT ![t] = o]
        /\ o \notin {held[u] : u \in Threads} \cup ToSet(mEventQueue) \cup ToSet(batch)
        /\ home' = [home EXCEPT ![o] = HomeOf(v)]
        /\ \A pool \in Pools :
              /\ o \notin ToSet(mValueTypePools'[pool])
              /\ ToSet(mValueTypePools'[pool]) \subseteq ToSet(mValueTypePools[pool])
              /\ IsInjective(mValueTypePools'[pool])
  BY ObtainEffect
<1>2. o # NoObject
  BY Numbers
<1>3. \A u \in Threads : held'[u] = IF u = t THEN o ELSE held[u]
  BY <1>1 DEF TypeOK
<1>4. \A u \in Threads : u # t => pc'[u] = pc[u]
  BY DEF TypeOK
<1>5. pc'[t] \in {"reply", "push"}
  BY DEF TypeOK
<1>6. HoldersHold'
  <2>1. \A u \in Threads : held'[u] # NoObject <=> pc'[u] \in {"reply", "push"}
    BY <1>2, <1>3, <1>4, <1>5 DEF OneOwner, HoldersHold
  <2>2. \A u, w \in Threads : u # w => held'[u] = NoObject \/ held'[u] # held'[w]
    BY <1>1, <1>3 DEF OneOwner, HoldersHold
  <2>3. \A u \in Threads : held'[u] \notin ToSet(mEventQueue') \cup ToSet(batch')
    BY <1>1, <1>3 DEF OneOwner, HoldersHold
  <2> QED
    BY <2>1, <2>2, <2>3 DEF HoldersHold
<1>7. WaitingOnce'
  BY DEF OneOwner, WaitingOnce
<1>8. PooledOnce'
  <2>1. SUFFICES ASSUME NEW pool \in Pools, NEW x \in ToSet(mValueTypePools'[pool])
                 PROVE  /\ home'[x] = pool
                        /\ x \notin {held'[u] : u \in Threads} \cup ToSet(mEventQueue')
                                        \cup ToSet(batch')
    BY <1>1 DEF PooledOnce, Pools
  <2>2. x # o /\ x \in ToSet(mValueTypePools[pool])
    BY <1>1, <2>1
  <2>3. /\ home[x] = pool
        /\ x \notin {held[u] : u \in Threads} \cup ToSet(mEventQueue) \cup ToSet(batch)
    BY <2>2 DEF OneOwner, PooledOnce
  <2>4. x \in Objects
    <3>1. mValueTypePools[pool] \in Seq(Objects)
      BY DEF TypeOK
    <3> QED
      BY <2>2, <3>1, ToSetOfSeq
  <2>5. home'[x] = home[x]
    BY <1>1, <2>2, <2>4 DEF TypeOK
  <2> QED
    BY <1>3, <2>2, <2>3, <2>5
<1> QED
  BY <1>6, <1>7, <1>8 DEF OneOwner

LEMMA OneOwnerStep ==
    ASSUME TypeOK, OneOwner, BatchIsHandled, [Next]_vars
    PROVE  OneOwner'
<1> USE DEF OneOwner
<1>1. ASSUME UNCHANGED <<home, mValueTypePools, held, pc, mEventQueue, batch>> PROVE OneOwner'
  BY <1>1 DEF HoldersHold, WaitingOnce, PooledOnce, Pools
<1>2. ASSUME NEW t \in Threads, pc[t] \notin {"reply", "push"},
             pc' = [pc EXCEPT ![t] = "idle"] \/ pc' = [pc EXCEPT ![t] = "set"],
             UNCHANGED <<home, mValueTypePools, held, mEventQueue, batch>>
      PROVE  OneOwner'
  <2>1. \A u \in Threads : pc'[u] \in {"reply", "push"} <=> pc[u] \in {"reply", "push"}
    BY <1>2 DEF TypeOK
  <2> QED
    BY <1>2, <2>1 DEF HoldersHold, WaitingOnce, PooledOnce, Pools
<1>3. ASSUME NEW t \in Threads, Get(t) PROVE OneOwner'
  <2>1. PICK v \in HalValues : Obtain(t, Stamped(v))
    BY <1>3 DEF Get
  <2>2. Stamped(v) \in PropValues
    BY StampedIsValue DEF TypeOK, Asked
  <2>3. pc[t] \notin {"reply", "push"} /\ pc' = [pc EXCEPT ![t] = "reply"]
        /\ UNCHANGED <<mEventQueue, batch>>
    BY <1>3 DEF Get, consumerVars
  <2> QED
    BY <2>1, <2>2, <2>3, ObtainKeepsOwners
<1>4. ASSUME NEW t \in Threads, HalObtains(t) PROVE OneOwner'
  <2>1. Obtain(t, value[t]) /\ value[t] \in PropValues
    BY <1>4 DEF HalObtains, TypeOK
  <2>2. pc[t] \notin {"reply", "push"} /\ pc' = [pc EXCEPT ![t] = "push"]
        /\ UNCHANGED <<mEventQueue, batch>>
    BY <1>4 DEF HalObtains, CallsHal, consumerVars
  <2> QED
    BY <2>1, <2>2, ObtainKeepsOwners
<1>5. ASSUME NEW t \in Threads, Reply(t) PROVE OneOwner'
  <2>1. Returns(<<held[t]>>) /\ held[t] \in Objects /\ ToSet(<<held[t]>>) = {held[t]}
    BY <1>5, ReplyReturns
  <2>2. /\ \A u \in Threads : held'[u] = IF u = t THEN NoObject ELSE held[u]
        /\ \A u \in Threads : pc'[u] = IF u = t THEN "idle" ELSE pc[u]
        /\ mEventQueue' = mEventQueue /\ batch' = batch
    BY <1>5 DEF Reply, TypeOK, consumerVars
  <2>3. mEventQueue \in Seq(Objects) /\ batch \in Seq(Objects)
    BY DEF TypeOK
  <2>4. NoObject \notin ToSet(mEventQueue) \cup ToSet(batch)
    BY <2>3, Numbers, ToSetOfSeq
  <2>5. HoldersHold'
    BY <2>2, <2>4 DEF HoldersHold
  <2>6. WaitingOnce'
    BY <2>2 DEF WaitingOnce
  <2>7. PooledOnce'
    <3>1. SUFFICES ASSUME NEW pool \in Pools, NEW x \in ToSet(mValueTypePools'[pool])
                   PROVE  x \notin {held'[u] : u \in Threads} \cup ToSet(mEventQueue')
                                       \cup ToSet(batch')
      BY <2>1 DEF PooledOnce, Returns, Pools
    <3>2. x \in ToSet(mValueTypePools[pool]) \/ x = held[t]
      BY <2>1 DEF Returns
    <3>3. x # NoObject
      <4>1. mValueTypePools'[pool] \in Seq(Objects)
        BY <2>1 DEF Returns
      <4> QED
        BY <3>1, <4>1, Numbers, ToSetOfSeq
    <3> QED
      BY <2>1, <2>2, <3>2, <3>3, Numbers DEF PooledOnce, HoldersHold
  <2> QED
    BY <2>5, <2>6, <2>7
<1>6. ASSUME NEW t \in Threads, OnHalEvent(t) PROVE OneOwner'
  <2>1. held[t] \in Objects /\ mEventQueue \in Seq(Objects) /\ batch \in Seq(Objects)
    BY <1>6 DEF OnHalEvent, HoldersHold, TypeOK
  <2>2. /\ \A u \in Threads : held'[u] = IF u = t THEN NoObject ELSE held[u]
        /\ \A u \in Threads : pc'[u] = IF u = t THEN "idle" ELSE pc[u]
        /\ mEventQueue' = Append(mEventQueue, held[t]) /\ batch' = batch
        /\ home' = home /\ mValueTypePools' = mValueTypePools
    BY <1>6 DEF OnHalEvent, TypeOK, consumerVars, poolVars
  <2>3. ToSet(mEventQueue') = ToSet(mEventQueue) \cup {held[t]}
    BY <2>1, <2>2, ToSetAppend
  <2>4. held[t] \notin ToSet(mEventQueue) \cup ToSet(batch)
    BY DEF HoldersHold
  <2>5. HoldersHold'
    <3>1. NoObject \notin ToSet(mEventQueue') \cup ToSet(batch')
      BY <2>1, <2>2, <2>3, Numbers, ToSetOfSeq
    <3>2. \A u \in Threads : held'[u] # NoObject <=> pc'[u] \in {"reply", "push"}
      BY <2>2 DEF HoldersHold
    <3>3. \A u, w \in Threads : u # w => held'[u] = NoObject \/ held'[u] # held'[w]
      BY <2>2 DEF HoldersHold
    <3>4. \A u \in Threads : held'[u] \notin ToSet(mEventQueue') \cup ToSet(batch')
      BY <2>1, <2>2, <2>3, <3>1, Numbers DEF HoldersHold
    <3> QED
      BY <3>2, <3>3, <3>4 DEF HoldersHold
  <2>6. WaitingOnce'
    <3>1. IsInjective(mEventQueue')
      BY <2>1, <2>2, <2>4, AppendedInjective DEF WaitingOnce
    <3> QED
      BY <2>2, <2>3, <2>4, <3>1 DEF WaitingOnce
  <2>7. PooledOnce'
    <3>1. SUFFICES ASSUME NEW pool \in Pools, NEW x \in ToSet(mValueTypePools[pool])
                   PROVE  x \notin {held'[u] : u \in Threads} \cup ToSet(mEventQueue')
                                       \cup ToSet(batch')
      BY <2>2 DEF PooledOnce, Pools
    <3>2. x # NoObject
      <4>1. mValueTypePools[pool] \in Seq(Objects)
        BY DEF TypeOK
      <4> QED
        BY <4>1, Numbers, ToSetOfSeq
    <3> QED
      BY <2>2, <2>3, <3>2 DEF PooledOnce
  <2> QED
    BY <2>5, <2>6, <2>7
<1>7. ASSUME TakeBatch PROVE OneOwner'
  <2>1. /\ batch' = mEventQueue /\ mEventQueue' = <<>>
        /\ held' = held /\ pc' = pc /\ home' = home /\ mValueTypePools' = mValueTypePools
    BY <1>7 DEF TakeBatch, threadVars, poolVars
  <2>0. ToSet(batch) = {}
    BY <1>7, ToSetEmpty DEF TakeBatch, BatchIsHandled
  <2>2. ToSet(mEventQueue') = {} /\ IsInjective(mEventQueue')
    BY <2>1, ToSetEmpty DEF IsInjective
  <2> QED
    BY <2>0, <2>1, <2>2 DEF HoldersHold, WaitingOnce, PooledOnce, Pools
<1>8. ASSUME ReleaseBatch PROVE OneOwner'
  <2>1. Returns(batch)
    BY <1>8, ReleaseReturns
  <2>2. batch' = <<>> /\ mEventQueue' = mEventQueue /\ held' = held /\ pc' = pc
    BY <1>8 DEF ReleaseBatch, threadVars
  <2>3. ToSet(batch') = {} /\ IsInjective(batch')
    BY <2>2, ToSetEmpty DEF IsInjective
  <2>4. HoldersHold' /\ WaitingOnce'
    BY <2>2, <2>3 DEF HoldersHold, WaitingOnce
  <2>5. PooledOnce'
    <3>1. SUFFICES ASSUME NEW pool \in Pools, NEW x \in ToSet(mValueTypePools'[pool])
                   PROVE  x \notin {held'[u] : u \in Threads} \cup ToSet(mEventQueue')
                                       \cup ToSet(batch')
      BY <2>1 DEF PooledOnce, Returns, Pools
    <3>2. x \in ToSet(mValueTypePools[pool]) \/ x \in ToSet(batch)
      BY <2>1 DEF Returns
    <3> QED
      BY <2>2, <2>3, <3>2 DEF PooledOnce, HoldersHold, WaitingOnce
  <2> QED
    BY <2>4, <2>5
<1>9. ASSUME NEW t \in Threads, OnPropertySet(t) PROVE OneOwner'
  BY <1>1, <1>9 DEF OnPropertySet, poolVars, consumerVars
<1>10. ASSUME NEW t \in Threads, Set(t) PROVE OneOwner'
  BY <1>2, <1>10 DEF Set, poolVars, consumerVars
<1>11. ASSUME NEW t \in Threads, HalRefuses(t) PROVE OneOwner'
  BY <1>2, <1>11 DEF HalRefuses, CallsHal, poolVars, consumerVars
<1>12. ASSUME NEW t \in Threads, HalProduces(t) PROVE OneOwner'
  BY <1>2, <1>12 DEF HalProduces, poolVars, consumerVars
<1>13. ASSUME NEW c \in Clients, Subscribe(c) \/ Unsubscribe(c) PROVE OneOwner'
  BY <1>1, <1>13 DEF Subscribe, Unsubscribe, poolVars, threadVars, consumerVars
<1>14. ASSUME DistributeValuesToClients \/ CopyValues \/ OnPropertyEvent PROVE OneOwner'
  BY <1>1, <1>14 DEF DistributeValuesToClients, CopyValues, OnPropertyEvent, poolVars, threadVars
<1>15. CASE UNCHANGED vars
  BY <1>1, <1>15 DEF vars, poolVars, threadVars, consumerVars
<1> HIDE DEF OneOwner
<1> QED
  BY <1>3, <1>4, <1>5, <1>6, <1>7, <1>8, <1>9, <1>10, <1>11, <1>12, <1>13, <1>14, <1>15
     DEF Next, Thread, BatchingThread

-----------------------------------------------------------------------------
(***************************************************************************)
(* What the objects hold.                                                  *)
(***************************************************************************)

LEMMA InSequence ==
    ASSUME NEW T, NEW s \in Seq(T), NEW i \in 1 .. Len(s)
    PROVE  s[i] \in ToSet(s) /\ s[i] \in T
<1>1. DOMAIN s = 1 .. Len(s)
  OBVIOUS
<1> QED
  BY <1>1 DEF ToSet

\* The objects of the queue and of the batch keep their values when no step
\* but their own touches them.
LEMMA OthersKeepValues ==
    ASSUME TypeOK, ObjectsHoldValues, NEW touched,
           \A o \in Objects \ touched : object'[o] = object[o],
           touched \cap (ToSet(mEventQueue) \cup ToSet(batch)) = {}
    PROVE  /\ \A i \in 1 .. Len(batch) : object'[batch[i]] = pushed[Before + i].value
           /\ \A i \in 1 .. Len(mEventQueue) :
                 object'[mEventQueue[i]] = pushed[Before + Len(batch) + i].value
<1>1. batch \in Seq(Objects) /\ mEventQueue \in Seq(Objects)
  BY DEF TypeOK
<1>2. ASSUME NEW i \in 1 .. Len(batch) PROVE object'[batch[i]] = pushed[Before + i].value
  <2>1. batch[i] \in ToSet(batch) /\ batch[i] \in Objects
    BY <1>1, InSequence
  <2> QED
    BY <2>1 DEF ObjectsHoldValues
<1>3. ASSUME NEW i \in 1 .. Len(mEventQueue)
      PROVE  object'[mEventQueue[i]] = pushed[Before + Len(batch) + i].value
  <2>1. mEventQueue[i] \in ToSet(mEventQueue) /\ mEventQueue[i] \in Objects
    BY <1>1, InSequence
  <2> QED
    BY <2>1 DEF ObjectsHoldValues
<1> QED
  BY <1>2, <1>3

LEMMA ObjectsStep ==
    ASSUME TypeOK, OneOwner, BatchIsHandled, ObjectsHoldValues, [Next]_vars
    PROVE  ObjectsHoldValues'
<1>0. /\ batch \in Seq(Objects) /\ mEventQueue \in Seq(Objects)
      /\ pushed \in Seq([by : Threads, value : PropValues])
      /\ Len(batch) \in Nat /\ Len(mEventQueue) \in Nat /\ Len(pushed) \in Nat
      /\ Before \in Nat /\ Before = Len(pushed) - Len(batch) - Len(mEventQueue)
  BY DEF TypeOK, ObjectsHoldValues, Before
<1>1. ASSUME UNCHANGED <<object, held, pc, value, mEventQueue, batch, pushed, distributed, consumer>>
      PROVE  ObjectsHoldValues'
  BY <1>1 DEF ObjectsHoldValues, Before
<1>2. ASSUME NEW t \in Threads, pc[t] # "push",
             pc' = [pc EXCEPT ![t] = "idle"] \/ pc' = [pc EXCEPT ![t] = "set"],
             \A u \in Threads : u # t => value'[u] = value[u],
             UNCHANGED <<object, held, mEventQueue, batch, pushed, distributed, consumer>>
      PROVE  ObjectsHoldValues'
  <2>1. \A u \in Threads : pc'[u] = "push" => pc[u] = "push" /\ u # t
    BY <1>2 DEF TypeOK
  <2> QED
    BY <1>2, <2>1 DEF ObjectsHoldValues, Before
<1>3. ASSUME NEW t \in Threads, NEW v \in PropValues, Obtain(t, v),
             pc[t] \notin {"reply", "push"},
             \A u \in Threads : u # t => pc'[u] = pc[u],
             pc'[t] = "push" => v = value[t],
             UNCHANGED <<value, mEventQueue, batch, pushed, distributed, consumer>>
      PROVE  ObjectsHoldValues'
  <2>1. PICK o \in Objects :
          /\ held' = [held EXCEPT ![t] = o]
          /\ object' = [object EXCEPT ![o] = v]
          /\ o \notin {held[u] : u \in Threads} \cup ToSet(mEventQueue) \cup ToSet(batch)
    BY <1>3, ObtainEffect
  <2>2. \A x \in Objects \ {o} : object'[x] = object[x]
    BY <2>1 DEF TypeOK
  <2>3. /\ \A i \in 1 .. Len(batch) : object'[batch[i]] = pushed[Before + i].value
        /\ \A i \in 1 .. Len(mEventQueue) :
              object'[mEventQueue[i]] = pushed[Before + Len(batch) + i].value
    <3>1. {o} \cap (ToSet(mEventQueue) \cup ToSet(batch)) = {}
      BY <2>1
    <3>2. PICK touched : touched = {o}
      OBVIOUS
    <3> QED
      BY <2>2, <3>1, <3>2, OthersKeepValues
  <2>4. ASSUME NEW u \in Threads, pc'[u] = "push" PROVE object'[held'[u]] = value[u]
    <3>1. CASE u = t
      BY <1>3, <2>1, <2>4, <3>1 DEF TypeOK
    <3>2. CASE u # t
      <4>1. pc[u] = "push" /\ held'[u] = held[u] /\ held[u] \in Objects /\ held[u] # o
        BY <1>3, <2>1, <2>4, <3>2 DEF TypeOK, OneOwner, HoldersHold
      <4> QED
        BY <2>2, <4>1 DEF ObjectsHoldValues
    <3> QED
      BY <3>1, <3>2
  <2>5. /\ Before' = Before /\ batch' = batch /\ mEventQueue' = mEventQueue /\ pushed' = pushed
        /\ consumer' = consumer /\ distributed' = distributed /\ value' = value
    BY <1>3 DEF Before
  <2> QED
    BY <2>3, <2>4, <2>5 DEF ObjectsHoldValues
<1>4. ASSUME NEW t \in Threads, Reply(t) PROVE ObjectsHoldValues'
  <2>1. Returns(<<held[t]>>) /\ held[t] \in Objects /\ ToSet(<<held[t]>>) = {held[t]}
    BY <1>4, ReplyReturns
  <2>2. \A x \in Objects \ {held[t]} : object'[x] = object[x]
    BY <2>1 DEF Returns
  <2>3. held[t] \notin ToSet(mEventQueue) \cup ToSet(batch)
    BY DEF OneOwner, HoldersHold
  <2>4. /\ \A i \in 1 .. Len(batch) : object'[batch[i]] = pushed[Before + i].value
        /\ \A i \in 1 .. Len(mEventQueue) :
              object'[mEventQueue[i]] = pushed[Before + Len(batch) + i].value
    <3>1. PICK touched : touched = {held[t]}
      OBVIOUS
    <3>2. touched \cap (ToSet(mEventQueue) \cup ToSet(batch)) = {}
      BY <2>3, <3>1
    <3> QED
      BY <2>2, <3>1, <3>2, OthersKeepValues
  <2>5. /\ batch' = batch /\ mEventQueue' = mEventQueue /\ pushed' = pushed
        /\ consumer' = consumer /\ distributed' = distributed /\ value' = value
        /\ pc' = [pc EXCEPT ![t] = "idle"] /\ held' = [held EXCEPT ![t] = NoObject]
    BY <1>4 DEF Reply, consumerVars, historyVars
  <2>6. ASSUME NEW u \in Threads, pc'[u] = "push" PROVE object'[held'[u]] = value[u]
    <3>1. u # t /\ pc[u] = "push" /\ held'[u] = held[u]
      BY <2>5, <2>6 DEF TypeOK
    <3>2. held[u] \in Objects /\ held[u] # held[t]
      BY <2>1, <3>1, Numbers DEF TypeOK, OneOwner, HoldersHold
    <3> QED
      BY <2>2, <3>1, <3>2 DEF ObjectsHoldValues
  <2>7. Before' = Before
    BY <2>5 DEF Before
  <2> QED
    BY <2>4, <2>5, <2>6, <2>7 DEF ObjectsHoldValues
<1>5. ASSUME NEW t \in Threads, OnHalEvent(t) PROVE ObjectsHoldValues'
  <2>1. /\ pc[t] = "push" /\ held[t] \in Objects /\ object[held[t]] = value[t]
        /\ [by |-> t, value |-> value[t]] \in [by : Threads, value : PropValues]
    BY <1>5 DEF OnHalEvent, OneOwner, HoldersHold, TypeOK, ObjectsHoldValues
  <2>2. /\ batch' = batch /\ mEventQueue' = Append(mEventQueue, held[t])
        /\ pushed' = Append(pushed, [by |-> t, value |-> value[t]])
        /\ consumer' = consumer /\ distributed' = distributed /\ object' = object
        /\ pc' = [pc EXCEPT ![t] = "idle"] /\ held' = [held EXCEPT ![t] = NoObject]
        /\ value' = [value EXCEPT ![t] = NoValue]
    BY <1>5 DEF OnHalEvent, consumerVars, poolVars
  <2>3. /\ Len(mEventQueue') = Len(mEventQueue) + 1 /\ Len(pushed') = Len(pushed) + 1
        /\ \A i \in 1 .. Len(mEventQueue) : mEventQueue'[i] = mEventQueue[i]
        /\ mEventQueue'[Len(mEventQueue) + 1] = held[t]
        /\ \A i \in 1 .. Len(pushed) : pushed'[i] = pushed[i]
        /\ pushed'[Len(pushed) + 1] = [by |-> t, value |-> value[t]]
    BY <1>0, <2>1, <2>2, AppendProperties
  <2>4. Before' = Before
    BY <1>0, <2>2, <2>3 DEF Before
  <2>5. ASSUME NEW u \in Threads, pc'[u] = "push" PROVE object'[held'[u]] = value'[u]
    BY <2>2, <2>5 DEF TypeOK, ObjectsHoldValues
  <2>6. ASSUME NEW i \in 1 .. Len(batch) PROVE object'[batch[i]] = pushed'[Before + i].value
    <3>1. Before + i \in 1 .. Len(pushed)
      BY <1>0
    <3> QED
      BY <2>2, <2>3, <3>1 DEF ObjectsHoldValues
  <2>7. ASSUME NEW i \in 1 .. Len(mEventQueue')
        PROVE  object'[mEventQueue'[i]] = pushed'[Before + Len(batch) + i].value
    <3>1. CASE i \in 1 .. Len(mEventQueue)
      <4>1. Before + Len(batch) + i \in 1 .. Len(pushed)
        BY <1>0, <3>1
      <4> QED
        BY <2>2, <2>3, <3>1, <4>1 DEF ObjectsHoldValues
    <3>2. CASE i = Len(mEventQueue) + 1
      <4>1. Before + Len(batch) + i = Len(pushed) + 1
        BY <1>0, <3>2
      <4> QED
        BY <2>1, <2>2, <2>3, <3>2, <4>1
    <3> QED
      BY <1>0, <2>3, <3>1, <3>2
  <2> QED
    BY <2>2, <2>4, <2>5, <2>6, <2>7 DEF ObjectsHoldValues
<1>6. ASSUME TakeBatch PROVE ObjectsHoldValues'
  <2>1. /\ batch = <<>> /\ batch' = mEventQueue /\ mEventQueue' = <<>> /\ pushed' = pushed
        /\ consumer = "waits" /\ consumer' = "distributes" /\ distributed' = distributed
        /\ object' = object /\ pc' = pc /\ held' = held /\ value' = value
    BY <1>6 DEF TakeBatch, BatchIsHandled, poolVars, threadVars, historyVars
  <2>2. Before' = Before /\ Len(mEventQueue') = 0 /\ Len(batch) = 0
    BY <1>0, <2>1 DEF Before
  <2>3. \A i \in 1 .. Len(mEventQueue) : object[mEventQueue[i]] = pushed[Before + i].value
    <3>1. \A i \in 1 .. Len(mEventQueue) : Before + Len(batch) + i = Before + i
      BY <1>0, <2>2
    <3> QED
      BY <3>1 DEF ObjectsHoldValues
  <2>4. distributed = Before
    BY <2>1 DEF ObjectsHoldValues
  <2>5. \A t \in Threads : pc'[t] = "push" => object'[held'[t]] = value'[t]
    BY <2>1 DEF ObjectsHoldValues
  <2> QED
    BY <1>0, <2>1, <2>2, <2>3, <2>4, <2>5 DEF ObjectsHoldValues
<1>7. ASSUME DistributeValuesToClients PROVE ObjectsHoldValues'
  <2>1. /\ UNCHANGED <<object, held, pc, value, mEventQueue, batch, pushed>>
        /\ consumer = "distributes" /\ consumer' = "calls"
        /\ distributed' = distributed + Len(batch)
    BY <1>7 DEF DistributeValuesToClients, poolVars, threadVars
  <2>2. Before' = Before
    BY <2>1 DEF Before
  <2> QED
    BY <2>1, <2>2 DEF ObjectsHoldValues
<1>8. ASSUME ReleaseBatch PROVE ObjectsHoldValues'
  <2>1. Returns(batch)
    BY <1>8, ReleaseReturns
  <2>2. /\ batch' = <<>> /\ UNCHANGED <<held, pc, value, mEventQueue, pushed, distributed>>
        /\ consumer = "calls" /\ consumer' = "waits"
    BY <1>8 DEF ReleaseBatch, threadVars, historyVars
  <2>3. Before' = Before + Len(batch) /\ Len(batch') = 0 /\ distributed = Before + Len(batch)
    BY <1>0, <2>2 DEF Before, ObjectsHoldValues
  <2>4. ASSUME NEW u \in Threads, pc[u] = "push" PROVE object'[held[u]] = value[u]
    <3>1. held[u] \in Objects /\ held[u] \notin ToSet(batch)
      BY <2>4, Numbers DEF TypeOK, OneOwner, HoldersHold
    <3> QED
      BY <2>1, <2>4, <3>1 DEF Returns, ObjectsHoldValues
  <2>5. ASSUME NEW i \in 1 .. Len(mEventQueue)
        PROVE  object'[mEventQueue[i]] = pushed[Before' + Len(batch') + i].value
    <3>1. mEventQueue[i] \in ToSet(mEventQueue) /\ mEventQueue[i] \in Objects
      BY <1>0, InSequence
    <3>2. mEventQueue[i] \notin ToSet(batch)
      BY <3>1 DEF OneOwner, WaitingOnce
    <3>3. object'[mEventQueue[i]] = object[mEventQueue[i]]
      BY <2>1, <3>1, <3>2 DEF Returns
    <3>4. Before' + Len(batch') + i = Before + Len(batch) + i
      BY <1>0, <2>3
    <3> QED
      BY <3>3, <3>4 DEF ObjectsHoldValues
  <2>6. Before' \in Nat /\ distributed' = Before'
    BY <1>0, <2>2, <2>3
  <2> QED
    BY <2>2, <2>3, <2>4, <2>5, <2>6 DEF ObjectsHoldValues
<1>9. ASSUME NEW c \in Clients, Subscribe(c) \/ Unsubscribe(c) PROVE ObjectsHoldValues'
  BY <1>1, <1>9 DEF Subscribe, Unsubscribe, poolVars, threadVars, consumerVars, historyVars
<1>10. ASSUME CopyValues \/ OnPropertyEvent PROVE ObjectsHoldValues'
  BY <1>1, <1>10 DEF CopyValues, OnPropertyEvent, poolVars, threadVars, historyVars
<1>11. ASSUME NEW t \in Threads, OnPropertySet(t) PROVE ObjectsHoldValues'
  BY <1>1, <1>11 DEF OnPropertySet, poolVars, consumerVars, historyVars
<1>12. ASSUME NEW t \in Threads, Set(t) PROVE ObjectsHoldValues'
  BY <1>2, <1>12 DEF Set, TypeOK, poolVars, consumerVars, historyVars
<1>13. ASSUME NEW t \in Threads, HalRefuses(t) PROVE ObjectsHoldValues'
  BY <1>2, <1>13 DEF HalRefuses, CallsHal, TypeOK, poolVars, consumerVars, historyVars
<1>14. ASSUME NEW t \in Threads, HalProduces(t) PROVE ObjectsHoldValues'
  BY <1>2, <1>14 DEF HalProduces, TypeOK, poolVars, consumerVars, historyVars
<1>15. ASSUME NEW t \in Threads, Get(t) PROVE ObjectsHoldValues'
  <2>1. PICK v \in HalValues : Obtain(t, Stamped(v))
    BY <1>15 DEF Get
  <2>2. Stamped(v) \in PropValues
    BY StampedIsValue DEF TypeOK, Asked
  <2>3. /\ pc[t] \notin {"reply", "push"} /\ pc'[t] = "reply"
        /\ \A u \in Threads : u # t => pc'[u] = pc[u]
        /\ UNCHANGED <<value, mEventQueue, batch, pushed, distributed, consumer>>
    BY <1>15 DEF Get, TypeOK, consumerVars, historyVars
  <2> QED
    BY <1>3, <2>1, <2>2, <2>3
<1>16. ASSUME NEW t \in Threads, HalObtains(t) PROVE ObjectsHoldValues'
  <2>1. Obtain(t, value[t]) /\ value[t] \in PropValues
    BY <1>16 DEF HalObtains, TypeOK
  <2>2. /\ pc[t] \notin {"reply", "push"}
        /\ \A u \in Threads : u # t => pc'[u] = pc[u]
        /\ UNCHANGED <<value, mEventQueue, batch, pushed, distributed, consumer>>
    BY <1>16 DEF HalObtains, CallsHal, TypeOK, consumerVars, historyVars
  <2> QED
    BY <1>3, <2>1, <2>2
<1>17. CASE UNCHANGED vars
  BY <1>1, <1>17 DEF vars, poolVars, threadVars, consumerVars, historyVars
<1> QED
  BY <1>4, <1>5, <1>6, <1>7, <1>8, <1>9, <1>10, <1>11, <1>12, <1>13, <1>14, <1>15, <1>16, <1>17
     DEF Next, Thread, BatchingThread

-----------------------------------------------------------------------------
(***************************************************************************)
(* What the batching thread has still to do.                               *)
(***************************************************************************)

LEMMA ValuesAreOfBatch ==
    ASSUME TypeOK, BatchIsHandled, NEW k \in 1 .. Len(clientValues)
    PROVE  /\ clientValues[k].values \in Seq(Objects) /\ clientValues[k].client \in Clients
           /\ ToSet(clientValues[k].values) \subseteq ToSet(batch)
<1>1. clientValues[k] \in [client : Clients, values : Seq(Objects)]
  <2>1. clientValues \in Seq([client : Clients, values : Seq(Objects)])
    BY DEF TypeOK
  <2> QED
    BY <2>1, ElementOfSeq
<1>2. batch \in Seq(Objects)
  BY DEF TypeOK
<1>3. clientValues[k].values = Selected(batch, ToSet(clientValues[k].values))
  BY DEF BatchIsHandled
<1>4. ToSet(Selected(batch, ToSet(clientValues[k].values)))
          = ToSet(batch) \cap ToSet(clientValues[k].values)
  BY <1>2, SelectedElements
<1> QED
  BY <1>1, <1>3, <1>4

LEMMA BatchIsKept ==
    ASSUME TypeOK, BatchIsHandled, UNCHANGED <<consumer, batch, clientValues, vec>>,
           \A o \in ToSet(batch) : object'[o] = object[o]
    PROVE  BatchIsHandled'
<1>1. ASSUME vec # <<>>
      PROVE  ShallowCopies(Head(clientValues).values)' = ShallowCopies(Head(clientValues).values)
  <2>1. clientValues # <<>> /\ clientValues \in Seq([client : Clients, values : Seq(Objects)])
    BY <1>1 DEF BatchIsHandled, TypeOK
  <2>2. 1 \in 1 .. Len(clientValues) /\ Head(clientValues) = clientValues[1]
    BY <2>1
  <2>3. /\ Head(clientValues).values \in Seq(Objects)
        /\ ToSet(Head(clientValues).values) \subseteq ToSet(batch)
    BY <2>2, ValuesAreOfBatch
  <2> DEFINE s == Head(clientValues).values
  <2>4. s' = s
    OBVIOUS
  <2>5. \A i \in DOMAIN s : object'[s[i]] = object[s[i]]
    BY <2>3 DEF ToSet
  <2> HIDE DEF s
  <2>6. ShallowCopies(s)' = ShallowCopies(s)
    BY <2>4, <2>5 DEF ShallowCopies
  <2> QED
    BY <2>6 DEF s
<1>2. vec' # <<>> => vec' = ShallowCopies(Head(clientValues).values)'
  BY <1>1 DEF BatchIsHandled
<1> QED
  BY <1>2 DEF BatchIsHandled

LEMMA BatchStep ==
    ASSUME TypeOK, OneOwner, BatchIsHandled, [Next]_vars
    PROVE  BatchIsHandled'
<1>1. ASSUME UNCHANGED <<object, consumer, batch, clientValues, vec>> PROVE BatchIsHandled'
  BY <1>1, BatchIsKept
<1>2. ASSUME NEW t \in Threads, NEW v \in PropValues, Obtain(t, v),
             UNCHANGED <<consumer, batch, clientValues, vec>>
      PROVE  BatchIsHandled'
  <2>1. PICK o \in Objects : object' = [object EXCEPT ![o] = v] /\ o \notin ToSet(batch)
    BY <1>2, ObtainEffect
  <2>2. \A x \in ToSet(batch) : object'[x] = object[x]
    <3>1. ToSet(batch) \subseteq Objects
      BY ToSetOfSeq DEF TypeOK
    <3> QED
      BY <2>1, <3>1 DEF TypeOK
  <2> QED
    BY <1>2, <2>2, BatchIsKept
<1>3. ASSUME NEW t \in Threads, Reply(t) PROVE BatchIsHandled'
  <2>1. Returns(<<held[t]>>) /\ ToSet(<<held[t]>>) = {held[t]} /\ held[t] \notin ToSet(batch)
    BY <1>3, ReplyReturns DEF OneOwner, HoldersHold
  <2>2. \A x \in ToSet(batch) : object'[x] = object[x]
    <3>1. ToSet(batch) \subseteq Objects
      BY ToSetOfSeq DEF TypeOK
    <3> QED
      BY <2>1, <3>1 DEF Returns
  <2>3. UNCHANGED <<consumer, batch, clientValues, vec>>
    BY <1>3 DEF Reply, consumerVars
  <2> QED
    BY <2>2, <2>3, BatchIsKept
<1>4. ASSUME NEW t \in Threads, Get(t) PROVE BatchIsHandled'
  <2>1. PICK v \in HalValues : Obtain(t, Stamped(v))
    BY <1>4 DEF Get
  <2>2. Stamped(v) \in PropValues
    BY StampedIsValue DEF TypeOK, Asked
  <2> QED
    BY <1>2, <1>4, <2>1, <2>2 DEF Get, consumerVars
<1>5. ASSUME NEW t \in Threads, HalObtains(t) PROVE BatchIsHandled'
  <2>1. Obtain(t, value[t]) /\ value[t] \in PropValues
    BY <1>5 DEF HalObtains, TypeOK
  <2> QED
    BY <1>2, <1>5, <2>1 DEF HalObtains, consumerVars
<1>6. ASSUME TakeBatch PROVE BatchIsHandled'
  <2>1. clientValues = <<>> /\ vec = <<>>
    BY <1>6 DEF TakeBatch, BatchIsHandled
  <2> QED
    BY <1>6, <2>1 DEF TakeBatch, BatchIsHandled
<1>7. ASSUME DistributeValuesToClients PROVE BatchIsHandled'
  <2>1. consumer' = "calls" /\ batch' = batch /\ vec' = vec /\ vec = <<>>
    BY <1>7 DEF DistributeValuesToClients, BatchIsHandled
  <2>2. /\ \A k \in 1 .. Len(clientValues') :
              clientValues'[k].values = ForClient(clientValues'[k].client)
        /\ \A k, l \in 1 .. Len(clientValues') :
              k # l => clientValues'[k].client # clientValues'[l].client
    BY <1>7, DistributeEffect
  <2>3. ASSUME NEW c PROVE ForClient(c) = Selected(batch, ToSet(ForClient(c)))
    <3> DEFINE S == {o \in ToSet(batch) : c \in SubscribedClients(object[o].prop, "CAR")}
    <3>1. batch \in Seq(Objects) /\ ForClient(c) = Selected(batch, S)
      BY DEF TypeOK, ForClient
    <3> HIDE DEF S
    <3>2. ToSet(ForClient(c)) = ToSet(batch) \cap S
      BY <3>1, SelectedElements
    <3>3. ToSet(batch) \cap S = ToSet(batch) \cap ToSet(ForClient(c))
      BY <3>2
    <3>4. Selected(batch, S) = Selected(batch, ToSet(ForClient(c)))
      BY <3>1, <3>3, SelectedAgrees
    <3> QED
      BY <3>1, <3>4
  <2>4. \A k \in 1 .. Len(clientValues') :
            clientValues'[k].values = Selected(batch', ToSet(clientValues'[k].values))
    BY <2>1, <2>2, <2>3
  <2> QED
    BY <2>1, <2>2, <2>4 DEF BatchIsHandled
<1>8. ASSUME CopyValues PROVE BatchIsHandled'
  <2>1. vec' = ShallowCopies(Head(clientValues).values) /\ clientValues # <<>>
    BY <1>8, CopyEffect
  <2>2. UNCHANGED <<object, consumer, batch, clientValues>>
    BY <1>8 DEF CopyValues, poolVars
  <2>3. ShallowCopies(Head(clientValues).values)' = ShallowCopies(Head(clientValues).values)
    BY <2>2 DEF ShallowCopies
  <2> QED
    BY <2>1, <2>2, <2>3 DEF BatchIsHandled
<1>9. ASSUME OnPropertyEvent PROVE BatchIsHandled'
  <2>1. /\ clientValues \in Seq([client : Clients, values : Seq(Objects)]) /\ clientValues # <<>>
        /\ clientValues' = Tail(clientValues) /\ vec' = <<>> /\ batch' = batch
        /\ consumer' = consumer
    BY <1>9 DEF OnPropertyEvent, BatchIsHandled, TypeOK
  <2>2. /\ Len(clientValues') = Len(clientValues) - 1 /\ Len(clientValues) \in Nat
        /\ \A k \in 1 .. Len(clientValues') : clientValues'[k] = clientValues[k + 1]
    BY <2>1
  <2>3. \A k \in 1 .. Len(clientValues') : k + 1 \in 1 .. Len(clientValues) /\ k \in Nat
    BY <2>2
  <2>4. consumer = "calls"
    BY <2>1 DEF BatchIsHandled
  <2>5. \A k \in 1 .. Len(clientValues') :
            clientValues'[k].values = Selected(batch', ToSet(clientValues'[k].values))
    BY <2>1, <2>2, <2>3 DEF BatchIsHandled
  <2>6. \A k, l \in 1 .. Len(clientValues') :
            k # l => clientValues'[k].client # clientValues'[l].client
    <3>1. \A k, l \in 1 .. Len(clientValues') : k # l => k + 1 # l + 1
      BY <2>3
    <3> QED
      BY <2>2, <2>3, <3>1 DEF BatchIsHandled
  <2> QED
    BY <2>1, <2>4, <2>5, <2>6 DEF BatchIsHandled
<1>10. ASSUME ReleaseBatch PROVE BatchIsHandled'
  BY <1>10 DEF ReleaseBatch, BatchIsHandled
<1>11. ASSUME NEW c \in Clients, Subscribe(c) \/ Unsubscribe(c) PROVE BatchIsHandled'
  BY <1>1, <1>11 DEF Subscribe, Unsubscribe, poolVars, consumerVars
<1>12. ASSUME NEW t \in Threads,
              OnPropertySet(t) \/ Set(t) \/ HalRefuses(t) \/ HalProduces(t) \/ OnHalEvent(t)
       PROVE  BatchIsHandled'
  BY <1>1, <1>12 DEF OnPropertySet, Set, HalRefuses, HalProduces, OnHalEvent, poolVars, consumerVars
<1>13. CASE UNCHANGED vars
  BY <1>1, <1>13 DEF vars, poolVars, consumerVars
<1> QED
  BY <1>3, <1>4, <1>5, <1>6, <1>7, <1>8, <1>9, <1>10, <1>11, <1>12, <1>13
     DEF Next, Thread, BatchingThread

-----------------------------------------------------------------------------
(***************************************************************************)
(* Serial numbers.                                                         *)
(***************************************************************************)

LEMMA SerialsStep ==
    ASSUME TypeOK, SerialsDiffer, [Next]_vars
    PROVE  SerialsDiffer'
<1>0. /\ calls \in Nat /\ pushed \in Seq([by : Threads, value : PropValues])
      /\ Len(pushed) \in Nat
  BY DEF TypeOK
<1>1. ASSUME UNCHANGED <<pc, value, calls, pushed>> PROVE SerialsDiffer'
  BY <1>1 DEF SerialsDiffer, Carries
\* Fewer threads carry values, and there may have been one more call.
<1>2. ASSUME \A t \in Threads : Carries(t)' => Carries(t) /\ value'[t] = value[t],
             calls' \in Nat, calls <= calls', pushed' = pushed
      PROVE  SerialsDiffer'
  <2>1. \A n \in 1 .. calls : n \in 1 .. calls'
    BY <1>0, <1>2
  <2> QED
    BY <1>2, <2>1 DEF SerialsDiffer
<1>3. ASSUME NEW t \in Threads, NEW v \in Asked, value' = [value EXCEPT ![t] = Stamped(v)],
             calls' = calls + 1, pc' = [pc EXCEPT ![t] = "set"], pushed' = pushed
      PROVE  SerialsDiffer'
  <2>1. value'[t].timestamp = calls + 1
    BY <1>3, StampedIsValue DEF TypeOK
  <2>2. \A u \in Threads : u # t => value'[u] = value[u] /\ (Carries(u)' <=> Carries(u))
    BY <1>3 DEF TypeOK, Carries
  <2>3. \A n \in 1 .. calls : n \in 1 .. calls' /\ n # calls + 1
    BY <1>0, <1>3
  <2>4. calls + 1 \in 1 .. calls'
    BY <1>0, <1>3
  <2> QED
    BY <1>3, <2>1, <2>2, <2>3, <2>4 DEF SerialsDiffer
<1>4. ASSUME NEW t \in Threads, OnHalEvent(t) PROVE SerialsDiffer'
  <2>1. /\ Carries(t) /\ pushed' = Append(pushed, [by |-> t, value |-> value[t]])
        /\ [by |-> t, value |-> value[t]] \in [by : Threads, value : PropValues]
        /\ calls' = calls
    BY <1>4 DEF OnHalEvent, Carries, TypeOK
  <2>2. \A u \in Threads : Carries(u)' => Carries(u) /\ u # t /\ value'[u] = value[u]
    BY <1>4 DEF OnHalEvent, Carries, TypeOK
  <2>3. /\ Len(pushed') = Len(pushed) + 1
        /\ \A i \in 1 .. Len(pushed) : pushed'[i] = pushed[i]
        /\ pushed'[Len(pushed) + 1].value = value[t]
    BY <1>0, <2>1, AppendProperties
  <2>4. \A j \in 1 .. Len(pushed') : j \in 1 .. Len(pushed) \/ j = Len(pushed) + 1
    BY <1>0, <2>3
  <2>5. ASSUME NEW j \in 1 .. Len(pushed')
        PROVE  /\ pushed'[j].value.timestamp \in 1 .. calls'
               /\ \A u \in Threads : Carries(u)' => value'[u].timestamp # pushed'[j].value.timestamp
    <3>1. CASE j \in 1 .. Len(pushed)
      BY <2>1, <2>2, <2>3, <3>1 DEF SerialsDiffer
    <3>2. CASE j = Len(pushed) + 1
      BY <2>1, <2>2, <2>3, <3>2 DEF SerialsDiffer
    <3> QED
      BY <2>4, <3>1, <3>2
  <2>6. ASSUME NEW j \in 1 .. Len(pushed'), NEW i \in 1 .. Len(pushed'), i # j
        PROVE  pushed'[i].value.timestamp # pushed'[j].value.timestamp
    <3>1. CASE i \in 1 .. Len(pushed) /\ j \in 1 .. Len(pushed)
      BY <2>3, <2>6, <3>1 DEF SerialsDiffer
    <3>2. CASE i = Len(pushed) + 1 /\ j \in 1 .. Len(pushed)
      BY <2>1, <2>3, <3>2 DEF SerialsDiffer
    <3>3. CASE i \in 1 .. Len(pushed) /\ j = Len(pushed) + 1
      BY <2>1, <2>3, <3>3 DEF SerialsDiffer
    <3> QED
      BY <2>4, <2>6, <3>1, <3>2, <3>3
  <2> QED
    BY <2>1, <2>2, <2>5, <2>6 DEF SerialsDiffer
<1>5. ASSUME NEW t \in Threads, Set(t) PROVE SerialsDiffer'
  <2>1. PICK v \in ClientValues : value' = [value EXCEPT ![t] = Stamped(v)]
    BY <1>5 DEF Set
  <2> QED
    BY <1>3, <1>5, <2>1 DEF Set, Call, Asked, historyVars
<1>6. ASSUME NEW t \in Threads, HalProduces(t) PROVE SerialsDiffer'
  <2>1. PICK v \in HalValues : value' = [value EXCEPT ![t] = Stamped(v)]
    BY <1>6 DEF HalProduces
  <2> QED
    BY <1>3, <1>6, <2>1 DEF HalProduces, Call, Asked, historyVars
<1>7. ASSUME NEW t \in Threads, Get(t) PROVE SerialsDiffer'
  <2>1. /\ calls' \in Nat /\ calls <= calls'
        /\ pushed' = pushed /\ value' = value /\ pc' = [pc EXCEPT ![t] = "reply"]
    BY <1>0, <1>7 DEF Get, Call, historyVars
  <2>2. \A u \in Threads : Carries(u)' => Carries(u)
    BY <2>1 DEF Carries, TypeOK
  <2> QED
    BY <1>2, <2>1, <2>2
<1>8. ASSUME NEW t \in Threads, Reply(t) PROVE SerialsDiffer'
  <2>1. /\ calls' = calls /\ pushed' = pushed /\ value' = value /\ pc' = [pc EXCEPT ![t] = "idle"]
    BY <1>8 DEF Reply, historyVars
  <2>2. \A u \in Threads : Carries(u)' => Carries(u)
    BY <2>1 DEF Carries, TypeOK
  <2> QED
    BY <1>0, <1>2, <2>1, <2>2
<1>9. ASSUME NEW t \in Threads, HalRefuses(t) PROVE SerialsDiffer'
  <2>1. /\ calls' = calls /\ pushed' = pushed
        /\ value' = [value EXCEPT ![t] = NoValue] /\ pc' = [pc EXCEPT ![t] = "idle"]
    BY <1>9 DEF HalRefuses, historyVars
  <2>2. \A u \in Threads : Carries(u)' => Carries(u) /\ value'[u] = value[u]
    BY <2>1 DEF Carries, TypeOK
  <2> QED
    BY <1>0, <1>2, <2>1, <2>2
<1>10. ASSUME NEW t \in Threads, HalObtains(t) PROVE SerialsDiffer'
  <2>1. /\ calls' = calls /\ pushed' = pushed /\ value' = value /\ pc[t] = "set"
        /\ pc' = [pc EXCEPT ![t] = "push"]
    BY <1>10 DEF HalObtains, CallsHal, historyVars
  <2>2. \A u \in Threads : Carries(u)' => Carries(u)
    BY <2>1 DEF Carries, TypeOK
  <2> QED
    BY <1>0, <1>2, <2>1, <2>2
<1>11. ASSUME NEW c \in Clients, Subscribe(c) \/ Unsubscribe(c) PROVE SerialsDiffer'
  BY <1>1, <1>11 DEF Subscribe, Unsubscribe, threadVars, historyVars
<1>12. ASSUME NEW t \in Threads, OnPropertySet(t) PROVE SerialsDiffer'
  BY <1>1, <1>12 DEF OnPropertySet, historyVars
<1>13. ASSUME BatchingThread PROVE SerialsDiffer'
  BY <1>1, <1>13 DEF BatchingThread, TakeBatch, DistributeValuesToClients, CopyValues,
                     OnPropertyEvent, ReleaseBatch, threadVars, historyVars
<1>14. CASE UNCHANGED vars
  BY <1>1, <1>14 DEF vars, threadVars, historyVars
<1> QED
  BY <1>4, <1>5, <1>6, <1>7, <1>8, <1>9, <1>10, <1>11, <1>12, <1>13, <1>14 DEF Next, Thread

-----------------------------------------------------------------------------
(***************************************************************************)
(* The announcements of sets.                                              *)
(***************************************************************************)

\* A client that subscribes now does not have to hear of earlier sets.
LEMMA FewerHear ==
    ASSUME TypeOK, NEW c \in Clients, Subscribe(c) \/ Unsubscribe(c),
           NEW d \in Clients, NEW v \in PropValues, v.prop \in Props, v.timestamp \in 1 .. calls,
           Hears(d, v)'
    PROVE  Hears(d, v)
<1>1. CASE Subscribe(c)
  <2>1. PICK p \in Props, fs \in SUBSET {"CAR", "ANDROID"} : SubscribesTo(c, p, fs)
    BY <1>1, SubscribeEffect
  <2>2. CASE d = c /\ v.prop = p
    <3>1. /\ flags'[d][v.prop] = flags[d][v.prop] \cup fs
          /\ from'[d][v.prop].calls =
                 IF "ANDROID" \in fs \ flags[d][v.prop] THEN calls ELSE from[d][v.prop].calls
      BY <2>1, <2>2 DEF SubscribesTo
    <3>2. "ANDROID" \in flags'[d][v.prop] /\ from'[d][v.prop].calls < v.timestamp
      BY DEF Hears
    <3>3. calls \in Nat /\ ~(calls < v.timestamp)
      BY DEF TypeOK
    <3>4. ~("ANDROID" \in fs \ flags[d][v.prop])
      BY <3>1, <3>2, <3>3
    <3>5. "ANDROID" \in flags[d][v.prop] /\ from[d][v.prop].calls < v.timestamp
      BY <3>1, <3>2, <3>4
    <3> QED
      BY <3>5 DEF Hears
  <2>3. CASE ~(d = c /\ v.prop = p)
    <3>1. flags'[d][v.prop] = flags[d][v.prop] /\ from'[d][v.prop] = from[d][v.prop]
      BY <2>1, <2>3 DEF SubscribesTo
    <3> QED
      BY <3>1 DEF Hears
  <2> QED
    BY <2>2, <2>3
<1>2. CASE Unsubscribe(c)
  <2>1. PICK p \in Props : flags' = [flags EXCEPT ![c][p] = {}]
    BY <1>2 DEF Unsubscribe
  <2>2. flags'[d][v.prop] \subseteq flags[d][v.prop]
    BY <2>1 DEF TypeOK
  <2>3. from' = from
    BY <1>2 DEF Unsubscribe, historyVars
  <2> QED
    BY <2>2, <2>3 DEF Hears
<1> QED
  BY <1>1, <1>2

LEMMA FromIsBounded ==
    ASSUME TypeOK, SetsAreAnnounced, NEW c \in Clients, Subscribe(c)
    PROVE  \A d \in Clients, q \in Props : from'[d][q].calls <= calls
<1>1. PICK p \in Props, fs \in SUBSET {"CAR", "ANDROID"} : SubscribesTo(c, p, fs)
  BY SubscribeEffect
<1>2. calls \in Nat
  BY DEF TypeOK
<1>3. \A e \in Clients, q \in Props : from[e][q].calls <= calls
  BY DEF SetsAreAnnounced
<1>4. ASSUME NEW d \in Clients, NEW q \in Props PROVE from'[d][q].calls <= calls
  <2>1. CASE d = c /\ q = p
    <3>1. from'[d][q].calls =
              IF "ANDROID" \in fs \ flags[d][q] THEN calls ELSE from[d][q].calls
      BY <1>1, <2>1 DEF SubscribesTo
    <3> QED
      BY <1>2, <1>3, <3>1
  <2>2. CASE ~(d = c /\ q = p)
    <3>1. from'[d][q] = from[d][q]
      BY <1>1, <2>2 DEF SubscribesTo
    <3> QED
      BY <1>3, <3>1
  <2> QED
    BY <2>1, <2>2
<1> QED
  BY <1>4

\* What was delivered stays delivered.
LEMMA DeliveredGrows ==
    ASSUME TypeOK, BatchIsHandled, NEW d \in Clients,
           delivered' = delivered
           \/ (\E t \in Threads : OnPropertySet(t))
           \/ OnPropertyEvent
    PROVE  ToSet(delivered[d]) \subseteq ToSet(delivered'[d])
<1>1. delivered \in [Clients -> Seq(CallsOfClients)]
  BY DEF TypeOK
<1>2. ASSUME NEW c \in Clients, NEW e \in Seq(CallsOfClients),
             delivered' = [delivered EXCEPT ![c] = @ \o e]
      PROVE  ToSet(delivered[d]) \subseteq ToSet(delivered'[d])
  <2>1. ToSet(delivered[d] \o e) = ToSet(delivered[d]) \cup ToSet(e)
    BY <1>1, ToSetConcat
  <2>2. delivered'[d] = IF d = c THEN delivered[d] \o e ELSE delivered[d]
    BY <1>1, <1>2
  <2> QED
    BY <2>1, <2>2
<1>3. ASSUME NEW t \in Threads, OnPropertySet(t)
      PROVE  ToSet(delivered[d]) \subseteq ToSet(delivered'[d])
  <2>1. PICK c \in audience[t] : delivered' = [delivered EXCEPT ![c] = Append(@, <<"set", value[t]>>)]
    BY <1>3 DEF OnPropertySet
  <2>2. c \in Clients /\ <<"set", value[t]>> \in CallsOfClients
    BY DEF TypeOK, CallsOfClients
  <2>3. ToSet(Append(delivered[d], <<"set", value[t]>>)) = ToSet(delivered[d]) \cup {<<"set", value[t]>>}
    BY <1>1, <2>2, ToSetAppend
  <2>4. delivered'[d] = IF d = c THEN Append(delivered[d], <<"set", value[t]>>) ELSE delivered[d]
    BY <1>1, <2>1, <2>2
  <2> QED
    BY <2>3, <2>4
<1>4. ASSUME OnPropertyEvent PROVE ToSet(delivered[d]) \subseteq ToSet(delivered'[d])
  <2> DEFINE c == Head(clientValues).client
             w == EachOf(object, Head(clientValues).values)
             e == [i \in DOMAIN w |-> <<"event", w[i]>>]
  <2>1. c \in Clients /\ w \in Seq(PropValues) /\ delivered' = [delivered EXCEPT ![c] = @ \o e]
    BY <1>4, DeliveryEffect
  <2>2. e \in Seq(CallsOfClients)
    <3> HIDE DEF w
    <3>1. DOMAIN w = 1 .. Len(w) /\ Len(w) \in Nat /\ \A i \in 1 .. Len(w) : w[i] \in PropValues
      BY <2>1, ElementOfSeq, LenProperties
    <3>2. \A i \in 1 .. Len(w) : <<"event", w[i]>> \in CallsOfClients
      BY <3>1 DEF CallsOfClients
    <3>3. e = [i \in 1 .. Len(w) |-> <<"event", w[i]>>]
      BY <3>1
    <3> HIDE DEF e
    <3> QED
      BY <3>1, <3>2, <3>3
  <2> HIDE DEF c, e
  <2> QED
    BY <1>2, <2>1, <2>2
<1> QED
  BY <1>3, <1>4

LEMMA AnnouncedStep ==
    ASSUME TypeOK, BatchIsHandled, SerialsDiffer, SetsAreAnnounced, [Next]_vars
    PROVE  SetsAreAnnounced'
<1>0. /\ calls \in Nat /\ pushed \in Seq([by : Threads, value : PropValues])
      /\ Len(pushed) \in Nat
      /\ \A t \in Threads : value[t] \in PropValues
      /\ \A j \in 1 .. Len(pushed) : pushed[j].value \in PropValues /\ pushed[j].by \in Threads
  <2>1. /\ calls \in Nat /\ pushed \in Seq([by : Threads, value : PropValues])
        /\ Len(pushed) \in Nat
        /\ \A t \in Threads : value[t] \in PropValues
    BY DEF TypeOK
  <2>2. \A j \in 1 .. Len(pushed) : pushed[j] \in [by : Threads, value : PropValues]
    BY <2>1, ElementOfSeq
  <2> QED
    BY <2>1, <2>2
<1>1. \A d \in Clients : ToSet(delivered[d]) \subseteq ToSet(delivered'[d])
  <2>1. delivered' = delivered \/ (\E t \in Threads : OnPropertySet(t)) \/ OnPropertyEvent
    BY DEF Next, Thread, BatchingThread, vars, Subscribe, Unsubscribe, Get, Reply, Set, HalRefuses,
           HalProduces, HalObtains, OnHalEvent, TakeBatch, DistributeValuesToClients, CopyValues,
           ReleaseBatch
  <2> QED
    BY <2>1, DeliveredGrows
<1>2. (\E c \in Clients : Subscribe(c) \/ Unsubscribe(c)) \/ UNCHANGED <<flags, from>>
  BY DEF Next, Thread, BatchingThread, vars, Get, Reply, Set, OnPropertySet, HalRefuses, HalProduces,
         HalObtains, OnHalEvent, TakeBatch, DistributeValuesToClients, CopyValues, OnPropertyEvent,
         ReleaseBatch, historyVars
<1>3. ASSUME NEW d \in Clients, NEW v \in PropValues, v.prop \in Props, v.timestamp \in 1 .. calls,
             Hears(d, v)'
      PROVE  Hears(d, v)
  <2>1. CASE UNCHANGED <<flags, from>>
    BY <1>3, <2>1 DEF Hears
  <2>2. ASSUME NEW c \in Clients, Subscribe(c) \/ Unsubscribe(c) PROVE Hears(d, v)
    BY <1>3, <2>2, FewerHear
  <2> QED
    BY <1>2, <2>1, <2>2
<1>4. \A d \in Clients, p \in Props : from'[d][p].calls <= calls'
  <2>1. calls' = calls \/ calls' = calls + 1
    BY DEF Next, Thread, BatchingThread, vars, Subscribe, Unsubscribe, Get, Reply, Set, OnPropertySet,
           HalRefuses, HalProduces, HalObtains, OnHalEvent, TakeBatch, DistributeValuesToClients,
           CopyValues, OnPropertyEvent, ReleaseBatch, Call
  <2>2. \A d \in Clients, p \in Props : from[d][p].calls \in Nat /\ from[d][p].calls <= calls
    BY DEF TypeOK, SetsAreAnnounced
  <2>3. CASE UNCHANGED <<flags, from>>
    BY <1>0, <2>1, <2>2, <2>3
  <2>4. ASSUME NEW c \in Clients, Subscribe(c)
        PROVE  \A d \in Clients, p \in Props : from'[d][p].calls <= calls'
    <3>1. calls' = calls
      BY <2>4 DEF Subscribe
    <3> QED
      BY <2>4, <3>1, FromIsBounded
  <2>5. ASSUME NEW c \in Clients, Unsubscribe(c) PROVE from' = from /\ calls' = calls
    BY <2>5 DEF Unsubscribe, historyVars
  <2> QED
    BY <1>2, <2>2, <2>3, <2>4, <2>5
\* The sets that were pushed have been heard of.
<1>5. ASSUME NEW j \in 1 .. Len(pushed), pushed'[j] = pushed[j], pushed[j].by \in Binders
      PROVE  /\ pushed'[j].value.prop \in Props
             /\ \A d \in Clients :
                   Hears(d, pushed[j].value)' =>
                       <<"set", pushed'[j].value>> \in ToSet(delivered'[d])
  <2>1. pushed[j].value.prop \in Props /\ pushed[j].value.timestamp \in 1 .. calls
    BY <1>5 DEF SetsAreAnnounced, SerialsDiffer
  <2>2. ASSUME NEW d \in Clients, Hears(d, pushed[j].value)'
        PROVE  <<"set", pushed[j].value>> \in ToSet(delivered'[d])
    <3>1. PICK x \in PropValues : x = pushed[j].value
      BY <1>0
    <3>2. Hears(d, x)'
      BY <1>5, <2>2, <3>1 DEF Hears
    <3>3. Hears(d, x)
      BY <1>3, <2>1, <3>1, <3>2
    <3> QED
      BY <1>1, <1>5, <3>1, <3>3 DEF SetsAreAnnounced
  <2> QED
    BY <1>5, <2>1, <2>2
\* So have those that are still on their way, or they are still announced.
<1>6. ASSUME NEW t \in Binders, Carries(t), value'[t] = value[t],
             \A d \in audience[t] :
                d \in audience'[t] \/ <<"set", value[t]>> \in ToSet(delivered'[d])
      PROVE  /\ value'[t].prop \in Props
             /\ \A d \in Clients :
                   Hears(d, value[t])' =>
                       d \in audience'[t] \/ <<"set", value'[t]>> \in ToSet(delivered'[d])
  <2>1. t \in Threads /\ value[t].prop \in Props /\ value[t].timestamp \in 1 .. calls
    BY <1>6 DEF Threads, SetsAreAnnounced, SerialsDiffer
  <2>2. ASSUME NEW d \in Clients, Hears(d, value[t])'
        PROVE  d \in audience'[t] \/ <<"set", value[t]>> \in ToSet(delivered'[d])
    <3>1. PICK x \in PropValues : x = value[t]
      BY <1>0, <2>1
    <3>2. Hears(d, x)' /\ x.prop \in Props /\ x.timestamp \in 1 .. calls
      BY <1>6, <2>1, <2>2, <3>1 DEF Hears
    <3>3. Hears(d, x)
      BY <1>3, <3>2
    <3>4. d \in audience[t] \/ <<"set", value[t]>> \in ToSet(delivered[d])
      BY <1>6, <3>1, <3>3 DEF SetsAreAnnounced
    <3> QED
      BY <1>1, <1>6, <3>4
  <2> QED
    BY <1>6, <2>1, <2>2
\* No thread takes up a new value, and nothing is pushed.
<1>7. ASSUME pushed' = pushed,
             \A t \in Threads : Carries(t)' => Carries(t) /\ value'[t] = value[t],
             \A t \in Threads : pc'[t] = "push" => audience'[t] = {},
             \A t \in HalThreads : audience'[t] = {},
             \A t \in Threads : \A d \in audience[t] :
                d \in audience'[t] \/ <<"set", value[t]>> \in ToSet(delivered'[d])
      PROVE  SetsAreAnnounced'
  <2>1. ASSUME NEW t \in Binders, Carries(t)'
        PROVE  /\ value'[t].prop \in Props
               /\ \A d \in Clients :
                     Hears(d, value[t])' =>
                        d \in audience'[t] \/ <<"set", value'[t]>> \in ToSet(delivered'[d])
    <3>1. t \in Threads /\ Carries(t) /\ value'[t] = value[t]
      BY <1>7, <2>1 DEF Threads
    <3> QED
      BY <1>6, <1>7, <3>1
  <2> QED
    BY <1>4, <1>5, <1>7, <2>1 DEF SetsAreAnnounced
<1>8. ASSUME UNCHANGED <<pushed, pc, value, audience>> PROVE SetsAreAnnounced'
  <2>1. /\ \A t \in Threads : Carries(t)' => Carries(t)
        /\ \A t \in Threads : pc'[t] = "push" => audience'[t] = {}
        /\ \A t \in HalThreads : audience'[t] = {}
    BY <1>8 DEF Carries, SetsAreAnnounced
  <2> QED
    BY <1>7, <1>8, <2>1
<1>9. ASSUME NEW t \in Threads, NEW s \in {"reply", "idle", "push"},
             pc' = [pc EXCEPT ![t] = s], UNCHANGED <<pushed, audience>>,
             \A u \in Threads : u # t \/ s = "push" => value'[u] = value[u],
             s = "push" => pc[t] = "set" /\ audience[t] = {}
      PROVE  SetsAreAnnounced'
  <2>1. pc \in [Threads -> {"idle", "reply", "set", "push"}]
    BY DEF TypeOK
  <2>2. /\ \A u \in Threads : Carries(u)' => Carries(u) /\ value'[u] = value[u]
        /\ \A u \in Threads : pc'[u] = "push" => audience'[u] = {}
        /\ \A u \in HalThreads : audience'[u] = {}
    BY <1>9, <2>1 DEF Carries, SetsAreAnnounced
  <2> QED
    BY <1>7, <1>9, <2>2
<1>10. ASSUME NEW t \in Threads, OnPropertySet(t) PROVE SetsAreAnnounced'
  <2>1. PICK c \in audience[t] :
            /\ delivered' = [delivered EXCEPT ![c] = Append(@, <<"set", value[t]>>)]
            /\ audience' = [audience EXCEPT ![t] = @ \ {c}]
    BY <1>10 DEF OnPropertySet
  <2>2. UNCHANGED <<pushed, pc, value>> /\ pc[t] = "set"
    BY <1>10 DEF OnPropertySet, historyVars
  <2>3. /\ audience \in [Threads -> SUBSET Clients] /\ delivered \in [Clients -> Seq(CallsOfClients)]
        /\ c \in Clients /\ <<"set", value[t]>> \in CallsOfClients
    BY <2>1 DEF TypeOK, CallsOfClients
  <2>4. <<"set", value[t]>> \in ToSet(delivered'[c])
    <3>1. ToSet(Append(delivered[c], <<"set", value[t]>>))
              = ToSet(delivered[c]) \cup {<<"set", value[t]>>}
      BY <2>3, ToSetAppend
    <3> QED
      BY <2>1, <2>3, <3>1
  <2>5. \A u \in Threads : audience'[u] \subseteq audience[u] /\ (u # t => audience'[u] = audience[u])
    BY <2>1, <2>3
  <2>6. audience'[t] = audience[t] \ {c}
    BY <2>1, <2>3
  <2>7. \A u \in Threads : Carries(u)' => Carries(u)
    BY <2>2 DEF Carries
  <2>8. \A u \in Threads : pc'[u] = "push" => audience'[u] = {}
    BY <2>2, <2>5 DEF SetsAreAnnounced
  <2>9. \A u \in HalThreads : audience'[u] = {}
    BY <2>5 DEF SetsAreAnnounced, Threads
  <2>10. \A u \in Threads : \A d \in audience[u] :
             d \in audience'[u] \/ <<"set", value[u]>> \in ToSet(delivered'[d])
    BY <2>4, <2>5, <2>6
  <2> QED
    BY <1>7, <2>2, <2>7, <2>8, <2>9, <2>10
<1>11. ASSUME NEW t \in Threads, Set(t) PROVE SetsAreAnnounced'
  <2>1. PICK v \in ClientValues :
            /\ Permitted(v, "WRITE")
            /\ value' = [value EXCEPT ![t] = Stamped(v)]
            /\ audience' = [audience EXCEPT ![t] = SubscribedClients(v.prop, "ANDROID")]
    BY <1>11 DEF Set
  <2>2. /\ t \in Binders /\ t \notin HalThreads /\ pc' = [pc EXCEPT ![t] = "set"]
        /\ UNCHANGED <<pushed, flags, from, delivered>>
    BY <1>11, ThreadsAssumption DEF Set, historyVars
  <2>3. /\ pc \in [Threads -> {"idle", "reply", "set", "push"}]
        /\ value \in [Threads -> PropValues] /\ audience \in [Threads -> SUBSET Clients]
    BY DEF TypeOK
  <2>4. \A u \in Threads : u # t =>
            /\ (Carries(u)' <=> Carries(u)) /\ value'[u] = value[u] /\ audience'[u] = audience[u]
            /\ pc'[u] = pc[u]
    BY <2>1, <2>2, <2>3 DEF Carries
  <2>5. /\ \A u \in Threads : pc'[u] = "push" => audience'[u] = {}
        /\ \A u \in HalThreads : audience'[u] = {}
    BY <2>2, <2>3, <2>4 DEF SetsAreAnnounced, Threads
  <2>6. value'[t].prop = v.prop /\ v.prop \in Props
    BY <2>1, <2>3 DEF Permitted, Stamped
  <2>7. \A d \in Clients : Hears(d, value[t])' => d \in audience'[t]
    BY <2>1, <2>2, <2>3, <2>6 DEF Hears, SubscribedClients
  <2>8. ASSUME NEW u \in Binders, Carries(u)'
        PROVE  /\ value'[u].prop \in Props
               /\ \A d \in Clients :
                     Hears(d, value[u])' =>
                        d \in audience'[u] \/ <<"set", value'[u]>> \in ToSet(delivered'[d])
    <3>1. CASE u = t
      BY <2>6, <2>7, <3>1
    <3>2. CASE u # t
      <4>1. u \in Threads
        BY DEF Threads
      <4> QED
        BY <1>6, <2>4, <2>8, <3>2, <4>1
    <3> QED
      BY <3>1, <3>2
  <2> QED
    BY <1>4, <1>5, <2>2, <2>5, <2>8 DEF SetsAreAnnounced
<1>12. ASSUME NEW t \in Threads, HalProduces(t) PROVE SetsAreAnnounced'
  <2>1. PICK v : value' = [value EXCEPT ![t] = v]
    BY <1>12 DEF HalProduces
  <2>2. /\ t \notin Binders /\ pc' = [pc EXCEPT ![t] = "set"] /\ UNCHANGED <<pushed, audience>>
    BY <1>12, ThreadsAssumption DEF HalProduces, historyVars
  <2>3. /\ pc \in [Threads -> {"idle", "reply", "set", "push"}] /\ value \in [Threads -> PropValues]
    BY DEF TypeOK
  <2>4. \A u \in Threads : u # t =>
            (Carries(u)' <=> Carries(u)) /\ value'[u] = value[u] /\ pc'[u] = pc[u]
    BY <2>1, <2>2, <2>3 DEF Carries
  <2>5. /\ \A u \in Threads : pc'[u] = "push" => audience'[u] = {}
        /\ \A u \in HalThreads : audience'[u] = {}
    BY <2>2, <2>3, <2>4 DEF SetsAreAnnounced
  <2>6. ASSUME NEW u \in Binders, Carries(u)'
        PROVE  /\ value'[u].prop \in Props
               /\ \A d \in Clients :
                     Hears(d, value[u])' =>
                        d \in audience'[u] \/ <<"set", value'[u]>> \in ToSet(delivered'[d])
    <3>1. u \in Threads /\ u # t
      BY <2>2 DEF Threads
    <3>2. Carries(u) /\ value'[u] = value[u] /\ audience'[u] = audience[u]
      BY <2>2, <2>4, <2>6, <3>1
    <3> QED
      BY <1>6, <3>2
  <2> QED
    BY <1>4, <1>5, <2>2, <2>5, <2>6 DEF SetsAreAnnounced
<1>13. ASSUME NEW t \in Threads, OnHalEvent(t) PROVE SetsAreAnnounced'
  <2>1. /\ pc[t] = "push" /\ Carries(t) /\ pushed' = Append(pushed, [by |-> t, value |-> value[t]])
        /\ [by |-> t, value |-> value[t]] \in [by : Threads, value : PropValues]
        /\ UNCHANGED <<audience, delivered, flags, from>>
        /\ pc' = [pc EXCEPT ![t] = "idle"] /\ value' = [value EXCEPT ![t] = NoValue]
    BY <1>13 DEF OnHalEvent, Carries, TypeOK
  <2>2. /\ pc \in [Threads -> {"idle", "reply", "set", "push"}] /\ value \in [Threads -> PropValues]
    BY DEF TypeOK
  <2>3. \A u \in Threads : Carries(u)' => u # t /\ Carries(u) /\ value'[u] = value[u]
    BY <2>1, <2>2 DEF Carries
  <2>4. /\ \A u \in Threads : pc'[u] = "push" => audience'[u] = {}
        /\ \A u \in HalThreads : audience'[u] = {}
    BY <2>1, <2>2, <2>3 DEF SetsAreAnnounced
  <2>5. ASSUME NEW u \in Binders, Carries(u)'
        PROVE  /\ value'[u].prop \in Props
               /\ \A d \in Clients :
                     Hears(d, value[u])' =>
                        d \in audience'[u] \/ <<"set", value'[u]>> \in ToSet(delivered'[d])
    <3>1. u \in Threads
      BY DEF Threads
    <3> QED
      BY <1>6, <2>1, <2>3, <2>5, <3>1
  <2>6. /\ Len(pushed') = Len(pushed) + 1
        /\ \A i \in 1 .. Len(pushed) : pushed'[i] = pushed[i]
        /\ pushed'[Len(pushed) + 1] = [by |-> t, value |-> value[t]]
    BY <1>0, <2>1, AppendProperties
  <2>7. ASSUME NEW j \in 1 .. Len(pushed'), pushed'[j].by \in Binders
        PROVE  /\ pushed'[j].value.prop \in Props
               /\ \A d \in Clients :
                     Hears(d, pushed[j].value)' =>
                        <<"set", pushed'[j].value>> \in ToSet(delivered'[d])
    <3>1. CASE j \in 1 .. Len(pushed)
      <4>1. pushed'[j] = pushed[j] /\ pushed[j].by \in Binders
        BY <2>6, <2>7, <3>1
      <4> QED
        BY <1>5, <3>1, <4>1
    <3>2. CASE j = Len(pushed) + 1
      <4>1. pushed'[j].by = t /\ pushed'[j].value = value[t] /\ t \in Binders /\ audience[t] = {}
        BY <2>1, <2>6, <2>7, <3>2 DEF SetsAreAnnounced
      <4>2. /\ value[t].prop \in Props
            /\ \A d \in Clients : Hears(d, value[t]) => <<"set", value[t]>> \in ToSet(delivered[d])
        BY <2>1, <4>1 DEF SetsAreAnnounced
      <4>3. \A d \in Clients : Hears(d, pushed[j].value)' => Hears(d, value[t])
        BY <2>1, <4>1 DEF Hears
      <4> QED
        BY <2>1, <4>1, <4>2, <4>3
    <3>3. j \in 1 .. Len(pushed) \/ j = Len(pushed) + 1
      BY <1>0, <2>6
    <3> QED
      BY <3>1, <3>2, <3>3
  <2> QED
    BY <1>4, <2>4, <2>5, <2>7 DEF SetsAreAnnounced
<1>14. ASSUME NEW t \in Threads, Get(t) PROVE SetsAreAnnounced'
  BY <1>9, <1>14 DEF Get, historyVars
<1>15. ASSUME NEW t \in Threads, Reply(t) PROVE SetsAreAnnounced'
  BY <1>9, <1>15 DEF Reply, historyVars
<1>16. ASSUME NEW t \in Threads, HalRefuses(t) PROVE SetsAreAnnounced'
  <2>1. value' = [value EXCEPT ![t] = NoValue] /\ value \in [Threads -> PropValues]
    BY <1>16 DEF HalRefuses, TypeOK
  <2> QED
    BY <1>9, <1>16, <2>1 DEF HalRefuses, historyVars
<1>17. ASSUME NEW t \in Threads, HalObtains(t) PROVE SetsAreAnnounced'
  BY <1>9, <1>17 DEF HalObtains, CallsHal, historyVars
<1>18. ASSUME NEW c \in Clients, Subscribe(c) \/ Unsubscribe(c) PROVE SetsAreAnnounced'
  BY <1>8, <1>18 DEF Subscribe, Unsubscribe, threadVars, historyVars
<1>19. ASSUME BatchingThread PROVE SetsAreAnnounced'
  BY <1>8, <1>19 DEF BatchingThread, TakeBatch, DistributeValuesToClients, CopyValues,
                     OnPropertyEvent, ReleaseBatch, threadVars, historyVars
<1>20. CASE UNCHANGED vars
  BY <1>8, <1>20 DEF vars, threadVars, historyVars
<1> QED
  BY <1>10, <1>11, <1>12, <1>13, <1>14, <1>15, <1>16, <1>17, <1>18, <1>19, <1>20 DEF Next, Thread
-----------------------------------------------------------------------------
(***************************************************************************)
(* The events among the calls of a client.                                 *)
(***************************************************************************)

\* Events(c), of any calls.
EventsOf(s) ==
    LET events == Selected(s, {call \in ToSet(s) : call[1] = "event"})
    IN  [i \in DOMAIN events |-> events[i][2]]

EventCalls == {call \in CallsOfClients : call[1] = "event"}
EventsWith(w) == [i \in DOMAIN w |-> <<"event", w[i]>>]
Second == [call \in CallsOfClients |-> call[2]]

LEMMA EventsOfSeq ==
    ASSUME NEW s \in Seq(CallsOfClients)
    PROVE  /\ EventsOf(s) = EachOf(Second, Selected(s, EventCalls))
           /\ EventsOf(s) \in Seq(PropValues)
           /\ \A v \in PropValues : v \in ToSet(EventsOf(s)) <=> <<"event", v>> \in ToSet(s)
<1> DEFINE S == {call \in ToSet(s) : call[1] = "event"}
<1>1. PICK events : events = Selected(s, EventCalls)
  OBVIOUS
<1>2. ToSet(s) \subseteq CallsOfClients
  BY ToSetOfSeq
<1>3. Selected(s, S) = events
  <2>1. ToSet(s) \cap S = ToSet(s) \cap EventCalls
    BY <1>2 DEF EventCalls
  <2> HIDE DEF S
  <2> QED
    BY <1>1, <2>1, SelectedAgrees
<1>4. events \in Seq(CallsOfClients) /\ ToSet(events) = ToSet(s) \cap EventCalls
  BY <1>1, SelectedElements
<1>5. \A i \in DOMAIN events : events[i] \in CallsOfClients
  <2>1. DOMAIN events = 1 .. Len(events)
    BY <1>4
  <2> QED
    BY <1>4, <2>1, ElementOfSeq
<1>6. EventsOf(s) = [i \in DOMAIN events |-> events[i][2]]
  BY <1>3 DEF EventsOf
<1>7. EventsOf(s) = EachOf(Second, events)
  BY <1>5, <1>6 DEF EachOf, Second
<1>8. EventsOf(s) \in Seq(PropValues)
  <2>1. \A i \in DOMAIN events : events[i][2] \in PropValues
    BY <1>5 DEF CallsOfClients
  <2>2. Len(events) \in Nat /\ DOMAIN events = 1 .. Len(events)
    BY <1>4
  <2> QED
    BY <1>6, <2>1, <2>2
<1>9. ASSUME NEW v \in PropValues
      PROVE  v \in ToSet(EventsOf(s)) <=> <<"event", v>> \in ToSet(s)
  <2>1. <<"event", v>> \in EventCalls
    BY DEF EventCalls, CallsOfClients
  <2>2. \A call \in EventCalls : call[2] = v => call = <<"event", v>>
    BY DEF EventCalls, CallsOfClients
  <2>3. ToSet(EventsOf(s)) = {events[i][2] : i \in DOMAIN events}
    BY <1>6 DEF ToSet
  <2>4. ToSet(events) = {events[i] : i \in DOMAIN events}
    BY DEF ToSet
  <2>5. ASSUME v \in ToSet(EventsOf(s)) PROVE <<"event", v>> \in ToSet(s)
    <3>1. PICK i \in DOMAIN events : events[i][2] = v
      BY <2>3, <2>5
    <3>2. events[i] \in ToSet(s) /\ events[i] \in EventCalls
      BY <1>4, <2>4
    <3> QED
      BY <2>2, <3>1, <3>2
  <2>6. ASSUME <<"event", v>> \in ToSet(s) PROVE v \in ToSet(EventsOf(s))
    <3>1. PICK i \in DOMAIN events : events[i] = <<"event", v>>
      BY <1>4, <2>1, <2>4, <2>6
    <3> QED
      BY <2>3, <3>1
  <2> QED
    BY <2>5, <2>6
<1> QED
  BY <1>1, <1>7, <1>8, <1>9

\* An announcement is not an event.
LEMMA EventsOfAnnouncement ==
    ASSUME NEW s \in Seq(CallsOfClients), NEW v \in PropValues
    PROVE  EventsOf(Append(s, <<"set", v>>)) = EventsOf(s)
<1>1. <<"set", v>> \in CallsOfClients /\ <<"set", v>> \notin EventCalls
  BY DEF EventCalls, CallsOfClients
<1>2. Selected(Append(s, <<"set", v>>), EventCalls) = Selected(s, EventCalls)
  BY <1>1, SelectedAppend
<1>3. Append(s, <<"set", v>>) \in Seq(CallsOfClients)
  BY <1>1
<1>4. EventsOf(Append(s, <<"set", v>>))
          = EachOf(Second, Selected(Append(s, <<"set", v>>), EventCalls))
  BY <1>3, EventsOfSeq
<1> QED
  BY <1>2, <1>4, EventsOfSeq

LEMMA EventsOfGrow ==
    ASSUME NEW s \in Seq(CallsOfClients), NEW w \in Seq(PropValues)
    PROVE  /\ EventsWith(w) \in Seq(CallsOfClients)
           /\ EventsOf(s \o EventsWith(w)) = EventsOf(s) \o w
<1>1. PICK e : e = EventsWith(w)
  OBVIOUS
<1>2. /\ e \in Seq(CallsOfClients) /\ Len(e) = Len(w) /\ Len(w) \in Nat
      /\ \A i \in 1 .. Len(w) : e[i] = <<"event", w[i]>> /\ e[i] \in EventCalls
  <2>1. \A i \in 1 .. Len(w) : <<"event", w[i]>> \in EventCalls
    BY DEF CallsOfClients, EventCalls
  <2>2. \A x \in EventCalls : x \in CallsOfClients
    BY DEF EventCalls
  <2>3. e = [i \in 1 .. Len(w) |-> <<"event", w[i]>>]
    BY <1>1 DEF EventsWith
  <2> QED
    BY <2>1, <2>2, <2>3
<1>3. ToSet(e) \subseteq EventCalls
  BY <1>2 DEF ToSet
<1>4. Selected(s \o e, EventCalls) = Selected(s, EventCalls) \o e
  <2>1. e \in Seq(CallsOfClients)
    BY <1>2
  <2>2. Selected(s \o e, EventCalls) = Selected(s, EventCalls) \o Selected(e, EventCalls)
    BY <2>1, SelectedConcat
  <2>3. Selected(e, EventCalls) = e
    BY <1>3, <2>1, SelectedAll
  <2> QED
    BY <2>2, <2>3
<1>6. EachOf(Second, Selected(s, EventCalls) \o e)
          = EachOf(Second, Selected(s, EventCalls)) \o EachOf(Second, e)
  <2>1. Selected(s, EventCalls) \in Seq(CallsOfClients)
    BY SelectedElements
  <2>2. PICK x \in Seq(CallsOfClients) : x = Selected(s, EventCalls)
    BY <2>1
  <2>3. PICK y \in Seq(CallsOfClients) : y = e
    BY <1>2
  <2>4. EachOf(Second, x \o y) = EachOf(Second, x) \o EachOf(Second, y)
    BY MappedConcat
  <2> QED
    BY <2>2, <2>3, <2>4
<1>7. EachOf(Second, e) = w
  <2>1. PICK m : m = EachOf(Second, e)
    OBVIOUS
  <2>2. m = [i \in 1 .. Len(w) |-> Second[e[i]]]
    BY <1>2, <2>1 DEF EachOf
  <2>3. \A i \in 1 .. Len(w) : Second[e[i]] = w[i]
    <3>1. \A i \in 1 .. Len(w) : e[i] \in CallsOfClients /\ e[i][2] = w[i]
      BY <1>2 DEF EventCalls
    <3> QED
      BY <3>1 DEF Second
  <2>4. m \in Seq(PropValues) /\ Len(m) = Len(w) /\ \A i \in 1 .. Len(w) : m[i] = w[i]
    <3>1. \A i \in 1 .. Len(w) : w[i] \in PropValues
      BY ElementOfSeq
    <3> QED
      BY <1>2, <2>2, <2>3, <3>1
  <2> QED
    BY <2>1, <2>4, SeqEqual
<1>8. s \o e \in Seq(CallsOfClients)
  BY <1>2
<1>9. EventsOf(s \o e) = EachOf(Second, Selected(s \o e, EventCalls))
  BY <1>8, EventsOfSeq
<1> QED
  BY <1>1, <1>2, <1>4, <1>6, <1>7, <1>9, EventsOfSeq

LEMMA EventsAreValues ==
    ASSUME TypeOK, NEW c \in Clients
    PROVE  /\ Events(c) = EventsOf(delivered[c]) /\ Events(c) \in Seq(PropValues)
           /\ \A v \in PropValues :
                 v \in ToSet(Events(c)) <=> <<"event", v>> \in ToSet(delivered[c])
<1>1. Events(c) = EventsOf(delivered[c])
  BY DEF Events, EventsOf
<1>2. delivered[c] \in Seq(CallsOfClients)
  BY DEF TypeOK
<1> QED
  BY <1>1, <1>2, EventsOfSeq

\* The calls of a client that a step adds.
LEMMA DeliveredBy ==
    ASSUME TypeOK, BatchIsHandled, [Next]_vars, NEW d \in Clients
    PROVE  \/ delivered'[d] = delivered[d]
           \/ \E t \in Threads :
                 /\ OnPropertySet(t)
                 /\ delivered'[d] = Append(delivered[d], <<"set", value[t]>>)
           \/ /\ OnPropertyEvent
              /\ d = Head(clientValues).client
              /\ delivered'[d] =
                     delivered[d] \o EventsWith(EachOf(object, Head(clientValues).values))
<1>1. delivered \in [Clients -> Seq(CallsOfClients)]
  BY DEF TypeOK
<1>2. delivered' = delivered \/ (\E t \in Threads : OnPropertySet(t)) \/ OnPropertyEvent
  BY DEF Next, Thread, BatchingThread, vars, Subscribe, Unsubscribe, Get, Reply, Set, HalRefuses,
         HalProduces, HalObtains, OnHalEvent, TakeBatch, DistributeValuesToClients, CopyValues,
         ReleaseBatch
<1>3. ASSUME NEW t \in Threads, OnPropertySet(t), delivered'[d] # delivered[d]
      PROVE  delivered'[d] = Append(delivered[d], <<"set", value[t]>>)
  <2>1. PICK c \in audience[t] :
            delivered' = [delivered EXCEPT ![c] = Append(@, <<"set", value[t]>>)]
    BY <1>3 DEF OnPropertySet
  <2> QED
    BY <1>1, <1>3, <2>1
<1>4. ASSUME OnPropertyEvent, delivered'[d] # delivered[d]
      PROVE  /\ d = Head(clientValues).client
             /\ delivered'[d] =
                    delivered[d] \o EventsWith(EachOf(object, Head(clientValues).values))
  <2>1. delivered' = [delivered EXCEPT ![Head(clientValues).client] =
                         @ \o EventsWith(EachOf(object, Head(clientValues).values))]
    BY <1>4, DeliveryEffect DEF EventsWith
  <2>2. PICK e : e = EventsWith(EachOf(object, Head(clientValues).values))
    OBVIOUS
  <2> QED
    BY <1>1, <1>4, <2>1, <2>2
<1> QED
  BY <1>2, <1>3, <1>4

LEMMA EventsGrow ==
    ASSUME TypeOK, BatchIsHandled, [Next]_vars, NEW d \in Clients
    PROVE  \/ Events(d)' = Events(d)
           \/ /\ OnPropertyEvent
              /\ d = Head(clientValues).client
              /\ Events(d)' = Events(d) \o EachOf(object, Head(clientValues).values)
<1>1. /\ Events(d)' = EventsOf(delivered'[d])
      /\ Events(d) = EventsOf(delivered[d])
      /\ delivered[d] \in Seq(CallsOfClients)
  BY DEF Events, EventsOf, TypeOK
<1>2. ASSUME NEW t \in Threads, delivered'[d] = Append(delivered[d], <<"set", value[t]>>)
      PROVE  Events(d)' = Events(d)
  <2>1. value[t] \in PropValues
    BY DEF TypeOK
  <2> QED
    BY <1>1, <1>2, <2>1, EventsOfAnnouncement
<1>3. ASSUME OnPropertyEvent,
             delivered'[d] = delivered[d] \o EventsWith(EachOf(object, Head(clientValues).values))
      PROVE  Events(d)' = Events(d) \o EachOf(object, Head(clientValues).values)
  <2>1. PICK w \in Seq(PropValues) : w = EachOf(object, Head(clientValues).values)
    BY <1>3, DeliveryEffect
  <2> QED
    BY <1>1, <1>3, <2>1, EventsOfGrow
<1>4. CASE delivered'[d] = delivered[d]
  BY <1>1, <1>4
<1> QED
  BY <1>2, <1>3, <1>4, DeliveredBy

-----------------------------------------------------------------------------
(***************************************************************************)
(* The values that were sent, and those of them that clients have.         *)
(***************************************************************************)

LEMMA SentValues ==
    ASSUME TypeOK
    PROVE  /\ Sent \in Seq(PropValues) /\ Len(Sent) = Len(pushed) /\ Len(pushed) \in Nat
           /\ \A i \in 1 .. Len(pushed) : Sent[i] = pushed[i].value
           /\ SerialsDiffer => IsInjective(Sent)
<1>1. /\ pushed \in Seq([by : Threads, value : PropValues])
      /\ Len(pushed) \in Nat /\ DOMAIN pushed = 1 .. Len(pushed)
  BY DEF TypeOK
<1>2. \A i \in 1 .. Len(pushed) : pushed[i].value \in PropValues
  <2>1. \A i \in 1 .. Len(pushed) : pushed[i] \in [by : Threads, value : PropValues]
    BY <1>1, ElementOfSeq
  <2> QED
    BY <2>1
<1>3. Sent = [i \in 1 .. Len(pushed) |-> pushed[i].value]
  BY <1>1 DEF Sent
<1>4. SerialsDiffer => IsInjective(Sent)
  BY <1>3 DEF SerialsDiffer, IsInjective
<1> QED
  BY <1>1, <1>2, <1>3, <1>4

LEMMA ReachIsBounded ==
    ASSUME TypeOK, ObjectsHoldValues, NEW c
    PROVE  /\ Before \in Nat /\ distributed \in Nat /\ Reach(c) \in Nat /\ Len(batch) \in Nat
           /\ Before <= distributed /\ distributed <= Len(pushed) /\ Reach(c) <= distributed
           /\ distributed = IF consumer = "calls" THEN Before + Len(batch) ELSE Before
<1>1. /\ Before \in Nat /\ distributed \in Nat
      /\ distributed = IF consumer = "calls" THEN Before + Len(batch) ELSE Before
      /\ Before = Len(pushed) - Len(batch) - Len(mEventQueue)
      /\ Len(pushed) \in Nat /\ Len(batch) \in Nat /\ Len(mEventQueue) \in Nat
  BY DEF TypeOK, ObjectsHoldValues, Before
<1>2. Reach(c) = Before \/ Reach(c) = distributed
  BY DEF Reach
<1> QED
  BY <1>1, <1>2

LEMMA EventsWereSent ==
    ASSUME TypeOK, ObjectsHoldValues, EventsAreSelected, NEW c \in Clients
    PROVE  ToSet(Events(c)) \subseteq ToSet(SubSeq(Sent, 1, Reach(c)))
<1>1. PICK s : s = SubSeq(Sent, 1, Reach(c))
  OBVIOUS
<1>2. s \in Seq(PropValues)
  <2>1. \A i \in 1 .. Reach(c) : Sent[i] \in PropValues
    <3>1. \A i \in 1 .. Reach(c) : i \in 1 .. Len(Sent)
      BY ReachIsBounded, SentValues
    <3> QED
      BY <3>1, SentValues, ElementOfSeq
  <2>2. Reach(c) \in Int /\ 1 \in Int
    BY ReachIsBounded
  <2> QED
    BY <1>1, <2>1, <2>2, SubSeqProperties
<1>3. ToSet(Selected(s, ToSet(Events(c)))) = ToSet(s) \cap ToSet(Events(c))
  BY <1>2, SelectedElements
<1>4. Events(c) = Selected(s, ToSet(Events(c)))
  BY <1>1 DEF EventsAreSelected
<1> QED
  BY <1>1, <1>3, <1>4

LEMMA EventsWerePushed ==
    ASSUME TypeOK, ObjectsHoldValues, EventsAreSelected, NEW c \in Clients,
           NEW v \in ToSet(Events(c))
    PROVE  \E j \in 1 .. Len(pushed) : pushed[j].value = v
<1>1. v \in ToSet(SubSeq(Sent, 1, Reach(c)))
  BY EventsWereSent
<1>2. \A i \in 1 .. Reach(c) : i \in 1 .. Len(pushed) /\ Sent[i] = pushed[i].value
  BY ReachIsBounded, SentValues
<1>3. \A i \in 1 .. Reach(c) : Sent[i] \in PropValues
  BY <1>2, SentValues, ElementOfSeq
<1>4. PICK s : s = SubSeq(Sent, 1, Reach(c))
  OBVIOUS
<1>5. s \in Seq(PropValues) /\ Len(s) = Reach(c) /\ \A i \in 1 .. Reach(c) : s[i] = Sent[i]
  <2>1. Reach(c) \in Nat
    BY ReachIsBounded
  <2> QED
    BY <1>3, <1>4, <2>1, SubSeqProperties
<1>6. PICK i \in 1 .. Reach(c) : s[i] = v
  BY <1>1, <1>4, <1>5 DEF ToSet
<1> QED
  BY <1>2, <1>5, <1>6

\* The selection from the beginning of a sequence, cut somewhere.
LEMMA SelectionIsCut ==
    ASSUME NEW s \in Seq(PropValues), NEW n \in Nat, NEW m \in Nat, n <= m, m <= Len(s), NEW S
    PROVE  /\ Selected(SubSeq(s, 1, n), S) \in Seq(PropValues)
           /\ Selected(SubSeq(s, 1, m), S) =
                  Selected(SubSeq(s, 1, n), S) \o Selected(SubSeq(s, n + 1, m), S)
<1>1. /\ SubSeq(s, 1, n) \in Seq(PropValues) /\ SubSeq(s, n + 1, m) \in Seq(PropValues)
      /\ SubSeq(s, 1, m) = SubSeq(s, 1, n) \o SubSeq(s, n + 1, m)
  BY SubSeqSplit
<1>2. PICK a \in Seq(PropValues), b \in Seq(PropValues) :
          a = SubSeq(s, 1, n) /\ b = SubSeq(s, n + 1, m)
  BY <1>1
<1>3. Selected(a \o b, S) = Selected(a, S) \o Selected(b, S)
  BY SelectedConcat
<1>4. Selected(a, S) \in Seq(PropValues)
  BY SelectedElements
<1> QED
  BY <1>1, <1>2, <1>3, <1>4

\* While a batch is being handled, its objects hold the last values that were
\* distributed.
LEMMA BatchValues ==
    ASSUME TypeOK, ObjectsHoldValues, consumer = "calls"
    PROVE  /\ EachOf(object, batch) = SubSeq(Sent, Before + 1, distributed)
           /\ SubSeq(Sent, Before + 1, distributed) \in Seq(PropValues)
           /\ Len(batch) = distributed - Before
<1>1. PICK m, b : m = EachOf(object, batch) /\ b = SubSeq(Sent, Before + 1, distributed)
  OBVIOUS
<1>2. /\ Before \in Nat /\ distributed = Before + Len(batch) /\ Len(batch) \in Nat
      /\ distributed <= Len(pushed) /\ Len(pushed) \in Nat
  BY ReachIsBounded, SentValues
<1>3. \A i \in 1 .. Len(batch) :
          /\ Before + i \in 1 .. Len(pushed)
          /\ object[batch[i]] = Sent[Before + i] /\ Sent[Before + i] \in PropValues
  <2>1. \A i \in 1 .. Len(batch) : Before + i \in 1 .. Len(pushed)
    BY <1>2
  <2>2. \A i \in 1 .. Len(batch) : object[batch[i]] = Sent[Before + i]
    BY <2>1, SentValues DEF ObjectsHoldValues
  <2> QED
    BY <2>1, <2>2, SentValues, ElementOfSeq
<1>4. m \in Seq(PropValues) /\ Len(m) = Len(batch) /\ \A i \in 1 .. Len(batch) : m[i] = Sent[Before + i]
  <2>1. m = [i \in 1 .. Len(batch) |-> object[batch[i]]]
    BY <1>1 DEF EachOf, TypeOK
  <2> QED
    BY <1>2, <1>3, <2>1
<1>5. b \in Seq(PropValues) /\ Len(b) = Len(batch) /\ \A i \in 1 .. Len(batch) : b[i] = Sent[Before + i]
  <2>1. \A i \in Before + 1 .. distributed : Sent[i] \in PropValues
    <3>1. \A i \in Before + 1 .. distributed : i - Before \in 1 .. Len(batch) /\ Before + (i - Before) = i
      BY <1>2
    <3> QED
      BY <1>3, <3>1
  <2>2. /\ b \in Seq(PropValues)
        /\ Len(b) = IF Before + 1 <= distributed THEN distributed - (Before + 1) + 1 ELSE 0
        /\ \A i \in 1 .. distributed - (Before + 1) + 1 : b[i] = Sent[(Before + 1) + i - 1]
    BY <1>1, <1>2, <2>1, SubSeqProperties
  <2>3. \A i \in 1 .. Len(batch) :
            i \in 1 .. distributed - (Before + 1) + 1 /\ (Before + 1) + i - 1 = Before + i
    BY <1>2
  <2>4. Len(b) = Len(batch)
    BY <1>2, <2>2
  <2> QED
    BY <2>2, <2>3, <2>4
<1>6. m = b
  BY <1>4, <1>5, SeqEqual
<1> QED
  BY <1>1, <1>2, <1>5, <1>6

\* What a client of the batch gets.
LEMMA DeliveryOfBatch ==
    ASSUME TypeOK, ObjectsHoldValues, BatchIsHandled, SerialsDiffer, clientValues # <<>>
    PROVE  LET V == ToSet(Head(clientValues).values)
               W == {object[o] : o \in V}
               B == SubSeq(Sent, Before + 1, distributed)
           IN  /\ consumer = "calls"
               /\ EachOf(object, Head(clientValues).values) = Selected(B, W)
               /\ W \subseteq ToSet(B)
<1>1. consumer = "calls"
  BY DEF BatchIsHandled, TypeOK
<1>2. PICK V : V = ToSet(Head(clientValues).values)
  OBVIOUS
<1>3. Head(clientValues).values = Selected(batch, V) /\ V \subseteq ToSet(batch)
  <2>1. clientValues \in Seq([client : Clients, values : Seq(Objects)])
    BY DEF TypeOK
  <2>2. 1 \in 1 .. Len(clientValues) /\ Head(clientValues) = clientValues[1]
    BY <2>1
  <2> QED
    BY <1>2, <2>2, ValuesAreOfBatch DEF BatchIsHandled
<1>4. PICK W : W = {object[o] : o \in V}
  OBVIOUS
<1>5. PICK B : B = SubSeq(Sent, Before + 1, distributed)
  OBVIOUS
<1>6. /\ B = EachOf(object, batch) /\ B \in Seq(PropValues) /\ Len(batch) \in Nat
      /\ batch \in Seq(Objects) /\ object \in [Objects -> PropValues]
  <2>1. batch \in Seq(Objects) /\ object \in [Objects -> PropValues]
    BY DEF TypeOK
  <2>2. Len(batch) \in Nat
    BY <2>1
  <2>3. EachOf(object, batch) = SubSeq(Sent, Before + 1, distributed)
    BY <1>1, BatchValues
  <2>4. SubSeq(Sent, Before + 1, distributed) \in Seq(PropValues)
    BY <1>1, BatchValues
  <2> QED
    BY <1>5, <2>1, <2>2, <2>3, <2>4
<1>7. \A x, y \in ToSet(batch) : object[x] = object[y] => x = y
  <2>1. SUFFICES ASSUME NEW i \in 1 .. Len(batch), NEW k \in 1 .. Len(batch),
                        object[batch[i]] = object[batch[k]]
                 PROVE  i = k
    <3>1. DOMAIN batch = 1 .. Len(batch)
      BY <1>6
    <3> QED
      BY <3>1 DEF ToSet
  <2>2. /\ Before + i \in 1 .. Len(pushed) /\ Before + k \in 1 .. Len(pushed) /\ Before \in Nat
    <3>1. /\ Before \in Nat /\ Before + Len(batch) <= Len(pushed)
      BY ReachIsBounded, <1>1
    <3>2. Len(pushed) \in Nat
      BY DEF TypeOK
    <3> QED
      BY <3>1, <3>2, <1>6
  <2>3. pushed[Before + i].value = pushed[Before + k].value
    BY <2>1 DEF ObjectsHoldValues
  <2>4. Before + i = Before + k
    BY <2>2, <2>3 DEF SerialsDiffer
  <2> QED
    BY <2>2, <2>4
<1>8. \A x \in ToSet(batch) : x \in V <=> object[x] \in W
  BY <1>3, <1>4, <1>7
<1>9. EachOf(object, Selected(batch, V)) = Selected(EachOf(object, batch), W)
  BY <1>6, <1>8, SelectedMapped
<1>10. W \subseteq ToSet(B)
  <2>1. \A i \in DOMAIN batch : object[batch[i]] \in ToSet(EachOf(object, batch))
    BY DEF EachOf, ToSet
  <2>2. \A o \in ToSet(batch) : \E i \in DOMAIN batch : o = batch[i]
    BY DEF ToSet
  <2> QED
    BY <1>3, <1>4, <1>6, <2>1, <2>2
<1> QED
  BY <1>1, <1>2, <1>3, <1>4, <1>5, <1>6, <1>9, <1>10

\* The history grows at its end.
LEMMA SentGrows ==
    ASSUME TypeOK, NEW t \in Threads, OnHalEvent(t)
    PROVE  /\ Len(pushed') = Len(pushed) + 1
           /\ \A j \in 1 .. Len(pushed) : pushed'[j] = pushed[j]
           /\ pushed'[Len(pushed) + 1] = [by |-> t, value |-> value[t]]
           /\ \A n \in 0 .. Len(pushed) : SubSeq(Sent', 1, n) = SubSeq(Sent, 1, n)
<1>1. PICK x \in [by : Threads, value : PropValues] :
          x = [by |-> t, value |-> value[t]] /\ pushed' = Append(pushed, x)
  BY DEF OnHalEvent, TypeOK
<1>2. /\ pushed \in Seq([by : Threads, value : PropValues])
      /\ Len(pushed) \in Nat /\ DOMAIN pushed' = 1 .. Len(pushed')
      /\ Len(pushed') = Len(pushed) + 1
      /\ \A j \in 1 .. Len(pushed) : pushed'[j] = pushed[j]
      /\ pushed'[Len(pushed) + 1] = x
  BY <1>1, AppendProperties DEF TypeOK
<1>3. PICK s \in Seq(PropValues) :
          /\ s = Sent /\ Len(s) = Len(pushed) /\ \A i \in 1 .. Len(pushed) : s[i] = pushed[i].value
  BY SentValues
<1>4. PICK r : r = Append(s, x.value)
  OBVIOUS
<1>5. /\ r \in Seq(PropValues) /\ Len(r) = Len(pushed) + 1
      /\ \A i \in 1 .. Len(pushed) : r[i] = pushed[i].value
      /\ r[Len(pushed) + 1] = x.value
  BY <1>3, <1>4, AppendProperties
<1>6. Sent' = [i \in 1 .. Len(pushed) + 1 |-> pushed'[i].value]
  BY <1>2 DEF Sent
<1>7. \A i \in 1 .. Len(pushed) + 1 : pushed'[i].value = r[i]
  <2>1. \A i \in 1 .. Len(pushed) + 1 : i \in 1 .. Len(pushed) \/ i = Len(pushed) + 1
    BY <1>2
  <2> QED
    BY <1>2, <1>5, <2>1
<1>8. Sent' = r
  BY <1>2, <1>5, <1>6, <1>7
<1>9. ASSUME NEW n \in 0 .. Len(pushed) PROVE SubSeq(Sent', 1, n) = SubSeq(Sent, 1, n)
  <2>1. n \in Nat /\ n <= Len(s) /\ x.value \in PropValues
    BY <1>2, <1>3
  <2>2. SubSeq(Append(s, x.value), 1, n) = SubSeq(s, 1, n)
    BY <2>1, SubSeqOfAppend
  <2> QED
    BY <1>3, <1>4, <1>8, <2>2
<1> QED
  BY <1>1, <1>2, <1>9

LEMMA ReachGrows ==
    ASSUME TypeOK, BatchIsHandled, ObjectsHoldValues, [Next]_vars, NEW c
    PROVE  /\ Reach(c)' \in Nat /\ Reach(c) <= Reach(c)' /\ Reach(c)' <= Len(pushed)
           /\ \/ pushed' = pushed
              \/ Reach(c)' = Reach(c) /\ \E t \in Threads : OnHalEvent(t)
           /\ OnPropertyEvent /\ c = Head(clientValues).client =>
                  Reach(c) = Before /\ Reach(c)' = distributed
<1>0. /\ Before \in Nat /\ distributed \in Nat /\ Reach(c) \in Nat /\ Len(batch) \in Nat
      /\ Before <= distributed /\ distributed <= Len(pushed) /\ Reach(c) <= distributed
      /\ distributed = IF consumer = "calls" THEN Before + Len(batch) ELSE Before
      /\ Len(pushed) \in Nat /\ Len(mEventQueue) \in Nat
      /\ Before = Len(pushed) - Len(batch) - Len(mEventQueue)
      /\ pushed \in Seq([by : Threads, value : PropValues])
      /\ mEventQueue \in Seq(Objects)
      /\ clientValues \in Seq([client : Clients, values : Seq(Objects)])
  <2>1. /\ Before \in Nat /\ distributed \in Nat /\ Reach(c) \in Nat /\ Len(batch) \in Nat
        /\ Before <= distributed /\ distributed <= Len(pushed) /\ Reach(c) <= distributed
        /\ distributed = IF consumer = "calls" THEN Before + Len(batch) ELSE Before
    BY ReachIsBounded
  <2>2. /\ Len(pushed) \in Nat /\ Len(mEventQueue) \in Nat
        /\ pushed \in Seq([by : Threads, value : PropValues])
        /\ mEventQueue \in Seq(Objects)
        /\ clientValues \in Seq([client : Clients, values : Seq(Objects)])
    BY DEF TypeOK
  <2>3. Before = Len(pushed) - Len(batch) - Len(mEventQueue)
    BY DEF Before
  <2> QED
    BY <2>1, <2>2, <2>3
<1>1. Reach(c) = IF consumer = "calls" /\ Awaits(c) THEN Before ELSE distributed
  BY DEF Reach
<1>2. Reach(c)' = IF consumer' = "calls" /\ Awaits(c)' THEN Before' ELSE distributed'
  BY DEF Reach
<1> DEFINE Goal == /\ Reach(c)' \in Nat /\ Reach(c) <= Reach(c)' /\ Reach(c)' <= Len(pushed)
                   /\ \/ pushed' = pushed
                      \/ Reach(c)' = Reach(c) /\ \E t \in Threads : OnHalEvent(t)
                   /\ OnPropertyEvent /\ c = Head(clientValues).client =>
                          Reach(c) = Before /\ Reach(c)' = distributed
<1>3. ASSUME UNCHANGED <<consumer, clientValues, distributed, batch, mEventQueue, pushed>>,
             ~OnPropertyEvent
      PROVE  Goal
  <2>1. Reach(c)' = Reach(c)
    BY <1>1, <1>2, <1>3 DEF Awaits, Before
  <2> QED
    BY <1>0, <1>3, <2>1
<1>4. ASSUME NEW t \in Threads, OnHalEvent(t), ~OnPropertyEvent PROVE Goal
  <2>1. Len(pushed') = Len(pushed) + 1
    BY <1>4, SentGrows
  <2>2. held[t] \in Objects \/ held[t] = NoObject
    BY DEF TypeOK
  <2>3. Len(mEventQueue') = Len(mEventQueue) + 1
    BY <1>0, <1>4 DEF OnHalEvent
  <2>4. UNCHANGED <<consumer, clientValues, distributed, batch>>
    BY <1>4 DEF OnHalEvent, consumerVars
  <2>5. Before' = Before
    BY <1>0, <2>1, <2>3, <2>4 DEF Before
  <2>6. Reach(c)' = Reach(c)
    BY <1>1, <1>2, <2>4, <2>5 DEF Awaits
  <2> QED
    BY <1>0, <1>4, <2>6
<1>5. ASSUME TakeBatch PROVE Goal
  <2>1. consumer = "waits" /\ consumer' = "distributes"
    BY <1>5 DEF TakeBatch
  <2>2. distributed' = distributed /\ pushed' = pushed
    BY <1>5 DEF TakeBatch, historyVars
  <2>3. ~OnPropertyEvent
    BY <2>1 DEF OnPropertyEvent, consumerVars
  <2> QED
    BY <1>0, <1>1, <1>2, <2>1, <2>2, <2>3
<1>6. ASSUME DistributeValuesToClients PROVE Goal
  <2>1. consumer = "distributes" /\ distributed' = distributed + Len(batch)
    BY <1>6 DEF DistributeValuesToClients
  <2>2. UNCHANGED <<batch, mEventQueue, pushed>> /\ consumer' = "calls"
    BY <1>6 DEF DistributeValuesToClients
  <2>3. Before' = Before
    BY <2>2 DEF Before
  <2>4. ~OnPropertyEvent
    BY <2>1, <2>2 DEF OnPropertyEvent
  <2>5. Reach(c) = Before /\ distributed = Before
    BY <1>0, <1>1, <2>1
  <2>6. Reach(c)' = Before \/ Reach(c)' = Before + Len(batch)
    BY <1>2, <2>1, <2>3, <2>5
  <2> QED
    BY <1>0, <2>2, <2>4, <2>5, <2>6
<1>7. ASSUME OnPropertyEvent PROVE Goal
  <2>1. /\ clientValues # <<>> /\ clientValues' = Tail(clientValues) /\ consumer = "calls"
    BY <1>7 DEF OnPropertyEvent, BatchIsHandled, TypeOK
  <2>2. UNCHANGED <<consumer, distributed, batch, mEventQueue, pushed>>
    BY <1>7 DEF OnPropertyEvent, historyVars
  <2>3. Before' = Before
    BY <2>2 DEF Before
  <2>4. /\ Len(clientValues') = Len(clientValues) - 1 /\ Len(clientValues) \in Nat
        /\ \A k \in 1 .. Len(clientValues') : clientValues'[k] = clientValues[k + 1]
        /\ Head(clientValues) = clientValues[1] /\ 1 \in 1 .. Len(clientValues)
    BY <1>0, <2>1
  <2>5. \A k \in 1 .. Len(clientValues') : k + 1 \in 1 .. Len(clientValues) /\ k + 1 # 1
    BY <2>4
  <2>6. Awaits(c)' => Awaits(c)
    BY <2>4, <2>5 DEF Awaits
  <2>7. ASSUME c = Head(clientValues).client PROVE Awaits(c) /\ ~Awaits(c)'
    <3>1. Awaits(c)
      BY <2>4, <2>7 DEF Awaits
    <3>2. \A k \in 1 .. Len(clientValues') : clientValues'[k].client # c
      BY <2>4, <2>5, <2>7 DEF BatchIsHandled
    <3> QED
      BY <3>1, <3>2 DEF Awaits
  <2>8. /\ Reach(c) = IF Awaits(c) THEN Before ELSE distributed
        /\ Reach(c)' = IF Awaits(c)' THEN Before ELSE distributed
    BY <1>1, <1>2, <2>1, <2>2, <2>3
  <2>9. Reach(c)' \in Nat /\ Reach(c) <= Reach(c)' /\ Reach(c)' <= Len(pushed)
    BY <1>0, <2>6, <2>8
  <2>10. c = Head(clientValues).client => Reach(c) = Before /\ Reach(c)' = distributed
    BY <2>7, <2>8
  <2> QED
    BY <2>2, <2>9, <2>10
<1>8. ASSUME ReleaseBatch PROVE Goal
  <2>1. clientValues = <<>> /\ consumer' = "waits"
    BY <1>8 DEF ReleaseBatch
  <2>2. distributed' = distributed /\ pushed' = pushed
    BY <1>8 DEF ReleaseBatch, historyVars
  <2>3. ~OnPropertyEvent
    BY <2>1 DEF OnPropertyEvent, BatchIsHandled
  <2>4. ~Awaits(c)
    BY <2>1 DEF Awaits
  <2> QED
    BY <1>0, <1>1, <1>2, <2>1, <2>2, <2>3, <2>4
<1>9. ASSUME CopyValues PROVE Goal
  <2>1. ~OnPropertyEvent
    BY <1>9 DEF CopyValues, OnPropertyEvent
  <2> QED
    BY <1>3, <1>9, <2>1 DEF CopyValues, historyVars
<1>10. CASE OnPropertyEvent
  BY <1>7, <1>10
<1> HIDE DEF Goal
<1>11. ASSUME NEW d \in Clients, Subscribe(d) \/ Unsubscribe(d), ~OnPropertyEvent PROVE Goal
  BY <1>3, <1>11 DEF Subscribe, Unsubscribe, consumerVars, historyVars
<1>12. ASSUME NEW t \in Threads, ~OnPropertyEvent,
              Get(t) \/ Reply(t) \/ Set(t) \/ OnPropertySet(t) \/ HalRefuses(t) \/ HalProduces(t)
              \/ HalObtains(t)
       PROVE  Goal
  BY <1>3, <1>12 DEF Get, Reply, Set, OnPropertySet, HalRefuses, HalProduces, HalObtains,
                     consumerVars, historyVars
<1>13. ASSUME UNCHANGED vars, ~OnPropertyEvent PROVE Goal
  BY <1>3, <1>13 DEF vars, consumerVars, historyVars
<1>14. ASSUME ~OnPropertyEvent PROVE Goal
  BY <1>4, <1>5, <1>6, <1>8, <1>9, <1>11, <1>12, <1>13, <1>14 DEF Next, Thread, BatchingThread
<1> QED
  BY <1>10, <1>14 DEF Goal

LEMMA SelectedStep ==
    ASSUME TypeOK, ObjectsHoldValues, BatchIsHandled, SerialsDiffer, EventsAreSelected,
           [Next]_vars
    PROVE  EventsAreSelected'
<1>1. SUFFICES ASSUME NEW c \in Clients
               PROVE  Events(c)' = Selected(SubSeq(Sent, 1, Reach(c)), ToSet(Events(c)))'
  BY DEF EventsAreSelected
<1>2. PICK E, n : E = Events(c) /\ n = Reach(c)
  OBVIOUS
<1>3. PICK F, m : F = Events(c)' /\ m = Reach(c)'
  OBVIOUS
<1>4. /\ Sent \in Seq(PropValues) /\ Len(Sent) = Len(pushed) /\ IsInjective(Sent)
      /\ Len(pushed) \in Nat
  BY SentValues
<1>5. /\ n \in Nat /\ m \in Nat /\ n <= m /\ m <= Len(Sent)
  BY <1>2, <1>3, <1>4, ReachGrows, ReachIsBounded
<1>6. /\ E = Selected(SubSeq(Sent, 1, n), ToSet(E)) /\ ToSet(E) \subseteq ToSet(SubSeq(Sent, 1, n))
  BY <1>2, EventsWereSent DEF EventsAreSelected
<1>7. SUFFICES F = Selected(SubSeq(Sent', 1, m), ToSet(F))
  BY <1>3
<1>8. SubSeq(Sent', 1, m) = SubSeq(Sent, 1, m)
  <2>1. CASE pushed' = pushed
    BY <2>1 DEF Sent
  <2>2. ASSUME NEW t \in Threads, OnHalEvent(t) PROVE SubSeq(Sent', 1, m) = SubSeq(Sent, 1, m)
    <3>1. m \in 0 .. Len(pushed)
      BY <1>4, <1>5
    <3> QED
      BY <2>2, <3>1, SentGrows
  <2> QED
    BY <2>1, <2>2, ReachGrows
<1>9. CASE F = E
  <2>1. Selected(SubSeq(Sent, 1, m), ToSet(E)) = Selected(SubSeq(Sent, 1, n), ToSet(E))
    BY <1>4, <1>5, <1>6, LongerSelection
  <2> QED
    BY <1>6, <1>8, <1>9, <2>1
<1>10. ASSUME OnPropertyEvent, c = Head(clientValues).client,
              F = E \o EachOf(object, Head(clientValues).values)
       PROVE  F = Selected(SubSeq(Sent, 1, m), ToSet(F))
  <2>1. n = Before /\ m = distributed
    BY <1>2, <1>3, <1>10, ReachGrows
  <2>2. clientValues # <<>>
    BY <1>10 DEF OnPropertyEvent, BatchIsHandled
  <2>3. PICK A, B : A = SubSeq(Sent, 1, n) /\ B = SubSeq(Sent, n + 1, m)
    OBVIOUS
  <2>4. /\ A \in Seq(PropValues) /\ B \in Seq(PropValues) /\ SubSeq(Sent, 1, m) = A \o B
        /\ ToSet(A) \cap ToSet(B) = {}
    <3>1. /\ SubSeq(Sent, 1, n) \in Seq(PropValues) /\ SubSeq(Sent, n + 1, m) \in Seq(PropValues)
          /\ SubSeq(Sent, 1, m) = SubSeq(Sent, 1, n) \o SubSeq(Sent, n + 1, m)
          /\ ToSet(SubSeq(Sent, 1, n)) \cap ToSet(SubSeq(Sent, n + 1, m)) = {}
      BY <1>4, <1>5, SubSeqSplit
    <3> QED
      BY <2>3, <3>1
  <2>5. PICK W : F = E \o Selected(B, W) /\ W \subseteq ToSet(B)
    BY <1>10, <2>1, <2>2, <2>3, DeliveryOfBatch
  <2>6. PICK D : D = Selected(B, W)
    OBVIOUS
  <2>7. D \in Seq(PropValues) /\ ToSet(D) = ToSet(B) \cap W
    BY <2>4, <2>6, SelectedElements
  <2>8. E \in Seq(PropValues)
    BY <1>2, EventsAreValues
  <2>9. ToSet(F) = ToSet(E) \cup ToSet(D)
    BY <2>5, <2>6, <2>7, <2>8, ToSetConcat
  <2>10. Selected(A \o B, ToSet(F)) = Selected(A, ToSet(F)) \o Selected(B, ToSet(F))
    BY <2>4, SelectedConcat
  <2>11. Selected(A, ToSet(F)) = E
    <3>1. ToSet(A) \cap ToSet(F) = ToSet(A) \cap ToSet(E)
      BY <2>4, <2>7, <2>9
    <3>2. Selected(A, ToSet(F)) = Selected(A, ToSet(E))
      BY <2>4, <3>1, SelectedAgrees
    <3> QED
      BY <1>6, <2>3, <3>2
  <2>12. Selected(B, ToSet(F)) = D
    <3>1. ToSet(B) \cap ToSet(F) = ToSet(B) \cap W
      BY <1>6, <2>3, <2>4, <2>7, <2>9
    <3>2. Selected(B, ToSet(F)) = Selected(B, W)
      BY <2>4, <3>1, SelectedAgrees
    <3> QED
      BY <2>6, <3>2
  <2> QED
    BY <2>4, <2>5, <2>6, <2>10, <2>11, <2>12
<1> QED
  BY <1>2, <1>3, <1>8, <1>9, <1>10, EventsGrow

\* The objects of a batch keep their values until the batch is released.
LEMMA BatchObjectsStay ==
    ASSUME TypeOK, OneOwner, [Next]_vars, ~ReleaseBatch
    PROVE  \A o \in ToSet(batch) : object'[o] = object[o]
<1>0. ToSet(batch) \subseteq Objects /\ object \in [Objects -> PropValues]
  BY ToSetOfSeq DEF TypeOK
<1>1. ASSUME NEW t \in Threads, NEW v \in PropValues, Obtain(t, v)
      PROVE  \A o \in ToSet(batch) : object'[o] = object[o]
  <2>1. PICK o \in Objects : object' = [object EXCEPT ![o] = v] /\ o \notin ToSet(batch)
    BY <1>1, ObtainEffect
  <2> QED
    BY <1>0, <2>1
<1>2. ASSUME NEW t \in Threads, Get(t) PROVE \A o \in ToSet(batch) : object'[o] = object[o]
  <2>1. PICK v \in HalValues : Obtain(t, Stamped(v))
    BY <1>2 DEF Get
  <2>2. Stamped(v) \in PropValues
    BY StampedIsValue DEF TypeOK, Asked
  <2> QED
    BY <1>1, <2>1, <2>2
<1>3. ASSUME NEW t \in Threads, HalObtains(t)
      PROVE  \A o \in ToSet(batch) : object'[o] = object[o]
  <2>1. Obtain(t, value[t]) /\ value[t] \in PropValues
    BY <1>3 DEF HalObtains, TypeOK
  <2> QED
    BY <1>1, <2>1
<1>4. ASSUME NEW t \in Threads, Reply(t) PROVE \A o \in ToSet(batch) : object'[o] = object[o]
  <2>1. Returns(<<held[t]>>) /\ ToSet(<<held[t]>>) = {held[t]} /\ held[t] \notin ToSet(batch)
    BY <1>4, ReplyReturns DEF OneOwner, HoldersHold
  <2> QED
    BY <1>0, <2>1 DEF Returns
<1>5. ASSUME NEW t \in Threads,
             Set(t) \/ OnPropertySet(t) \/ HalRefuses(t) \/ HalProduces(t) \/ OnHalEvent(t)
      PROVE  object' = object
  BY <1>5 DEF Set, OnPropertySet, HalRefuses, HalProduces, OnHalEvent, poolVars
<1>6. ASSUME NEW c \in Clients, Subscribe(c) \/ Unsubscribe(c) PROVE object' = object
  BY <1>6 DEF Subscribe, Unsubscribe, poolVars
<1>7. ASSUME TakeBatch \/ DistributeValuesToClients \/ CopyValues \/ OnPropertyEvent
      PROVE  object' = object
  BY <1>7 DEF TakeBatch, DistributeValuesToClients, CopyValues, OnPropertyEvent, poolVars
<1>8. CASE UNCHANGED vars
  BY <1>8 DEF vars, poolVars
<1> QED
  BY <1>2, <1>3, <1>4, <1>5, <1>6, <1>7, <1>8 DEF Next, Thread, BatchingThread

\* A value that a client is going to get, it gets.
LEMMA ComingStays ==
    ASSUME TypeOK, OneOwner, ObjectsHoldValues, BatchIsHandled, SerialsDiffer, [Next]_vars,
           NEW c \in Clients
    PROVE  ToSet(Events(c)) \cup Coming(c) \subseteq ToSet(Events(c)') \cup Coming(c)'
<1>1. SUFFICES ASSUME NEW v \in ToSet(Events(c)) \cup Coming(c)
               PROVE  v \in ToSet(Events(c)') \cup Coming(c)'
  OBVIOUS
<1>2. PICK E \in Seq(PropValues) : E = Events(c)
  BY EventsAreValues
<1>3. /\ clientValues \in Seq([client : Clients, values : Seq(Objects)])
      /\ Len(clientValues) \in Nat
  BY DEF TypeOK
<1>4. CASE v \in ToSet(E)
  <2>1. ASSUME OnPropertyEvent, Events(c)' = E \o EachOf(object, Head(clientValues).values)
        PROVE  v \in ToSet(Events(c)')
    <3>1. PICK w \in Seq(PropValues) : w = EachOf(object, Head(clientValues).values)
      BY <2>1, DeliveryEffect
    <3>2. ToSet(E \o w) = ToSet(E) \cup ToSet(w)
      BY ToSetConcat
    <3> QED
      BY <1>4, <2>1, <3>1, <3>2
  <2>2. CASE Events(c)' = E
    BY <1>4, <2>2
  <2> QED
    BY <1>2, <2>1, <2>2, EventsGrow
<1>5. CASE v \in Coming(c)
  <2>a. PICK k \in 1 .. Len(clientValues) :
            clientValues[k].client = c /\ v \in {object[o] : o \in ToSet(clientValues[k].values)}
    BY <1>5 DEF Coming
  <2>1. PICK o \in ToSet(clientValues[k].values) : clientValues[k].client = c /\ v = object[o]
    BY <2>a
  <2>2. clientValues # <<>> /\ o \in ToSet(batch) /\ consumer = "calls"
    <3>1. clientValues # <<>>
      BY <1>3
    <3>2. o \in ToSet(batch)
      BY ValuesAreOfBatch
    <3>3. consumer = "calls"
      BY <3>1 DEF BatchIsHandled
    <3> QED
      BY <3>1, <3>2, <3>3
  <2>3. ~ReleaseBatch
    BY <2>2 DEF ReleaseBatch
  <2>4. object'[o] = v
    BY <2>1, <2>2, <2>3, BatchObjectsStay
  <2>5. CASE clientValues' = clientValues
    BY <2>1, <2>4, <2>5 DEF Coming
  <2>6. ASSUME OnPropertyEvent PROVE v \in ToSet(Events(c)') \cup Coming(c)'
    <3>1. /\ clientValues' = Tail(clientValues)
          /\ Len(clientValues') = Len(clientValues) - 1
          /\ \A i \in 1 .. Len(clientValues') : clientValues'[i] = clientValues[i + 1]
          /\ Head(clientValues) = clientValues[1]
      BY <1>3, <2>2, <2>6 DEF OnPropertyEvent
    <3>2. CASE k = 1
      <4>1. c = Head(clientValues).client
        BY <2>1, <3>1, <3>2
      <4>2. PICK w \in Seq(PropValues) :
                /\ w = EachOf(object, Head(clientValues).values)
                /\ delivered' = [delivered EXCEPT ![c] = @ \o EventsWith(w)]
        BY <2>6, <4>1, DeliveryEffect DEF EventsWith
      <4>3. delivered[c] \in Seq(CallsOfClients) /\ delivered'[c] = delivered[c] \o EventsWith(w)
        BY <4>2 DEF TypeOK
      <4>4. Events(c)' = EventsOf(delivered'[c]) /\ E = EventsOf(delivered[c])
        BY <1>2 DEF Events, EventsOf
      <4>5. Events(c)' = E \o w
        BY <4>3, <4>4, EventsOfGrow
      <4>6. ToSet(E \o w) = ToSet(E) \cup ToSet(w)
        BY ToSetConcat
      <4>7. v \in ToSet(w)
        <5>1. o \in ToSet(Head(clientValues).values)
          BY <2>1, <3>1, <3>2
        <5>2. PICK s : s = Head(clientValues).values
          OBVIOUS
        <5>3. PICK i \in DOMAIN s : o = s[i]
          BY <5>1, <5>2 DEF ToSet
        <5>4. i \in DOMAIN w /\ w[i] = v
          BY <2>1, <4>2, <5>2, <5>3 DEF EachOf
        <5> QED
          BY <5>4 DEF ToSet
      <4> QED
        BY <4>5, <4>6, <4>7
    <3>3. CASE k # 1
      <4>1. k - 1 \in 1 .. Len(clientValues') /\ clientValues'[k - 1] = clientValues[k]
        BY <1>3, <3>1, <3>3
      <4> QED
        BY <2>1, <2>4, <4>1 DEF Coming
    <3> QED
      BY <3>2, <3>3
  <2>7. clientValues' = clientValues \/ OnPropertyEvent
    <3>1. ~DistributeValuesToClients
      BY <2>2 DEF DistributeValuesToClients
    <3> QED
      BY <2>3, <3>1 DEF Next, Thread, BatchingThread, vars, consumerVars, Subscribe, Unsubscribe, Get,
                        Reply, Set, OnPropertySet, HalRefuses, HalProduces, HalObtains, OnHalEvent,
                        TakeBatch, CopyValues
  <2> QED
    BY <2>5, <2>6, <2>7
<1> QED
  BY <1>1, <1>2, <1>4, <1>5

LEMMA CompleteStep ==
    ASSUME TypeOK, OneOwner, ObjectsHoldValues, BatchIsHandled, SerialsDiffer, EventsAreComplete,
           [Next]_vars
    PROVE  EventsAreComplete'
<1>0. distributed \in Nat /\ distributed <= Len(pushed) /\ Len(pushed) \in Nat
  BY ReachIsBounded, SentValues
<1>1. \A j \in 1 .. distributed : pushed'[j] = pushed[j]
  <2>1. CASE pushed' = pushed
    BY <2>1
  <2>2. ASSUME NEW t \in Threads, OnHalEvent(t)
        PROVE  \A j \in 1 .. distributed : pushed'[j] = pushed[j]
    <3>1. \A j \in 1 .. distributed : j \in 1 .. Len(pushed)
      BY <1>0
    <3> QED
      BY <2>2, <3>1, SentGrows
  <2> QED
    BY <2>1, <2>2, ReachGrows
<1>2. ASSUME NEW c \in Clients, NEW p \in Props, "CAR" \in flags[c][p],
             NEW j \in from[c][p].events + 1 .. distributed, pushed'[j].value.prop = p
      PROVE  pushed'[j].value \in ToSet(Events(c)') \cup Coming(c)'
  <2>1. from[c][p].events \in Nat
    BY DEF TypeOK
  <2>2. j \in 1 .. distributed
    BY <1>0, <2>1
  <2>3. pushed'[j] = pushed[j]
    BY <1>1, <2>2
  <2>4. pushed[j].value \in ToSet(Events(c)) \cup Coming(c)
    BY <1>2, <2>3 DEF EventsAreComplete
  <2> QED
    BY <2>3, <2>4, ComingStays
<1>3. ASSUME UNCHANGED <<from, distributed>>,
             \A c \in Clients, p \in Props : flags'[c][p] \subseteq flags[c][p]
      PROVE  EventsAreComplete'
  <2>1. SUFFICES ASSUME NEW c \in Clients, NEW p \in Props, "CAR" \in flags'[c][p],
                        NEW j \in from[c][p].events + 1 .. distributed, pushed'[j].value.prop = p
                 PROVE  pushed'[j].value \in ToSet(Events(c)') \cup Coming(c)'
    BY <1>3 DEF EventsAreComplete
  <2> QED
    BY <1>2, <1>3, <2>1
<1>4. ASSUME NEW d \in Clients, Subscribe(d) PROVE EventsAreComplete'
  <2>1. PICK q \in Props, fs \in SUBSET {"CAR", "ANDROID"} : SubscribesTo(d, q, fs)
    BY <1>4, SubscribeEffect
  <2>2. distributed' = distributed
    BY <1>4 DEF Subscribe
  <2>3. SUFFICES ASSUME NEW c \in Clients, NEW p \in Props, "CAR" \in flags'[c][p],
                        NEW j \in from'[c][p].events + 1 .. distributed, pushed'[j].value.prop = p
                 PROVE  pushed'[j].value \in ToSet(Events(c)') \cup Coming(c)'
    BY <2>2 DEF EventsAreComplete
  <2>4. CASE c = d /\ p = q
    <3>1. /\ flags'[c][p] = flags[c][p] \cup fs
          /\ from'[c][p].events =
                 IF "CAR" \in fs \ flags[c][p] THEN distributed ELSE from[c][p].events
      BY <2>1, <2>4 DEF SubscribesTo
    <3>2. ~("CAR" \in fs \ flags[c][p])
      <4>1. j \in from'[c][p].events + 1 .. distributed
        OBVIOUS
      <4>2. ~(j \in distributed + 1 .. distributed)
        BY <1>0
      <4> QED
        BY <3>1, <4>1, <4>2
    <3>3. "CAR" \in flags[c][p] /\ from'[c][p].events = from[c][p].events
      BY <2>3, <3>1, <3>2
    <3> QED
      BY <1>2, <2>3, <3>3
  <2>5. CASE ~(c = d /\ p = q)
    <3>1. flags'[c][p] = flags[c][p] /\ from'[c][p] = from[c][p]
      BY <2>1, <2>5 DEF SubscribesTo
    <3> QED
      BY <1>2, <2>3, <3>1
  <2> QED
    BY <2>4, <2>5
<1>5. ASSUME DistributeValuesToClients PROVE EventsAreComplete'
  <2>1. /\ distributed' = distributed + Len(batch) /\ consumer = "distributes"
        /\ UNCHANGED <<flags, from, pushed, object, batch>>
    BY <1>5 DEF DistributeValuesToClients, poolVars
  <2>2. SUFFICES ASSUME NEW c \in Clients, NEW p \in Props, "CAR" \in flags[c][p],
                        NEW j \in from[c][p].events + 1 .. distributed',
                        pushed'[j].value.prop = p
                 PROVE  pushed'[j].value \in ToSet(Events(c)') \cup Coming(c)'
    BY <2>1 DEF EventsAreComplete
  <2>3. /\ Len(batch) \in Nat /\ from[c][p].events \in Nat /\ distributed = Before
        /\ batch \in Seq(Objects) /\ DOMAIN batch = 1 .. Len(batch)
    BY <2>1 DEF TypeOK, ObjectsHoldValues
  <2>4. CASE j <= distributed
    <3>1. j \in from[c][p].events + 1 .. distributed
      BY <1>0, <2>1, <2>3, <2>4
    <3> QED
      BY <1>2, <2>2, <3>1
  <2>5. CASE ~(j <= distributed)
    <3>1. PICK i \in 1 .. Len(batch) : j = Before + i
      <4>1. j - distributed \in 1 .. Len(batch) /\ j = distributed + (j - distributed)
        BY <1>0, <2>1, <2>3, <2>5
      <4> QED
        BY <2>3, <4>1
    <3>2. object[batch[i]] = pushed[j].value
      BY <3>1 DEF ObjectsHoldValues
    <3> DEFINE S == {o \in ToSet(batch) : c \in SubscribedClients(object[o].prop, "CAR")}
    <3>3. batch[i] \in S
      <4>1. batch[i] \in ToSet(batch)
        BY <2>3 DEF ToSet
      <4>2. object[batch[i]].prop = p
        BY <2>1, <2>2, <3>2
      <4> QED
        BY <2>2, <4>1, <4>2 DEF SubscribedClients
    <3>4. ForClient(c) = Selected(batch, S)
      BY DEF ForClient
    <3> HIDE DEF S
    <3>5. batch[i] \in ToSet(ForClient(c))
      <4>1. ToSet(Selected(batch, S)) = ToSet(batch) \cap S
        BY <2>3, SelectedElements
      <4>2. batch[i] \in ToSet(batch)
        BY <2>3 DEF ToSet
      <4> QED
        BY <3>3, <3>4, <4>1, <4>2
    <3>6. ForClient(c) # <<>>
      BY <3>5, ToSetEmpty
    <3>7. PICK k \in 1 .. Len(clientValues') : clientValues'[k].client = c
      BY <1>5, <3>6, DistributeEffect
    <3>8. clientValues'[k].values = ForClient(c)
      BY <1>5, <3>7, DistributeEffect
    <3>9. object[batch[i]] \in Coming(c)'
      BY <2>1, <3>5, <3>7, <3>8 DEF Coming
    <3> QED
      BY <2>1, <3>2, <3>9
  <2> QED
    BY <2>4, <2>5
<1>6. ASSUME NEW d \in Clients, Unsubscribe(d) PROVE EventsAreComplete'
  <2>1. PICK q \in Props : flags' = [flags EXCEPT ![d][q] = {}]
    BY <1>6 DEF Unsubscribe
  <2>2. \A c \in Clients, p \in Props : flags'[c][p] \subseteq flags[c][p]
    BY <2>1 DEF TypeOK
  <2> QED
    BY <1>3, <1>6, <2>2 DEF Unsubscribe, historyVars
<1>7. ASSUME UNCHANGED <<flags, from, distributed>> PROVE EventsAreComplete'
  BY <1>3, <1>7
<1>8. ASSUME NEW t \in Threads, Thread(t) PROVE EventsAreComplete'
  BY <1>7, <1>8 DEF Thread, Get, Reply, Set, OnPropertySet, HalRefuses, HalProduces, HalObtains,
                    OnHalEvent, historyVars
<1>9. ASSUME TakeBatch \/ CopyValues \/ OnPropertyEvent \/ ReleaseBatch PROVE EventsAreComplete'
  BY <1>7, <1>9 DEF TakeBatch, CopyValues, OnPropertyEvent, ReleaseBatch, historyVars
<1>10. CASE UNCHANGED vars
  BY <1>7, <1>10 DEF vars, historyVars
<1> QED
  BY <1>4, <1>5, <1>6, <1>8, <1>9, <1>10 DEF Next, BatchingThread

LEMMA FirstStep ==
    ASSUME TypeOK, ObjectsHoldValues, BatchIsHandled, SerialsDiffer, SetsAreAnnounced,
           SetIsAnnouncedFirst, EventsAreSelected, [Next]_vars
    PROVE  SetIsAnnouncedFirst'
<1>1. SUFFICES ASSUME NEW c \in Clients, NEW j \in DOMAIN pushed', pushed'[j].by \in Binders,
                      NEW v \in PropValues, v = pushed'[j].value,
                      "ANDROID" \in flags'[c][v.prop], from'[c][v.prop].calls < v.timestamp,
                      NEW i \in DOMAIN delivered'[c], delivered'[c][i] = <<"event", v>>
               PROVE  \E k \in 1 .. i - 1 : delivered'[c][k] = <<"set", v>>
  <2>1. \A j \in DOMAIN pushed' : pushed'[j].value \in PropValues
    <3>1. \A j \in 1 .. Len(pushed) : pushed[j].value \in PropValues
      BY SentValues, ElementOfSeq
    <3>2. CASE pushed' = pushed
      BY <3>1, <3>2 DEF TypeOK
    <3>3. ASSUME NEW t \in Threads, OnHalEvent(t) PROVE \A j \in DOMAIN pushed' : pushed'[j].value \in PropValues
      <4>1. /\ pushed' = Append(pushed, [by |-> t, value |-> value[t]])
            /\ pushed \in Seq([by : Threads, value : PropValues]) /\ value[t] \in PropValues
        BY <3>3 DEF OnHalEvent, TypeOK
      <4>2. DOMAIN pushed' = 1 .. Len(pushed) + 1 /\ Len(pushed) \in Nat
        BY <4>1
      <4>3. \A j \in DOMAIN pushed' : j \in 1 .. Len(pushed) \/ j = Len(pushed) + 1
        BY <4>2
      <4>4. /\ \A j \in 1 .. Len(pushed) : pushed'[j] = pushed[j]
            /\ pushed'[Len(pushed) + 1].value = value[t]
        <5>1. /\ \A j \in 1 .. Len(pushed) : pushed'[j] = pushed[j]
              /\ pushed'[Len(pushed) + 1] = [by |-> t, value |-> value[t]]
          BY <3>3, SentGrows
        <5> QED
          BY <5>1
      <4> QED
        BY <3>1, <4>1, <4>3, <4>4
    <3> QED
      BY <3>2, <3>3, ReachGrows
  <2> QED
    BY <2>1 DEF SetIsAnnouncedFirst
<1>2. /\ delivered[c] \in Seq(CallsOfClients) /\ Len(delivered[c]) \in Nat
      /\ DOMAIN delivered[c] = 1 .. Len(delivered[c])
      /\ Len(pushed) \in Nat /\ DOMAIN pushed = 1 .. Len(pushed)
  BY DEF TypeOK
\* What has been delivered keeps its place.
<1>3. /\ \A k \in 1 .. Len(delivered[c]) : delivered'[c][k] = delivered[c][k]
      /\ delivered'[c] = delivered[c]
         \/ (\E t \in Threads : /\ OnPropertySet(t)
                                /\ DOMAIN delivered'[c] = 1 .. Len(delivered[c]) + 1
                                /\ delivered'[c][Len(delivered[c]) + 1] = <<"set", value[t]>>)
         \/ (OnPropertyEvent /\ DOMAIN delivered'[c] \subseteq Nat \ {0})
  <2>1. ASSUME NEW t \in Threads, OnPropertySet(t),
               delivered'[c] = Append(delivered[c], <<"set", value[t]>>)
        PROVE  /\ DOMAIN delivered'[c] = 1 .. Len(delivered[c]) + 1
               /\ \A k \in 1 .. Len(delivered[c]) : delivered'[c][k] = delivered[c][k]
               /\ delivered'[c][Len(delivered[c]) + 1] = <<"set", value[t]>>
    <3>1. <<"set", value[t]>> \in CallsOfClients
      BY DEF TypeOK, CallsOfClients
    <3> QED
      BY <1>2, <2>1, <3>1, AppendProperties
  <2>2. ASSUME OnPropertyEvent,
               delivered'[c] = delivered[c] \o EventsWith(EachOf(object, Head(clientValues).values))
        PROVE  /\ DOMAIN delivered'[c] \subseteq Nat \ {0}
               /\ \A k \in 1 .. Len(delivered[c]) : delivered'[c][k] = delivered[c][k]
    <3>1. PICK w \in Seq(PropValues) : w = EachOf(object, Head(clientValues).values)
      BY <2>2, DeliveryEffect
    <3>2. PICK e \in Seq(CallsOfClients) : e = EventsWith(w)
      <4>1. EventsWith(w) \in Seq(CallsOfClients)
        BY <1>2, EventsOfGrow
      <4> QED
        BY <4>1
    <3>3. PICK s : s = delivered[c] \o e
      OBVIOUS
    <3>4. s \in Seq(CallsOfClients) /\ \A k \in 1 .. Len(delivered[c]) : s[k] = delivered[c][k]
      BY <1>2, <3>3
    <3>5. DOMAIN s \subseteq Nat \ {0}
      BY <3>4
    <3> QED
      BY <2>2, <3>1, <3>2, <3>3, <3>4, <3>5
  <2> QED
    BY <2>1, <2>2, DeliveredBy
<1>4. CASE i \in 1 .. Len(delivered[c]) /\ j \in 1 .. Len(pushed) /\ pushed'[j] = pushed[j]
  <2>1. v.prop \in Props /\ v.timestamp \in 1 .. calls
    BY <1>1, <1>4 DEF SetsAreAnnounced, SerialsDiffer
  <2>2. Hears(c, v)
    <3>1. Hears(c, v)'
      BY <1>1 DEF Hears
    <3>2. CASE UNCHANGED <<flags, from>>
      BY <3>1, <3>2 DEF Hears
    <3>3. ASSUME NEW d \in Clients, Subscribe(d) \/ Unsubscribe(d) PROVE Hears(c, v)
      BY <2>1, <3>1, <3>3, FewerHear
    <3>4. (\E d \in Clients : Subscribe(d) \/ Unsubscribe(d)) \/ UNCHANGED <<flags, from>>
      BY DEF Next, Thread, BatchingThread, vars, Get, Reply, Set, OnPropertySet, HalRefuses,
             HalProduces, HalObtains, OnHalEvent, TakeBatch, DistributeValuesToClients, CopyValues,
             OnPropertyEvent, ReleaseBatch, historyVars
    <3> QED
      BY <3>2, <3>3, <3>4
  <2>3. delivered[c][i] = <<"event", v>> /\ i \in DOMAIN delivered[c] /\ j \in DOMAIN pushed
    BY <1>1, <1>2, <1>3, <1>4
  <2>4. PICK k \in 1 .. i - 1 : delivered[c][k] = <<"set", v>>
    BY <1>1, <1>4, <2>2, <2>3 DEF SetIsAnnouncedFirst, Hears
  <2>5. k \in 1 .. Len(delivered[c])
    BY <1>2, <1>4
  <2> QED
    BY <1>3, <2>4, <2>5
\* A value that is pushed now has not been delivered.
<1>5. ASSUME NEW t \in Threads, OnHalEvent(t), j = Len(pushed) + 1 PROVE FALSE
  <2>1. v = value[t] /\ Carries(t) /\ delivered' = delivered
    BY <1>1, <1>5, SentGrows DEF OnHalEvent, Carries
  <2>2. v \in ToSet(Events(c))
    <3>1. <<"event", v>> \in ToSet(delivered[c])
      BY <1>1, <2>1 DEF ToSet
    <3> QED
      BY <3>1, EventsAreValues
  <2>3. PICK k \in 1 .. Len(pushed) : pushed[k].value = v
    BY <2>2, EventsWerePushed
  <2> QED
    BY <2>1, <2>3 DEF SerialsDiffer
\* A value that is delivered now has been announced.
<1>6. ASSUME OnPropertyEvent, i \notin 1 .. Len(delivered[c]), i \in Nat \ {0}
      PROVE  \E k \in 1 .. i - 1 : delivered'[c][k] = <<"set", v>>
  <2>1. UNCHANGED <<flags, from, pushed>>
    BY <1>6 DEF OnPropertyEvent, historyVars
  <2>2. Hears(c, v) /\ j \in 1 .. Len(pushed) /\ pushed[j].by \in Binders /\ pushed[j].value = v
    BY <1>1, <1>2, <2>1 DEF Hears
  <2>3. <<"set", v>> \in ToSet(delivered[c])
    BY <2>2 DEF SetsAreAnnounced
  <2>4. PICK k \in 1 .. Len(delivered[c]) : delivered[c][k] = <<"set", v>>
    BY <1>2, <2>3 DEF ToSet
  <2>5. k \in 1 .. i - 1
    BY <1>2, <1>6
  <2> QED
    BY <1>3, <2>4, <2>5
<1>7. CASE pushed' = pushed
  <2>1. CASE i \in 1 .. Len(delivered[c])
    BY <1>2, <1>4, <1>7, <2>1
  <2>2. CASE i \notin 1 .. Len(delivered[c])
    <3>1. ASSUME NEW t \in Threads,
                 DOMAIN delivered'[c] = 1 .. Len(delivered[c]) + 1,
                 delivered'[c][Len(delivered[c]) + 1] = <<"set", value[t]>>
          PROVE  FALSE
      <4>1. i = Len(delivered[c]) + 1
        BY <1>2, <2>2, <3>1
      <4> QED
        BY <1>1, <3>1, <4>1
    <3>2. delivered'[c] # delivered[c]
      BY <1>2, <2>2
    <3> QED
      BY <1>3, <1>6, <2>2, <3>1, <3>2
  <2> QED
    BY <2>1, <2>2
<1>8. ASSUME NEW t \in Threads, OnHalEvent(t)
      PROVE  \E k \in 1 .. i - 1 : delivered'[c][k] = <<"set", v>>
  <2>1. delivered' = delivered
    BY <1>8 DEF OnHalEvent
  <2>2. DOMAIN pushed' = 1 .. Len(pushed) + 1
    <3>1. pushed' = Append(pushed, [by |-> t, value |-> value[t]])
      BY <1>8 DEF OnHalEvent
    <3> QED
      BY <3>1 DEF TypeOK
  <2>3. j \in 1 .. Len(pushed)
    BY <1>2, <1>5, <1>8, <2>2
  <2>4. pushed'[j] = pushed[j]
    BY <1>8, <2>3, SentGrows
  <2> QED
    BY <1>2, <1>4, <2>1, <2>3, <2>4
<1> QED
  BY <1>7, <1>8, ReachGrows

-----------------------------------------------------------------------------
(***************************************************************************)
(* The invariant, and what follows from it.                                *)
(***************************************************************************)

LEMMA InitIInv == Init => IInv
<1> SUFFICES ASSUME Init PROVE IInv
  OBVIOUS
<1>1. TypeOK
  <2>1. NoValue \in PropValues
    BY NoValueIsValue
  <2>2. object \in [Objects -> PropValues] /\ value \in [Threads -> PropValues]
    BY <2>1 DEF Init
  <2>3. slots \in Seq(Copies) /\ Len(slots) = SlotCount
    <3>1. [copy |-> NoValue, ref |-> NoObject] \in Copies
      BY <2>1 DEF Copies
    <3>2. SlotCount \in Nat
      BY Numbers
    <3> QED
      BY <3>1, <3>2 DEF Init
  <2>4. /\ mEventQueue \in Seq(Objects) /\ batch \in Seq(Objects) /\ vec \in Seq(Copies)
        /\ clientValues \in Seq([client : Clients, values : Seq(Objects)])
        /\ pushed \in Seq([by : Threads, value : PropValues])
        /\ mValueTypePools \in [Pools -> Seq(Objects)]
        /\ delivered \in [Clients -> Seq(CallsOfClients)]
    BY DEF Init
  <2>5. from \in [Clients -> [Props -> [events : Nat, calls : Nat]]]
    BY DEF Init
  <2>6. /\ flags \in [Clients -> [Props -> SUBSET {"CAR", "ANDROID"}]]
        /\ home \in [Objects -> {HomeOf(v) : v \in PropValues} \cup {Disposable}]
        /\ pc \in [Threads -> {"idle", "reply", "set", "push"}]
        /\ audience \in [Threads -> SUBSET Clients]
        /\ held \in [Threads -> Objects \cup {NoObject}]
        /\ consumer \in {"waits", "distributes", "calls"}
        /\ calls \in Nat /\ distributed \in Nat
    BY DEF Init
  <2> QED
    BY <2>2, <2>3, <2>4, <2>5, <2>6 DEF TypeOK
<1>2. OneOwner
  <2>1. ToSet(<<>>) = {} /\ IsInjective(<<>>)
    BY ToSetEmpty DEF IsInjective
  <2> QED
    BY <2>1 DEF Init, OneOwner, HoldersHold, WaitingOnce, PooledOnce
<1>3. ObjectsHoldValues
  <2>1. Before = 0
    <3>1. Len(pushed) = 0 /\ Len(batch) = 0 /\ Len(mEventQueue) = 0
      BY DEF Init
    <3> QED
      BY <3>1 DEF Before
  <2> QED
    BY <2>1 DEF Init, ObjectsHoldValues
<1>4. BatchIsHandled
  BY DEF Init, BatchIsHandled
<1>5. SerialsDiffer
  BY DEF Init, SerialsDiffer, Carries
<1>6. SetsAreAnnounced
  BY DEF Init, SetsAreAnnounced, Carries, Threads
<1>7. SetIsAnnouncedFirst
  BY DEF Init, SetIsAnnouncedFirst
<1>8. EventsAreSelected
  <2>1. SUFFICES ASSUME NEW c \in Clients
                 PROVE  Events(c) = Selected(SubSeq(Sent, 1, Reach(c)), ToSet(Events(c)))
    BY DEF EventsAreSelected
  <2>2. delivered[c] = <<>> /\ Reach(c) = 0
    BY DEF Init, Reach
  <2>3. Events(c) = <<>>
    <3>1. EventsOf(<<>>) = <<>>
      BY SelectedEmpty DEF EventsOf
    <3> QED
      BY <1>1, <2>2, <3>1, EventsAreValues
  <2>4. SubSeq(Sent, 1, 0) = <<>>
    BY SubSeqEmpty
  <2> QED
    BY <2>2, <2>3, <2>4, SelectedEmpty
<1>9. EventsAreComplete
  <2>1. \A c \in Clients, p \in Props : from[c][p].events = 0 /\ distributed = 0
    BY DEF Init
  <2> QED
    BY <2>1 DEF EventsAreComplete
<1> QED
  BY <1>1, <1>2, <1>3, <1>4, <1>5, <1>6, <1>7, <1>8, <1>9 DEF IInv

\* The inductive invariant.
THEOREM Invariance == Spec => []IInv
<1>1. Init => IInv
  BY InitIInv
<1>2. IInv /\ [Next]_vars => IInv'
  <2>1. SUFFICES ASSUME IInv, [Next]_vars PROVE IInv'
    OBVIOUS
  <2> QED
    BY <2>1, TypeStep, OneOwnerStep, ObjectsStep, BatchStep, SerialsStep, AnnouncedStep, FirstStep,
       SelectedStep, CompleteStep DEF IInv
<1> QED
  BY <1>1, <1>2, PTL DEF Spec

\* The state is well-formed at every step.
THEOREM TypeCorrect == Spec => []TypeOK
<1>1. IInv => TypeOK
  BY DEF IInv
<1> QED
  BY <1>1, Invariance, PTL

\* An object of the pool is nowhere twice: with one thread, in the queue, in
\* the batch or in the pool that is its home, so that none is filled again
\* while a client may still read it.  VehicleObjectPool.h:80-104, 190-204.
THEOREM ObjectsAreNotShared == Spec => []OneOwner
<1>1. IInv => OneOwner
  BY DEF IInv
<1> QED
  BY <1>1, Invariance, PTL

\* A set is announced before its event, for any number of clients and threads
\* that set, subscribe and unsubscribe meanwhile: VehicleHalManager.cpp:113-115.
THEOREM AnnouncedFirst == Spec => []SetIsAnnouncedFirst
<1>1. IInv => SetIsAnnouncedFirst
  BY DEF IInv
<1> QED
  BY <1>1, Invariance, PTL

\* Selections of what was sent, cut where a client subscribed.
LEMMA EventsOfSubscribed ==
    ASSUME TypeOK, ObjectsHoldValues, BatchIsHandled, EventsAreSelected, EventsAreComplete,
           consumer = "waits", NEW c \in Clients, NEW p \in Props, "CAR" \in flags[c][p]
    PROVE  IsSuffix(OfProp(SubSeq(Sent, from[c][p].events + 1, distributed), p),
                    OfProp(Events(c), p))
<1> DEFINE P == {v \in PropValues : v.prop = p}
<1>1. PICK E \in Seq(PropValues) : E = Events(c)
  BY EventsAreValues
<1>2. PICK s \in Seq(PropValues) :
          /\ s = Sent /\ Len(s) = Len(pushed) /\ Len(pushed) \in Nat
          /\ \A i \in 1 .. Len(pushed) : s[i] = pushed[i].value
  BY SentValues
<1>3. PICK n \in Nat : n = from[c][p].events
  BY DEF TypeOK
<1>4. PICK m \in Nat : m = distributed /\ m <= Len(s) /\ Reach(c) = m
  BY <1>2, ReachIsBounded DEF Reach
<1>a. SubSeq(s, 1, m) \in Seq(PropValues)
  <2>1. \A i \in 1 .. m : s[i] \in PropValues
    <3>1. \A i \in 1 .. m : i \in 1 .. Len(s)
      BY <1>4
    <3> QED
      BY <3>1, ElementOfSeq
  <2> QED
    BY <2>1, SubSeqProperties
<1>5. ASSUME NEW r \in Seq(PropValues) PROVE OfProp(r, p) = Selected(r, P)
  <2> DEFINE R == {v \in ToSet(r) : v.prop = p}
  <2>1. ToSet(r) \cap R = ToSet(r) \cap P
    BY ToSetOfSeq
  <2> HIDE DEF P
  <2>2. OfProp(r, p) = Selected(r, R)
    BY DEF OfProp
  <2> HIDE DEF R
  <2> QED
    BY <2>1, <2>2, SelectedAgrees
<1>6. E = Selected(SubSeq(s, 1, m), ToSet(E))
  BY <1>1, <1>2, <1>4 DEF EventsAreSelected
<1>7. Coming(c) = {}
  <2>1. clientValues = <<>>
    BY DEF BatchIsHandled
  <2> QED
    BY <2>1 DEF Coming
<1>8. \A j \in n + 1 .. m : j \in 1 .. Len(s) /\ (s[j] \in P => s[j] \in ToSet(E))
  <2>1. \A j \in n + 1 .. m : j \in 1 .. Len(s)
    BY <1>4
  <2>2. \A j \in n + 1 .. m : pushed[j].value.prop = p => pushed[j].value \in ToSet(E)
    BY <1>1, <1>3, <1>4, <1>7 DEF EventsAreComplete
  <2> QED
    BY <1>2, <2>1, <2>2
<1>9. PICK V \in Seq(PropValues) : V = SubSeq(s, n + 1, m) /\ ToSet(V) \cap P \subseteq ToSet(E)
  <2>1. \A j \in n + 1 .. m : s[j] \in PropValues
    BY <1>8, ElementOfSeq
  <2>a. PICK V : V = SubSeq(s, n + 1, m)
    OBVIOUS
  <2>2. /\ V \in Seq(PropValues)
        /\ Len(V) = IF n + 1 <= m THEN m - (n + 1) + 1 ELSE 0
        /\ \A i \in 1 .. m - (n + 1) + 1 : V[i] = s[(n + 1) + i - 1]
    BY <2>1, <2>a, SubSeqProperties
  <2>3. ASSUME NEW i \in 1 .. Len(V) PROVE V[i] \in P => V[i] \in ToSet(E)
    <3>1. i \in 1 .. m - (n + 1) + 1 /\ (n + 1) + i - 1 \in n + 1 .. m
      BY <2>2
    <3> QED
      BY <1>8, <2>2, <3>1
  <2>4. \A x \in ToSet(V) : \E i \in 1 .. Len(V) : x = V[i]
    <3>1. DOMAIN V = 1 .. Len(V)
      BY <2>2
    <3> QED
      BY <3>1 DEF ToSet
  <2> HIDE DEF P
  <2>5. ToSet(V) \cap P \subseteq ToSet(E)
    BY <2>3, <2>4
  <2> QED
    BY <2>a, <2>2, <2>5
<1> HIDE DEF P
<1>10. Selected(V, ToSet(E) \cap P) = Selected(V, P)
  <2>1. ToSet(V) \cap (ToSet(E) \cap P) = ToSet(V) \cap P
    BY <1>9
  <2> QED
    BY <2>1, SelectedAgrees
<1>11. PICK U \in Seq(PropValues) :
           Selected(SubSeq(s, 1, m), ToSet(E) \cap P) = U \o Selected(V, ToSet(E) \cap P)
  <2>1. CASE n <= m
    <3>1. PICK Z : Z = ToSet(E) \cap P
      OBVIOUS
    <3>2. /\ Selected(SubSeq(s, 1, n), Z) \in Seq(PropValues)
          /\ Selected(SubSeq(s, 1, m), Z) =
                 Selected(SubSeq(s, 1, n), Z) \o Selected(SubSeq(s, n + 1, m), Z)
      BY <1>4, <2>1, SelectionIsCut
    <3> QED
      BY <1>9, <3>1, <3>2
  <2>2. CASE ~(n <= m)
    <3>1. V = <<>>
      BY <1>9, <2>2, SubSeqEmpty
    <3>2. PICK A \in Seq(PropValues) : A = SubSeq(s, 1, m)
      BY <1>a
    <3>3. PICK U \in Seq(PropValues) : U = Selected(A, ToSet(E) \cap P)
      BY SelectedElements
    <3>4. U \o <<>> = U
      BY ConcatEmptySeq
    <3> QED
      BY <3>1, <3>2, <3>3, <3>4, SelectedEmpty
  <2> QED
    BY <2>1, <2>2
<1>12. Selected(E, P) = Selected(SubSeq(s, 1, m), ToSet(E) \cap P)
  <2>1. PICK A \in Seq(PropValues) : A = SubSeq(s, 1, m)
    BY <1>a
  <2>2. Selected(Selected(A, ToSet(E)), P) = Selected(A, ToSet(E) \cap P)
    BY SelectedTwice
  <2> QED
    BY <1>6, <2>1, <2>2
<1>13. PICK Q \in Seq(PropValues) : Q = Selected(V, P)
  BY SelectedElements
<1>14. Selected(E, P) = U \o Q
  BY <1>10, <1>11, <1>12, <1>13
<1>15. IsSuffix(Q, U \o Q)
  BY SuffixOfConcat
<1> QED
  BY <1>1, <1>2, <1>3, <1>4, <1>5, <1>9, <1>13, <1>14, <1>15

\* Clients get what the HAL pushed, in its order, unchanged and once; and, of
\* the properties they subscribe to, all of it: VehicleHalManager.cpp:226-252,
\* VehicleObjectPool.cpp:37-54, VehicleObjectPool.h:80-104.
THEOREM Fidelity == Spec => []DeliveredAsSent
<1>1. IInv => DeliveredAsSent
  <2>1. SUFFICES ASSUME IInv, NEW c \in Clients
                 PROVE  /\ Events(c) = Selected(Sent, ToSet(Events(c)))
                        /\ consumer = "waits" =>
                              \A p \in Props :
                                  "CAR" \in flags[c][p] =>
                                      IsSuffix(OfProp(SubSeq(Sent, from[c][p].events + 1, distributed), p),
                                               OfProp(Events(c), p))
    BY DEF DeliveredAsSent
  <2>2. /\ TypeOK /\ ObjectsHoldValues /\ BatchIsHandled /\ SerialsDiffer
        /\ EventsAreSelected /\ EventsAreComplete
    BY <2>1 DEF IInv
  <2>3. PICK s \in Seq(PropValues) : s = Sent /\ Len(s) = Len(pushed) /\ IsInjective(s)
    BY <2>2, SentValues
  <2>4. PICK n \in Nat : n = Reach(c) /\ n <= Len(s)
    <3>1. Reach(c) \in Nat /\ Reach(c) <= distributed /\ distributed <= Len(pushed)
          /\ distributed \in Nat /\ Len(pushed) \in Nat
      BY <2>2, ReachIsBounded, SentValues
    <3> QED
      BY <2>3, <3>1
  <2>5. ToSet(Events(c)) \subseteq ToSet(SubSeq(s, 1, n))
    BY <2>2, <2>3, <2>4, EventsWereSent
  <2>6. Selected(SubSeq(s, 1, Len(s)), ToSet(Events(c))) = Selected(SubSeq(s, 1, n), ToSet(Events(c)))
    <3>1. Len(s) \in Nat
      OBVIOUS
    <3>2. PICK E : E = ToSet(Events(c))
      OBVIOUS
    <3> QED
      BY <2>3, <2>4, <2>5, <3>1, <3>2, LongerSelection
  <2>7. SubSeq(s, 1, Len(s)) = s
    BY SubSeqOfAll
  <2>8. Events(c) = Selected(SubSeq(s, 1, n), ToSet(Events(c)))
    BY <2>2, <2>3, <2>4 DEF EventsAreSelected
  <2> QED
    BY <2>2, <2>3, <2>6, <2>7, <2>8, EventsOfSubscribed
<1> QED
  BY <1>1, Invariance, PTL

=============================================================================
