--------------------- MODULE SubscriptionManagerProofs ---------------------
(***************************************************************************)
(* Proofs about SubscribeOptions and SubscriptionManager, for every set of *)
(* threads, clients, properties, configurations and option lists.          *)
(***************************************************************************)
EXTENDS SubscriptionManager, SequenceTheorems, TLAPS

-----------------------------------------------------------------------------
(***************************************************************************)
(* The pure functions.                                                     *)
(***************************************************************************)

\* mergeSubscribeOptions yields options again.
LEMMA MergeType ==
    ASSUME NEW a \in Options, NEW b \in Options
    PROVE  Merge(a, b) \in Options
BY DEF Merge, Options, MaxRate

\* mergeSubscribeOptions never loses rate or flags of either argument and
\* invents neither.
THEOREM MergeCovers ==
    ASSUME NEW a \in Options, NEW b \in Options
    PROVE  /\ Merge(a, b).rate >= a.rate
           /\ Merge(a, b).rate >= b.rate
           /\ Merge(a, b).rate \in {a.rate, b.rate}
           /\ Merge(a, b).flags = a.flags \cup b.flags
BY DEF Merge, Options, MaxRate

\* mergeSubscribeOptions returns false only if the old options already cover
\* the new ones.
THEOREM NoUpdateCovers ==
    ASSUME NEW a \in Options, NEW b \in Options, ~MergeUpdates(a, b)
    PROVE  Merge(a, b) = a
<1>1. Merge(a, b).rate = a.rate
  BY DEF Merge, MergeUpdates, Options, MaxRate
<1>2. Merge(a, b).flags = a.flags
  BY DEF Merge, MergeUpdates
<1> QED
  BY <1>1, <1>2 DEF Merge, Options

\* checkSampleRate returns a rate of the configured interval for a property
\* that is not ON_CHANGE, and 0 for one that is.
THEOREM CheckSampleRateBounds ==
    ASSUME NEW config \in PropConfigs, NEW rate \in Nat,
           config.minRate <= config.maxRate
    PROVE  IF IsSampleRateFixed(config)
           THEN CheckSampleRate(config, rate) = 0
           ELSE CheckSampleRate(config, rate) \in config.minRate .. config.maxRate
BY DEF CheckSampleRate, PropConfigs, IsSampleRateFixed

\* Whatever the interval, checkSampleRate returns a rate.
LEMMA CheckSampleRateType ==
    ASSUME NEW config \in PropConfigs, NEW rate \in Nat
    PROVE  CheckSampleRate(config, rate) \in Nat
BY DEF CheckSampleRate, PropConfigs

\* The options VehicleHalManager::subscribe hands on are entries with flags.
LEMMA VerifiedType ==
    ASSUME NEW list \in OptionLists, Accepted(list)
    PROVE  /\ Verified(list) \in Seq(ListEntries)
           /\ \A i \in DOMAIN Verified(list) : Verified(list)[i].flags # {}
<1>1. list \in Seq(ListEntries)
  BY OptionListsAssumption
<1>2. DOMAIN list = 1..Len(list) /\ Len(list) \in Nat
  BY <1>1
<1>3. ASSUME NEW i \in DOMAIN list
      PROVE  Verified(list)[i] \in ListEntries /\ Verified(list)[i].flags # {}
  <2>1. list[i] \in ListEntries
    BY <1>1
  <2>2. Config[list[i].prop] \in PropConfigs
    BY ConfigAssumption DEF Accepted
  <2>3. CheckSampleRate(Config[list[i].prop], list[i].rate) \in Nat
    BY <2>1, <2>2, CheckSampleRateType DEF ListEntries
  <2>4. list[i].flags # {}
    BY DEF Accepted
  <2> QED
    BY <2>1, <2>3, <2>4 DEF ListEntries, Verified
<1>4. Verified(list) \in [1..Len(list) -> ListEntries]
  BY <1>2, <1>3 DEF Verified
<1>5. Verified(list) \in Seq(ListEntries)
  BY <1>2, <1>4, IsASeq
<1> QED
  BY <1>3, <1>5 DEF Verified

USE DEF AddUpdate, Unlock, ClientsLeft, DropsClient, NoClientLeft,
        SubscribedProperties

-----------------------------------------------------------------------------
(***************************************************************************)
(* The inductive invariant.                                                *)
(***************************************************************************)

\* The entry a thread is about to add, and the rest of its list.
LEMMA TodoHead ==
    ASSUME TypeOK, ThreadInv, NEW t \in Threads, todo[t] # <<>>
    PROVE  /\ Head(todo[t]) \in ListEntries
           /\ Head(todo[t]).flags # {}
           /\ Tail(todo[t]) \in Seq(ListEntries)
           /\ \A i \in DOMAIN Tail(todo[t]) : Tail(todo[t])[i].flags # {}
<1>1. todo[t] \in Seq(ListEntries)
  BY DEF TypeOK
<1>2. /\ Head(todo[t]) \in ListEntries
      /\ Tail(todo[t]) \in Seq(ListEntries)
      /\ Len(todo[t]) \in Nat \ {0}
  BY <1>1, HeadTailProperties, LenProperties, EmptySeq
<1>3. Head(todo[t]) = todo[t][1] /\ 1 \in DOMAIN todo[t]
  BY <1>1, <1>2
<1>4. ASSUME NEW i \in DOMAIN Tail(todo[t])
      PROVE  Tail(todo[t])[i] = todo[t][i+1] /\ i+1 \in DOMAIN todo[t]
  BY <1>1, <1>2
<1> QED
  BY <1>2, <1>3, <1>4 DEF ThreadInv

\* A list that has more than one entry does not run empty.
LEMMA TailNotEmpty ==
    ASSUME NEW S, NEW s \in Seq(S), s # <<>>, Len(s) # 1
    PROVE  Tail(s) # <<>>
<1>1. Tail(s) \in Seq(S) /\ Len(Tail(s)) = Len(s) - 1
  BY HeadTailProperties
<1>2. Len(s) \in Nat
  BY LenProperties
<1>3. Len(Tail(s)) # 0
  BY <1>1, <1>2
<1> QED
  BY <1>1, <1>3, EmptySeq

\* A map of maps with one entry replaced.
LEMMA NestedExcept ==
    ASSUME NEW C, NEW P, NEW V, NEW f \in [C -> [P -> V]],
           NEW c \in C, NEW p \in P, NEW v \in V
    PROVE  [f EXCEPT ![c][p] = v] \in [C -> [P -> V]]
OBVIOUS

LEMMA NestedValue ==
    ASSUME NEW C, NEW P, NEW V, NEW f \in [C -> [P -> V]],
           NEW c \in C, NEW p \in P, NEW v \in V,
           NEW g, g = [f EXCEPT ![c][p] = v]
    PROVE  /\ g[c][p] = v
           /\ \A d \in C, q \in P : d # c \/ q # p => g[d][q] = f[d][q]
OBVIOUS

\* Entering one option keeps the types of the maps and of the update list.
AddTypes(t, c, p, opts) ==
    /\ c \in Clients /\ p \in Props /\ opts \in Options
    /\ opts.flags # {}
    /\ AddToHalClient(c, p, opts)
    /\ mSubscriptions' \in [Clients -> [Props -> Options]]
    /\ asked' \in [Clients -> [Props -> Options]]
    /\ mHalEventSubscribeOptions' \in [Props -> Options]
    /\ updated' \in [Threads -> Seq(UpdateEntries)]

LEMMA AddOptionTypes ==
    ASSUME TypeOK, ThreadInv, NEW t \in Threads, AddOption(t)
    PROVE  AddTypes(t, caller[t], Head(todo[t]).prop, OptionsOf(Head(todo[t])))
<1> DEFINE c == caller[t]
           p == Head(todo[t]).prop
           opts == OptionsOf(Head(todo[t]))
<1>1. /\ Head(todo[t]) \in ListEntries
      /\ Head(todo[t]).flags # {}
  BY TodoHead DEF AddOption
<1>2. c \in Clients /\ p \in Props /\ opts \in Options /\ opts.flags # {}
  BY <1>1 DEF ListEntries, OptionsOf, Options, TypeOK
<1>3. /\ Merge(mSubscriptions[c][p], opts) \in Options
      /\ Merge(mHalEventSubscribeOptions[p], opts) \in Options
      /\ Merge(asked[c][p], opts) \in Options
  BY <1>2, MergeType DEF TypeOK
<1>4. AddToHalClient(c, p, opts)
  BY DEF AddOption
<1>5. mSubscriptions' \in [Clients -> [Props -> Options]]
  <2> DEFINE m == Merge(mSubscriptions[c][p], opts)
  <2>1. mSubscriptions' = [mSubscriptions EXCEPT ![c][p] = m]
    BY <1>4 DEF AddToHalClient
  <2>2. m \in Options
    BY <1>3
  <2> HIDE DEF m
  <2> QED
    BY <2>1, <2>2, <1>2 DEF TypeOK
<1>6. asked' \in [Clients -> [Props -> Options]]
  <2> DEFINE m == Merge(asked[c][p], opts)
  <2>1. asked' = [asked EXCEPT ![c][p] = m] \/ asked' = asked
    BY DEF AddOption
  <2>2. m \in Options
    BY <1>3
  <2>3. asked \in [Clients -> [Props -> Options]]
    BY DEF TypeOK
  <2> HIDE DEF m
  <2>4. [asked EXCEPT ![c][p] = m] \in [Clients -> [Props -> Options]]
    BY <2>2, <2>3, <1>2, NestedExcept
  <2> QED
    BY <2>1, <2>3, <2>4
<1>7. /\ mHalEventSubscribeOptions' \in [Props -> Options]
      /\ updated' \in [Threads -> Seq(UpdateEntries)]
  <2> DEFINE new == Merge(mHalEventSubscribeOptions[p], opts)
             entry == [prop |-> p, rate |-> new.rate]
  <2>1. entry \in UpdateEntries
    BY <1>2, <1>3 DEF UpdateEntries, Options
  <2>2. Append(updated[t], entry) \in Seq(UpdateEntries)
    BY <2>1, AppendProperties DEF TypeOK
  <2>3. CASE "CAR" \in opts.flags
    <3>1. UpdateHalEventSubscription(t, p, opts)
      BY <2>3 DEF AddOption
    <3> QED
      BY <3>1, <2>2, <1>2, <1>3 DEF UpdateHalEventSubscription, TypeOK
  <2>4. CASE "CAR" \notin opts.flags
    BY <2>4 DEF AddOption, TypeOK
  <2> QED
    BY <2>3, <2>4
<1> QED
  BY <1>2, <1>4, <1>5, <1>6, <1>7 DEF AddTypes

\* The maps keep their types when a property is unsubscribed.
LEMMA UnsubscribeTypes ==
    ASSUME TypeOK, NEW c \in Clients, NEW p \in Props, UnsubscribeLocked(c, p)
    PROVE  /\ mPropToClients' \in [Props -> SUBSET Clients]
           /\ mClients' \in SUBSET Clients
           /\ mSubscriptions' \in [Clients -> [Props -> Options]]
           /\ mHalEventSubscribeOptions' \in [Props -> Options]
           /\ halRate' \in [Props -> Nat \cup {NotRegistered}]
           /\ asked' \in [Clients -> [Props -> Options]]
<1>1. NoOptions \in Options
  BY DEF NoOptions, Options
<1>2. [q \in Props |-> NoOptions] \in [Props -> Options]
  BY <1>1
<1>3. asked' \in [Clients -> [Props -> Options]]
  BY <1>1 DEF UnsubscribeLocked, TypeOK
<1>4. /\ mClients' \in SUBSET Clients
      /\ mSubscriptions' \in [Clients -> [Props -> Options]]
  BY <1>2 DEF UnsubscribeLocked, TypeOK
<1>5. /\ mHalEventSubscribeOptions' \in [Props -> Options]
      /\ halRate' \in [Props -> Nat \cup {NotRegistered}]
  BY <1>1 DEF UnsubscribeLocked, TypeOK
<1> QED
  BY <1>3, <1>4, <1>5 DEF UnsubscribeLocked, TypeOK

LEMMA TypeStep ==
    ASSUME TypeOK, ThreadInv, [Next]_vars
    PROVE  TypeOK'
<1>1. ASSUME NEW t \in Threads, NEW c \in Clients, NEW list \in OptionLists,
             Subscribe(t, c, list)
      PROVE  TypeOK'
  <2>1. Verified(list) \in Seq(ListEntries)
    BY <1>1, VerifiedType DEF Subscribe
  <2> QED
    BY <1>1, <2>1 DEF Subscribe, managerVars, TypeOK
<1>2. ASSUME NEW t \in Threads, NEW c \in Clients, NEW p \in Props,
             Unsubscribe(t, c, p)
      PROVE  TypeOK'
  BY <1>2 DEF Unsubscribe, managerVars, TypeOK
<1>3. ASSUME NEW t \in Threads, GetOrCreateHalClient(t)
      PROVE  TypeOK'
  <2>1. <<>> \in Seq(ListEntries)
    BY EmptySeq
  <2>2. todo' = todo \/ todo' = [todo EXCEPT ![t] = <<>>]
    BY <1>3 DEF GetOrCreateHalClient
  <2>3. todo' \in [Threads -> Seq(ListEntries)]
    BY <2>1, <2>2 DEF TypeOK
  <2>4. /\ mClients' \in SUBSET Clients
        /\ mLock' \in Threads \cup {NoThread}
        /\ pc' \in [Threads -> {"idle", "subscribe", "options", "hal",
                                "unsubscribe", "dead", "sweep"}]
    <3>1. CASE /\ mClients' = mClients \cup {caller[t]}
               /\ mLock' = t
               /\ pc' = [pc EXCEPT ![t] = "options"]
      BY <3>1 DEF TypeOK
    <3>2. CASE /\ UNCHANGED <<mClients, mLock>>
               /\ pc' = [pc EXCEPT ![t] = "idle"]
      BY <3>2 DEF TypeOK
    <3> QED
      BY <1>3, <3>1, <3>2 DEF GetOrCreateHalClient
  <2>5. UNCHANGED <<caller, updated, doomed, mSubscriptions, mPropToClients,
                    mHalEventSubscribeOptions, halRate, death, asked, late>>
    BY <1>3 DEF GetOrCreateHalClient
  <2> QED
    BY <2>3, <2>4, <2>5 DEF TypeOK
<1>4. ASSUME NEW t \in Threads, AddOption(t)
      PROVE  TypeOK'
  <2>1. /\ caller[t] \in Clients
        /\ Head(todo[t]).prop \in Props
        /\ mSubscriptions' \in [Clients -> [Props -> Options]]
        /\ asked' \in [Clients -> [Props -> Options]]
        /\ mHalEventSubscribeOptions' \in [Props -> Options]
        /\ updated' \in [Threads -> Seq(UpdateEntries)]
    BY <1>4, AddOptionTypes DEF AddTypes
  <2>2. /\ mPropToClients' \in [Props -> SUBSET Clients]
        /\ late' \in SUBSET Clients
    BY <1>4, <2>1 DEF AddOption, TypeOK
  <2>3. todo' \in [Threads -> Seq(ListEntries)]
    BY <1>4, TodoHead DEF AddOption, TypeOK
  <2> QED
    BY <1>4, <2>1, <2>2, <2>3 DEF AddOption, TypeOK
<1>5. ASSUME NEW t \in Threads, ReleaseLock(t)
      PROVE  TypeOK'
  BY <1>5 DEF ReleaseLock, TypeOK
<1>6. ASSUME NEW t \in Threads, HalSubscribe(t)
      PROVE  TypeOK'
  <2>1. updated[t] # <<>>
    BY <1>6 DEF HalSubscribe, ThreadInv
  <2>2. /\ Head(updated[t]) \in UpdateEntries
        /\ Tail(updated[t]) \in Seq(UpdateEntries)
    BY <2>1, HeadTailProperties DEF TypeOK
  <2> QED
    BY <1>6, <2>2 DEF HalSubscribe, UpdateEntries, managerVars, TypeOK
<1>7. ASSUME NEW t \in Threads, UnsubscribeOne(t)
      PROVE  TypeOK'
  <2>1. PICK p \in doomed[t] : UnsubscribeLocked(caller[t], p)
    BY <1>7 DEF UnsubscribeOne
  <2>2. caller[t] \in Clients /\ p \in Props
    BY DEF TypeOK
  <2>3. /\ mPropToClients' \in [Props -> SUBSET Clients]
        /\ mClients' \in SUBSET Clients
        /\ mSubscriptions' \in [Clients -> [Props -> Options]]
        /\ mHalEventSubscribeOptions' \in [Props -> Options]
        /\ halRate' \in [Props -> Nat \cup {NotRegistered}]
        /\ asked' \in [Clients -> [Props -> Options]]
    BY <2>1, <2>2, UnsubscribeTypes
  <2>4. UNCHANGED <<mLock, death, late>>
    BY <2>1 DEF UnsubscribeLocked
  <2>5. /\ pc' \in [Threads -> {"idle", "subscribe", "options", "hal",
                                "unsubscribe", "dead", "sweep"}]
        /\ doomed' \in [Threads -> SUBSET Props]
        /\ UNCHANGED <<caller, todo, updated>>
    BY <1>7 DEF UnsubscribeOne, TypeOK
  <2> QED
    BY <2>3, <2>4, <2>5 DEF TypeOK
<1>8. ASSUME NEW t \in Threads, OnCallbackDead(t)
      PROVE  TypeOK'
  BY <1>8 DEF OnCallbackDead, managerVars, Obituary, TypeOK
<1>9. ASSUME NEW c \in Clients, ClientDies(c)
      PROVE  TypeOK'
  BY <1>9 DEF ClientDies, threadVars, managerVars, Obituary, TypeOK
<1>10. ASSUME NEW t \in Threads, NEW c \in Clients, ServiceDied(t, c)
       PROVE  TypeOK'
  BY <1>10 DEF ServiceDied, managerVars, Obituary, TypeOK
<1>11. CASE UNCHANGED vars
  BY <1>11 DEF vars, threadVars, managerVars, TypeOK
<1> QED
  BY <1>1, <1>2, <1>3, <1>4, <1>5, <1>6, <1>7, <1>8, <1>9, <1>10, <1>11
  DEF Next, StartCall, Continue, DeathNotice

LEMMA ThreadStep ==
    ASSUME TypeOK, ThreadInv, [Next]_vars
    PROVE  ThreadInv'
<1> USE NoThreadAssumption
<1>1. ASSUME NEW t \in Threads, NEW c \in Clients, NEW list \in OptionLists,
             Subscribe(t, c, list)
      PROVE  ThreadInv'
  <2>1. \A i \in DOMAIN Verified(list) : Verified(list)[i].flags # {}
    BY <1>1, VerifiedType DEF Subscribe
  <2> QED
    BY <1>1, <2>1 DEF Subscribe, managerVars, TypeOK, ThreadInv
<1>2. ASSUME NEW t \in Threads, NEW c \in Clients, NEW p \in Props,
             Unsubscribe(t, c, p)
      PROVE  ThreadInv'
  BY <1>2 DEF Unsubscribe, managerVars, TypeOK, ThreadInv
<1>3. ASSUME NEW t \in Threads, GetOrCreateHalClient(t)
      PROVE  ThreadInv'
  <2>1. CASE /\ mClients' = mClients \cup {caller[t]}
             /\ mLock' = t
             /\ pc' = [pc EXCEPT ![t] = "options"]
             /\ UNCHANGED todo
    BY <1>3, <2>1 DEF GetOrCreateHalClient, TypeOK, ThreadInv
  <2>2. CASE /\ UNCHANGED <<mClients, mLock>>
             /\ pc' = [pc EXCEPT ![t] = "idle"]
             /\ todo' = [todo EXCEPT ![t] = <<>>]
    <3>1. \A u \in Threads : \A i \in DOMAIN todo'[u] : todo'[u][i].flags # {}
      BY <2>2 DEF TypeOK, ThreadInv
    <3> QED
      BY <1>3, <2>2, <3>1 DEF GetOrCreateHalClient, TypeOK, ThreadInv
  <2> QED
    BY <1>3, <2>1, <2>2 DEF GetOrCreateHalClient
<1>4. ASSUME NEW t \in Threads, AddOption(t)
      PROVE  ThreadInv'
  <2>1. /\ UNCHANGED <<pc, caller, mLock, mClients>>
        /\ todo' = [todo EXCEPT ![t] = Tail(todo[t])]
    BY <1>4 DEF AddOption
  <2>2. \A i \in DOMAIN todo'[t] : todo'[t][i].flags # {}
    <3>1. todo'[t] = Tail(todo[t]) /\ todo[t] # <<>>
      BY <1>4, <2>1 DEF TypeOK, AddOption
    <3>2. \A i \in DOMAIN Tail(todo[t]) : Tail(todo[t])[i].flags # {}
      BY <3>1, TodoHead
    <3> QED
      BY <3>1, <3>2
  <2>3. \A u \in Threads \ {t} : updated'[u] = updated[u]
    BY <1>4 DEF AddOption, UpdateHalEventSubscription, TypeOK
  <2>4. pc[t] = "options"
    BY <1>4 DEF AddOption
  <2>5. \A u \in Threads : \A i \in DOMAIN todo'[u] : todo'[u][i].flags # {}
    <3>1. \A u \in Threads \ {t} : todo'[u] = todo[u]
      BY <2>1 DEF TypeOK
    <3> QED
      BY <2>2, <3>1 DEF ThreadInv
  <2>6. \A u \in Threads : pc[u] = "hal" => updated'[u] # <<>>
    BY <2>3, <2>4 DEF ThreadInv
  <2> QED
    BY <2>1, <2>5, <2>6 DEF ThreadInv
<1>5. ASSUME NEW t \in Threads, ReleaseLock(t)
      PROVE  ThreadInv'
  BY <1>5 DEF ReleaseLock, TypeOK, ThreadInv
<1>6. ASSUME NEW t \in Threads, HalSubscribe(t)
      PROVE  ThreadInv'
  <2>1. pc'[t] = "hal" => updated'[t] # <<>>
    <3>1. updated[t] \in Seq(UpdateEntries) /\ updated[t] # <<>>
      BY <1>6 DEF HalSubscribe, ThreadInv, TypeOK
    <3>2. Len(updated[t]) # 1 => Tail(updated[t]) # <<>>
      BY <3>1, TailNotEmpty
    <3>3. /\ updated' = [updated EXCEPT ![t] = Tail(@)]
          /\ pc' = [pc EXCEPT ![t] =
                        IF Len(updated[t]) = 1 THEN "idle" ELSE "hal"]
      BY <1>6 DEF HalSubscribe
    <3>4. /\ updated'[t] = Tail(updated[t])
          /\ pc'[t] = "hal" => Len(updated[t]) # 1
      BY <3>3 DEF TypeOK
    <3> QED
      BY <3>2, <3>4
  <2>2. /\ UNCHANGED <<caller, todo, mLock, mClients>>
        /\ \A u \in Threads \ {t} : pc'[u] = pc[u] /\ updated'[u] = updated[u]
        /\ pc'[t] \in {"idle", "hal"}
        /\ pc[t] = "hal"
    BY <1>6 DEF HalSubscribe, managerVars, TypeOK
  <2> QED
    BY <2>1, <2>2 DEF ThreadInv, TypeOK
<1>7. ASSUME NEW t \in Threads, UnsubscribeOne(t)
      PROVE  ThreadInv'
  <2>1. /\ mLock = NoThread
        /\ UNCHANGED <<mLock, caller, todo, updated>>
        /\ pc[t] \in {"unsubscribe", "sweep"}
        /\ pc'[t] \in {"idle", "unsubscribe", "sweep"}
        /\ \A u \in Threads \ {t} : pc'[u] = pc[u]
    BY <1>7 DEF UnsubscribeOne, UnsubscribeLocked, TypeOK
  <2>2. \A u \in Threads : pc[u] # "options"
    BY <2>1 DEF ThreadInv
  <2> QED
    BY <2>1, <2>2 DEF ThreadInv, TypeOK
<1>8. ASSUME NEW t \in Threads, OnCallbackDead(t)
      PROVE  ThreadInv'
  BY <1>8 DEF OnCallbackDead, managerVars, TypeOK, ThreadInv
<1>9. ASSUME NEW c \in Clients, ClientDies(c)
      PROVE  ThreadInv'
  BY <1>9 DEF ClientDies, threadVars, managerVars, ThreadInv
<1>10. ASSUME NEW t \in Threads, NEW c \in Clients, ServiceDied(t, c)
       PROVE  ThreadInv'
  BY <1>10 DEF ServiceDied, managerVars, TypeOK, ThreadInv
<1>11. CASE UNCHANGED vars
  BY <1>11 DEF vars, threadVars, managerVars, ThreadInv
<1> QED
  BY <1>1, <1>2, <1>3, <1>4, <1>5, <1>6, <1>7, <1>8, <1>9, <1>10, <1>11
  DEF Next, StartCall, Continue, DeathNotice

-----------------------------------------------------------------------------
(***************************************************************************)
(* The effect of the two operations on the maps of the manager.            *)
(***************************************************************************)

\* Only three kinds of step change the maps.
LEMMA ManagerSteps ==
    ASSUME TypeOK, [Next]_vars
    PROVE  \/ /\ UNCHANGED <<mSubscriptions, mPropToClients,
                             mHalEventSubscribeOptions, asked>>
              /\ mClients \subseteq mClients'
           \/ \E t \in Threads : AddOption(t)
           \/ \E t \in Threads : \E p \in doomed[t] :
                 UnsubscribeLocked(caller[t], p)
<1> DEFINE Same == /\ UNCHANGED <<mSubscriptions, mPropToClients,
                                  mHalEventSubscribeOptions, asked>>
                   /\ mClients \subseteq mClients'
<1>1. ASSUME NEW t \in Threads, StartCall(t) PROVE Same
  BY <1>1 DEF StartCall, Subscribe, Unsubscribe, managerVars
<1>2. ASSUME NEW t \in Threads, GetOrCreateHalClient(t) PROVE Same
  BY <1>2 DEF GetOrCreateHalClient
<1>3. ASSUME NEW t \in Threads,
             ReleaseLock(t) \/ HalSubscribe(t) \/ OnCallbackDead(t)
      PROVE  Same
  BY <1>3 DEF ReleaseLock, HalSubscribe, OnCallbackDead, managerVars
<1>4. ASSUME NEW c \in Clients, ClientDies(c) \/ DeathNotice(c) PROVE Same
  BY <1>4 DEF ClientDies, DeathNotice, ServiceDied, managerVars
<1>5. CASE UNCHANGED vars
  BY <1>5 DEF vars, managerVars
<1>6. ASSUME NEW t \in Threads, UnsubscribeOne(t)
      PROVE  \E p \in doomed[t] : UnsubscribeLocked(caller[t], p)
  BY <1>6 DEF UnsubscribeOne
<1> QED
  BY <1>1, <1>2, <1>3, <1>4, <1>5, <1>6 DEF Next, Continue

\* Entering an option lists the client and merges the option into its own
\* and, for the CAR flag, into the HAL's options.
AddEffect(c, p, opts) ==
    /\ c \in Clients /\ p \in Props /\ opts \in Options
    /\ mSubscriptions'[c][p].flags # {}
    /\ \A d \in Clients, q \in Props :
         d # c \/ q # p => mSubscriptions'[d][q] = mSubscriptions[d][q]
    /\ mPropToClients'[p] = mPropToClients[p] \cup {c}
    /\ \A q \in Props \ {p} :
         /\ mPropToClients'[q] = mPropToClients[q]
         /\ mHalEventSubscribeOptions'[q] = mHalEventSubscribeOptions[q]
    /\ mHalEventSubscribeOptions[p].rate <=
             mHalEventSubscribeOptions'[p].rate
    /\ mHalEventSubscribeOptions[p].flags \subseteq
             mHalEventSubscribeOptions'[p].flags
    /\ \A d \in Clients, q \in Props :
         d # c \/ q # p => asked'[d][q] = asked[d][q]
    /\ \/ asked'[c][p] = asked[c][p]
       \/ /\ asked'[c][p] = Merge(asked[c][p], opts)
          /\ "CAR" \in mHalEventSubscribeOptions'[p].flags
          /\ opts.rate <= mHalEventSubscribeOptions'[p].rate
    /\ c \in mClients

LEMMA AddOptionEffect ==
    ASSUME TypeOK, ThreadInv, NEW t \in Threads, AddOption(t)
    PROVE  AddEffect(caller[t], Head(todo[t]).prop, OptionsOf(Head(todo[t])))
<1> DEFINE c == caller[t]
           p == Head(todo[t]).prop
           opts == OptionsOf(Head(todo[t]))
<1>1. /\ c \in Clients /\ p \in Props /\ opts \in Options
      /\ opts.flags # {}
      /\ AddToHalClient(c, p, opts)
  BY AddOptionTypes DEF AddTypes
<1>2. /\ mSubscriptions[c][p] \in Options
      /\ asked[c][p] \in Options
      /\ mHalEventSubscribeOptions[p] \in Options
      /\ mSubscriptions \in [Clients -> [Props -> Options]]
      /\ asked \in [Clients -> [Props -> Options]]
      /\ mHalEventSubscribeOptions \in [Props -> Options]
      /\ mPropToClients \in [Props -> SUBSET Clients]
  BY <1>1 DEF TypeOK
<1> DEFINE m == Merge(mSubscriptions[c][p], opts)
           a == Merge(asked[c][p], opts)
           h == Merge(mHalEventSubscribeOptions[p], opts)
<1>3. /\ m \in Options /\ m.flags # {}
      /\ a \in Options
      /\ h \in Options
      /\ h.rate >= mHalEventSubscribeOptions[p].rate
      /\ h.rate >= opts.rate
      /\ h.flags = mHalEventSubscribeOptions[p].flags \cup opts.flags
  <2>1. m \in Options /\ m.flags = mSubscriptions[c][p].flags \cup opts.flags
    BY <1>1, <1>2, MergeType, MergeCovers
  <2>2. a \in Options
    BY <1>1, <1>2, MergeType
  <2>3. /\ h \in Options
        /\ h.rate >= mHalEventSubscribeOptions[p].rate
        /\ h.rate >= opts.rate
        /\ h.flags = mHalEventSubscribeOptions[p].flags \cup opts.flags
    BY <1>1, <1>2, MergeType, MergeCovers
  <2>4. m.flags # {}
    BY <2>1, <1>1
  <2> QED
    BY <2>1, <2>2, <2>3, <2>4
<1>4. /\ mSubscriptions' = [mSubscriptions EXCEPT ![c][p] = m]
      /\ mPropToClients' = [mPropToClients EXCEPT ![p] = @ \cup {c}]
  BY <1>1 DEF AddToHalClient, AddOption
<1>5. \/ /\ asked' = asked
         /\ mHalEventSubscribeOptions' = mHalEventSubscribeOptions
      \/ /\ "CAR" \in opts.flags
         /\ asked' = [asked EXCEPT ![c][p] = a]
         /\ \/ mHalEventSubscribeOptions' =
                    [mHalEventSubscribeOptions EXCEPT ![p] = h]
            \/ /\ mHalEventSubscribeOptions' = mHalEventSubscribeOptions
               /\ ~MergeUpdates(mHalEventSubscribeOptions[p], opts)
  <2>1. CASE "CAR" \in opts.flags
    <3>1. /\ UpdateHalEventSubscription(t, p, opts)
          /\ asked' = [asked EXCEPT ![c][p] = a]
      BY <2>1 DEF AddOption
    <3> QED
      BY <2>1, <3>1 DEF UpdateHalEventSubscription
  <2>2. CASE "CAR" \notin opts.flags
    BY <2>2 DEF AddOption
  <2> QED
    BY <2>1, <2>2
<1>6. /\ \A q \in Props \ {p} :
            mHalEventSubscribeOptions'[q] = mHalEventSubscribeOptions[q]
      /\ \/ mHalEventSubscribeOptions'[p] = h
         \/ /\ asked' = asked
            /\ mHalEventSubscribeOptions'[p] = mHalEventSubscribeOptions[p]
  <2>1. ~MergeUpdates(mHalEventSubscribeOptions[p], opts)
            => h = mHalEventSubscribeOptions[p]
    BY <1>1, <1>2, NoUpdateCovers
  <2> HIDE DEF h
  <2> QED
    BY <2>1, <1>5, <1>2, <1>1
<1>7. /\ mHalEventSubscribeOptions[p].rate <=
            mHalEventSubscribeOptions'[p].rate
      /\ mHalEventSubscribeOptions[p].flags \subseteq
            mHalEventSubscribeOptions'[p].flags
  <2>1. /\ mHalEventSubscribeOptions[p].rate \in Nat
        /\ mHalEventSubscribeOptions[p].rate <= mHalEventSubscribeOptions[p].rate
    BY <1>2 DEF Options
  <2>2. CASE mHalEventSubscribeOptions'[p] = h
    BY <2>2, <1>3
  <2>3. CASE mHalEventSubscribeOptions'[p] = mHalEventSubscribeOptions[p]
    BY <2>1, <2>3
  <2> QED
    BY <2>2, <2>3, <1>6
<1>8. \/ asked' = asked
      \/ /\ asked' = [asked EXCEPT ![c][p] = a]
         /\ "CAR" \in mHalEventSubscribeOptions'[p].flags
         /\ opts.rate <= mHalEventSubscribeOptions'[p].rate
  <2> HIDE DEF h, a
  <2> QED
    BY <1>5, <1>6, <1>3, <1>1 DEF Options
<1>9. /\ mSubscriptions'[c][p] = m
      /\ \A d \in Clients, q \in Props :
            d # c \/ q # p => mSubscriptions'[d][q] = mSubscriptions[d][q]
  <2>1. /\ c \in Clients /\ p \in Props /\ m \in Options
        /\ mSubscriptions \in [Clients -> [Props -> Options]]
        /\ mSubscriptions' = [mSubscriptions EXCEPT ![c][p] = m]
    BY <1>1, <1>2, <1>3, <1>4
  <2> HIDE DEF m
  <2> QED
    BY ONLY <2>1, NestedValue
<1>10. /\ \A d \in Clients, q \in Props :
            d # c \/ q # p => asked'[d][q] = asked[d][q]
       /\ \/ asked'[c][p] = asked[c][p]
          \/ /\ asked'[c][p] = a
             /\ "CAR" \in mHalEventSubscribeOptions'[p].flags
             /\ opts.rate <= mHalEventSubscribeOptions'[p].rate
  <2>1. CASE asked' = asked
    BY <2>1
  <2>2. CASE /\ asked' = [asked EXCEPT ![c][p] = a]
             /\ "CAR" \in mHalEventSubscribeOptions'[p].flags
             /\ opts.rate <= mHalEventSubscribeOptions'[p].rate
    <3>1. /\ c \in Clients /\ p \in Props /\ a \in Options
          /\ asked \in [Clients -> [Props -> Options]]
          /\ asked' = [asked EXCEPT ![c][p] = a]
      BY <1>1, <1>2, <1>3, <2>2
    <3> HIDE DEF a
    <3>2. /\ asked'[c][p] = a
          /\ \A d \in Clients, q \in Props :
                d # c \/ q # p => asked'[d][q] = asked[d][q]
      BY ONLY <3>1, NestedValue
    <3> QED
      BY <2>2, <3>2
  <2> QED
    BY <2>1, <2>2, <1>8
<1>11. /\ mPropToClients'[p] = mPropToClients[p] \cup {c}
       /\ \A q \in Props \ {p} : mPropToClients'[q] = mPropToClients[q]
  BY <1>1, <1>2, <1>4
<1>12. c \in mClients
  BY DEF AddOption, ThreadInv
<1> QED
  BY <1>1, <1>3, <1>6, <1>7, <1>9, <1>10, <1>11, <1>12 DEF AddEffect

\* Unsubscribing removes the client from one property, drops the client only
\* if no property lists it, and the HAL options only if no client is left.
LEMMA UnsubscribeEffect ==
    ASSUME TypeOK, PropClientsAreKnown,
           NEW c \in Clients, NEW p \in Props, UnsubscribeLocked(c, p)
    PROVE  /\ mPropToClients'[p] = mPropToClients[p] \ {c}
           /\ \A q \in Props \ {p} :
                /\ mPropToClients'[q] = mPropToClients[q]
                /\ mHalEventSubscribeOptions'[q] = mHalEventSubscribeOptions[q]
                /\ halRate'[q] = halRate[q]
           /\ mClients \ {c} \subseteq mClients'
           /\ \A d \in Clients \ {c} : mSubscriptions'[d] = mSubscriptions[d]
           /\ \/ /\ mClients' = mClients
                 /\ mSubscriptions' = mSubscriptions
              \/ \A q \in Props : c \notin mPropToClients'[q]
           /\ \/ /\ mPropToClients'[p] = {}
                 /\ mHalEventSubscribeOptions'[p] = NoOptions
              \/ /\ mPropToClients'[p] # {}
                 /\ mHalEventSubscribeOptions'[p] = mHalEventSubscribeOptions[p]
                 /\ halRate'[p] = halRate[p]
           /\ asked'[c][p] = NoOptions
           /\ \A d \in Clients, q \in Props :
                d # c \/ q # p => asked'[d][q] = asked[d][q]
<1> DEFINE left == IF c \in mClients THEN mPropToClients[p] \ {c}
                                     ELSE mPropToClients[p]
<1>1. left = mPropToClients[p] \ {c}
  BY DEF PropClientsAreKnown
<1>2. mPropToClients' = [mPropToClients EXCEPT ![p] = left]
  BY DEF UnsubscribeLocked
<1>3. /\ mPropToClients'[p] = mPropToClients[p] \ {c}
      /\ \A q \in Props \ {p} : mPropToClients'[q] = mPropToClients[q]
  BY <1>1, <1>2 DEF TypeOK
<1>4. \/ /\ mClients' = mClients
         /\ mSubscriptions' = mSubscriptions
      \/ /\ \A q \in Props \ {p} : c \notin mPropToClients[q]
         /\ mClients' = mClients \ {c}
         /\ mSubscriptions' = [mSubscriptions EXCEPT ![c] =
                                    [q \in Props |-> NoOptions]]
  BY DEF UnsubscribeLocked
<1>5. /\ mClients \ {c} \subseteq mClients'
      /\ \A d \in Clients \ {c} : mSubscriptions'[d] = mSubscriptions[d]
      /\ \/ /\ mClients' = mClients
            /\ mSubscriptions' = mSubscriptions
         \/ \A q \in Props : c \notin mPropToClients'[q]
  BY <1>3, <1>4 DEF TypeOK
<1>6. \/ /\ left = {}
         /\ mHalEventSubscribeOptions' =
                [mHalEventSubscribeOptions EXCEPT ![p] = NoOptions]
         /\ \/ halRate' = [halRate EXCEPT ![p] = NotRegistered]
            \/ halRate' = halRate
      \/ /\ left # {}
         /\ UNCHANGED <<mHalEventSubscribeOptions, halRate>>
  BY DEF UnsubscribeLocked
<1>7. /\ \/ /\ mPropToClients'[p] = {}
            /\ mHalEventSubscribeOptions'[p] = NoOptions
         \/ /\ mPropToClients'[p] # {}
            /\ mHalEventSubscribeOptions'[p] = mHalEventSubscribeOptions[p]
            /\ halRate'[p] = halRate[p]
      /\ \A q \in Props \ {p} :
            /\ mHalEventSubscribeOptions'[q] = mHalEventSubscribeOptions[q]
            /\ halRate'[q] = halRate[q]
  <2> HIDE DEF left
  <2> QED
    BY <1>1, <1>3, <1>6 DEF TypeOK
<1>8. asked' = [asked EXCEPT ![c][p] = NoOptions]
  BY DEF UnsubscribeLocked
<1>9. NoOptions \in Options
  BY DEF NoOptions, Options
<1>10. /\ asked'[c][p] = NoOptions
       /\ \A d \in Clients, q \in Props :
            d # c \/ q # p => asked'[d][q] = asked[d][q]
  BY <1>8, <1>9, NestedValue DEF TypeOK
<1> QED
  BY <1>3, <1>5, <1>7, <1>10

-----------------------------------------------------------------------------
(***************************************************************************)
(* Every step preserves every part of the inductive invariant.             *)
(***************************************************************************)

LEMMA PropClientsStep ==
    ASSUME TypeOK, ThreadInv, PropClientsAreKnown, [Next]_vars
    PROVE  PropClientsAreKnown'
<1>1. CASE /\ UNCHANGED <<mSubscriptions, mPropToClients>>
           /\ mClients \subseteq mClients'
  BY <1>1 DEF PropClientsAreKnown
<1>2. ASSUME NEW t \in Threads, AddOption(t)
      PROVE  PropClientsAreKnown'
  <2> DEFINE c == caller[t]
             p == Head(todo[t]).prop
  <2>1. /\ c \in Clients /\ p \in Props
        /\ mSubscriptions'[c][p].flags # {}
        /\ \A d \in Clients, q \in Props :
             d # c \/ q # p => mSubscriptions'[d][q] = mSubscriptions[d][q]
        /\ mPropToClients'[p] = mPropToClients[p] \cup {c}
        /\ \A q \in Props \ {p} : mPropToClients'[q] = mPropToClients[q]
        /\ c \in mClients
    BY <1>2, AddOptionEffect DEF AddEffect
  <2>2. mClients' = mClients
    BY <1>2 DEF AddOption
  <2>3. mSubscriptions'[c][p] # NoOptions
    BY <2>1 DEF NoOptions
  <2> HIDE DEF c, p
  <2> SUFFICES ASSUME NEW q \in Props, NEW d \in mPropToClients'[q]
               PROVE  d \in mClients' /\ mSubscriptions'[d][q] # NoOptions
    BY DEF PropClientsAreKnown
  <2>4. CASE d = c /\ q = p
    BY <2>1, <2>2, <2>3, <2>4
  <2>5. CASE d # c \/ q # p
    <3>1. d \in mPropToClients[q] /\ d \in Clients
      BY <2>1, <2>5 DEF TypeOK
    <3> QED
      BY <2>1, <2>2, <2>5, <3>1 DEF PropClientsAreKnown
  <2> QED
    BY <2>4, <2>5
<1>3. ASSUME NEW t \in Threads, NEW p \in doomed[t],
             UnsubscribeLocked(caller[t], p)
      PROVE  PropClientsAreKnown'
  <2> DEFINE c == caller[t]
  <2>1. c \in Clients /\ p \in Props
    BY DEF TypeOK
  <2>2. /\ mPropToClients'[p] = mPropToClients[p] \ {c}
        /\ \A q \in Props \ {p} : mPropToClients'[q] = mPropToClients[q]
        /\ mClients \ {c} \subseteq mClients'
        /\ \A d \in Clients \ {c} : mSubscriptions'[d] = mSubscriptions[d]
        /\ \/ /\ mClients' = mClients
              /\ mSubscriptions' = mSubscriptions
           \/ \A q \in Props : c \notin mPropToClients'[q]
    BY <1>3, <2>1, UnsubscribeEffect
  <2> HIDE DEF c
  <2> SUFFICES ASSUME NEW q \in Props, NEW d \in mPropToClients'[q]
               PROVE  d \in mClients' /\ mSubscriptions'[d][q] # NoOptions
    BY DEF PropClientsAreKnown
  <2>3. d \in mPropToClients[q] /\ d \in Clients
    BY <2>1, <2>2 DEF TypeOK
  <2>4. d \in mClients /\ mSubscriptions[d][q] # NoOptions
    BY <2>3 DEF PropClientsAreKnown
  <2> QED
    BY <2>2, <2>3, <2>4
<1> QED
  BY <1>1, <1>2, <1>3, ManagerSteps

LEMMA RequestsStep ==
    ASSUME TypeOK, ThreadInv, PropClientsAreKnown, RequestsAreCovered,
           [Next]_vars
    PROVE  RequestsAreCovered'
<1>1. CASE UNCHANGED <<mPropToClients, mHalEventSubscribeOptions, asked>>
  BY <1>1 DEF RequestsAreCovered
<1>2. ASSUME NEW t \in Threads, AddOption(t)
      PROVE  RequestsAreCovered'
  <2> DEFINE c == caller[t]
             p == Head(todo[t]).prop
             opts == OptionsOf(Head(todo[t]))
  <2>1. /\ c \in Clients /\ p \in Props /\ opts \in Options
        /\ mPropToClients'[p] = mPropToClients[p] \cup {c}
        /\ \A q \in Props \ {p} :
             /\ mPropToClients'[q] = mPropToClients[q]
             /\ mHalEventSubscribeOptions'[q] = mHalEventSubscribeOptions[q]
        /\ mHalEventSubscribeOptions[p].rate <=
                 mHalEventSubscribeOptions'[p].rate
        /\ mHalEventSubscribeOptions[p].flags \subseteq
                 mHalEventSubscribeOptions'[p].flags
        /\ \A d \in Clients, q \in Props :
             d # c \/ q # p => asked'[d][q] = asked[d][q]
        /\ \/ asked'[c][p] = asked[c][p]
           \/ /\ asked'[c][p] = Merge(asked[c][p], opts)
              /\ "CAR" \in mHalEventSubscribeOptions'[p].flags
              /\ opts.rate <= mHalEventSubscribeOptions'[p].rate
    BY <1>2, AddOptionEffect DEF AddEffect
  <2> HIDE DEF c, p, opts
  <2>2. /\ asked[c][p] \in Options
        /\ mHalEventSubscribeOptions[p] \in Options
        /\ mHalEventSubscribeOptions'[p].rate \in Nat
    BY <2>1, <1>2, TypeStep DEF TypeOK, Options
  <2> SUFFICES ASSUME NEW d \in Clients, NEW q \in Props,
                      asked'[d][q] # NoOptions
               PROVE  /\ d \in mPropToClients'[q]
                      /\ "CAR" \in mHalEventSubscribeOptions'[q].flags
                      /\ mHalEventSubscribeOptions'[q].rate >= asked'[d][q].rate
    BY DEF RequestsAreCovered
  <2>3. CASE asked'[d][q] = asked[d][q]
    <3>1. /\ d \in mPropToClients[q]
          /\ "CAR" \in mHalEventSubscribeOptions[q].flags
          /\ mHalEventSubscribeOptions[q].rate >= asked[d][q].rate
      BY <2>3 DEF RequestsAreCovered
    <3>2. asked[d][q].rate \in Nat /\ mHalEventSubscribeOptions[q].rate \in Nat
      BY DEF TypeOK, Options
    <3>3. CASE q = p
      BY <2>1, <2>2, <2>3, <3>1, <3>2, <3>3
    <3>4. CASE q # p
      BY <2>1, <2>3, <3>1, <3>4
    <3> QED
      BY <3>3, <3>4
  <2>4. CASE asked'[d][q] # asked[d][q]
    <3>1. d = c /\ q = p
      BY <2>1, <2>4
    <3>2. /\ asked'[c][p] = Merge(asked[c][p], opts)
          /\ "CAR" \in mHalEventSubscribeOptions'[p].flags
          /\ opts.rate <= mHalEventSubscribeOptions'[p].rate
      BY <2>1, <2>4, <3>1
    <3>3. asked'[c][p].rate \in {asked[c][p].rate, opts.rate}
      BY <2>1, <2>2, <3>2, MergeCovers
    <3>4. asked[c][p].rate <= mHalEventSubscribeOptions[p].rate
      <4>1. CASE asked[c][p] = NoOptions
        BY <4>1, <2>2 DEF NoOptions, Options
      <4>2. CASE asked[c][p] # NoOptions
        BY <4>2, <2>1, <2>2 DEF RequestsAreCovered, Options
      <4> QED
        BY <4>1, <4>2
    <3>5. asked'[c][p].rate <= mHalEventSubscribeOptions'[p].rate
      BY <2>1, <2>2, <3>2, <3>3, <3>4 DEF Options
    <3>6. c \in mPropToClients'[p]
      BY <2>1
    <3>7. asked'[c][p].rate \in Nat
      BY <2>1, <2>2, <3>3 DEF Options
    <3> QED
      BY <2>2, <3>1, <3>2, <3>5, <3>6, <3>7
  <2> QED
    BY <2>3, <2>4
<1>3. ASSUME NEW t \in Threads, NEW p \in doomed[t],
             UnsubscribeLocked(caller[t], p)
      PROVE  RequestsAreCovered'
  <2> DEFINE c == caller[t]
  <2>1. c \in Clients /\ p \in Props
    BY DEF TypeOK
  <2>2. /\ mPropToClients'[p] = mPropToClients[p] \ {c}
        /\ \A q \in Props \ {p} :
             /\ mPropToClients'[q] = mPropToClients[q]
             /\ mHalEventSubscribeOptions'[q] = mHalEventSubscribeOptions[q]
        /\ \/ mPropToClients'[p] = {}
           \/ mHalEventSubscribeOptions'[p] = mHalEventSubscribeOptions[p]
        /\ asked'[c][p] = NoOptions
        /\ \A d \in Clients, q \in Props :
             d # c \/ q # p => asked'[d][q] = asked[d][q]
    BY <1>3, <2>1, UnsubscribeEffect
  <2> HIDE DEF c
  <2> SUFFICES ASSUME NEW d \in Clients, NEW q \in Props,
                      asked'[d][q] # NoOptions
               PROVE  /\ d \in mPropToClients'[q]
                      /\ "CAR" \in mHalEventSubscribeOptions'[q].flags
                      /\ mHalEventSubscribeOptions'[q].rate >= asked'[d][q].rate
    BY DEF RequestsAreCovered
  <2>3. d # c \/ q # p
    BY <2>2
  <2>4. /\ asked'[d][q] = asked[d][q]
        /\ d \in mPropToClients[q]
        /\ "CAR" \in mHalEventSubscribeOptions[q].flags
        /\ mHalEventSubscribeOptions[q].rate >= asked[d][q].rate
    BY <2>2, <2>3 DEF RequestsAreCovered
  <2>5. d \in mPropToClients'[q]
    BY <2>2, <2>3, <2>4
  <2>6. mHalEventSubscribeOptions'[q] = mHalEventSubscribeOptions[q]
    BY <2>2, <2>5
  <2> QED
    BY <2>4, <2>5, <2>6
<1> QED
  BY <1>1, <1>2, <1>3, ManagerSteps

LEMMA HalOptionsStep ==
    ASSUME TypeOK, ThreadInv, PropClientsAreKnown, HalOptionsHaveClients,
           [Next]_vars
    PROVE  HalOptionsHaveClients'
<1>1. CASE UNCHANGED <<mPropToClients, mHalEventSubscribeOptions>>
  BY <1>1 DEF HalOptionsHaveClients
<1>2. ASSUME NEW t \in Threads, AddOption(t)
      PROVE  HalOptionsHaveClients'
  <2> DEFINE c == caller[t]
             p == Head(todo[t]).prop
  <2>1. /\ p \in Props
        /\ mPropToClients'[p] = mPropToClients[p] \cup {c}
        /\ \A q \in Props \ {p} :
             /\ mPropToClients'[q] = mPropToClients[q]
             /\ mHalEventSubscribeOptions'[q] = mHalEventSubscribeOptions[q]
    BY <1>2, AddOptionEffect DEF AddEffect
  <2> HIDE DEF c, p
  <2> QED
    BY <2>1 DEF HalOptionsHaveClients
<1>3. ASSUME NEW t \in Threads, NEW p \in doomed[t],
             UnsubscribeLocked(caller[t], p)
      PROVE  HalOptionsHaveClients'
  <2>1. caller[t] \in Clients /\ p \in Props
    BY DEF TypeOK
  <2>2. /\ \A q \in Props \ {p} :
             /\ mPropToClients'[q] = mPropToClients[q]
             /\ mHalEventSubscribeOptions'[q] = mHalEventSubscribeOptions[q]
        /\ \/ mHalEventSubscribeOptions'[p] = NoOptions
           \/ mPropToClients'[p] # {}
    BY <1>3, <2>1, UnsubscribeEffect
  <2> QED
    BY <2>2 DEF HalOptionsHaveClients
<1> QED
  BY <1>1, <1>2, <1>3, ManagerSteps

\* A list of updates keeps its entries when it grows ...
LEMMA UpdatesKept ==
    ASSUME NEW s \in Seq(UpdateEntries), NEW e \in UpdateEntries, NEW p
    PROVE  /\ Names(s, p) => Names(Append(s, e), p)
           /\ Names(Append(s, e), e.prop)
<1>1. /\ Append(s, e) \in Seq(UpdateEntries)
      /\ Len(s) \in Nat
      /\ DOMAIN s = 1 .. Len(s)
      /\ Len(Append(s, e)) = Len(s) + 1
      /\ DOMAIN Append(s, e) = 1 .. (Len(s) + 1)
      /\ Append(s, e)[Len(s) + 1] = e
      /\ \A i \in 1 .. Len(s) : Append(s, e)[i] = s[i]
  BY AppendProperties, LenProperties
<1> QED
  BY <1>1 DEF Names

\* ... and all but its head when the head is taken.
LEMMA UpdatesKeptTail ==
    ASSUME NEW s \in Seq(UpdateEntries), NEW p, Names(s, p), Head(s).prop # p
    PROVE  Names(Tail(s), p)
<1>1. PICK i \in DOMAIN s : s[i].prop = p
  BY DEF Names
<1>2. s # <<>> /\ Len(s) \in Nat /\ DOMAIN s = 1 .. Len(s)
  BY <1>1, LenProperties
<1>3. /\ Tail(s) \in Seq(UpdateEntries)
      /\ Len(Tail(s)) = Len(s) - 1
      /\ \A j \in 1 .. Len(Tail(s)) : Tail(s)[j] = s[j + 1]
  BY <1>2, HeadTailProperties
<1>4. DOMAIN Tail(s) = 1 .. (Len(s) - 1)
  BY <1>3, LenProperties
<1>5. Head(s) = s[1]
  BY <1>2
<1>6. i \in 2 .. Len(s)
  BY <1>1, <1>2, <1>5
<1>7. i - 1 \in DOMAIN Tail(s) /\ Tail(s)[i - 1] = s[i]
  BY <1>2, <1>3, <1>4, <1>6
<1> QED
  BY <1>1, <1>7 DEF Names

LEMMA HalNotLostStep ==
    ASSUME TypeOK, ThreadInv, PropClientsAreKnown, HalSubscriptionNotLost,
           [Next]_vars
    PROVE  HalSubscriptionNotLost'
<1> USE NotRegisteredAssumption
<1>1. CASE UNCHANGED <<mHalEventSubscribeOptions, halRate, updated>>
  BY <1>1 DEF HalSubscriptionNotLost, Pending
<1>2. ASSUME NEW t \in Threads, AddOption(t)
      PROVE  HalSubscriptionNotLost'
  <2> DEFINE p == Head(todo[t]).prop
             opts == OptionsOf(Head(todo[t]))
             new == Merge(mHalEventSubscribeOptions[p], opts)
             entry == [prop |-> p, rate |-> new.rate]
  <2>1. /\ p \in Props /\ opts \in Options
        /\ halRate' = halRate
    BY <1>2, AddOptionEffect DEF AddEffect, AddOption
  <2>2. \/ UNCHANGED <<mHalEventSubscribeOptions, updated>>
        \/ /\ mHalEventSubscribeOptions' =
                    [mHalEventSubscribeOptions EXCEPT ![p] = new]
           /\ updated' = [updated EXCEPT ![t] = Append(@, entry)]
    <3>1. CASE "CAR" \in opts.flags
      <4>1. UpdateHalEventSubscription(t, p, opts)
        BY <1>2, <3>1 DEF AddOption
      <4> QED
        BY <4>1 DEF UpdateHalEventSubscription
    <3>2. CASE "CAR" \notin opts.flags
      BY <1>2, <3>2 DEF AddOption
    <3> QED
      BY <3>1, <3>2
  <2>3. entry \in UpdateEntries /\ entry.prop = p
    BY <2>1, MergeType DEF UpdateEntries, TypeOK, Options
  <2> HIDE DEF p, opts, new, entry
  <2>4. CASE UNCHANGED <<mHalEventSubscribeOptions, updated>>
    BY <2>1, <2>4 DEF HalSubscriptionNotLost, Pending
  <2>5. CASE /\ mHalEventSubscribeOptions' =
                    [mHalEventSubscribeOptions EXCEPT ![p] = new]
             /\ updated' = [updated EXCEPT ![t] = Append(@, entry)]
    <3>1. /\ updated[t] \in Seq(UpdateEntries)
          /\ updated'[t] = Append(updated[t], entry)
          /\ \A u \in Threads \ {t} : updated'[u] = updated[u]
          /\ \A q \in Props \ {p} :
               mHalEventSubscribeOptions'[q] = mHalEventSubscribeOptions[q]
      BY <2>5 DEF TypeOK
    <3>2. Names(updated'[t], p)
      <4>1. Names(Append(updated[t], entry), entry.prop)
        BY <2>3, <3>1, UpdatesKept
      <4> QED
        BY <2>3, <3>1, <4>1
    <3>3. ASSUME NEW q \in Props, Pending(q) PROVE Pending(q)'
      <4>1. PICK u \in Threads : Names(updated[u], q)
        BY <3>3 DEF Pending
      <4>2. CASE u = t
        <5>1. Names(Append(updated[t], entry), q)
          BY <4>1, <4>2, <2>3, <3>1, UpdatesKept
        <5> QED
          BY <3>1, <4>2, <5>1 DEF Pending, Names
      <4>3. CASE u # t
        BY <4>1, <4>3, <3>1 DEF Pending
      <4> QED
        BY <4>2, <4>3
    <3>4. ASSUME NEW q \in Props, IsContinuous(q),
                 mHalEventSubscribeOptions'[q] # NoOptions
          PROVE  halRate'[q] # NotRegistered \/ Pending(q)'
      <4>1. CASE q = p
        BY <3>2, <4>1 DEF Pending, Names
      <4>2. CASE q # p
        <5>1. halRate[q] # NotRegistered \/ Pending(q)
          BY <3>1, <3>4, <4>2 DEF HalSubscriptionNotLost
        <5> QED
          BY <2>1, <3>3, <5>1
      <4> QED
        BY <4>1, <4>2
    <3> QED
      BY <3>4 DEF HalSubscriptionNotLost, IsContinuous
  <2> QED
    BY <2>2, <2>4, <2>5
<1>3. ASSUME NEW t \in Threads, HalSubscribe(t)
      PROVE  HalSubscriptionNotLost'
  <2> DEFINE opt == Head(updated[t])
  <2>1. updated[t] \in Seq(UpdateEntries) /\ updated[t] # <<>>
    BY <1>3 DEF HalSubscribe, ThreadInv, TypeOK
  <2>2. opt \in UpdateEntries
    BY <2>1, HeadTailProperties
  <2>3. /\ halRate' = IF IsContinuous(opt.prop)
                      THEN [halRate EXCEPT ![opt.prop] = opt.rate]
                      ELSE halRate
        /\ updated' = [updated EXCEPT ![t] = Tail(@)]
        /\ UNCHANGED mHalEventSubscribeOptions
    BY <1>3 DEF HalSubscribe, managerVars
  <2> HIDE DEF opt
  <2>4. IsContinuous(opt.prop) => halRate'[opt.prop] # NotRegistered
    BY <2>2, <2>3 DEF UpdateEntries, TypeOK
  <2>5. \A q \in Props : q # opt.prop => halRate'[q] = halRate[q]
    BY <2>2, <2>3 DEF UpdateEntries, TypeOK
  <2>6. ASSUME NEW q \in Props, q # opt.prop, Pending(q) PROVE Pending(q)'
    <3>1. PICK u \in Threads : Names(updated[u], q)
      BY <2>6 DEF Pending
    <3>2. CASE u = t
      <4>1. updated'[t] = Tail(updated[t])
        BY <2>3 DEF TypeOK
      <4>2. Names(Tail(updated[t]), q)
        BY <2>1, <2>6, <3>1, <3>2, UpdatesKeptTail DEF opt
      <4> QED
        BY <4>1, <4>2 DEF Pending
    <3>3. CASE u # t
      <4>1. updated'[u] = updated[u]
        BY <2>3, <3>3 DEF TypeOK
      <4> QED
        BY <3>1, <4>1 DEF Pending
    <3> QED
      BY <3>2, <3>3
  <2> QED
    BY <2>3, <2>4, <2>5, <2>6 DEF HalSubscriptionNotLost
<1>4. ASSUME NEW t \in Threads, UnsubscribeOne(t)
      PROVE  HalSubscriptionNotLost'
  <2>1. PICK p \in doomed[t] : UnsubscribeLocked(caller[t], p)
    BY <1>4 DEF UnsubscribeOne
  <2>2. caller[t] \in Clients /\ p \in Props
    BY DEF TypeOK
  <2>3. /\ \A q \in Props \ {p} :
              /\ mHalEventSubscribeOptions'[q] = mHalEventSubscribeOptions[q]
              /\ halRate'[q] = halRate[q]
        /\ \/ mHalEventSubscribeOptions'[p] = NoOptions
           \/ /\ mHalEventSubscribeOptions'[p] = mHalEventSubscribeOptions[p]
              /\ halRate'[p] = halRate[p]
    BY <2>1, <2>2, UnsubscribeEffect
  <2>4. UNCHANGED updated
    BY <1>4 DEF UnsubscribeOne
  <2> QED
    BY <2>3, <2>4 DEF HalSubscriptionNotLost, Pending
<1>5. ASSUME NEW t \in Threads,
             \/ StartCall(t) \/ GetOrCreateHalClient(t) \/ ReleaseLock(t)
             \/ OnCallbackDead(t)
      PROVE  UNCHANGED <<mHalEventSubscribeOptions, halRate, updated>>
  BY <1>5 DEF StartCall, Subscribe, Unsubscribe, GetOrCreateHalClient,
              ReleaseLock, OnCallbackDead, managerVars
<1>6. ASSUME NEW c \in Clients, ClientDies(c) \/ DeathNotice(c)
      PROVE  UNCHANGED <<mHalEventSubscribeOptions, halRate, updated>>
  BY <1>6 DEF ClientDies, DeathNotice, ServiceDied, managerVars, threadVars
<1>7. CASE UNCHANGED vars
  BY <1>1, <1>7 DEF vars, managerVars, threadVars
<1> QED
  BY <1>1, <1>2, <1>3, <1>4, <1>5, <1>6, <1>7 DEF Next, Continue

LEMMA SweptStep ==
    ASSUME TypeOK, ThreadInv, PropClientsAreKnown, SweptClientsAreGone,
           [Next]_vars
    PROVE  SweptClientsAreGone'
<1>1. ASSUME NEW t \in Threads, pc[t] # "sweep",
             \A u \in Threads \ {t} :
                pc'[u] = pc[u] /\ caller'[u] = caller[u] /\ doomed'[u] = doomed[u],
             UNCHANGED <<mPropToClients, late>>,
             \A c \in Clients : death'[c] = "swept" => death[c] = "swept"
      PROVE  SweptClientsAreGone'
  BY <1>1 DEF SweptClientsAreGone
<1>2. ASSUME NEW t \in Threads, StartCall(t)
      PROVE  SweptClientsAreGone'
  <2>1. /\ pc[t] # "sweep"
        /\ UNCHANGED <<mPropToClients, late, death>>
        /\ \A u \in Threads \ {t} :
             pc'[u] = pc[u] /\ caller'[u] = caller[u] /\ doomed'[u] = doomed[u]
    BY <1>2 DEF StartCall, Subscribe, Unsubscribe, managerVars, TypeOK
  <2> QED
    BY <1>1, <2>1
<1>3. ASSUME NEW t \in Threads,
             GetOrCreateHalClient(t) \/ ReleaseLock(t) \/ HalSubscribe(t)
      PROVE  SweptClientsAreGone'
  <2>1. /\ pc[t] # "sweep"
        /\ UNCHANGED <<mPropToClients, late, death, caller, doomed>>
    BY <1>3 DEF GetOrCreateHalClient, ReleaseLock, HalSubscribe, managerVars
  <2>2. \A u \in Threads \ {t} : pc'[u] = pc[u]
    BY <1>3 DEF GetOrCreateHalClient, ReleaseLock, HalSubscribe, TypeOK
  <2> QED
    BY <1>1, <2>1, <2>2
<1>4. ASSUME NEW t \in Threads, AddOption(t)
      PROVE  SweptClientsAreGone'
  <2> DEFINE c == caller[t]
             p == Head(todo[t]).prop
  <2>1. /\ c \in Clients /\ p \in Props
        /\ mPropToClients'[p] = mPropToClients[p] \cup {c}
        /\ \A q \in Props \ {p} : mPropToClients'[q] = mPropToClients[q]
    BY <1>4, AddOptionEffect DEF AddEffect
  <2>2. /\ UNCHANGED <<pc, caller, doomed, death>>
        /\ late' = IF death[c] = "swept" THEN late \cup {c} ELSE late
    BY <1>4 DEF AddOption
  <2> HIDE DEF c, p
  <2> QED
    BY <2>1, <2>2 DEF SweptClientsAreGone
<1>5. ASSUME NEW t \in Threads, UnsubscribeOne(t)
      PROVE  SweptClientsAreGone'
  <2>1. PICK p \in doomed[t] :
            /\ UnsubscribeLocked(caller[t], p)
            /\ doomed' = [doomed EXCEPT ![t] = @ \ {p}]
            /\ pc' = [pc EXCEPT ![t] = IF doomed[t] = {p} THEN "idle" ELSE @]
    BY <1>5 DEF UnsubscribeOne
  <2>2. caller[t] \in Clients /\ p \in Props
    BY DEF TypeOK
  <2>3. /\ mPropToClients'[p] = mPropToClients[p] \ {caller[t]}
        /\ \A q \in Props \ {p} : mPropToClients'[q] = mPropToClients[q]
    BY <2>1, <2>2, UnsubscribeEffect
  <2>4. /\ UNCHANGED <<death, late, caller>>
        /\ \A u \in Threads \ {t} : pc'[u] = pc[u] /\ doomed'[u] = doomed[u]
        /\ doomed'[t] = doomed[t] \ {p}
        /\ doomed[t] # {p} => pc'[t] = pc[t]
    BY <1>5, <2>1 DEF UnsubscribeOne, UnsubscribeLocked, TypeOK
  <2> SUFFICES ASSUME NEW d \in Clients, NEW q \in Props,
                      death[d] = "swept", d \notin late,
                      d \in mPropToClients'[q]
               PROVE  \E u \in Threads :
                        pc'[u] = "sweep" /\ caller[u] = d /\ q \in doomed'[u]
    BY <2>4 DEF SweptClientsAreGone
  <2>5. d \in mPropToClients[q] /\ (d # caller[t] \/ q # p)
    BY <2>2, <2>3
  <2>6. PICK u \in Threads :
            pc[u] = "sweep" /\ caller[u] = d /\ q \in doomed[u]
    BY <2>5 DEF SweptClientsAreGone
  <2>7. CASE u # t
    BY <2>4, <2>6, <2>7
  <2>8. CASE u = t
    <3>1. q # p /\ q \in doomed[t] \ {p}
      BY <2>5, <2>6, <2>8
    <3>2. pc'[t] = "sweep" /\ q \in doomed'[t]
      BY <2>4, <2>6, <2>8, <3>1
    <3> QED
      BY <2>6, <2>8, <3>2
  <2> QED
    BY <2>7, <2>8
<1>6. ASSUME NEW t \in Threads, OnCallbackDead(t)
      PROVE  SweptClientsAreGone'
  <2> DEFINE c == caller[t]
             props == IF c \in mClients THEN SubscribedProperties(c) ELSE {}
  <2>1. /\ doomed' = [doomed EXCEPT ![t] = props]
        /\ pc' = [pc EXCEPT ![t] = IF props = {} THEN "idle" ELSE "sweep"]
        /\ death' = [death EXCEPT ![c] = "swept"]
        /\ pc[t] = "dead"
        /\ UNCHANGED <<caller, mPropToClients, late>>
    BY <1>6 DEF OnCallbackDead, managerVars
  <2>2. /\ doomed'[t] = props
        /\ props # {} => pc'[t] = "sweep"
        /\ \A u \in Threads \ {t} : pc'[u] = pc[u] /\ doomed'[u] = doomed[u]
        /\ \A d \in Clients \ {c} : death'[d] = death[d]
    <3> HIDE DEF props, c
    <3> QED
      BY <2>1 DEF TypeOK
  <2>3. ASSUME NEW q \in Props, c \in mPropToClients[q] PROVE q \in props
    BY <2>3 DEF PropClientsAreKnown
  <2> SUFFICES ASSUME NEW d \in Clients, NEW q \in Props,
                      death'[d] = "swept", d \notin late,
                      d \in mPropToClients[q]
               PROVE  \E u \in Threads :
                        pc'[u] = "sweep" /\ caller[u] = d /\ q \in doomed'[u]
    BY <2>1 DEF SweptClientsAreGone
  <2>4. CASE d = c
    BY <2>2, <2>3, <2>4
  <2>5. CASE d # c
    <3>1. PICK u \in Threads :
            pc[u] = "sweep" /\ caller[u] = d /\ q \in doomed[u]
      BY <2>2, <2>5 DEF SweptClientsAreGone
    <3>2. u # t
      BY <2>1, <3>1
    <3> QED
      BY <2>2, <3>1, <3>2
  <2> QED
    BY <2>4, <2>5
<1>7. ASSUME NEW c \in Clients, ClientDies(c)
      PROVE  SweptClientsAreGone'
  BY <1>7 DEF ClientDies, threadVars, managerVars, TypeOK, SweptClientsAreGone
<1>8. ASSUME NEW t \in Threads, NEW c \in Clients, ServiceDied(t, c)
      PROVE  SweptClientsAreGone'
  <2>1. /\ pc[t] # "sweep"
        /\ UNCHANGED <<mPropToClients, late, doomed>>
        /\ \A u \in Threads \ {t} : pc'[u] = pc[u] /\ caller'[u] = caller[u]
        /\ \A d \in Clients : death'[d] = "swept" => death[d] = "swept"
    BY <1>8 DEF ServiceDied, managerVars, TypeOK
  <2> QED
    BY <1>1, <2>1
<1>9. CASE UNCHANGED vars
  BY <1>9 DEF vars, threadVars, managerVars, SweptClientsAreGone
<1> QED
  BY <1>2, <1>3, <1>4, <1>5, <1>6, <1>7, <1>8, <1>9
  DEF Next, Continue, DeathNotice

-----------------------------------------------------------------------------
(***************************************************************************)
(* The theorems.                                                           *)
(***************************************************************************)

LEMMA InitIInv == Init => IInv
<1> SUFFICES ASSUME Init PROVE IInv
  OBVIOUS
<1>1. TypeOK
  BY EmptySeq DEF Init, TypeOK, NoOptions, Options, Obituary
<1>2. ThreadInv
  BY NoThreadAssumption DEF Init, ThreadInv
<1>3. PropClientsAreKnown /\ RequestsAreCovered /\ HalOptionsHaveClients
  BY DEF Init, PropClientsAreKnown, RequestsAreCovered, HalOptionsHaveClients
<1>4. HalSubscriptionNotLost /\ SweptClientsAreGone
  BY DEF Init, HalSubscriptionNotLost, SweptClientsAreGone
<1> QED
  BY <1>1, <1>2, <1>3, <1>4 DEF IInv

\* IInv holds in every reachable state.
THEOREM Invariance == Spec => []IInv
<1>1. IInv /\ [Next]_vars => IInv'
  BY TypeStep, ThreadStep, PropClientsStep, RequestsStep, HalOptionsStep,
     HalNotLostStep, SweptStep DEF IInv
<1> QED
  BY InitIInv, <1>1, PTL DEF Spec

\* Every variable of the manager, the threads and the HAL has its type.
THEOREM TypeCorrect == Spec => []TypeOK
<1>1. IInv => TypeOK
  BY DEF IInv
<1> QED
  BY <1>1, Invariance, PTL

\* Events and obituaries find only registered clients that know the property.
THEOREM PropClientsKnown == Spec => []PropClientsAreKnown
<1>1. IInv => PropClientsAreKnown
  BY DEF IInv
<1> QED
  BY <1>1, Invariance, PTL

\* What a client has asked for is never lost to another client's calls.
THEOREM RequestsCovered == Spec => []RequestsAreCovered
<1>1. IInv => RequestsAreCovered
  BY DEF IInv
<1> QED
  BY <1>1, Invariance, PTL

\* What is held for the HAL is given up with the last client of a property.
THEOREM OptionsHaveClients == Spec => []HalOptionsHaveClients
<1>1. IInv => HalOptionsHaveClients
  BY DEF IInv
<1> QED
  BY <1>1, Invariance, PTL

\* No interleaving of calls loses a subscription on its way to the HAL.
THEOREM HalNotLost == Spec => []HalSubscriptionNotLost
<1>1. IInv => HalSubscriptionNotLost
  BY DEF IInv
<1> QED
  BY <1>1, Invariance, PTL

\* The sweep of a dead client misses no property listed when it started.
THEOREM SweptGone == Spec => []SweptClientsAreGone
<1>1. IInv => SweptClientsAreGone
  BY DEF IInv
<1> QED
  BY <1>1, Invariance, PTL

\* The rate held for the HAL falls only by giving up the subscription.
THEOREM RateNeverLowered == Spec => HalRateNeverLowered
<1> DEFINE Kept == \A p \in Props :
                      /\ mHalEventSubscribeOptions[p] # NoOptions
                      /\ mHalEventSubscribeOptions'[p] # NoOptions
                      => mHalEventSubscribeOptions'[p].rate >=
                            mHalEventSubscribeOptions[p].rate
<1>1. ASSUME IInv, [Next]_vars
      PROVE  Kept
  <2>1. \A p \in Props : mHalEventSubscribeOptions[p].rate \in Nat
    BY <1>1 DEF IInv, TypeOK, Options
  <2>2. CASE UNCHANGED mHalEventSubscribeOptions
    BY <2>1, <2>2
  <2>3. ASSUME NEW t \in Threads, AddOption(t) PROVE Kept
    <3> DEFINE p == Head(todo[t]).prop
    <3>1. /\ \A q \in Props \ {p} :
               mHalEventSubscribeOptions'[q] = mHalEventSubscribeOptions[q]
          /\ mHalEventSubscribeOptions[p].rate <=
               mHalEventSubscribeOptions'[p].rate
          /\ p \in Props
      BY <1>1, <2>3, AddOptionEffect DEF AddEffect, IInv
    <3>2. mHalEventSubscribeOptions'[p].rate \in Nat
      BY <1>1, <3>1, TypeStep DEF IInv, TypeOK, Options
    <3> HIDE DEF p
    <3> QED
      BY <2>1, <3>1, <3>2
  <2>4. ASSUME NEW t \in Threads, NEW p \in doomed[t],
               UnsubscribeLocked(caller[t], p)
        PROVE  Kept
    <3>1. caller[t] \in Clients /\ p \in Props
      BY <1>1 DEF IInv, TypeOK
    <3>2. /\ \A q \in Props \ {p} :
               mHalEventSubscribeOptions'[q] = mHalEventSubscribeOptions[q]
          /\ \/ mHalEventSubscribeOptions'[p] = NoOptions
             \/ mHalEventSubscribeOptions'[p] = mHalEventSubscribeOptions[p]
      BY <1>1, <2>4, <3>1, UnsubscribeEffect DEF IInv
    <3> QED
      BY <2>1, <3>2
  <2> QED
    BY <1>1, <2>2, <2>3, <2>4, ManagerSteps DEF IInv
<1>2. IInv /\ [Next]_vars => [Kept]_vars
  BY <1>1
<1> QED
  BY <1>2, Invariance, PTL DEF Spec, HalRateNeverLowered

-----------------------------------------------------------------------------
(***************************************************************************)
(* Which configurations keep the HAL from being given a rate of 0 Hz.  The *)
(* default one is not among them.                                          *)
(***************************************************************************)

\* What one turn of the loop does to the HAL options and to the updates.
LEMMA AddOptionUpdates ==
    ASSUME TypeOK, ThreadInv, NEW t \in Threads, AddOption(t),
           NEW p, p = Head(todo[t]).prop
    PROVE  /\ p \in Props /\ UNCHANGED <<pc, halRate>>
           /\ \/ UNCHANGED <<mHalEventSubscribeOptions, updated>>
              \/ \E new \in Options :
                    /\ new.rate >= Head(todo[t]).rate /\ new # NoOptions
                    /\ mHalEventSubscribeOptions' =
                          [mHalEventSubscribeOptions EXCEPT ![p] = new]
                    /\ updated' = [updated EXCEPT ![t] =
                          Append(@, [prop |-> p, rate |-> new.rate])]
<1> DEFINE opts == OptionsOf(Head(todo[t]))
           new == Merge(mHalEventSubscribeOptions[p], opts)
<1>1. p \in Props /\ opts \in Options
  BY AddOptionEffect DEF AddEffect
<1>2. UNCHANGED <<pc, halRate>>
  BY DEF AddOption
<1>3. CASE "CAR" \notin opts.flags
  BY <1>1, <1>2, <1>3 DEF AddOption
<1>4. CASE "CAR" \in opts.flags
  <2>1. mHalEventSubscribeOptions[p] \in Options
    BY <1>1 DEF TypeOK
  <2>2. new \in Options /\ new.rate >= opts.rate /\ "CAR" \in new.flags
    <3>1. new \in Options
      BY <1>1, <2>1, MergeType
    <3>2. /\ new.rate >= opts.rate
          /\ new.flags = mHalEventSubscribeOptions[p].flags \cup opts.flags
      BY <1>1, <2>1, MergeCovers
    <3> QED
      BY <1>4, <3>1, <3>2
  <2>3. new # NoOptions
    BY <2>2 DEF NoOptions
  <2>4. opts.rate = Head(todo[t]).rate
    BY DEF OptionsOf
  <2>5. UpdateHalEventSubscription(t, p, opts)
    BY <1>4 DEF AddOption
  <2>6. \/ UNCHANGED <<mHalEventSubscribeOptions, updated>>
        \/ /\ mHalEventSubscribeOptions' =
                    [mHalEventSubscribeOptions EXCEPT ![p] = new]
           /\ updated' = [updated EXCEPT ![t] =
                            Append(@, [prop |-> p, rate |-> new.rate])]
    BY <2>5 DEF UpdateHalEventSubscription
  <2> HIDE DEF new, opts
  <2> QED
    BY <1>1, <1>2, <2>2, <2>3, <2>4, <2>6
<1> QED
  BY <1>3, <1>4

\* What is left of a list when its head is taken, and what an addition makes
\* of it.
LEMMA TailEntries ==
    ASSUME NEW S, NEW s \in Seq(S), s # <<>>
    PROVE  /\ 1 \in DOMAIN s /\ Head(s) = s[1] /\ Head(s) \in S
           /\ \A i \in DOMAIN Tail(s) :
                 i + 1 \in DOMAIN s /\ Tail(s)[i] = s[i + 1]
<1>1. Len(s) \in Nat /\ Len(s) # 0 /\ DOMAIN s = 1 .. Len(s)
  BY LenProperties, EmptySeq
<1>2. /\ Head(s) \in S /\ Tail(s) \in Seq(S) /\ Len(Tail(s)) = Len(s) - 1
      /\ \A j \in 1 .. Len(Tail(s)) : Tail(s)[j] = s[j + 1]
  BY HeadTailProperties
<1>3. DOMAIN Tail(s) = 1 .. (Len(s) - 1)
  BY <1>2, LenProperties
<1>4. Head(s) = s[1]
  BY <1>1
<1> QED
  BY <1>1, <1>2, <1>3, <1>4

LEMMA AppendedEntries ==
    ASSUME NEW S, NEW s \in Seq(S), NEW e \in S
    PROVE  \A i \in DOMAIN Append(s, e) :
              \/ i \in DOMAIN s /\ Append(s, e)[i] = s[i]
              \/ Append(s, e)[i] = e
<1>1. /\ Len(s) \in Nat /\ DOMAIN s = 1 .. Len(s)
      /\ DOMAIN Append(s, e) = 1 .. (Len(s) + 1)
      /\ Append(s, e)[Len(s) + 1] = e
      /\ \A i \in 1 .. Len(s) : Append(s, e)[i] = s[i]
  BY AppendProperties, LenProperties
<1> QED
  BY <1>1

\* The HAL is given a sample rate in Hz for a continuous property: never 0,
\* whose period hertzToNanoseconds cannot compute.
SampleRatesArePositive == \A p \in Props : halRate[p] # 0

\* Every rate on its way to the HAL, and every rate there, is not 0.
RatesArePositive ==
    /\ \A t \in Threads : \A i \in DOMAIN todo[t] :
          IsContinuous(todo[t][i].prop) => todo[t][i].rate > 0
    /\ \A t \in Threads : \A i \in DOMAIN updated[t] :
          IsContinuous(updated[t][i].prop) => updated[t][i].rate > 0
    /\ SampleRatesArePositive

\* Not so in DefaultConfig.h: PERF_ODOMETER and FUEL_LEVEL are CONTINUOUS and
\* have none, so that checkSampleRate clamps every rate of theirs to 0.
EveryContinuousPropertyHasRates ==
    \A p \in Props :
        IsContinuous(p) => Config[p].minRate > 0 /\ Config[p].maxRate > 0

LEMMA RatesStep ==
    ASSUME EveryContinuousPropertyHasRates, TypeOK, ThreadInv,
           RatesArePositive, [Next]_vars
    PROVE  RatesArePositive'
<1> USE NotRegisteredAssumption DEF RatesArePositive, SampleRatesArePositive
<1>1. ASSUME NEW t \in Threads, NEW c \in Clients, NEW list \in OptionLists,
             Subscribe(t, c, list)
      PROVE  RatesArePositive'
  <2>1. list \in Seq(ListEntries) /\ Accepted(list)
    BY <1>1, OptionListsAssumption DEF Subscribe
  <2>2. ASSUME NEW i \in DOMAIN Verified(list),
               IsContinuous(Verified(list)[i].prop)
        PROVE  Verified(list)[i].rate > 0
    <3>1. i \in DOMAIN list
      BY DEF Verified
    <3>2. /\ list[i] \in ListEntries
          /\ IsContinuous(list[i].prop)
          /\ Verified(list)[i].rate =
                CheckSampleRate(Config[list[i].prop], list[i].rate)
      BY <2>1, <2>2, <3>1 DEF Verified
    <3>3. /\ Config[list[i].prop] \in PropConfigs
          /\ list[i].prop \in Props /\ list[i].rate \in Nat
      BY <3>2, ConfigAssumption DEF IsContinuous, ListEntries
    <3>4. /\ Config[list[i].prop].minRate > 0
          /\ Config[list[i].prop].maxRate > 0
          /\ Config[list[i].prop].mode = "CONTINUOUS"
      BY <3>2, <3>3 DEF EveryContinuousPropertyHasRates, IsContinuous
    <3> QED
      BY <3>2, <3>3, <3>4 DEF CheckSampleRate, IsSampleRateFixed, PropConfigs
  <2>3. /\ todo'[t] = Verified(list)
        /\ \A u \in Threads \ {t} : todo'[u] = todo[u]
        /\ UNCHANGED <<updated, halRate>>
    BY <1>1 DEF Subscribe, TypeOK
  <2> QED
    BY <2>2, <2>3
<1>2. ASSUME NEW t \in Threads, GetOrCreateHalClient(t)
      PROVE  RatesArePositive'
  <2>1. /\ UNCHANGED <<updated, halRate>>
        /\ todo' = todo \/ todo' = [todo EXCEPT ![t] = <<>>]
    BY <1>2 DEF GetOrCreateHalClient
  <2>2. \A u \in Threads : todo'[u] = todo[u] \/ DOMAIN todo'[u] = {}
    BY <2>1 DEF TypeOK
  <2> QED
    BY <2>1, <2>2
<1>3. ASSUME NEW t \in Threads, AddOption(t)
      PROVE  RatesArePositive'
  <2> DEFINE p == Head(todo[t]).prop
  <2>1. todo[t] \in Seq(ListEntries) /\ todo[t] # <<>>
    BY <1>3 DEF AddOption, TypeOK
  <2>2. /\ 1 \in DOMAIN todo[t] /\ Head(todo[t]) = todo[t][1]
        /\ \A i \in DOMAIN Tail(todo[t]) :
              i + 1 \in DOMAIN todo[t] /\ Tail(todo[t])[i] = todo[t][i + 1]
        /\ Head(todo[t]) \in ListEntries
    BY <2>1, TailEntries
  <2>3. /\ todo'[t] = Tail(todo[t])
        /\ \A u \in Threads \ {t} : todo'[u] = todo[u]
    BY <1>3 DEF AddOption, TypeOK
  <2>4. \A u \in Threads : \A i \in DOMAIN todo'[u] :
           IsContinuous(todo'[u][i].prop) => todo'[u][i].rate > 0
    <3>1. \A i \in DOMAIN todo'[t] :
             IsContinuous(todo'[t][i].prop) => todo'[t][i].rate > 0
      BY <2>2, <2>3
    <3> QED
      BY <2>3, <3>1
  <2>5. UNCHANGED halRate
    BY <1>3, AddOptionUpdates
  <2>6. CASE UNCHANGED updated
    BY <2>4, <2>5, <2>6 DEF IsContinuous
  <2>7. ASSUME NEW new \in Options, new.rate >= Head(todo[t]).rate,
               updated' = [updated EXCEPT ![t] =
                             Append(@, [prop |-> p, rate |-> new.rate])]
        PROVE  RatesArePositive'
    <3> DEFINE e == [prop |-> p, rate |-> new.rate]
    <3>1. /\ updated[t] \in Seq(UpdateEntries)
          /\ updated'[t] = Append(updated[t], e)
          /\ \A u \in Threads \ {t} : updated'[u] = updated[u]
      BY <2>7 DEF TypeOK
    <3>2. IsContinuous(e.prop) => e.rate > 0
      BY <2>2, <2>7 DEF Options, ListEntries
    <3>3. e \in UpdateEntries
      BY <2>2 DEF UpdateEntries, Options, ListEntries
    <3> HIDE DEF e
    <3>4. ASSUME NEW u \in Threads, NEW i \in DOMAIN updated'[u],
                 IsContinuous(updated'[u][i].prop)
          PROVE  updated'[u][i].rate > 0
      <4>1. CASE u = t
        <5>1. \/ i \in DOMAIN updated[t] /\ updated'[t][i] = updated[t][i]
              \/ updated'[t][i] = e
          BY <3>1, <3>3, <3>4, <4>1, AppendedEntries
        <5> QED
          BY <3>2, <3>4, <4>1, <5>1
      <4>2. CASE u # t
        BY <3>1, <3>4, <4>2
      <4> QED
        BY <4>1, <4>2
    <3> QED
      BY <2>4, <2>5, <3>4 DEF IsContinuous
  <2> QED
    BY <1>3, <2>6, <2>7, AddOptionUpdates
<1>4. ASSUME NEW t \in Threads, HalSubscribe(t)
      PROVE  RatesArePositive'
  <2>1. updated[t] \in Seq(UpdateEntries) /\ updated[t] # <<>>
    BY <1>4 DEF HalSubscribe, ThreadInv, TypeOK
  <2>2. /\ 1 \in DOMAIN updated[t] /\ Head(updated[t]) = updated[t][1]
        /\ Head(updated[t]) \in UpdateEntries
        /\ \A i \in DOMAIN Tail(updated[t]) :
              /\ i + 1 \in DOMAIN updated[t]
              /\ Tail(updated[t])[i] = updated[t][i + 1]
    BY <2>1, TailEntries
  <2>3. /\ updated'[t] = Tail(updated[t])
        /\ \A u \in Threads \ {t} : updated'[u] = updated[u]
        /\ UNCHANGED todo
    BY <1>4 DEF HalSubscribe, TypeOK
  <2>4. \A p \in Props : halRate'[p] # 0
    <3>1. IsContinuous(Head(updated[t]).prop) => Head(updated[t]).rate > 0
      BY <2>2
    <3>2. /\ Head(updated[t]).prop \in Props
          /\ Head(updated[t]).rate \in Nat
      BY <2>2 DEF UpdateEntries
    <3>3. halRate' = IF IsContinuous(Head(updated[t]).prop)
                     THEN [halRate EXCEPT ![Head(updated[t]).prop] =
                                             Head(updated[t]).rate]
                     ELSE halRate
      BY <1>4 DEF HalSubscribe
    <3> QED
      BY <3>1, <3>2, <3>3 DEF TypeOK
  <2>5. \A i \in DOMAIN updated'[t] :
           IsContinuous(updated'[t][i].prop) => updated'[t][i].rate > 0
    BY <2>2, <2>3
  <2> QED
    BY <2>3, <2>4, <2>5 DEF IsContinuous
<1>5. ASSUME NEW t \in Threads, UnsubscribeOne(t)
      PROVE  RatesArePositive'
  <2>1. PICK p \in doomed[t] : UnsubscribeLocked(caller[t], p)
    BY <1>5 DEF UnsubscribeOne
  <2>2. \A q \in Props : halRate'[q] \in {halRate[q], NotRegistered}
    BY <2>1 DEF UnsubscribeLocked, TypeOK
  <2>3. UNCHANGED <<todo, updated>>
    BY <1>5 DEF UnsubscribeOne
  <2> QED
    BY <2>2, <2>3 DEF IsContinuous
<1>6. ASSUME UNCHANGED <<todo, updated, halRate>>
      PROVE  RatesArePositive'
  BY <1>6 DEF IsContinuous
<1>7. ASSUME NEW t \in Threads, NEW c \in Clients, NEW p \in Props,
             Unsubscribe(t, c, p) \/ ServiceDied(t, c)
      PROVE  UNCHANGED <<todo, updated, halRate>>
  BY <1>7 DEF Unsubscribe, ServiceDied
<1>8. ASSUME NEW t \in Threads, ReleaseLock(t) \/ OnCallbackDead(t)
      PROVE  UNCHANGED <<todo, updated, halRate>>
  BY <1>8 DEF ReleaseLock, OnCallbackDead
<1>9. ASSUME NEW c \in Clients,
             ClientDies(c) \/ \E t \in Threads : ServiceDied(t, c)
      PROVE  UNCHANGED <<todo, updated, halRate>>
  BY <1>9 DEF ClientDies, ServiceDied, threadVars
<1>10. CASE UNCHANGED vars
  BY <1>6, <1>10 DEF vars, threadVars
<1> QED
  BY <1>1, <1>2, <1>3, <1>4, <1>5, <1>6, <1>7, <1>8, <1>9, <1>10
  DEF Next, StartCall, Continue, DeathNotice

\* Where every continuous property is configured with rates, the HAL is never
\* given 0 Hz: the two properties without them are all that checkSampleRate
\* lets through.  VehicleHalManager.cpp:258-279, VehicleHal.h:54.
THEOREM ConfiguredRatesReachTheHal ==
    ASSUME EveryContinuousPropertyHasRates
    PROVE  Spec => []SampleRatesArePositive
<1>1. Init => RatesArePositive
  BY NotRegisteredAssumption
  DEF Init, RatesArePositive, SampleRatesArePositive
<1>2. IInv /\ RatesArePositive /\ [Next]_vars => RatesArePositive'
  BY RatesStep DEF IInv
<1>3. RatesArePositive => SampleRatesArePositive
  BY DEF RatesArePositive
<1> QED
  BY <1>1, <1>2, <1>3, Invariance, PTL DEF Spec

=============================================================================
