------------------------ MODULE SubscriptionManager ------------------------
(***************************************************************************)
(* IVehicle::subscribe and unsubscribe, the obituaries of client           *)
(* callbacks, and what they do to SubscriptionManager and to the HAL.      *)
(*                                                                         *)
(* Every hwbinder thread runs one call at a time.  All maps of             *)
(* SubscriptionManager are guarded by mLock; a critical section that makes *)
(* no call out of the manager before its last statement is one action.     *)
(* The loop over the option list keeps mLock over several actions.         *)
(* VehicleHalManager::subscribe calls mHal->subscribe AFTER mLock has been *)
(* released, while mHal->unsubscribe is called with mLock held.            *)
(***************************************************************************)
EXTENDS SubscribeOptions, Sequences

CONSTANTS
    Threads,      \* hwbinder threads
    Clients,      \* client callbacks, one ClientId each
    Props,        \* property ids a client may name
    Config,       \* VehiclePropConfig of the properties the HAL supports
    OptionLists,  \* option lists a client may pass to subscribe
    NoThread,     \* mLock is free
    NotRegistered \* the HAL has no recurrent event for a property

ListEntries == [prop : Props, rate : Nat, flags : SUBSET SubscribeFlags]

ASSUME ConfigAssumption ==
    DOMAIN Config \subseteq Props /\ Config \in [DOMAIN Config -> PropConfigs]
ASSUME OptionListsAssumption == OptionLists \subseteq Seq(ListEntries)
ASSUME NoThreadAssumption == NoThread \notin Threads
ASSUME NotRegisteredAssumption == NotRegistered \notin Nat

VARIABLES
    pc,           \* what each thread executes
    caller,       \* the client each thread works for
    todo,         \* options (subscribe) a thread has still to enter
    updated,      \* options a thread has still to pass to mHal->subscribe
    doomed,       \* properties a thread has still to unsubscribe
    mLock,
    mClients,     \* clients with a HalClient, linked to death
    mSubscriptions,             \* HalClient::mSubscriptions
    mPropToClients,             \* no entry = {}
    mHalEventSubscribeOptions,
    halRate,      \* recurrent events registered in the HAL
    death,        \* life of the client process and of its obituary
    asked,        \* history: CAR options entered since the last unsubscribe
    late          \* history: clients with an option entered after the sweep

managerVars == <<mLock, mClients, mSubscriptions, mPropToClients,
                 mHalEventSubscribeOptions>>
threadVars == <<pc, caller, todo, updated, doomed>>
vars == <<threadVars, managerVars, halRate, death, asked, late>>

-----------------------------------------------------------------------------
\* VisVehicleHal::isContinuousProperty / EmulatedVehicleHal's: only these
\* properties have a recurrent event in the HAL.
IsContinuous(p) == p \in DOMAIN Config /\ Config[p].mode = "CONTINUOUS"

\* The loop of VehicleHalManager::subscribe over the options.
Accepted(list) ==
    \A i \in DOMAIN list :
        /\ list[i].prop \in DOMAIN Config
        /\ list[i].flags # {}
        /\ IsSubscribable(Config[list[i].prop], list[i].flags)

Verified(list) ==
    [i \in DOMAIN list |->
        [prop  |-> list[i].prop,
         rate  |-> CheckSampleRate(Config[list[i].prop], list[i].rate),
         flags |-> list[i].flags]]

\* Mutant of OptionsOf: a bit outside SubscribeFlags gets through.
OptionsWithUnknownFlag(entry) ==
    [rate |-> entry.rate, flags |-> entry.flags \cup {"UNKNOWN"}]

OptionsOf(entry) == [rate |-> entry.rate, flags |-> entry.flags]

Obituary == {"alive", "dead", "notified", "swept"}

Init ==
    /\ pc = [t \in Threads |-> "idle"]
    /\ caller \in [Threads -> Clients]
    /\ todo = [t \in Threads |-> <<>>]
    /\ updated = [t \in Threads |-> <<>>]
    /\ doomed = [t \in Threads |-> {}]
    /\ mLock = NoThread
    /\ mClients = {}
    /\ mSubscriptions = [c \in Clients |-> [p \in Props |-> NoOptions]]
    /\ mPropToClients = [p \in Props |-> {}]
    /\ mHalEventSubscribeOptions = [p \in Props |-> NoOptions]
    /\ halRate = [p \in Props |-> NotRegistered]
    /\ death = [c \in Clients |-> "alive"]
    /\ asked = [c \in Clients |-> [p \in Props |-> NoOptions]]
    /\ late = {}

-----------------------------------------------------------------------------
\* VehicleHalManager::subscribe up to the call of the manager.  A list that
\* is not accepted returns INVALID_ARG and changes nothing.
Subscribe(t, c, list) ==
    /\ pc[t] = "idle"
    /\ death[c] = "alive"
    /\ Accepted(list)
    /\ pc' = [pc EXCEPT ![t] = "subscribe"]
    /\ caller' = [caller EXCEPT ![t] = c]
    /\ todo' = [todo EXCEPT ![t] = Verified(list)]
    /\ UNCHANGED <<updated, doomed, managerVars, halRate, death, asked, late>>

\* addOrUpdateSubscription takes mLock and gets or creates the HalClient.
\* linkToDeath fails once the obituary has been sent, and succeeds for a
\* process that has died without one: the obituary follows.
GetOrCreateHalClient(t) ==
    /\ pc[t] = "subscribe"
    /\ mLock = NoThread
    /\ \/ /\ caller[t] \in mClients \/ death[caller[t]] \in {"alive", "dead"}
          /\ mClients' = mClients \cup {caller[t]}
          /\ mLock' = t
          /\ pc' = [pc EXCEPT ![t] = "options"]
          /\ UNCHANGED todo
       \/ /\ caller[t] \notin mClients
          /\ death[caller[t]] \in {"notified", "swept"}
          /\ pc' = [pc EXCEPT ![t] = "idle"]    \* INTERNAL_ERROR
          /\ todo' = [todo EXCEPT ![t] = <<>>]
          /\ UNCHANGED <<mClients, mLock>>
    /\ UNCHANGED <<caller, updated, doomed, mSubscriptions, mPropToClients,
                   mHalEventSubscribeOptions, halRate, death, asked, late>>

\* HalClient::addOrUpdateSubscription.  Merging into an absent entry stores
\* the new options.
AddToHalClient(c, p, opts) ==
    mSubscriptions' =
        [mSubscriptions EXCEPT ![c][p] = Merge(mSubscriptions[c][p], opts)]

\* Mutant of AddUpdate: only the last update of a call is returned.
KeepLastUpdate(updates, entry) == << entry >>

\* outUpdatedSubscriptions->push_back.
AddUpdate(updates, entry) == Append(updates, entry)

\* updateHalEventSubscriptionLocked, called for options with the CAR flag.
UpdateHalEventSubscription(t, p, opts) ==
    LET old == mHalEventSubscribeOptions[p]
        new == Merge(old, opts)
    IN  IF MergeUpdates(old, opts)
        THEN /\ mHalEventSubscribeOptions' =
                    [mHalEventSubscribeOptions EXCEPT ![p] = new]
             /\ updated' = [updated EXCEPT ![t] =
                                AddUpdate(@, [prop |-> p, rate |-> new.rate])]
        ELSE UNCHANGED <<mHalEventSubscribeOptions, updated>>

\* One turn of the loop of SubscriptionManager::addOrUpdateSubscription.
AddOption(t) ==
    /\ pc[t] = "options"
    /\ todo[t] # <<>>
    /\ LET c == caller[t]
           p == Head(todo[t]).prop
           opts == OptionsOf(Head(todo[t]))
       IN  /\ AddToHalClient(c, p, opts)
           /\ mPropToClients' = [mPropToClients EXCEPT ![p] = @ \cup {c}]
           /\ IF "CAR" \in opts.flags
              THEN /\ UpdateHalEventSubscription(t, p, opts)
                   /\ asked' = [asked EXCEPT ![c][p] = Merge(asked[c][p], opts)]
              ELSE UNCHANGED <<mHalEventSubscribeOptions, updated, asked>>
           /\ late' = IF death[c] = "swept" THEN late \cup {c} ELSE late
    /\ todo' = [todo EXCEPT ![t] = Tail(@)]
    /\ UNCHANGED <<pc, caller, doomed, mLock, mClients, halRate, death>>

\* Mutant of Unlock: the lock is not released.
UnlockForgotten == mLock' = mLock

Unlock == mLock' = NoThread

\* addOrUpdateSubscription returns and with it goes the lock guard.
ReleaseLock(t) ==
    /\ pc[t] = "options"
    /\ todo[t] = <<>>
    /\ Unlock
    /\ pc' = [pc EXCEPT ![t] = IF updated[t] = <<>> THEN "idle" ELSE "hal"]
    /\ UNCHANGED <<caller, todo, updated, doomed, mClients, mSubscriptions,
                   mPropToClients, mHalEventSubscribeOptions, halRate, death,
                   asked, late>>

\* One turn of the last loop of VehicleHalManager::subscribe.  The HAL
\* (re)registers the recurrent event of a continuous property.
HalSubscribe(t) ==
    /\ pc[t] = "hal"
    /\ LET opt == Head(updated[t])
       IN  halRate' = IF IsContinuous(opt.prop)
                      THEN [halRate EXCEPT ![opt.prop] = opt.rate]
                      ELSE halRate
    /\ updated' = [updated EXCEPT ![t] = Tail(@)]
    /\ pc' = [pc EXCEPT ![t] = IF Len(updated[t]) = 1 THEN "idle" ELSE "hal"]
    /\ UNCHANGED <<caller, todo, doomed, managerVars, death, asked, late>>

-----------------------------------------------------------------------------
\* Who is still listed for p when c has been removed.  A client that is not
\* in mClients is not looked for.
ClientsLeft(c, p) ==
    IF c \in mClients THEN mPropToClients[p] \ {c} ELSE mPropToClients[p]

\* Mutant of DropsClient: other properties of the client are not looked at.
DropsClientAlways(c, p) == c \in mClients

\* !isClientSubscribedToOtherProps.
DropsClient(c, p) ==
    c \in mClients /\ \A q \in Props \ {p} : c \notin mPropToClients[q]

\* Mutant of NoClientLeft: the HAL options are never given up.
NeverGiveUp(c, p) == FALSE

NoClientLeft(c, p) == ClientsLeft(c, p) = {}

\* SubscriptionManager::unsubscribe.  The HalClient is dropped, with its
\* options, when no property lists it any more; onPropertyUnsubscribed calls
\* mHal->unsubscribe with mLock held.
UnsubscribeLocked(c, p) ==
    /\ mLock = NoThread
    /\ mPropToClients' = [mPropToClients EXCEPT ![p] = ClientsLeft(c, p)]
    /\ IF DropsClient(c, p)
       THEN /\ mClients' = mClients \ {c}
            /\ mSubscriptions' = [mSubscriptions EXCEPT ![c] =
                                    [q \in Props |-> NoOptions]]
       ELSE UNCHANGED <<mClients, mSubscriptions>>
    /\ IF NoClientLeft(c, p)
       THEN /\ mHalEventSubscribeOptions' =
                    [mHalEventSubscribeOptions EXCEPT ![p] = NoOptions]
            /\ halRate' = IF IsContinuous(p)
                          THEN [halRate EXCEPT ![p] = NotRegistered]
                          ELSE halRate
       ELSE UNCHANGED <<mHalEventSubscribeOptions, halRate>>
    /\ asked' = [asked EXCEPT ![c][p] = NoOptions]
    /\ UNCHANGED <<mLock, death, late>>

\* VehicleHalManager::unsubscribe: the call arrives ...
Unsubscribe(t, c, p) ==
    /\ pc[t] = "idle"
    /\ death[c] = "alive"
    /\ pc' = [pc EXCEPT ![t] = "unsubscribe"]
    /\ caller' = [caller EXCEPT ![t] = c]
    /\ doomed' = [doomed EXCEPT ![t] = {p}]
    /\ UNCHANGED <<todo, updated, managerVars, halRate, death, asked, late>>

\* ... and the manager executes it.  The sweep of a dead client makes the
\* same call for each of its properties; the code takes them in the order of
\* their ids, the model in any order.
UnsubscribeOne(t) ==
    /\ pc[t] \in {"unsubscribe", "sweep"}
    /\ \E p \in doomed[t] :
          /\ UnsubscribeLocked(caller[t], p)
          /\ doomed' = [doomed EXCEPT ![t] = @ \ {p}]
          /\ pc' = [pc EXCEPT ![t] = IF doomed[t] = {p} THEN "idle" ELSE @]
    /\ UNCHANGED <<caller, todo, updated>>

\* The process of a client may die at any moment, calls in flight included.
ClientDies(c) ==
    /\ death[c] = "alive"
    /\ death' = [death EXCEPT ![c] = "dead"]
    /\ UNCHANGED <<threadVars, managerVars, halRate, asked, late>>

\* hwbinder delivers the obituary of a linked client, once, on some thread.
\* The callback is linked to death exactly while its HalClient exists.
ServiceDied(t, c) ==
    /\ pc[t] = "idle"
    /\ death[c] = "dead"
    /\ c \in mClients
    /\ death' = [death EXCEPT ![c] = "notified"]
    /\ pc' = [pc EXCEPT ![t] = "dead"]
    /\ caller' = [caller EXCEPT ![t] = c]
    /\ UNCHANGED <<todo, updated, doomed, managerVars, halRate, asked, late>>

\* Mutant of SubscribedProperties: only what the client gets from the car.
PropertiesFromCar(c) ==
    {p \in Props : "CAR" \in mSubscriptions[c][p].flags}

\* HalClient::getSubscribedProperties.
SubscribedProperties(c) == {p \in Props : mSubscriptions[c][p] # NoOptions}

\* onCallbackDead copies the client's properties under mLock and releases it
\* before it unsubscribes them one by one.
OnCallbackDead(t) ==
    /\ pc[t] = "dead"
    /\ mLock = NoThread
    /\ LET c == caller[t]
           props == IF c \in mClients THEN SubscribedProperties(c) ELSE {}
       IN  /\ doomed' = [doomed EXCEPT ![t] = props]
           /\ pc' = [pc EXCEPT ![t] = IF props = {} THEN "idle" ELSE "sweep"]
           /\ death' = [death EXCEPT ![c] = "swept"]
    /\ UNCHANGED <<caller, todo, updated, managerVars, halRate, asked, late>>

-----------------------------------------------------------------------------
\* A call of a client arrives on an idle thread.
StartCall(t) ==
    \E c \in Clients :
        \/ \E list \in OptionLists : Subscribe(t, c, list)
        \/ \E p \in Props : Unsubscribe(t, c, p)

\* A thread goes on with the call it executes.
Continue(t) ==
    \/ GetOrCreateHalClient(t)
    \/ AddOption(t)
    \/ ReleaseLock(t)
    \/ HalSubscribe(t)
    \/ UnsubscribeOne(t)
    \/ OnCallbackDead(t)

DeathNotice(c) == \E t \in Threads : ServiceDied(t, c)

Next ==
    \/ \E t \in Threads : StartCall(t) \/ Continue(t)
    \/ \E c \in Clients : ClientDies(c) \/ DeathNotice(c)

Spec == Init /\ [][Next]_vars

-----------------------------------------------------------------------------
(***************************************************************************)
(* Properties.                                                             *)
(***************************************************************************)
UpdateEntries == [prop : Props, rate : Nat]

\* Type invariant.
TypeOK ==
    /\ pc \in [Threads -> {"idle", "subscribe", "options", "hal",
                           "unsubscribe", "dead", "sweep"}]
    /\ caller \in [Threads -> Clients]
    /\ todo \in [Threads -> Seq(ListEntries)]
    /\ updated \in [Threads -> Seq(UpdateEntries)]
    /\ doomed \in [Threads -> SUBSET Props]
    /\ mLock \in Threads \cup {NoThread}
    /\ mClients \in SUBSET Clients
    /\ mSubscriptions \in [Clients -> [Props -> Options]]
    /\ mPropToClients \in [Props -> SUBSET Clients]
    /\ mHalEventSubscribeOptions \in [Props -> Options]
    /\ halRate \in [Props -> Nat \cup {NotRegistered}]
    /\ death \in [Clients -> Obituary]
    /\ asked \in [Clients -> [Props -> Options]]
    /\ late \in SUBSET Clients

Names(updates, p) == \E i \in DOMAIN updates : updates[i].prop = p

\* mHal->subscribe(p, ...) is still to be called by some thread.
Pending(p) == \E t \in Threads : Names(updated[t], p)

\* Every client an event or an obituary can find through a property is a
\* registered one and knows the property: getSubscribedClientsLocked and the
\* sweep of onCallbackDead read two maps that only together say who is
\* subscribed to what.
PropClientsAreKnown ==
    \A p \in Props : \A c \in mPropToClients[p] :
        c \in mClients /\ mSubscriptions[c][p] # NoOptions

\* What a client asked for since it last unsubscribed is covered by what the
\* manager holds for the property, whatever the other clients have done
\* since: the client is listed, and the HAL options are at least as fast.
RequestsAreCovered ==
    \A c \in Clients, p \in Props :
        asked[c][p] # NoOptions =>
            /\ c \in mPropToClients[p]
            /\ "CAR" \in mHalEventSubscribeOptions[p].flags
            /\ mHalEventSubscribeOptions[p].rate >= asked[c][p].rate

\* A continuous property for which the manager holds HAL options has its
\* recurrent event, or some thread is still about to register it: no
\* interleaving of unsubscribe with the unlocked mHal->subscribe loses it.
HalSubscriptionNotLost ==
    \A p \in Props :
        /\ IsContinuous(p)
        /\ mHalEventSubscribeOptions[p] # NoOptions
        => halRate[p] # NotRegistered \/ Pending(p)

\* HAL options are held only for properties that some client subscribed to.
HalOptionsHaveClients ==
    \A p \in Props :
        mHalEventSubscribeOptions[p] # NoOptions => mPropToClients[p] # {}

\* A client whose obituary has been handled is listed for no property, but
\* for the properties a handler has still to unsubscribe, unless one of its
\* own calls, in flight when it died, entered an option after the sweep had
\* copied its properties.
SweptClientsAreGone ==
    \A c \in Clients, p \in Props :
        /\ death[c] = "swept"
        /\ c \notin late
        /\ c \in mPropToClients[p]
        => \E t \in Threads :
              pc[t] = "sweep" /\ caller[t] = c /\ p \in doomed[t]

\* What the program counter of a thread says about mLock and about the
\* thread's own lists: whoever enters options holds mLock, for a client that
\* is registered, and nobody is left to call the HAL with an empty list.
ThreadInv ==
    \A t \in Threads :
        /\ pc[t] = "options" <=> mLock = t
        /\ pc[t] = "options" => caller[t] \in mClients
        /\ pc[t] = "hal" => updated[t] # <<>>
        /\ \A i \in DOMAIN todo[t] : todo[t][i].flags # {}

\* The inductive invariant: each part needs some of the others, and ThreadInv,
\* to be preserved.
IInv ==
    /\ TypeOK
    /\ ThreadInv
    /\ PropClientsAreKnown
    /\ RequestsAreCovered
    /\ HalOptionsHaveClients
    /\ HalSubscriptionNotLost
    /\ SweptClientsAreGone

\* The rate held for the HAL falls only by giving up the subscription.
HalRateNeverLowered ==
    [][\A p \in Props :
          /\ mHalEventSubscribeOptions[p] # NoOptions
          /\ mHalEventSubscribeOptions'[p] # NoOptions
          => mHalEventSubscribeOptions'[p].rate >=
                mHalEventSubscribeOptions[p].rate]_vars

\* Once every call has returned, the recurrent events of the HAL are the ones
\* addOrUpdateSubscription said need to be updated in VehicleHAL, at the rate
\* it returned, and onPropertyUnsubscribed has removed all others.
HalFollowsManager ==
    (\A t \in Threads : pc[t] = "idle") =>
        \A p \in Props :
            IsContinuous(p) =>
                halRate[p] = IF mHalEventSubscribeOptions[p] = NoOptions
                             THEN NotRegistered
                             ELSE mHalEventSubscribeOptions[p].rate

=============================================================================
