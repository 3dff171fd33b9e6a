# Verification of the Xen vehicle HAL

TLA+ models, TLC configurations and TLAPS proofs for the Android vehicle HAL in
`src/` (IVehicle 2.0 as a client of a VIS server). TLC checks each module on a
small instance; the proofs hold for every value of the constants.

## 1. Inventory

| Component | State it keeps | Operations | Interacts with |
|---|---|---|---|
| `VehicleHalManager` | config index (immutable), event queue, consumer, subscription manager | `get`, `set`, `subscribe`, `unsubscribe`, `getPropConfigs`; `onHalEvent`, `onBatchHalEvent`, `onHalPropertySetError`; init, destructor | called by 4 hwbinder threads; calls the HAL and client callbacks |
| `SubscriptionManager`, `HalClient` | `mClients`, `mPropToClients`, `mHalEventSubscribeOptions`, per client `mSubscriptions`; all under `mLock` | `addOrUpdateSubscription`, `unsubscribe`, `onCallbackDead`, `getSubscribedClients`, `distributeValuesToClients` | called by the manager and by hwbinder obituaries; calls back `onAllClientsUnsubscribed` -> `mHal->unsubscribe` with the lock held |
| `ConcurrentQueue`, `BatchingConsumer` | queue, `mIsActive`, consumer state | `push`, `waitForItems`, `flush`, `deactivate`; `run`, `requestStop`, `waitStopped` | HAL threads push, one worker thread delivers batches |
| `RecurrentTimer` | `mCookieToEventsMap`, stop flag | `registerRecurrentEvent`, `unregisterRecurrentEvent`, `loop`, `stop` | HAL `subscribe`/`unsubscribe`; calls `onContinuousPropertyTimer` |
| `VisVehicleHal` | property <-> VIS name maps, `mValuesAreDirty`, subscription id; `mLock` | `get`, `set`, `subscribe`, `unsubscribe`, `fetchAllAndSubscribe`, `subscribeToAll`, `subscriptionHandler`, `onVisConnectionStatusUpdate`, `onCreate` | property store, `VisClient` (external library), timer |
| `VehiclePropertyStore` | configs, values by (property, area, token), one lock | register, write, remove, read | both HALs |
| `VehicleObjectPool` | free objects per type and size | `obtain`, deleter -> `recycle` | every producer of events |
| `EmulatedVehicleHal` | store, timer, generator hub | `get`, `set`, `setPropertyFromVehicle`, fake data, OBD2 freeze frames | `VehicleEmulator` |
| `GeneratorHub`, generators | generators by cookie, priority queue of next events | register, unregister, `run` thread | `onFakeValueGenerated` |
| `VehicleEmulator`, `CommConn`, `SocketComm`, `PipeComm` | open connections, threads | accept, read loop, `sendMessage`, stop | host tools over a socket or QEMU pipe |
| `VehicleService`, `VehicleUtils`, `VehiclePropConfigIndex`, `VmsUtils`, configs | none that changes | wiring, pure helpers, data | |

What is hard here, and the property each component owes:

* **Subscriptions.** Concurrent calls, a client that dies during its own call,
  and a HAL call made after the lock was released. Owed: the maps agree with
  each other, each living request is covered, the HAL follows the manager, the
  dead are forgotten.
* **Event queue.** Shutdown at any moment, wakeups. Owed: FIFO, no lost event
  while running, no callback after destruction, the destructor returns.
* **Timer.** A late thread, registration while it works. Owed: aligned times,
  no more than one notification per interval, every registered event notified.
* **VIS HAL.** The store caches a remote server over a connection that can be
  lost; one path fetches without the lock. Owed: the cache holds only values of
  the server, is dirty when it may be stale, and converges.
* **Dispatch and pool.** Values move between threads in pooled objects and are
  copied shallowly into shared slots. Owed: each client gets what was sent, in
  order, and learns of a set before its event.
* **Emulated HAL.** Four kinds of threads share one store whose methods alone are
  atomic; a list of freeze frames can be cleared in part. Owed: sets happen only
  when permitted, the last event tells what is stored, frames stay.
* **Generators.** The hub's thread holds a reference into its queue while it waits
  with the lock released. Owed: one queued event per live generator, all go on.
* **Connections.** Read threads and setters write to the same sockets without a
  common lock; messages are framed by hand. Owed: each peer finds on its stream
  whole messages, the answers in order and every set.

`PROJECT.json` lists every hazard at its line, with the properties that watch it
or the reason why none does yet.

## 2. Modules

| Module | Models |
|---|---|
| `SubscribeOptions` | pure: `checkSampleRate`, `isSubscribable`, `mergeSubscribeOptions` |
| `SubscriptionManager` | `subscribe`, `unsubscribe`, obituaries, and the recurrent events they leave in the HAL |
| `EventChannel` | abstract FIFO channel with close |
| `EventQueue` | `ConcurrentQueue` + `BatchingConsumer` + `~VehicleHalManager`; implements `EventChannel` |
| `RecurrentTimer` | the timer with its thread, callers and destructor |
| `VisVehicleHal` | the property store as a cache of a VIS server; extends `VisMapping` |
| `VisMapping` | pure: the table of the VIS HAL, the two maps of names, the mapping file, the records, the conversions |
| `EventDispatch` | `VehicleHalManager::get`, `set`, `onHalEvent`, `onBatchHalEvent`, on pooled objects, up to the client's callback |
| `VehiclePropertyStore` | pure: the methods of the store, each one critical section |
| `FakeValueGenerator` | pure: the linear and the JSON generator |
| `EmulatedConfig` | pure: the property table of the emulated HAL |
| `GeneratorHub` | the hub's thread, its queue and its clock |
| `EmulatedVehicleHal` | the handlers of the emulated HAL; composes `GeneratorHub`, `FakeValueGenerator`, `VehiclePropertyStore` and `EmulatedConfig` |
| `EmulatorConnections` | `VehicleEmulator`, `CommConn`, `SocketComm`, `PipeComm` |
| `Selection` | helper: the elements of a sequence that pass a test |
| `Maps` | helper: `std::map` as a function |
| `SubscriptionManagerProofs`, `EventQueueProofs`, `RecurrentTimerProofs`, `VisVehicleHalProofs`, `EventDispatchProofs`, `EmulatedVehicleHalProofs`, `EmulatorConnectionsProofs` | theorems |
| `SelectionProofs` | lemmas on `Selected` and `EachOf`, by induction on the length |
| `MC*` | instances for TLC; `*Live` add a bound on calls and fairness |

How they fit: `EventDispatch` takes the FIFO of `EventChannel` for the queue, which
`EventQueue` implements, and the flags that `SubscriptionManager` keeps for the
subscriptions. `EmulatedVehicleHal` ends at `doHalEvent`, where `EventDispatch`
starts, and at `doSetValueFromClient`, where `EmulatorConnections` starts.
`VisVehicleHal` takes the maps of names as constants, and the types, the records and the
conversions from `VisMapping`, which also computes the maps.

Names follow the source. A critical section without a call out of it is one
action; what happens before the lock is taken or after it is released is an
action of its own. Definitions marked *Mutant of X* are wrong versions of `X`,
used by nothing: substituted for `X` they show that a property can fail.

**SubscriptionManager.** `pc[t]` is what hwbinder thread `t` executes. `Subscribe`
checks and clamps the options, `GetOrCreateHalClient` takes `mLock` (or fails
because linking to a dead binder fails), `AddOption` is one turn of the loop,
`ReleaseLock` the return, and `HalSubscribe` one turn of the unlocked loop that
calls the HAL. `UnsubscribeOne` is the whole of `SubscriptionManager::unsubscribe`
including the HAL call made under the lock. `ClientDies`, `ServiceDied`,
`OnCallbackDead` and the sweep by `UnsubscribeOne` are the obituary. An absent map
entry is `NoOptions` or `{}`. `asked` and `late` are history: what each client
asked for since it last unsubscribed, and who entered options after the sweep
had copied its properties. `halRate` abstracts `RecurrentTimer`.

**EventQueue.** `consumer` is the program counter of `runInternal`, `pushing[p]` of
a producer (the item is enqueued, the notification still to be made), `owner` of
the destructor. Sleep and batch interval are a step that takes any time; the
condition variable may wake up spuriously. The class may be stopped before it
was run; `VehicleHalManager` always runs it. `accepted`, `delivered`, `lateBatches`
are history.

**RecurrentTimer.** Time is a counter that `Tick` advances at any moment, up to
`MaxTime`. Callers read the clock, enter the critical section and notify in three
steps. `Scan` is the loop over the map, `Act` the callback, `EnterWait`/`Timeout`
the `wait_until`. Intervals are positive: 0 Hz is the subject of the theorem
`ConfiguredRatesReachTheHal`.

**VisVehicleHal.** A call holds `mLock` from `Lock` to `Return`, except `subscribe`,
which starts at the fetch without it. The fetch is `Ask` (test and request),
`Answer` or `FetchFails`, then one turn of the loop for each name of the answer
(`ConvertAnswer`, `WriteConverted`), `Resubscribe` and `Clean`. An answer may lack names.
`Conversion` is `readValueOrNull` with `jsonToVehicle`: a record that is not there and a
value that does not fit are passed over, and `Clean` resets `mValuesAreDirty` all the
same. The handler works without a lock: `TakeNotification`, then for each property
of the name `ConvertNotification` and `WriteConverted(Handler)`, so that a record can be
written by others between its reading and its writing. `RecordOf` is the store's
normalisation of the area of a global property; `IsMapped` looks a name up with the
area of the request, as the code does, so a set can go past the server to the
record of a mapped property. `bypassed` has the records last written in this way.
`VisClient` and the server are external: requests may fail, or be executed and yet
reported as failed; a lost connection loses its subscription and perhaps its
notifications. `Found` is what `multimap::find` returns. Events go to `EventDispatch`;
`AP_POWER_STATE_REPORT` is not modelled, and `mSubscribed` and `mMainSubscriptionId`,
which nothing reads, are left out. `lost`/`raced` and `missed` are history: they name
the moments at which the code can miss a disconnection or a change.

**VisMapping.** `TableMappings` is what the constructor and `onCreate` build from the
table in `DefaultConfig.h`, `AddMapping` one entry of the mapping file, with the
lookup through an erased entry as a choice. `vehiclePropValueToString` and
`jsonToVehicle` work on typed values: a float loses what six decimals cannot hold
(`Rounded`), a string is sent without quotes and is then no JSON, and a vector keeps
the length it has in the store, cutting or keeping elements.

**EventDispatch.** A pooled object is a number; `heap` says what it holds, the pools
which are free. `Obtain` takes one and `Filled` overwrites the fields that the code
writes; `Recycle` runs the check of `InternalPool` and discards what does not fit. A
client's callback reads its vector of slots when it is called, through the object.
`delivered` is what each client was told, `pushed`, `distributed` and `from` are
history.

**EmulatedVehicleHal.** `mPropStore` is a function from record identifiers (property,
area, token) to values; every call of the store is one step. `set` is `SetProperty`
(or `SetCommand`, `ClearFreezeFrames`, `SetMapService`), `CheckStatus`, `WriteValue`,
`Notify`. `lastEvent` is the value of the last event of a record, `overlapped` and
`permitted` are history. `get` changes nothing and is an operator.

**GeneratorHub.** Events are ordered by the time that is left until they are due;
`Tick` lowers it. `curEvent` is the reference that the thread holds while it waits:
a registration in between may move what it refers to (`grown`, the vector was
reallocated) or put a sooner event before it. `overtaken` has the cookies whose only
event was then popped in place of the one that was handled, `surplus` counts events
queued beside one of the same cookie.

**EmulatorConnections.** A peer's stream is a sequence of digits; `Read` is one
`::read` of `readExactly`, which may return a part. What a peer finds on its
connection is `written`: the pieces of all threads, each the length or the body of a
message, on sockets and on the pipe. A peer may close its end: then reads end, and
a write to it may fail or not. `IsMixed` says that somewhere in `written` a piece of
another thread follows a length, of threads that share no lock.

## 3. Runs

| Run | Bounds | Shows |
|---|---|---|
| `subscription` | 2 threads, 2 clients, 1 continuous and 1 on-change property, 2 option lists, 4 calls (365 000 states) | maps consistent, requests covered, HAL event never lost, the dead swept, HAL rate monotone, calls return |
| `subscription_race` | the same, calls unbounded | **violated**: the HAL can end at another rate than the manager's |
| `event_queue` | 2 producers, 2 events, 4 accepted | FIFO refinement, no lost wakeup, clean shutdown, delivery, the destructor returns |
| `timer` | 2 cookies, intervals 2 and 3, clock up to 5, 1 caller (755 000 states) | alignment, at most once per interval, no oversleeping, a seen event recurs, the destructor ends a thread that waits |
| `timer_lost` | 1 cookie, clock up to 2 | **violated**: a registration during the callback is never notified |
| `vis` | 2 threads, a VIS name of 2 properties and one of a vector (3 elements, the server has 4, a set 2), a request for an area that is not mapped, a value that does not fit and a float that six decimals do not hold, 1 value change, 1 lost connection, 2 calls (421 000 states); mapping files of up to 2 entries lead back (an `ASSUME`) | the cache holds server values, dirtiness is sound, convergence, calls return and disconnections are reported |
| `vis_gears` | 1 thread, 2 properties with one name | **violated**: the fetch updates only one of them |
| `dispatch` | 2 clients, 1 binder and 1 HAL thread, 2 objects, 2 slots, 3 calls, 2 changes of subscriptions | clients get what was sent; announcements come before events |
| `emulated` | 1 client thread, 1 vehicle thread, 2 generators, 13 properties of the table, 3 calls, a hub late by 1 (443 000 states) | sets were permitted, last events are stored values, frames stay, generators go on |
| `soonest_event` | the same | **violated**: a sooner event registered during the wait is popped and never handled |
| `connections` | 2 sockets, 1 pipe, 2 setters, 2 commands (get all and set), 2 sets, 1 peer that closes, 3 of these together, 1 connection with reads of parts (1.8 million states) | on its whole stream each peer gets its answers in order and every set, in whole messages, until messages are mixed |
| `read_exact` | 1 socket, reads may return parts, 2 commands | **violated**: `readExactly` returns other bytes than were sent |

Why the bounds are enough. A race needs two threads; a merge two clients and two
rates; `DropsClient` needs a second property. Rates 0, 1, 2 and 3 against the range
1..2 meet both clamps. In the queue four events make batches of more than one
behind a batch in hand. With a clock of 5 an event of interval 2 is overdue with two
of its times behind. One change and one lost connection already reach every window
of the fetch that the history variables name, and the server's first values are of
the wrong type and of another length. In `dispatch` two objects and two slots make every value
pass through an object used before, and a batch of two goes to a vector of its own.
In `emulated` each property with a branch of its own in the code is watched, a list of three
timestamps fails in its middle, and a generator can be stopped and started again
while its event is queued. In `connections` two setters write while a command is answered, which is enough to
mix answers with notifications on a socket and any two messages on the pipe. Symmetry is used only in runs without liveness.
`CHECK_DEADLOCK FALSE` everywhere: the bounds, and the destructors, let these
systems stop.

Fairness. Each thread that can take a step takes it (weak fairness; in `vis` only
some of them does, which is less and enough for calls that are bounded); nobody has to
call, die or destroy anything, and no wakeup has to be spurious. Where threads
compete for a `std::mutex`, which promises no fairness, the number of calls is
bounded so that weak fairness is enough. `vis` assumes that `VisClient` ends
every request, if need be with a failure, by another thread than the one that
reports connection changes; the library is not part of this repository. Were it
the same thread, it could wait for `mLock` while the holder of `mLock` waits for it, and
`CallsReturn` would not see that. `timer` and `emulated` assume that time passes; in `emulated` only the
hub's thread and the clock are fair: generators must go on whatever callers do.

## 4. What is violated

* `HalFollowsManager`: `VehicleHalManager::subscribe` calls `mHal->subscribe` after
  the manager's lock is released (`VehicleHalManager.cpp:157`). Two threads that
  raise a rate can reach the HAL in the opposite order; an unsubscribe in between
  leaves a recurrent event nobody wants. What does hold, and is proved, is
  `HalSubscriptionNotLost`: the event is never missing.
* `RegisteredEventsAreNotified`: `RecurrentTimer::loop` waits until a time computed
  before the callback and does not look at the map again.
* `AllMappedPropertiesAreUpdated`: `fetchAllAndSubscribe` uses `find` where the
  handler uses `equal_range`; the default configuration maps two gear properties
  to one VIS property.
* `ReadExactlyReturnsWhatWasSent`: `readExactly` never advances `offset`, so a message
  that arrives in two parts overwrites itself and reads into the next one.
* `SoonestEventIsHandled`: the comment in `GeneratorHub.cpp:75-77` says that the thread
  re-evaluates the soonest event when a sooner one is registered. `wait_until`
  returns timeout whenever the time has passed, notified or not: the thread then
  handles the event it waited for, pops the sooner one unhandled, and that
  generator is silent from then on (`GeneratorHub.h:39-42` promises it its events).

`PERF_ODOMETER` and `FUEL_LEVEL` have no rates in the default configuration, so every
request for them is clamped to 0 Hz and `hertzToNanoseconds` divides by it.
`ConfiguredRatesReachTheHal` proves that this is the only way to 0 Hz.

Some exceptions are written into properties that hold, because the code has the
gap. A property with such an exception does not watch the hazard it excepts, and
`PROJECT.json` says so of each:

* `late`: options that a dying client enters after its sweep.
* `raced`: a disconnection reported while a `subscribe` fetches without the lock.
* `missed`: a value that changes during a fetch, a set, or without a subscription.
* `AlwaysAnswered`, `AlwaysConverts`, `Convertible`: a fetch that lacks a name or cannot
  convert its value leaves the record as it was, and counts as clean. A `get` then
  returns an old value, or the default of the configuration, with `OK`.
* `bypassed`: a set of a global property with another area than 0 is not sent and
  overwrites the mapped record.
* `HasItsRecord`: several names of one record, or a name that `find` does not find it by.
* `overlapped`: two writers of one record, whose events may go in the other order.
* `overtaken` and `surplus`: the generator whose only event was popped unhandled
  (`SoonestEventIsHandled`), until it is registered anew, and the events that a
  stopped and restarted generator has beside each other.
* `IsMixed`: an answer mixed with a notification on a socket (`CommConn.cpp:69` beside
  `SocketComm.cpp:66`), or any two messages on the pipe. Its peer takes a length for a
  body; what holds before that is stated of the whole stream, and no writer is
  left out of it.
* `parted` and `closed`: peers whose commands arrived in parts, and peers that are gone.

`StopReturns` leaves out one case: a timer thread that has tested `mStopRequested`, found
no event and not begun to wait. It loses the notification of `stop()`, and the
destructor joins it for ever.

## 5. What is proved

Assumptions: only the named `ASSUME`s of the modules (types of the constants,
model values distinct from real ones) and, where a theorem has hypotheses of its
own, these. No bound on threads, clients, properties, rates or events.

`SubscriptionManagerProofs`. `IInv` is inductive. `PropClientsAreKnown` needs `ThreadInv`
(who enters options holds `mLock` for a registered client, with non-empty flags);
`RequestsAreCovered` needs that a merge covers both arguments (`MergeCovers`) and that
an update which is not reported changes nothing (`NoUpdateCovers`), and
`HalOptionsHaveClients` for the last unsubscribe; `HalSubscriptionNotLost` needs that
the HAL call of an unsubscribe happens under the lock. The proof has one lemma per
action. Theorems: `TypeCorrect`, `PropClientsKnown`, `RequestsCovered`, `OptionsHaveClients`,
`HalNotLost`, `SweptGone`, `RateNeverLowered`, and `CheckSampleRateBounds` for the clamp.
`ConfiguredRatesReachTheHal` has a hypothesis of its own: with rates for each
continuous property the HAL is never given 0 Hz. The rates are followed from the
list to the HAL (`RatesArePositive`); merging only raises them.

`EventQueueProofs`. `IInv` adds `StopInv` to the checked properties: why a stop request
stays visible to the worker until it has left its loop. Theorems: `TypeCorrect`,
`NothingLost`, `WakeupsAreNotLost`, `StopIsHonoured`, `DestructionIsSafe`, and
`Refinement`: `Spec` implements `EventChannel` under `channel <- items \o mQueue`,
`open <- mIsActive`.

`RecurrentTimerProofs`. The counts of turns say little by themselves. `TimesAccountForTurns`
ties them to the clock: after its turns an event is due at the multiple of its
interval that many intervals on, or was passed over by `Multiplier`; from that
and the arithmetic of aligned times follow `EventsAreAligned` and
`AtMostOncePerInterval`. `NextEventTimeCovers` says that between the scan and the wait
`nextEventTime` is no later than any event scanned, which is `TimerNeverOversleeps`
before the wait begins. Theorems: `Alignment`, `NoRunningAhead`, `OneLateNotification`,
`NeverOversleeps`.

`VisVehicleHalProofs`. `LockIsHeld`: whoever is inside `get` or `set` owns `mLock`, so
only the fetch of `subscribe` runs beside another call. `PendingValuesAreHeld`: what is
on its way to the store (a notification, a snapshot, a converted value, a value that
a set has sent) was held by the server under a name of its record.
`FetchedNamesHaveValues`: when a fetch gives up `mValuesAreDirty`, each name that no answer
lacks has a value of the server, if its values fit (`Got`). `FetchesAreRaced`: a
disconnection can be reported in the middle of a fetch only where `raced` records
it. `LastValuesAreServers`: the last thing under way to a record is the value of the
server, or else what is in the store agrees with it, unless the name is in
`missed`; agreement of a vector is up to the length it has in the store. Theorems:
`StoreIsNeverAhead`, `GetFindsValues`, `DisconnectionsAreNoticed`, `CacheIsCoherent`,
`TypeCorrect`, and two that no run checks: `CallsExcludeEachOther` and `OnlySubscribeIsRaced`.

Of the conversions: `ConversionsAgree` says what comes back of a set, for every type
but strings and mixed values, which have no JSON text: the elements in six decimals,
and a vector in the length of the store. `SecondRoundIsExact`: what has come back once
comes back unchanged from then on. Of the names: `MappingsLeadBack`, for every
mapping file and whether or not an erased iterator is still read, is what
`MappingsAssumption` takes for granted of the two maps. `AddMapping` keeps the way back
from each name to its property, because the only entries it takes away are those of
the property it maps anew. The induction goes over the length of the file
(`InductionOverNat` of `SelectionProofs`, an induction on sets of numbers, because those
of the library take an operator).

`EventDispatchProofs`. `OneOwner` is the heart: an object is with one thread, in the
queue, in the batch, or free in the pool that is its home, so nobody fills an object
that a client may still read. With it the objects in the queue hold what the HAL
pushed, each client's copies are those of its batch, and `delivered` is what was
distributed before and is selected by the client's subscriptions now (`Selected`,
with the lemmas of `SelectionProofs`). Two assumptions were added to the module: the
binder threads are not the HAL's, and there are finitely many clients. Theorems:
`ObjectsAreNotShared`, `AnnouncedFirst`, `Fidelity`.

`EmulatedVehicleHalProofs`. Nothing is assumed of what is watched, asked for or
generated; client threads and vehicle threads are different ones
(`ThreadsAssumption`). `RecordsFitIds` (a record is of the configured property in its
identifier, and a freeze frame's token is its timestamp) rests on `ConfigOf`: of the
two registrations of a property the first counts, shown for every row of the table.
`PendingIsStored` carries `LastEventIsStored`: a thread about to send an event of a
record sends what is stored, unless writers overlapped; a writer makes it true and
only `MarkOverlap` gives it up. `EventsAreKnown` is needed because `lastEvent` grows.
`ChecksWerePowered` carries `SetsWerePermitted` through the check of the status. For
`EveryGeneratorIsQueued` events are counted: `PushCounts` adds one to the count of its
cookie, `PoppedCounts` takes one from that of the front, whichever of the next
events takes its place. Theorems: `SetsArePermitted`, `EventsTellTheStore`,
`ReadsAreAnswered`, `GeneratorsStayQueued`, and `FramesStay`, an action property.
The proof of `LastEventIsStored` failed as it was first stated: a key press or a reply
to a power report is an event that nobody stores, so a record of `HW_KEY_INPUT` or
`AP_POWER_STATE_REQ` does not hold what was last sent. The properties that the
instance watched before did not include them; now they do, and `EventOnly` names
the exception.

`EmulatorConnectionsProofs`. A stream is followed as its peer sees it, with the pieces of
all threads. Until it is mixed it is `Framed`: whole messages, and an odd piece at its
end is the length of the one thread that is between its two writes. `Turns` (the
setter at the sockets holds `mMutex`) makes that one thread among setters. From
there messages are counted. `AllTold`: what a socket was told since it was
registered, with the message that the holder of the mutex still owes it, is what
all sets have to tell it, in their order; a pipe is told without the mutex, so
what it lacks are the values of the setters on their way, in any order. `Reads` is
where a read thread is in its stream, which is known while no read returned a part,
and `AllAnswered` that its answers are those to the frames it took, but for the one it
is writing. Peers that close, writes that fail and reads of parts are in the
invariant: a connection drops out of it only when its own peer closed, its own
stream is mixed or, for answers, its own command arrived in parts. Told and
answers are selections of one stream, so the proof rests on `SelectionProofs`. Two
assumptions were added to the module: sockets, pipes and setters are different
things, with finitely many setters and at most one pipe, and a command is one
digit of a frame (at most 9 commands). Theorems: `Invariance`, `ConnectionsTold`,
`ResponsesInOrder`, and `NotificationsAreNotMixed`: two setters are never both between the
two writes to one socket, which is what `mMutex` is for.

Only model-checked, and why:

* Liveness (`CallsReturn`, `DeadClientsAreForgotten`, `EventsAreDelivered`,
  `DestructorReturns`, `EventsRecur`, `StopReturns`, `GeneratorsGoOn`): fairness is
  out of the prover's reach.

Every invariant and action property that a passing run checks, and the refinement of
`EventChannel`, is stated by a theorem.

## 6. What is left

* Hazards without a property, each with its reason in `PROJECT.json`.
* What a call of `get` of `EmulatedVehicleHal` returns for freeze frames: it changes
  nothing, and its frames are single values here.

## 7. Not modelled

* `getAllPropConfigs`, `getPropConfigs`, `debugDump`, `VehiclePropConfigIndex`: reads of an
  index that never changes. (`getPropConfigs` answers twice when a property is not
  configured.) `onHalPropertySetError`: called by no HAL here.
* `SocketComm::stop`, `PipeComm::stop`: run only by destructors, which the service never
  reaches; `removeClosedConnections`: called by nobody. Messages of
  the pipe's maximum size, a `::read` that fails, the signal that a write to a closed
  socket may raise.
* The threads of `VisClient`, and how it ends its requests.
* The text of JSON fake data and of protobuf messages, numeric limits of areas.
* `AP_POWER_STATE_REPORT` and the timer callback of `VisVehicleHal`: the same code as in
  `EmulatedVehicleHal`, where both are modelled.
* `VmsUtils`: called by nobody. `Obd2SensorStore`: its implementation is not in the
  repository; a frame is one value. `VehicleService`: wiring, in the initial states.
