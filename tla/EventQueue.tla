----------------------------- MODULE EventQueue -----------------------------
(***************************************************************************)
(* ConcurrentQueue and BatchingConsumer, as VehicleHalManager uses them:   *)
(* HAL threads push events (onHalEvent), one consumer thread waits for     *)
(* items, sleeps for the batching window, flushes the queue and hands the  *)
(* batch to onBatchHalEvent, and the owner runs the destructor             *)
(* requestStop; deactivate; waitStopped at any time.                       *)
(*                                                                         *)
(* A critical section of ConcurrentQueue::mLock is one action; the         *)
(* notification of mCond, made after the lock has been released, is the    *)
(* next one.  The consumer may wake up without a notification.             *)
(***************************************************************************)
EXTENDS Naturals, Sequences

CONSTANTS
    Producers,  \* HAL threads that push events
    Events,     \* events
    MaxEvents   \* bound: number of events accepted

ASSUME MaxEventsAssumption == MaxEvents \in Nat

VARIABLES
    mQueue, mIsActive,   \* ConcurrentQueue
    mState,              \* BatchingConsumer
    consumer,            \* what the worker thread executes
    items,               \* local variable of runInternal
    pushing,             \* what each producer executes
    owner,               \* what the owner of queue and consumer executes
    accepted,            \* history: events that push has enqueued
    delivered,           \* history: events handed to onBatchReceived
    lateBatches          \* history: batches handed over after requestStop

queueVars == <<mQueue, mIsActive>>
historyVars == <<accepted, delivered, lateBatches>>
vars == <<queueVars, mState, consumer, items, pushing, owner, historyVars>>

States == {"INIT", "RUNNING", "STOP_REQUESTED", "STOPPED"}
ConsumerSteps == {"none", "created", "check", "wait", "blocked", "awake",
                  "sleep", "window", "flush", "deliver", "stop", "finished"}
OwnerSteps == {"constructed", "running", "stopping", "notifying", "joining",
               "destroyed"}

\* The destructor has begun.
StopRequested == owner \notin {"constructed", "running"}

Init ==
    /\ mQueue = <<>> /\ mIsActive = TRUE
    /\ mState = "INIT"
    /\ consumer = "none"
    /\ items = <<>>
    /\ pushing = [p \in Producers |-> "idle"]
    /\ owner = "constructed"
    /\ accepted = <<>> /\ delivered = <<>> /\ lateBatches = 0

-----------------------------------------------------------------------------
\* Mutant of WakeConsumer: the notification is missing.
NoNotification == UNCHANGED consumer

\* The worker thread, if it is blocked in mCond.wait, gets to run again.
WakeConsumer ==
    consumer' = IF consumer = "blocked" THEN "awake" ELSE consumer

\* Mutant of Enqueue: the newest event is taken first.
EnqueueFirst(queue, e) == << e >> \o queue

Enqueue(queue, e) == Append(queue, e)

\* Mutant of CanPush: push does not look at mIsActive.
AlwaysPush == TRUE

CanPush == mIsActive

\* ConcurrentQueue::push, its critical section, for an active queue.  On an
\* inactive one push drops the event and changes nothing.
Push(p, e) ==
    /\ pushing[p] = "idle"
    /\ CanPush
    /\ Len(accepted) < MaxEvents
    /\ mQueue' = Enqueue(mQueue, e)
    /\ accepted' = Append(accepted, e)
    /\ pushing' = [pushing EXCEPT ![p] = "notify"]
    /\ UNCHANGED <<mIsActive, mState, consumer, items, owner, delivered,
                   lateBatches>>

\* mCond.notify_one() at the end of push.
NotifyOne(p) ==
    /\ pushing[p] = "notify"
    /\ WakeConsumer
    /\ pushing' = [pushing EXCEPT ![p] = "idle"]
    /\ UNCHANGED <<queueVars, mState, items, owner, historyVars>>

-----------------------------------------------------------------------------
\* BatchingConsumer::runInternal, one action per step that another thread
\* can see.

\* Mutant of MayEnterLoop: what exchange returns is ignored.
AlwaysEnterLoop == TRUE

MayEnterLoop == mState = "INIT"

\* mState.exchange(RUNNING): a stop requested before the thread got here is
\* overwritten, but the loop is not entered.
EnterLoop ==
    /\ consumer = "created"
    /\ consumer' = IF MayEnterLoop THEN "check" ELSE "stop"
    /\ mState' = "RUNNING"
    /\ UNCHANGED <<queueVars, items, pushing, owner, historyVars>>

CheckRunning ==
    /\ consumer = "check"
    /\ consumer' = IF mState = "RUNNING" THEN "wait" ELSE "stop"
    /\ UNCHANGED <<queueVars, mState, items, pushing, owner, historyVars>>

\* Mutant of MustWait: a deactivated queue is waited for.
WaitWhileEmpty == mQueue = <<>>

MustWait == mQueue = <<>> /\ mIsActive

\* waitForItems: the loop around mCond.wait, entered with the lock held.
WaitForItems ==
    /\ consumer \in {"wait", "awake"}
    /\ consumer' = IF MustWait THEN "blocked" ELSE "sleep"
    /\ UNCHANGED <<queueVars, mState, items, pushing, owner, historyVars>>

SpuriousWakeup ==
    /\ consumer = "blocked"
    /\ consumer' = "awake"
    /\ UNCHANGED <<queueVars, mState, items, pushing, owner, historyVars>>

AfterCheck(to) == IF mState = "STOP_REQUESTED" THEN "stop" ELSE to

\* The tests of STOP_REQUESTED before and after sleep_for(mBatchInterval).
CheckStop(from, to) ==
    /\ consumer = from
    /\ consumer' = AfterCheck(to)
    /\ UNCHANGED <<queueVars, mState, items, pushing, owner, historyVars>>

CheckBeforeSleep == CheckStop("sleep", "window")
CheckAfterSleep == CheckStop("window", "flush")

\* ConcurrentQueue::flush.
Flush ==
    /\ consumer = "flush"
    /\ IF mQueue = <<>> \/ ~mIsActive
       THEN /\ consumer' = "check"
            /\ UNCHANGED <<mQueue, items>>
       ELSE /\ items' = mQueue
            /\ mQueue' = <<>>
            /\ consumer' = "deliver"
    /\ UNCHANGED <<mIsActive, mState, pushing, owner, historyVars>>

\* onBatchReceived(items) returns; items goes out of scope.
OnBatchReceived ==
    /\ consumer = "deliver"
    /\ delivered' = delivered \o items
    /\ items' = <<>>
    /\ consumer' = "check"
    /\ lateBatches' = lateBatches + (IF StopRequested THEN 1 ELSE 0)
    /\ UNCHANGED <<queueVars, mState, pushing, owner, accepted>>

Stopped ==
    /\ consumer = "stop"
    /\ consumer' = "finished"
    /\ mState' = "STOPPED"
    /\ UNCHANGED <<queueVars, items, pushing, owner, historyVars>>

-----------------------------------------------------------------------------
\* VehicleHalManager::init: BatchingConsumer::run starts the thread.
Run ==
    /\ owner = "constructed"
    /\ owner' = "running"
    /\ consumer' = "created"
    /\ UNCHANGED <<queueVars, mState, items, pushing, historyVars>>

\* VehicleHalManager::~VehicleHalManager.
RequestStop ==
    /\ owner \in {"constructed", "running"}
    /\ owner' = "stopping"
    /\ mState' = "STOP_REQUESTED"
    /\ UNCHANGED <<queueVars, consumer, items, pushing, historyVars>>

Deactivate ==
    /\ owner = "stopping"
    /\ owner' = "notifying"
    /\ mIsActive' = FALSE
    /\ UNCHANGED <<mQueue, mState, consumer, items, pushing, historyVars>>

NotifyAll ==
    /\ owner = "notifying"
    /\ owner' = "joining"
    /\ WakeConsumer
    /\ UNCHANGED <<queueVars, mState, items, pushing, historyVars>>

\* Mutant of Joined: the thread is not joined.
NotJoined == TRUE

\* The thread is joinable only if it was started.
Joined == consumer \in {"none", "finished"}

WaitStopped ==
    /\ owner = "joining"
    /\ Joined
    /\ owner' = "destroyed"
    /\ UNCHANGED <<queueVars, mState, consumer, items, pushing, historyVars>>

-----------------------------------------------------------------------------
Consume ==
    \/ EnterLoop \/ CheckRunning \/ WaitForItems
    \/ CheckBeforeSleep \/ CheckAfterSleep \/ Flush \/ OnBatchReceived \/ Stopped

Destroy == Deactivate \/ NotifyAll \/ WaitStopped

Next ==
    \/ \E p \in Producers : NotifyOne(p) \/ \E e \in Events : Push(p, e)
    \/ Consume \/ SpuriousWakeup
    \/ Run \/ RequestStop \/ Destroy

\* Every thread that can take a step takes it; nobody has to push, to start
\* the consumer or to destroy the manager, and no wakeup has to be spurious.
Fairness ==
    /\ WF_vars(Consume)
    /\ WF_vars(Destroy)
    /\ \A p \in Producers : WF_vars(NotifyOne(p))

Spec == Init /\ [][Next]_vars
FairSpec == Spec /\ Fairness

-----------------------------------------------------------------------------
(***************************************************************************)
(* Properties.                                                             *)
(***************************************************************************)

\* Type invariant.
TypeOK ==
    /\ mQueue \in Seq(Events) /\ mIsActive \in BOOLEAN
    /\ mState \in States
    /\ consumer \in ConsumerSteps
    /\ items \in Seq(Events)
    /\ pushing \in [Producers -> {"idle", "notify"}]
    /\ owner \in OwnerSteps
    /\ accepted \in Seq(Events) /\ delivered \in Seq(Events)
    /\ lateBatches \in Nat

\* Events are handed over once and in the order push accepted them: what has
\* been accepted is what has been delivered, followed by the batch in hand,
\* followed by the queue, at every point of flush, shutdown included.
NothingLostOrReordered == accepted = (delivered \o items) \o mQueue

\* The consumer never sleeps through work: when it is blocked although the
\* queue has items or has been deactivated, a thread is about to notify it.
NoLostWakeup ==
    /\ consumer = "blocked"
    /\ mQueue # <<>> \/ ~mIsActive
    => \/ \E p \in Producers : pushing[p] = "notify"
       \/ owner = "notifying"

\* After requestStop at most the batch the consumer was about to flush or to
\* deliver is handed over, even if the thread had not yet started and its
\* exchange overwrites the request.
AtMostOneBatchAfterStop == lateBatches <= 1

\* The destructor ends only with the worker thread finished and its batch
\* delivered: onBatchHalEvent does not run on a destroyed manager.
NoCallbackAfterDestruction ==
    owner = "destroyed" => consumer \in {"none", "finished"} /\ items = <<>>

InLoop == consumer \in {"check", "wait", "blocked", "awake", "sleep", "window",
                        "flush", "deliver"}

\* Why the stop request is not forgotten: it stays in mState as long as the
\* worker is in its loop or has still to enter it, and the only late batch
\* leads to the test that ends the loop.
StopInv ==
    /\ owner = "constructed" => consumer = "none" /\ mState = "INIT"
    /\ StopRequested /\ (InLoop \/ consumer = "created")
            => mState = "STOP_REQUESTED"
    /\ ~StopRequested => lateBatches = 0
    /\ lateBatches # 0 =>
            lateBatches = 1 /\ consumer \in {"check", "stop", "finished"}
    /\ items # <<>> <=> consumer = "deliver"

\* The inductive invariant.
IInv ==
    /\ TypeOK
    /\ NothingLostOrReordered
    /\ NoLostWakeup
    /\ StopInv
    /\ NoCallbackAfterDestruction

\* An event accepted by the queue is delivered, unless the owner stops it.
EventsAreDelivered ==
    \A n \in 1 .. MaxEvents :
        (Len(accepted) >= n /\ owner = "running")
        ~> (Len(delivered) >= n \/ owner # "running")

\* The destructor returns, whatever the consumer was doing.
DestructorReturns == (owner = "stopping") ~> (owner = "destroyed")

\* The queue and its consumer are a FIFO channel.
Channel == INSTANCE EventChannel
           WITH open <- mIsActive, channel <- items \o mQueue
ImplementsChannel == Channel!Spec

=============================================================================
