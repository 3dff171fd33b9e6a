-------------------------- MODULE EventQueueProofs --------------------------
(***************************************************************************)
(* Proofs about EventQueue, for every set of producers and events, and of  *)
(* its refinement of EventChannel.                                         *)
(***************************************************************************)
EXTENDS EventQueue, SequenceTheorems, TLAPS

USE DEF StopRequested, InLoop, WakeConsumer, Enqueue, CanPush, MayEnterLoop,
        MustWait, AfterCheck, Joined

-----------------------------------------------------------------------------
LEMMA TypeStep ==
    ASSUME TypeOK, [Next]_vars
    PROVE  TypeOK'
<1> USE DEF TypeOK, queueVars, historyVars, ConsumerSteps, OwnerSteps, States
<1>1. ASSUME NEW p \in Producers, NEW e \in Events, Push(p, e)
      PROVE  TypeOK'
  <2>1. /\ Append(mQueue, e) \in Seq(Events)
        /\ Append(accepted, e) \in Seq(Events)
    BY AppendProperties
  <2> QED
    BY <1>1, <2>1 DEF Push
<1>2. ASSUME NEW p \in Producers, NotifyOne(p)
      PROVE  TypeOK'
  BY <1>2 DEF NotifyOne
<1>3. ASSUME EnterLoop \/ CheckRunning \/ WaitForItems \/ Stopped
      PROVE  TypeOK'
  BY <1>3 DEF EnterLoop, CheckRunning, WaitForItems, Stopped
<1>4. ASSUME CheckBeforeSleep \/ CheckAfterSleep \/ SpuriousWakeup
      PROVE  TypeOK'
  BY <1>4 DEF CheckBeforeSleep, CheckAfterSleep, CheckStop, SpuriousWakeup
<1>5. ASSUME Flush
      PROVE  TypeOK'
  <2>1. <<>> \in Seq(Events)
    BY EmptySeq
  <2>2. mQueue' \in Seq(Events) /\ items' \in Seq(Events)
    BY <1>5, <2>1 DEF Flush
  <2> QED
    BY <1>5, <2>2 DEF Flush
<1>6. ASSUME OnBatchReceived
      PROVE  TypeOK'
  <2>1. <<>> \in Seq(Events) /\ delivered \o items \in Seq(Events)
    BY EmptySeq, ConcatProperties
  <2> QED
    BY <1>6, <2>1 DEF OnBatchReceived
<1>7. ASSUME Run \/ RequestStop \/ Destroy
      PROVE  TypeOK'
  BY <1>7 DEF Run, RequestStop, Destroy, Deactivate, NotifyAll, WaitStopped
<1>8. CASE UNCHANGED vars
  BY <1>8 DEF vars
<1> QED
  BY <1>1, <1>2, <1>3, <1>4, <1>5, <1>6, <1>7, <1>8 DEF Next, Consume

LEMMA NothingLostStep ==
    ASSUME TypeOK, StopInv, NothingLostOrReordered, [Next]_vars
    PROVE  NothingLostOrReordered'
<1> USE DEF NothingLostOrReordered
<1>0. /\ mQueue \in Seq(Events) /\ items \in Seq(Events)
      /\ delivered \in Seq(Events)
      /\ delivered \o items \in Seq(Events)
  BY ConcatProperties DEF TypeOK
<1>1. ASSUME NEW p \in Producers, NEW e \in Events, Push(p, e)
      PROVE  NothingLostOrReordered'
  <2>1. /\ mQueue' = Append(mQueue, e)
        /\ accepted' = Append(accepted, e)
        /\ UNCHANGED <<delivered, items>>
    BY <1>1 DEF Push
  <2>2. /\ Append(mQueue, e) = mQueue \o <<e>>
        /\ Append(accepted, e) = accepted \o <<e>>
    BY <1>0, AppendIsConcat DEF TypeOK
  <2>3. <<e>> \in Seq(Events)
    OBVIOUS
  <2>4. ((delivered \o items) \o mQueue) \o <<e>> =
            (delivered \o items) \o (mQueue \o <<e>>)
    BY <1>0, <2>3, ConcatAssociative
  <2> QED
    BY <2>1, <2>2, <2>4
<1>2. CASE UNCHANGED <<mQueue, items, accepted, delivered>>
  BY <1>2
<1>3. ASSUME Flush
      PROVE  NothingLostOrReordered'
  <2>1. CASE UNCHANGED <<mQueue, items>>
    BY <1>2, <1>3, <2>1 DEF Flush, historyVars
  <2>2. CASE items' = mQueue /\ mQueue' = <<>>
    <3>1. items = <<>>
      BY <1>3 DEF StopInv, Flush
    <3>2. UNCHANGED <<accepted, delivered>>
      BY <1>3 DEF Flush, historyVars
    <3>3. /\ delivered \o <<>> = delivered
          /\ (delivered \o mQueue) \o <<>> = delivered \o mQueue
      BY <1>0, ConcatProperties, ConcatEmptySeq
    <3> QED
      BY <2>2, <3>1, <3>2, <3>3
  <2> QED
    BY <1>3, <2>1, <2>2 DEF Flush
<1>4. ASSUME OnBatchReceived
      PROVE  NothingLostOrReordered'
  <2>1. /\ delivered' = delivered \o items
        /\ items' = <<>>
        /\ UNCHANGED <<accepted, mQueue>>
    BY <1>4 DEF OnBatchReceived, queueVars
  <2>2. (delivered \o items) \o <<>> = delivered \o items
    BY <1>0, ConcatEmptySeq
  <2> QED
    BY <2>1, <2>2
<1>5. ASSUME \/ EnterLoop \/ CheckRunning \/ WaitForItems \/ Stopped
             \/ CheckBeforeSleep \/ CheckAfterSleep \/ SpuriousWakeup
      PROVE  UNCHANGED <<mQueue, items, accepted, delivered>>
  BY <1>5 DEF EnterLoop, CheckRunning, WaitForItems, Stopped, CheckBeforeSleep,
              CheckAfterSleep, CheckStop, SpuriousWakeup, queueVars, historyVars
<1>6. ASSUME \/ Run \/ RequestStop \/ Destroy
             \/ \E p \in Producers : NotifyOne(p)
             \/ UNCHANGED vars
      PROVE  UNCHANGED <<mQueue, items, accepted, delivered>>
  BY <1>6 DEF Run, RequestStop, Destroy, Deactivate, NotifyAll, WaitStopped,
              NotifyOne, vars, queueVars, historyVars
<1> QED
  BY <1>1, <1>2, <1>3, <1>4, <1>5, <1>6 DEF Next, Consume

LEMMA NoLostWakeupStep ==
    ASSUME TypeOK, NoLostWakeup, [Next]_vars
    PROVE  NoLostWakeup'
<1> USE DEF NoLostWakeup, TypeOK, queueVars
<1>1. ASSUME NEW p \in Producers, NEW e \in Events, Push(p, e)
      PROVE  NoLostWakeup'
  BY <1>1 DEF Push
<1>2. ASSUME NEW p \in Producers, NotifyOne(p)
      PROVE  NoLostWakeup'
  BY <1>2 DEF NotifyOne
<1>3. ASSUME EnterLoop \/ CheckRunning \/ WaitForItems \/ Stopped
      PROVE  NoLostWakeup'
  BY <1>3 DEF EnterLoop, CheckRunning, WaitForItems, Stopped
<1>4. ASSUME CheckBeforeSleep \/ CheckAfterSleep \/ SpuriousWakeup
      PROVE  NoLostWakeup'
  BY <1>4 DEF CheckBeforeSleep, CheckAfterSleep, CheckStop, SpuriousWakeup
<1>5. ASSUME Flush \/ OnBatchReceived
      PROVE  NoLostWakeup'
  BY <1>5 DEF Flush, OnBatchReceived
<1>6. ASSUME Run \/ RequestStop \/ Destroy
      PROVE  NoLostWakeup'
  BY <1>6 DEF Run, RequestStop, Destroy, Deactivate, NotifyAll, WaitStopped
<1>7. CASE UNCHANGED vars
  BY <1>7 DEF vars
<1> QED
  BY <1>1, <1>2, <1>3, <1>4, <1>5, <1>6, <1>7 DEF Next, Consume

LEMMA StopStep ==
    ASSUME TypeOK, StopInv, [Next]_vars
    PROVE  StopInv'
<1> USE DEF StopInv, TypeOK, queueVars, historyVars
<1>1. ASSUME NEW p \in Producers, NEW e \in Events, Push(p, e)
      PROVE  StopInv'
  BY <1>1 DEF Push
<1>2. ASSUME NEW p \in Producers, NotifyOne(p)
      PROVE  StopInv'
  BY <1>2 DEF NotifyOne
<1>3. ASSUME EnterLoop \/ CheckRunning \/ WaitForItems \/ Stopped
      PROVE  StopInv'
  BY <1>3 DEF EnterLoop, CheckRunning, WaitForItems, Stopped
<1>4. ASSUME CheckBeforeSleep \/ CheckAfterSleep \/ SpuriousWakeup
      PROVE  StopInv'
  BY <1>4 DEF CheckBeforeSleep, CheckAfterSleep, CheckStop, SpuriousWakeup
<1>5. ASSUME Flush
      PROVE  StopInv'
  BY <1>5 DEF Flush
<1>6. ASSUME OnBatchReceived
      PROVE  StopInv'
  BY <1>6 DEF OnBatchReceived
<1>7. ASSUME Run \/ RequestStop \/ Destroy
      PROVE  StopInv'
  BY <1>7 DEF Run, RequestStop, Destroy, Deactivate, NotifyAll, WaitStopped
<1>8. CASE UNCHANGED vars
  BY <1>8 DEF vars
<1> QED
  BY <1>1, <1>2, <1>3, <1>4, <1>5, <1>6, <1>7, <1>8 DEF Next, Consume

LEMMA NoCallbackStep ==
    ASSUME TypeOK, StopInv, NoCallbackAfterDestruction, [Next]_vars
    PROVE  NoCallbackAfterDestruction'
<1> USE DEF NoCallbackAfterDestruction, StopInv, queueVars, historyVars
<1>1. ASSUME \E p \in Producers : NotifyOne(p) \/ \E e \in Events : Push(p, e)
      PROVE  NoCallbackAfterDestruction'
  BY <1>1 DEF NotifyOne, Push
<1>2. ASSUME Consume \/ SpuriousWakeup
      PROVE  NoCallbackAfterDestruction'
  BY <1>2 DEF Consume, EnterLoop, CheckRunning, WaitForItems, CheckBeforeSleep,
              CheckAfterSleep, CheckStop, Flush, OnBatchReceived, Stopped,
              SpuriousWakeup
<1>3. ASSUME Run \/ RequestStop \/ Destroy
      PROVE  NoCallbackAfterDestruction'
  BY <1>3 DEF Run, RequestStop, Destroy, Deactivate, NotifyAll, WaitStopped
<1>4. CASE UNCHANGED vars
  BY <1>4 DEF vars
<1> QED
  BY <1>1, <1>2, <1>3, <1>4 DEF Next

-----------------------------------------------------------------------------
\* The inductive invariant holds in every reachable state.
THEOREM Invariance == Spec => []IInv
<1>1. Init => IInv
  BY EmptySeq, ConcatEmptySeq
  DEF Init, IInv, TypeOK, NothingLostOrReordered, NoLostWakeup, StopInv,
      NoCallbackAfterDestruction, States, ConsumerSteps, OwnerSteps
<1>2. IInv /\ [Next]_vars => IInv'
  BY TypeStep, NothingLostStep, NoLostWakeupStep, StopStep, NoCallbackStep
  DEF IInv
<1> QED
  BY <1>1, <1>2, PTL DEF Spec

\* Every variable of queue, consumer, producers and owner has its type.
THEOREM TypeCorrect == Spec => []TypeOK
<1>1. IInv => TypeOK
  BY DEF IInv
<1> QED
  BY <1>1, Invariance, PTL

\* Nothing accepted by push is lost, duplicated or reordered on its way.
THEOREM NothingLost == Spec => []NothingLostOrReordered
<1>1. IInv => NothingLostOrReordered
  BY DEF IInv
<1> QED
  BY <1>1, Invariance, PTL

\* The consumer does not sleep through a push or through deactivate.
THEOREM WakeupsAreNotLost == Spec => []NoLostWakeup
<1>1. IInv => NoLostWakeup
  BY DEF IInv
<1> QED
  BY <1>1, Invariance, PTL

\* A stop request is honoured after one batch at most.
THEOREM StopIsHonoured == Spec => []AtMostOneBatchAfterStop
<1>1. IInv => AtMostOneBatchAfterStop
  BY DEF IInv, StopInv, AtMostOneBatchAfterStop, TypeOK
<1> QED
  BY <1>1, Invariance, PTL

\* The destructor waits for the callback.
THEOREM DestructionIsSafe == Spec => []NoCallbackAfterDestruction
<1>1. IInv => NoCallbackAfterDestruction
  BY DEF IInv
<1> QED
  BY <1>1, Invariance, PTL

-----------------------------------------------------------------------------
(***************************************************************************)
(* EventQueue implements EventChannel: push is Accept, the callback is     *)
(* Deliver, deactivate is Close, every other step is a stuttering step.    *)
(***************************************************************************)

LEMMA RefinementStep ==
    ASSUME TypeOK, StopInv, [Next]_vars
    PROVE  [Channel!Next]_(Channel!channelVars)
<1> DEFINE channel == items \o mQueue
           Stutter == UNCHANGED <<mIsActive, channel, delivered>>
<1> USE DEF Channel!channelVars
<1>0. mQueue \in Seq(Events) /\ items \in Seq(Events)
  BY DEF TypeOK
<1>1. ASSUME NEW p \in Producers, NEW e \in Events, Push(p, e)
      PROVE  Channel!Accept
  <2>1. /\ mQueue' = Append(mQueue, e)
        /\ mIsActive
        /\ UNCHANGED <<mIsActive, delivered, items>>
    BY <1>1 DEF Push
  <2>2. items \o Append(mQueue, e) = Append(items \o mQueue, e)
    <3>1. /\ Append(mQueue, e) = mQueue \o <<e>>
          /\ items \o mQueue \in Seq(Events)
          /\ <<e>> \in Seq(Events)
      BY <1>0, AppendIsConcat, ConcatProperties
    <3>2. Append(items \o mQueue, e) = (items \o mQueue) \o <<e>>
      BY <3>1, AppendIsConcat
    <3> QED
      BY <1>0, <3>1, <3>2, ConcatAssociative
  <2> QED
    BY <2>1, <2>2 DEF Channel!Accept
<1>2. ASSUME Flush
      PROVE  Stutter
  <2>1. UNCHANGED <<mIsActive, delivered>>
    BY <1>2 DEF Flush, historyVars
  <2>2. CASE UNCHANGED <<mQueue, items>>
    BY <2>1, <2>2
  <2>3. CASE items' = mQueue /\ mQueue' = <<>>
    <3>1. items = <<>>
      BY <1>2 DEF StopInv, Flush
    <3>2. <<>> \o mQueue = mQueue /\ mQueue \o <<>> = mQueue
      BY <1>0, ConcatEmptySeq
    <3> QED
      BY <2>1, <2>3, <3>1, <3>2
  <2> QED
    BY <1>2, <2>2, <2>3 DEF Flush
<1>3. ASSUME OnBatchReceived
      PROVE  Channel!Deliver
  <2>1. /\ delivered' = delivered \o items
        /\ items' = <<>>
        /\ items # <<>>
        /\ UNCHANGED <<mQueue, mIsActive>>
    BY <1>3 DEF OnBatchReceived, StopInv, queueVars
  <2>2. /\ Len(items) \in Nat \ {0}
        /\ Len(mQueue) \in Nat
        /\ Len(items \o mQueue) = Len(items) + Len(mQueue)
    BY <1>0, <2>1, EmptySeq, LenProperties, ConcatProperties
  <2>3. /\ SubSeq(items \o mQueue, 1, Len(items)) = items
        /\ SubSeq(items \o mQueue, Len(items) + 1, Len(items \o mQueue)) = mQueue
    <3>1. SubSeq(items \o mQueue, 1, Len(items)) = SubSeq(items, 1, Len(items))
      BY <1>0, <2>2, SubSeqOfConcat1
    <3>2. SubSeq(items, 1, Len(items)) = items
      BY <1>0, SubSeqFull
    <3>3. SubSeq(items \o mQueue, Len(items) + 1, Len(items) + Len(mQueue)) =
                SubSeq(mQueue, 1, Len(mQueue))
      BY <1>0, <2>2, SubSeqOfConcat2
    <3>4. SubSeq(mQueue, 1, Len(mQueue)) = mQueue
      BY <1>0, SubSeqFull
    <3> QED
      BY <2>2, <3>1, <3>2, <3>3, <3>4
  <2>4. <<>> \o mQueue = mQueue
    BY <1>0, ConcatEmptySeq
  <2>5. Len(items) \in 1 .. Len(items \o mQueue)
    BY <2>2
  <2> QED
    BY <2>1, <2>3, <2>4, <2>5 DEF Channel!Deliver
<1>4. ASSUME Deactivate
      PROVE  Channel!Close
  BY <1>4 DEF Deactivate, Channel!Close, historyVars
<1>5. ASSUME \/ EnterLoop \/ CheckRunning \/ WaitForItems \/ Stopped
             \/ CheckBeforeSleep \/ CheckAfterSleep \/ SpuriousWakeup
      PROVE  Stutter
  BY <1>5 DEF EnterLoop, CheckRunning, WaitForItems, Stopped, CheckBeforeSleep,
              CheckAfterSleep, CheckStop, SpuriousWakeup, queueVars, historyVars
<1>6. ASSUME \/ Run \/ RequestStop \/ NotifyAll \/ WaitStopped
             \/ \E p \in Producers : NotifyOne(p)
             \/ UNCHANGED vars
      PROVE  Stutter
  BY <1>6 DEF Run, RequestStop, NotifyAll, WaitStopped, NotifyOne, vars,
              queueVars, historyVars
<1> QED
  BY <1>1, <1>2, <1>3, <1>4, <1>5, <1>6
  DEF Next, Consume, Destroy, Channel!Next

\* The queue, its consumer and its destructor implement the FIFO channel.
THEOREM Refinement == Spec => ImplementsChannel
<1>1. Init => Channel!Init
  BY ConcatEmptySeq, EmptySeq DEF Init, Channel!Init
<1>2. IInv /\ [Next]_vars => [Channel!Next]_(Channel!channelVars)
  BY RefinementStep DEF IInv
<1> QED
  BY <1>1, <1>2, Invariance, PTL DEF Spec, ImplementsChannel, Channel!Spec

=============================================================================
