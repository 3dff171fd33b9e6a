------------------------ MODULE MCVisVehicleHalLive ------------------------
(***************************************************************************)
(* Liveness of VisVehicleHal on a small instance.  The calls are bounded   *)
(* by MaxCalls, so that weak fairness is enough for each thread to get     *)
(* mLock.  VisClient is assumed to end every request, if need be with a    *)
(* failure, by a thread other than the one that reports connection         *)
(* changes: otherwise that thread, which waits for mLock, could never end  *)
(* the request that the holder of mLock waits for.                         *)
(***************************************************************************)
EXTENDS MCVisVehicleHal

CONSTANT MaxCalls

VARIABLE calls

BoundedInit ==
    /\ Init
    /\ connected
    /\ calls = 0

BoundedNext ==
    \/ /\ calls < MaxCalls
       /\ calls' = calls + 1
       /\ \E t \in Threads, c \in Calls : StartCall(t, c)
    \/ /\ UNCHANGED calls
       /\ \/ OnCreateReturns
          \/ \E t \in Threads : Continue(t)
          \/ VisClientThreads
          \/ Environment

\* Some call that can go on does, or a connection change is reported: less than
\* the fairness of each thread, and enough because all these steps are bounded.
Fairness == WF_vars((\E t \in Threads : Continue(t)) \/ OnVisConnectionStatusUpdate)

BoundedSpec == BoundedInit /\ [][BoundedNext]_<<vars, calls>> /\ Fairness

Busy == (\E t \in Threads : call[t] # NoCall) \/ statusUpdates # <<>>

\* Every get, set and subscribe returns and every connection change is reported
\* to the HAL, whatever fails: no way out of a call keeps mLock, for which the
\* thread that reports contends, and the loop over an answer ends although the
\* handler and other callers write the same records.
CallsReturn == Busy ~> ~Busy

=============================================================================
