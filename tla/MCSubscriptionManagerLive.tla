--------------------- MODULE MCSubscriptionManagerLive ---------------------
(***************************************************************************)
(* Liveness of SubscriptionManager on a small instance.  The calls are     *)
(* bounded by MaxCalls, so that weak fairness of each thread is enough for *)
(* it to get mLock: std::mutex promises no more.                           *)
(***************************************************************************)
EXTENDS MCSubscriptionManager

CONSTANT MaxCalls

VARIABLE calls

BoundedInit == Init /\ calls = 0

BoundedNext ==
    \/ /\ calls < MaxCalls
       /\ calls' = calls + 1
       /\ \E t \in Threads : StartCall(t)
    \/ /\ UNCHANGED calls
       /\ \/ \E t \in Threads : Continue(t)
          \/ \E c \in Clients : ClientDies(c) \/ DeathNotice(c)

Fairness ==
    /\ \A t \in Threads : WF_<<vars, calls>>(Continue(t) /\ UNCHANGED calls)
    /\ \A c \in Clients : WF_<<vars, calls>>(DeathNotice(c) /\ UNCHANGED calls)

BoundedSpec == BoundedInit /\ [][BoundedNext]_<<vars, calls>> /\ Fairness

\* Every call returns: neither mLock nor the HAL calls under it block a
\* thread for ever.
CallsReturn == \A t \in Threads : pc[t] # "idle" ~> pc[t] = "idle"

\* A client that died is forgotten by every property and by mClients, unless
\* a call of its own came after the sweep, or it never had a property.
DeadClientsAreForgotten ==
    \A c \in Clients :
        (death[c] # "alive" /\ c \in mClients /\ \E p \in Props : c \in mPropToClients[p])
        ~> (c \notin mClients \/ c \in late)

=============================================================================
