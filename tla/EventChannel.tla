---------------------------- MODULE EventChannel ----------------------------
(***************************************************************************)
(* What the event queue and its batching consumer promise to the HAL and   *)
(* to VehicleHalManager: a FIFO channel.  Events accepted while the channel *)
(* is open are handed over once, in order, in non-empty batches.  After    *)
(* the channel has been closed nothing is accepted, and what has not been  *)
(* handed over may never be.                                               *)
(***************************************************************************)
EXTENDS Sequences, Naturals

CONSTANT Events

VARIABLES
    open,
    channel,   \* accepted and not yet handed over
    delivered  \* handed over, in order

channelVars == <<open, channel, delivered>>

Init == open = TRUE /\ channel = <<>> /\ delivered = <<>>

Accept ==
    /\ open
    /\ \E e \in Events : channel' = Append(channel, e)
    /\ UNCHANGED <<open, delivered>>

Deliver ==
    /\ \E n \in 1 .. Len(channel) :
          /\ delivered' = delivered \o SubSeq(channel, 1, n)
          /\ channel' = SubSeq(channel, n + 1, Len(channel))
    /\ UNCHANGED open

Close ==
    /\ open' = FALSE
    /\ UNCHANGED <<channel, delivered>>

Next == Accept \/ Deliver \/ Close

Spec == Init /\ [][Next]_channelVars

=============================================================================
