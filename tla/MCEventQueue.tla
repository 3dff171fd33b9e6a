---------------------------- MODULE MCEventQueue ----------------------------
(***************************************************************************)
(* A small instance of EventQueue: two producers, two kinds of events.     *)
(***************************************************************************)
EXTENDS EventQueue, TLC

=============================================================================
