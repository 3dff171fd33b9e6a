-------------------------- MODULE MCRecurrentTimer --------------------------
(***************************************************************************)
(* Small instances of RecurrentTimer: intervals of 1, 2 and 3 ticks.       *)
(***************************************************************************)
EXTENDS RecurrentTimer, TLC

=============================================================================
