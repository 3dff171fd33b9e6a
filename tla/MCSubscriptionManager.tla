----------------------- MODULE MCSubscriptionManager -----------------------
(***************************************************************************)
(* Small instances of SubscriptionManager.  The configurations of the two  *)
(* properties are of the kinds the default configurations hold: rpm is     *)
(* CONTINUOUS with a range of rates (ENGINE_RPM), gear is ON_CHANGE.       *)
(***************************************************************************)
EXTENDS SubscriptionManager, TLC

CONSTANTS rpm, gear

RpmConfig == [readable |-> TRUE, mode |-> "CONTINUOUS", minRate |-> 1, maxRate |-> 2]
GearConfig == [readable |-> TRUE, mode |-> "ON_CHANGE", minRate |-> 0, maxRate |-> 0]

RpmGear == (rpm :> RpmConfig) @@ (gear :> GearConfig)

Entry(p, r, f) == [prop |-> p, rate |-> r, flags |-> f]

\* Rate 3 is clamped to 2 and rate 0 to 1.  One list updates two properties
\* of the HAL in one call, the other one only the second of its properties.
RpmGearLists ==
    { << Entry(rpm, 0, {"CAR", "ANDROID"}), Entry(gear, 1, {"CAR"}) >>,
      << Entry(gear, 1, {"ANDROID"}), Entry(rpm, 3, {"CAR"}) >> }

=============================================================================
