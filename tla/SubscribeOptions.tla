-------------------------- MODULE SubscribeOptions --------------------------
(***************************************************************************)
(* The value type SubscribeOptions of the vehicle HAL interface and the    *)
(* pure functions that VehicleHalManager and SubscriptionManager apply to  *)
(* it: the checks of VehicleHalManager::subscribe and the merge of an old  *)
(* with a new subscription.                                                *)
(*                                                                         *)
(* Sample rates are naturals: the code only compares them, takes their     *)
(* maximum and clamps them to the configured interval.                     *)
(***************************************************************************)
EXTENDS Naturals

\* The two bits of SubscribeFlags; a flags word is a set of bits and the
\* empty set is SubscribeFlags::UNDEFINED.
SubscribeFlags == {"CAR", "ANDROID"}

\* VehiclePropertyChangeMode.
ChangeModes == {"STATIC", "ON_CHANGE", "CONTINUOUS"}

\* What a subscription stores for one property.
Options == [rate : Nat, flags : SUBSET SubscribeFlags]

\* An absent entry of a map from properties to SubscribeOptions.  No entry
\* that is present has empty flags: VehicleHalManager::subscribe refuses them.
NoOptions == [rate |-> 0, flags |-> {}]

\* The part of VehiclePropConfig that subscribe() reads.
PropConfigs ==
    [readable : BOOLEAN, mode : ChangeModes, minRate : Nat, maxRate : Nat]

MaxRate(r, s) == IF r >= s THEN r ELSE s

\* Mutant of Merge: the newest rate wins.
MergeNewestRate(old, new) ==
    [rate |-> new.rate, flags |-> old.flags \cup new.flags]

\* mergeSubscribeOptions: the result the function writes when it returns true.
Merge(old, new) ==
    [rate |-> MaxRate(old.rate, new.rate), flags |-> old.flags \cup new.flags]

\* Mutant of MergeUpdates: a higher rate alone is not an update.
MergeUpdatesFlags(old, new) == old.flags \cup new.flags # old.flags

\* mergeSubscribeOptions: its return value.
MergeUpdates(old, new) ==
    \/ MaxRate(old.rate, new.rate) > old.rate
    \/ old.flags \cup new.flags # old.flags

IsSampleRateFixed(config) == config.mode = "ON_CHANGE"

\* VehicleHalManager::checkSampleRate.  The order of the two comparisons is
\* the code's: with minRate > maxRate a rate above maxRate becomes maxRate.
CheckSampleRate(config, rate) ==
    IF IsSampleRateFixed(config)      THEN 0
    ELSE IF rate > config.maxRate     THEN config.maxRate
    ELSE IF rate < config.minRate     THEN config.minRate
    ELSE rate

\* VehicleHalManager::isSubscribable.
IsSubscribable(config, flags) ==
    /\ "CAR" \in flags => config.readable
    /\ config.mode # "STATIC"

=============================================================================
