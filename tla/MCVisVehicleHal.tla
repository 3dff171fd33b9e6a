-------------------------- MODULE MCVisVehicleHal --------------------------
(***************************************************************************)
(* Small instances of VisVehicleHal.  In its table GEAR_SELECTION and      *)
(* CURRENT_GEAR are one VIS property; the vector of GENERATE_FAKE_DATA_FV  *)
(* has three elements and the server's, in cfg/visconfig.json, four.  A    *)
(* request for GEAR_SELECTION may name an area that is not mapped.         *)
(***************************************************************************)
EXTENDS VisVehicleHal, SequencesExt

CONSTANTS
    Tiny,  \* a float that six decimals do not hold, like 1e-7
    Word   \* some string

TinyIsZero == Tiny :> 0

GearSelection == <<"GEAR_SELECTION", GlobalArea>>
GearElsewhere == <<"GEAR_SELECTION", "HVAC_LEFT">>
CurrentGear == <<"CURRENT_GEAR", GlobalArea>>
FakeData == <<"GENERATE_FAKE_DATA_FV", GlobalArea>>

\* The entries of the table for these properties.
MappedKeys == {GearSelection, CurrentGear, FakeData}
Forward == Restrict(TableMappings.forward, MappedKeys)
Back == {entry \in TableMappings.back : entry[2] \in MappedKeys}
VisNames == {"CurrentGear", "Fv"}

Reals(values) == Json("array", [i \in DOMAIN values |-> Json("real", values[i])])

Requested == {FakeData}
FakeDataName == {"Fv"}
Request(key, value) == [key |-> key, value |-> value]
SetRequests ==
    {Request(GearElsewhere, <<"GEAR_REVERSE">>), Request(FakeData, <<Tiny, 5>>)}

\* A word that cannot be converted to a gear, and an array longer than the
\* vector; later a gear.  The array that a set sends is shorter.
Neutral == Json("int32", "GEAR_NEUTRAL")
InitialServer ==
    {MapOf("CurrentGear", Json("string", Word), "Fv", Reals(<<1, 2, 3, 4>>))}
SomeJson == MapOf("CurrentGear", {Neutral}, "Fv", {})

\* For the finding about gears: values that fit, in every answer.
GearsOnly == Restrict(Forward, {GearSelection, CurrentGear})
GearsBack == {entry \in Back : entry[1] = "CurrentGear"}
GearName == {"CurrentGear"}
GearKeys == {GearSelection, CurrentGear}
NeutralOnly == "CurrentGear" :> {Neutral}
InNeutral == {"CurrentGear" :> Neutral}

-----------------------------------------------------------------------------
\* The mapping file of the repository gives CURRENT_GEAR a name of its own.
\* The entries here are like its own, and one for a property that the table
\* maps nowhere: a name of its own, one that is shared, or the one it has.
Entries ==
    [key : {CurrentGear, <<"NIGHT_MODE", GlobalArea>>, <<"HVAC_FAN_SPEED", "HVAC_ALL">>,
            <<"ENV_OUTSIDE_TEMPERATURE", GlobalArea>>},
     name : {"gr", "CurrentGear", "FanSpeed"}]

ASSUME FilesLeadBack ==
    \A file \in BoundedSeq(Entries, 2) : \A maps \in MappingsAfter(file) : LeadBack(maps)

=============================================================================
