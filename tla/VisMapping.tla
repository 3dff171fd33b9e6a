----------------------------- MODULE VisMapping -----------------------------
(***************************************************************************)
(* kVehicleProperties of VisVehicleHal, the mappings of its properties to  *)
(* VIS properties and back, and the conversions of their values.           *)
(*                                                                         *)
(* A value is the sequence of its elements and floats are integers, as in  *)
(* EmulatedConfig, whose rows this table has with the VIS properties of    *)
(* its areas added.  A text that is sent to the server stands for the JSON *)
(* value that the server makes of it: [kind, data], where the integers     *)
(* that fit into 32 bits have a kind of their own, and "none" is the kind  *)
(* of a text that is not JSON.  The elements of an array have one kind.    *)
(***************************************************************************)
EXTENDS Naturals, Sequences, Maps, EmulatedConfig

\* Floats that six decimals cannot hold, and what six decimals leave of them.
CONSTANT Rounded

ASSUME RoundedAssumption == \A x \in DOMAIN Rounded : Rounded[x] \notin DOMAIN Rounded

\* initialAreaToVIS.
VisAt(row, initialAreaToVIS) == [row |-> row, vis |-> initialAreaToVIS]
Vis(row, name) == VisAt(row, GlobalArea :> name)
VisZoned(row, area, name) == VisAt(row, area :> name)
Unmapped(row) == [row |-> row, vis |-> <<>>]

VIS_MAKE == "VIS based Vehicle"

VisDrivingProperties == <<
    Vis(Global("INFO_FUEL_CAPACITY", "FLOAT", "READ", "STATIC", <<15000>>), "TankCapacity"),
    Vis(Global("INFO_FUEL_TYPE", "INT32_VEC", "READ", "STATIC", <<1>>), "FuelType"),
    Vis(Global("INFO_MAKE", "STRING", "READ", "STATIC", <<VIS_MAKE>>), "Brand"),
    Vis(Sampled(Global("PERF_VEHICLE_SPEED", "FLOAT", "READ", "ON_CHANGE", <<0>>), 10, 100),
        "veh_speed"),
    Vis(Global("PERF_ODOMETER", "FLOAT", "READ", "CONTINUOUS", <<0>>), "odo"),
    Vis(Sampled(Global("ENGINE_RPM", "FLOAT", "READ", "CONTINUOUS", <<0>>), 10, 100), "engrpm"),
    Vis(Global("FUEL_LEVEL", "FLOAT", "READ", "CONTINUOUS", <<15000>>), "avgfuellvl"),
    Vis(Global("FUEL_DOOR_OPEN", "BOOLEAN", "READ", "ON_CHANGE", <<0>>), "TankDoor"),
    Vis(Global("CURRENT_GEAR", "INT32", "READ", "ON_CHANGE", <<"GEAR_PARK">>), "CurrentGear"),
    Vis(Global("PARKING_BRAKE_ON", "BOOLEAN", "READ", "ON_CHANGE", <<1>>), "prkbrkstat"),
    Vis(Global("FUEL_LEVEL_LOW", "BOOLEAN", "READ", "ON_CHANGE", <<0>>), "LowFuelLevel"),
    Vis(Global("HW_KEY_INPUT", "INT32_VEC", "READ", "ON_CHANGE", <<0, 0, 0>>), "HwInput")>>

\* A property of the climate control, for all seats.
Hvac(prop, type, initialValue, name) ==
    VisZoned(Zoned(prop, type, "READ_WRITE", "ON_CHANGE", HVAC_ALL, initialValue),
             "HVAC_ALL", name)

VisHvacProperties == <<
    Hvac("HVAC_POWER_ON", "BOOLEAN", <<1>>, "IsPowerOn"),
    VisAt(Zoned("HVAC_DEFROSTER", "BOOLEAN", "READ_WRITE", "ON_CHANGE", WINDSHIELDS, <<0>>),
          MapOf("FRONT_WINDSHIELD", "IsFrontDefrosterActive",
                "REAR_WINDSHIELD", "IsRearDefrosterActive")),
    Hvac("HVAC_MAX_DEFROST_ON", "BOOLEAN", <<0>>, "IsMaxDefrosterOn"),
    Hvac("HVAC_RECIRC_ON", "BOOLEAN", <<1>>, "IsRecirculationActive"),
    Hvac("HVAC_AUTO_RECIRC_ON", "BOOLEAN", <<0>>, "IsAutoRecirculationActive"),
    Hvac("HVAC_AC_ON", "BOOLEAN", <<1>>, "IsAirConditioningActive"),
    Hvac("HVAC_MAX_AC_ON", "BOOLEAN", <<0>>, "IsMaxAcActive"),
    Hvac("HVAC_AUTO_ON", "BOOLEAN", <<1>>, "IsAutoOn"),
    Hvac("HVAC_DUAL_ON", "BOOLEAN", <<0>>, "IsDualOn"),
    Hvac("HVAC_FAN_SPEED", "INT32", <<3>>, "FanSpeed"),
    Hvac("HVAC_FAN_DIRECTION", "INT32", <<"FACE">>, "FanDirection"),
    Vis(Global("HVAC_STEERING_WHEEL_HEAT", "INT32", "READ_WRITE", "ON_CHANGE", <<0>>),
        "stw_temp"),
    VisAt(PerArea("HVAC_TEMPERATURE_SET", "FLOAT", "READ_WRITE", "ON_CHANGE",
                  MapOf("HVAC_LEFT", <<16>>, "HVAC_RIGHT", <<20>>)),
          MapOf("HVAC_LEFT", "LeftTemperature", "HVAC_RIGHT", "RightTemperature"))>>

VisBodyProperties == <<
    \* global, but mapped in an area that it does not have
    VisZoned(Sampled(Global("ENV_OUTSIDE_TEMPERATURE", "FLOAT", "READ", "CONTINUOUS", <<25>>),
                     10, 20),
             "HVAC_ALL", "airtemp_outsd"),
    Vis(Global("HVAC_TEMPERATURE_DISPLAY_UNITS", "INT32", "READ_WRITE", "ON_CHANGE",
               <<"FAHRENHEIT">>),
        "temperatureDisplayUnits"),
    Vis(Global("GEAR_SELECTION", "INT32", "READ_WRITE", "ON_CHANGE", <<"GEAR_PARK">>),
        "CurrentGear"),
    Vis(Global("IGNITION_STATE", "INT32", "READ", "ON_CHANGE", <<"ON">>), "IgnitionState"),
    Vis(Global("ENGINE_OIL_LEVEL", "INT32", "READ", "ON_CHANGE", <<"NORMAL">>), "oil_press"),
    Vis(Sampled(Global("ENGINE_OIL_TEMP", "FLOAT", "READ", "CONTINUOUS", <<101>>), 1, 100),
        "engoiltemp"),
    VisAt(PerArea("DOOR_LOCK", "BOOLEAN", "READ", "ON_CHANGE",
                  MapOf("DOOR_1_LEFT", <<1>>, "DOOR_1_RIGHT", <<1>>)),
          MapOf("DOOR_1_LEFT", "LeftIsLocked", "DOOR_1_RIGHT", "RightIsLocked")),
    Vis(Global("ABS_ACTIVE", "BOOLEAN", "READ", "ON_CHANGE", <<0>>), "ABSIsActive"),
    Vis(Global("TRACTION_CONTROL_ACTIVE", "BOOLEAN", "READ", "ON_CHANGE", <<0>>), "TCSIsActive"),
    Vis(Sampled(Global("WHEEL_TICK", "INT64_VEC", "READ", "CONTINUOUS",
                       <<0, 100000, 200000, 300000, 400000>>), 10, 100),
        "WheelTick")>>

VisInternalProperties == <<
    Unmapped(Global("GENERATE_FAKE_DATA", "MIXED", "WRITE", "ON_CHANGE", <<>>)),
    Vis(Global("GENERATE_FAKE_DATA_FV", "FLOAT_VEC", "READ_WRITE", "ON_CHANGE", <<0, 0, 0>>),
        "Fv"),
    Unmapped(Global("NIGHT_MODE", "BOOLEAN", "READ", "ON_CHANGE", <<0>>)),
    Unmapped(Global("DISPLAY_BRIGHTNESS", "INT32", "READ_WRITE", "ON_CHANGE", <<100>>)),
    Unmapped(Global("AP_POWER_STATE_REQ", "INT32_VEC", "READ", "ON_CHANGE", <<"ON", 0>>)),
    Unmapped(Global("AP_POWER_STATE_REPORT", "INT32_VEC", "WRITE", "ON_CHANGE",
                    <<"WAIT_FOR_VHAL", 0>>)),
    Unmapped(Global("VEHICLE_MAP_SERVICE", "MIXED", "READ_WRITE", "ON_CHANGE", <<>>))>>

VisProperties ==
    VisDrivingProperties \o VisHvacProperties \o VisBodyProperties \o VisInternalProperties

-----------------------------------------------------------------------------
\* onCreate: the areas of a property, the first value of each, and the
\* mapping of those that the table has a VIS property for.

AreasOf(row) == IF isGlobalProp(row) THEN {GlobalArea} ELSE row.areaConfigs

VisProps == {VisProperties[i].row.prop : i \in DOMAIN VisProperties}

EntryOf[prop \in VisProps] ==
    VisProperties[CHOOSE i \in DOMAIN VisProperties : VisProperties[i].row.prop = prop]

VisRecords ==
    UNION {{<<prop, area>> : area \in AreasOf(EntryOf[prop].row)} : prop \in VisProps}

TypeOf(key) == EntryOf[key[1]].row.type

\* VehiclePropertyStore: the record of a request.  A global property has only
\* the record of area 0, whatever area is asked for.
RecordOf(key) ==
    IF isGlobalProp(EntryOf[key[1]].row) THEN <<key[1], GlobalArea>> ELSE key

FirstValue(key) ==
    LET row == EntryOf[key[1]].row
    IN  IF row.initialAreaValues # <<>> THEN row.initialAreaValues[key[2]]
        ELSE row.initialValue

MappedByTable == {key \in VisRecords : key[2] \in DOMAIN EntryOf[key[1]].vis}

VisNameOf(key) == EntryOf[key[1]].vis[key[2]]

\* mVPropertyToVisName and mVisNameToVProperty; equal entries of the multimap
\* are one here.
TableMappings ==
    [forward |-> [key \in MappedByTable |-> VisNameOf(key)],
     back |-> {<<VisNameOf(key), key>> : key \in MappedByTable}]

\* createPropertyMappingsFromConfig: one entry of the mapping file.  The
\* iterator to the old name is used after erase, when the string is gone: it
\* may still be read, and the old entry is erased, or not.
AddMapping(maps, key, name) ==
    LET old == {entry \in maps.back : entry[2] = key /\ key \in DOMAIN maps.forward
                                      /\ entry[1] = maps.forward[key]}
    IN  {[forward |-> Put(maps.forward, key, name),
          back |-> (maps.back \ erased) \cup {<<name, key>>}] : erased \in {{}, old}}

\* All mappings that a file of entries [key, name] may leave.
MappingsAfter(file) ==
    LET after[n \in 0 .. Len(file)] ==
            IF n = 0 THEN {TableMappings}
            ELSE UNION {AddMapping(maps, file[n].key, file[n].name) : maps \in after[n - 1]}
    IN  after[Len(file)]

-----------------------------------------------------------------------------
Json(kind, data) == [kind |-> kind, data |-> data]

KindOf(type) ==
    CASE type \in {"FLOAT", "FLOAT_VEC"} -> "real"
      [] type \in {"INT32", "INT32_VEC", "BOOLEAN"} -> "int32"
      [] type \in {"INT64", "INT64_VEC"} -> "int64"
      [] OTHER -> "none"

IsVector(type) == type \in {"INT32_VEC", "INT64_VEC", "FLOAT_VEC"}

\* std::to_string writes a float with six decimals.
SixDecimals(x) == IF x \in DOMAIN Rounded THEN Rounded[x] ELSE x

JsonElement(type, x) ==
    Json(KindOf(type), IF KindOf(type) = "real" THEN SixDecimals(x) ELSE x)

NotJson == Json("none", <<>>)

\* An empty vector becomes a lone bracket, a STRING is not quoted (the strings
\* here are words, which are not JSON without quotes), and other types become
\* the empty text.
vehiclePropValueToString(type, value) ==
    IF IsVector(type)
    THEN IF value = <<>> THEN NotJson
         ELSE Json("array", [i \in DOMAIN value |-> JsonElement(type, value[i])])
    ELSE IF KindOf(type) = "none" THEN NotJson ELSE JsonElement(type, value[1])

\* jsoncpp: an integer of 32 bits is one of 64 bits, and numbers, booleans
\* and null are convertible to real.
Accepts(type, kind) ==
    CASE type = "STRING" -> kind = "string"
      [] type \in {"FLOAT", "FLOAT_VEC"} -> kind \in {"int32", "int64", "real", "bool", "null"}
      [] type \in {"INT32", "INT32_VEC"} -> kind = "int32"
      [] type \in {"INT64", "INT64_VEC"} -> kind \in {"int32", "int64"}
      [] type = "BOOLEAN" -> kind \in {"bool", "int32", "int64"}
      [] OTHER -> FALSE

\* jval[0]: null when the array is empty.
FirstElement(json) == IF json.data = <<>> THEN Json("null", 0) ELSE json.data[1]

\* A vector is converted when the first element of the array is.
Convertible(type, json) ==
    IF IsVector(type)
    THEN json.kind = "array" /\ Accepts(type, FirstElement(json).kind)
    ELSE Accepts(type, json.kind)

\* A vector keeps its length: what the array has too much is left out, and
\* where it is too short the old elements remain.
jsonToVehicle(type, json, old) ==
    IF ~Convertible(type, json) THEN old
    ELSE IF IsVector(type)
         THEN [i \in DOMAIN old |->
                  IF i \in DOMAIN json.data THEN json.data[i].data ELSE old[i]]
         ELSE IF type = "BOOLEAN" THEN << IF json.data = 0 THEN 0 ELSE 1 >>
              ELSE << json.data >>

-----------------------------------------------------------------------------
(***************************************************************************)
(* Properties.                                                             *)
(***************************************************************************)

\* The value of a property is what this JSON value says: it is what the
\* conversion leaves unchanged, or what was sent as this text.
Agrees(type, value, json) ==
    \/ Convertible(type, json) /\ jsonToVehicle(type, json, value) = value
    \/ json.kind # "none" /\ vehiclePropValueToString(type, value) = json

\* The notification of what set has sent of a property finds its way back to it.
LeadBack(maps) ==
    \A key \in DOMAIN maps.forward : <<maps.forward[key], key>> \in maps.back

=============================================================================
