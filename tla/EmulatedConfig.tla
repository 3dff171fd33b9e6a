-------------------------- MODULE EmulatedConfig --------------------------
(***************************************************************************)
(* kVehicleProperties of the emulated HAL: what is configured, in which    *)
(* areas, and with which initial values.                                   *)
(*                                                                         *)
(* A value is the sequence of its elements, in whichever vector the type   *)
(* of the property uses; floats are integers of a suitable unit and sample *)
(* rates are in tenths of a hertz.  A property id says whether the         *)
(* property is global and which type it has (external, types.hal); only    *)
(* properties that are not global list areas.  Limits of values and        *)
(* configArray are left out: no code in the repository reads them, but for *)
(* the sensors of the OBD2 frames.                                         *)
(***************************************************************************)
EXTENDS Sequences, Functions, TLC

\* A global property: its only record is that of area 0.
Global(prop, type, access, changeMode, initialValue) ==
    [prop |-> prop, type |-> type, access |-> access, changeMode |-> changeMode,
     areaConfigs |-> {}, rates |-> <<0, 0>>,
     initialValue |-> initialValue, initialAreaValues |-> <<>>]

\* A property with one record for each of its areas, and one value for all.
Zoned(prop, type, access, changeMode, areas, initialValue) ==
    [Global(prop, type, access, changeMode, initialValue)
        EXCEPT !.areaConfigs = areas]

\* A property with a value of its own for each area.
PerArea(prop, type, access, changeMode, initialAreaValues) ==
    [Global(prop, type, access, changeMode, <<>>)
        EXCEPT !.areaConfigs = DOMAIN initialAreaValues,
               !.initialAreaValues = initialAreaValues]

Sampled(row, minRate, maxRate) == [row EXCEPT !.rates = <<minRate, maxRate>>]

isGlobalProp(row) == row.areaConfigs = {}
GlobalArea == "0"

MAKE == "Toy Vehicle"
VENDOR_STRING == "Vendor String Property"

HVAC_ALL == {"HVAC_ALL"}
HVAC_SIDES == {"HVAC_LEFT", "HVAC_RIGHT"}
FRONT_SEATS == {"SEAT_1_LEFT", "SEAT_1_RIGHT"}
WHEELS == {"WHEEL_FRONT_LEFT", "WHEEL_FRONT_RIGHT", "WHEEL_REAR_LEFT",
           "WHEEL_REAR_RIGHT"}
DOORS == {"DOOR_1_LEFT", "DOOR_1_RIGHT", "DOOR_2_LEFT", "DOOR_2_RIGHT"}
WINDOWS == {"WINDOW_1_LEFT", "WINDOW_1_RIGHT", "WINDOW_2_LEFT", "WINDOW_2_RIGHT"}
WINDSHIELDS == {"FRONT_WINDSHIELD", "REAR_WINDSHIELD"}

InfoProperties == <<
    Global("INFO_FUEL_CAPACITY", "FLOAT", "READ", "STATIC", <<15000>>),
    Global("INFO_FUEL_TYPE", "INT32_VEC", "READ", "STATIC", <<1>>),
    Global("INFO_EV_BATTERY_CAPACITY", "FLOAT", "READ", "STATIC", <<150000>>),
    Global("INFO_EV_CONNECTOR_TYPE", "INT32_VEC", "READ", "STATIC", <<1>>),
    Global("INFO_DRIVER_SEAT", "INT32", "READ", "STATIC", <<"SEAT_1_LEFT">>),
    Global("INFO_FUEL_DOOR_LOCATION", "INT32", "READ", "STATIC", <<"REAR_LEFT">>),
    Global("INFO_EV_PORT_LOCATION", "INT32", "READ", "STATIC", <<"FRONT_LEFT">>),
    Global("INFO_MAKE", "STRING", "READ", "STATIC", <<MAKE>>)>>

DrivingProperties == <<
    Sampled(Global("PERF_VEHICLE_SPEED", "FLOAT", "READ", "ON_CHANGE", <<0>>), 10, 100),
    Global("VEHICLE_SPEED_DISPLAY_UNITS", "INT32", "READ_WRITE", "ON_CHANGE",
           <<"KILOMETERS_PER_HOUR">>),
    Global("INFO_DRIVER_SEAT", "INT32", "READ", "STATIC", <<"SEAT_1_LEFT">>),
    Global("PERF_ODOMETER", "FLOAT", "READ", "ON_CHANGE", <<0>>),
    Sampled(Global("ENGINE_RPM", "FLOAT", "READ", "CONTINUOUS", <<0>>), 10, 100),
    Global("FUEL_LEVEL", "FLOAT", "READ", "ON_CHANGE", <<15000>>),
    Global("FUEL_DOOR_OPEN", "BOOLEAN", "READ_WRITE", "ON_CHANGE", <<0>>),
    Global("EV_BATTERY_LEVEL", "FLOAT", "READ", "ON_CHANGE", <<150000>>),
    Global("EV_CHARGE_PORT_OPEN", "BOOLEAN", "READ_WRITE", "ON_CHANGE", <<0>>),
    Global("EV_CHARGE_PORT_CONNECTED", "BOOLEAN", "READ", "ON_CHANGE", <<0>>),
    Global("EV_BATTERY_INSTANTANEOUS_CHARGE_RATE", "FLOAT", "READ", "ON_CHANGE", <<0>>)>>

MotionProperties == <<
    Sampled(Global("RANGE_REMAINING", "FLOAT", "READ", "CONTINUOUS", <<100>>), 10, 20),
    Sampled(Zoned("TIRE_PRESSURE", "FLOAT", "READ", "CONTINUOUS", WHEELS, <<200>>), 10, 20),
    Global("CURRENT_GEAR", "INT32", "READ", "ON_CHANGE", <<"GEAR_PARK">>),
    Global("PARKING_BRAKE_ON", "BOOLEAN", "READ", "ON_CHANGE", <<1>>),
    Global("FUEL_LEVEL_LOW", "BOOLEAN", "READ", "ON_CHANGE", <<0>>),
    Global("HW_KEY_INPUT", "INT32_VEC", "READ", "ON_CHANGE", <<0, 0, 0>>)>>

HvacProperties == <<
    Zoned("HVAC_POWER_ON", "BOOLEAN", "READ_WRITE", "ON_CHANGE", HVAC_ALL, <<1>>),
    Zoned("HVAC_DEFROSTER", "BOOLEAN", "READ_WRITE", "ON_CHANGE", WINDSHIELDS, <<0>>),
    Zoned("HVAC_MAX_DEFROST_ON", "BOOLEAN", "READ_WRITE", "ON_CHANGE", HVAC_ALL, <<0>>),
    Zoned("HVAC_RECIRC_ON", "BOOLEAN", "READ_WRITE", "ON_CHANGE", HVAC_ALL, <<1>>),
    Zoned("HVAC_AUTO_RECIRC_ON", "BOOLEAN", "READ_WRITE", "ON_CHANGE", HVAC_ALL, <<0>>),
    Zoned("HVAC_AC_ON", "BOOLEAN", "READ_WRITE", "ON_CHANGE", HVAC_ALL, <<1>>),
    Zoned("HVAC_MAX_AC_ON", "BOOLEAN", "READ_WRITE", "ON_CHANGE", HVAC_ALL, <<0>>),
    Zoned("HVAC_AUTO_ON", "BOOLEAN", "READ_WRITE", "ON_CHANGE", HVAC_ALL, <<1>>),
    Zoned("HVAC_DUAL_ON", "BOOLEAN", "READ_WRITE", "ON_CHANGE", HVAC_ALL, <<0>>),
    Zoned("HVAC_FAN_SPEED", "INT32", "READ_WRITE", "ON_CHANGE", HVAC_ALL, <<3>>),
    Zoned("HVAC_FAN_DIRECTION", "INT32", "READ_WRITE", "ON_CHANGE", HVAC_ALL, <<"FACE">>),
    Zoned("HVAC_FAN_DIRECTION_AVAILABLE", "INT32_VEC", "READ", "STATIC", HVAC_ALL,
          <<"FACE", "FLOOR", "FACE|FLOOR">>),
    Zoned("HVAC_SEAT_VENTILATION", "INT32", "READ_WRITE", "ON_CHANGE", FRONT_SEATS, <<0>>),
    Global("HVAC_STEERING_WHEEL_HEAT", "INT32", "READ_WRITE", "ON_CHANGE", <<0>>),
    Zoned("HVAC_SEAT_TEMPERATURE", "INT32", "READ_WRITE", "ON_CHANGE", FRONT_SEATS, <<0>>)>>

CabinProperties == <<
    PerArea("HVAC_TEMPERATURE_SET", "FLOAT", "READ_WRITE", "ON_CHANGE",
            "HVAC_LEFT" :> <<16>> @@ "HVAC_RIGHT" :> <<20>>),
    Sampled(Global("ENV_OUTSIDE_TEMPERATURE", "FLOAT", "READ", "CONTINUOUS", <<25>>), 10, 20),
    Global("HVAC_TEMPERATURE_DISPLAY_UNITS", "INT32", "READ_WRITE", "ON_CHANGE",
           <<"FAHRENHEIT">>),
    Global("NIGHT_MODE", "BOOLEAN", "READ", "ON_CHANGE", <<0>>),
    Global("GEAR_SELECTION", "INT32", "READ", "ON_CHANGE", <<"GEAR_PARK">>),
    Global("IGNITION_STATE", "INT32", "READ", "ON_CHANGE", <<"ON">>),
    Global("ENGINE_OIL_LEVEL", "INT32", "READ", "ON_CHANGE", <<"NORMAL">>),
    Sampled(Global("ENGINE_OIL_TEMP", "FLOAT", "READ", "CONTINUOUS", <<101>>), 1, 100),
    Global("GENERATE_FAKE_DATA", "MIXED", "WRITE", "ON_CHANGE", <<>>)>>

BodyProperties == <<
    PerArea("DOOR_LOCK", "BOOLEAN", "READ_WRITE", "ON_CHANGE", [d \in DOORS |-> <<1>>]),
    Zoned("DOOR_POS", "INT32", "READ_WRITE", "ON_CHANGE", DOORS \cup {"DOOR_REAR"}, <<0>>),
    PerArea("WINDOW_LOCK", "BOOLEAN", "READ_WRITE", "ON_CHANGE",
            "WINDOWS_OF_PASSENGERS" :> <<0>>),
    Zoned("WINDOW_POS", "INT32", "READ_WRITE", "ON_CHANGE",
          WINDOWS \cup {"WINDOW_ROOF_TOP_1"}, <<0>>),
    Sampled(Global("WHEEL_TICK", "INT64_VEC", "READ", "CONTINUOUS",
                   <<0, 100000, 200000, 300000, 400000>>), 10, 100),
    Global("ABS_ACTIVE", "BOOLEAN", "READ", "ON_CHANGE", <<0>>),
    Global("TRACTION_CONTROL_ACTIVE", "BOOLEAN", "READ", "ON_CHANGE", <<0>>)>>

SystemProperties == <<
    Global("AP_POWER_STATE_REQ", "INT32_VEC", "READ", "ON_CHANGE", <<"ON", 0>>),
    Global("AP_POWER_STATE_REPORT", "INT32_VEC", "WRITE", "ON_CHANGE", <<"WAIT_FOR_VHAL", 0>>),
    Global("DISPLAY_BRIGHTNESS", "INT32", "READ_WRITE", "ON_CHANGE", <<100>>),
    Global("OBD2_LIVE_FRAME", "MIXED", "READ", "ON_CHANGE", <<>>),
    Global("OBD2_FREEZE_FRAME", "MIXED", "READ", "ON_CHANGE", <<>>),
    Global("OBD2_FREEZE_FRAME_INFO", "MIXED", "READ", "ON_CHANGE", <<>>),
    Global("OBD2_FREEZE_FRAME_CLEAR", "MIXED", "WRITE", "ON_CHANGE", <<>>)>>

LightProperties == <<
    Global("HEADLIGHTS_STATE", "INT32", "READ", "ON_CHANGE", <<"ON">>),
    Global("HIGH_BEAM_LIGHTS_STATE", "INT32", "READ", "ON_CHANGE", <<"ON">>),
    Global("FOG_LIGHTS_STATE", "INT32", "READ", "ON_CHANGE", <<"ON">>),
    Global("HAZARD_LIGHTS_STATE", "INT32", "READ", "ON_CHANGE", <<"ON">>),
    Global("HEADLIGHTS_SWITCH", "INT32", "READ_WRITE", "ON_CHANGE", <<"AUTOMATIC">>),
    Global("HIGH_BEAM_LIGHTS_SWITCH", "INT32", "READ_WRITE", "ON_CHANGE", <<"AUTOMATIC">>),
    Global("FOG_LIGHTS_SWITCH", "INT32", "READ_WRITE", "ON_CHANGE", <<"AUTOMATIC">>),
    Global("HAZARD_LIGHTS_SWITCH", "INT32", "READ_WRITE", "ON_CHANGE", <<"AUTOMATIC">>)>>

VendorProperties == <<
    Global("VEHICLE_MAP_SERVICE", "MIXED", "READ_WRITE", "ON_CHANGE", <<>>),
    PerArea("VENDOR_EXTENSION_BOOLEAN", "BOOLEAN", "READ_WRITE", "ON_CHANGE",
            [d \in DOORS |-> IF d \in {"DOOR_1_LEFT", "DOOR_1_RIGHT"} THEN <<1>> ELSE <<0>>]),
    PerArea("VENDOR_EXTENSION_FLOAT", "FLOAT", "READ_WRITE", "ON_CHANGE",
            "HVAC_LEFT" :> <<1>> @@ "HVAC_RIGHT" :> <<2>>),
    PerArea("VENDOR_EXTENSION_INT", "INT32", "READ_WRITE", "ON_CHANGE",
            "FRONT_WINDSHIELD" :> <<1>> @@ "REAR_WINDSHIELD" :> <<0>>
            @@ "ROOF_TOP_1" :> <<-1>>),
    Global("VENDOR_EXTENSION_STRING", "STRING", "READ_WRITE", "ON_CHANGE",
           <<VENDOR_STRING>>)>>

kVehicleProperties ==
    InfoProperties \o DrivingProperties \o MotionProperties \o HvacProperties
    \o CabinProperties \o BodyProperties \o SystemProperties \o LightProperties
    \o VendorProperties

=============================================================================
