----------------------- MODULE MCEmulatedVehicleHal -----------------------
(***************************************************************************)
(* A small instance of EmulatedVehicleHal: the fans and the power of the   *)
(* default configuration, its freeze frames, one continuous property, and  *)
(* two generators, a linear one and a file of two events.                  *)
(***************************************************************************)
EXTENDS EmulatedVehicleHal

CONSTANTS
    c1, c2,
    startSpeed, stopSpeed, startFile, pressKey

Speed == Linear("PERF_VEHICLE_SPEED", 1, 1, 1, 1)
FanEvent(value, timestamp) ==
    [complete |-> TRUE, prop |-> "HVAC_FAN_SPEED", areaId |-> "HVAC_ALL",
     value |-> <<value>>, timestamp |-> timestamp]
File == JsonFile(<<FanEvent(5, 4), [complete |-> FALSE], FanEvent(6, 5)>>, 1)

Commands ==
    LET command(name, cookie, generator) ==
            [name |-> name, cookie |-> cookie, generator |-> generator, complete |-> TRUE]
    IN  startSpeed :> command("Start", c1, Speed) @@ stopSpeed :> command("Stop", c1, Speed)
        @@ startFile :> command("Start", c2, File) @@ pressKey :> command("KeyPress", c1, Speed)

Fan(value) == Value("HVAC_FAN_SPEED", "HVAC_ALL", "AVAILABLE", value)
Power(status, value) == Value("HVAC_POWER_ON", "HVAC_ALL", status, value)
Clear(timestamps) == Value("OBD2_FREEZE_FRAME_CLEAR", GlobalArea, "AVAILABLE", timestamps)
FakeData(value) == Value("GENERATE_FAKE_DATA", GlobalArea, "AVAILABLE", value)

FromClients ==
    {Fan(<<7>>), Power("AVAILABLE", <<0>>), Clear(<<>>), Clear(<<1, 3, 2>>), FakeData(<<>>),
     Value("VEHICLE_MAP_SERVICE", GlobalArea, "AVAILABLE", <<>>),
     Value("AP_POWER_STATE_REPORT", GlobalArea, "AVAILABLE", <<"SHUTDOWN_START", 0>>)}
    \cup {FakeData(<<command>>) : command \in DOMAIN Commands}

FromVehicle ==
    {Power("UNAVAILABLE", <<0>>), FakeData(<<stopSpeed>>),
     DefaultObd2Frame(FREEZE_FRAME, "P0123", 3)}

WatchedProperties ==
    {"HVAC_FAN_SPEED", "HVAC_POWER_ON", "PERF_VEHICLE_SPEED", "ENGINE_RPM",
     "VEHICLE_MAP_SERVICE", "AP_POWER_STATE_REPORT", "GENERATE_FAKE_DATA",
     "OBD2_LIVE_FRAME", "OBD2_FREEZE_FRAME", "OBD2_FREEZE_FRAME_INFO",
     "OBD2_FREEZE_FRAME_CLEAR", "HW_KEY_INPUT", "AP_POWER_STATE_REQ"}

=============================================================================
