---------------------- MODULE MCEmulatorConnections ----------------------
\* Small instances of EmulatorConnections: two commands and a body that does
\* not parse, or commands of each kind; only fan is configured.
EXTENDS EmulatorConnections

CONSTANTS fan, unknown

Command(type, prop, value) == [type |-> type, prop |-> prop, value |-> value]

\* One that reads a value, and one that sets it.
SomeCommands ==
    <<Command("GET_PROPERTY_ALL_CMD", fan, 0), Command("SET_PROPERTY_CMD", fan, 2)>>

AllCommands ==
    SomeCommands \o
    <<Command("HEARTBEAT", fan, 0),
      Command("GET_CONFIG_CMD", unknown, 0), Command("GET_PROPERTY_CMD", fan, 0),
      Command("GET_PROPERTY_CMD", unknown, 0),
      Command("SET_PROPERTY_CMD", unknown, 1), Command("GET_CONFIG_CMD", fan, 0),
      Command("GET_CONFIG_ALL_CMD", fan, 0)>>

Symmetry == Permutations(Sockets) \cup Permutations(Setters)

=============================================================================
