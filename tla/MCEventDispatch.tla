-------------------------- MODULE MCEventDispatch --------------------------
\* A small instance of EventDispatch: a zoned property, and a name, which is
\* static and read only and whose objects are not pooled.
EXTENDS EventDispatch

SomeConfig ==
    [fan |-> [type |-> "INT32", access |-> {"READ", "WRITE"}, changeMode |-> "ON_CHANGE"],
     name |-> [type |-> "STRING", access |-> {"READ"}, changeMode |-> "STATIC"]]

Value(prop, areaId, size, stray) ==
    [prop |-> prop, areaId |-> areaId, size |-> size, stray |-> stray]

FromClients ==
    {Value("fan", 1, 1, FALSE), Value("name", 0, 0, FALSE), Value("unknown", 0, 1, FALSE)}
FromHal == {Value("fan", 2, 1, FALSE), Value("fan", 2, 1, TRUE), Value("name", 0, 0, FALSE)}

Symmetry == Permutations(Clients)

=============================================================================
