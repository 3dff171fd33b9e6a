-------------------------------- MODULE Maps --------------------------------
(***************************************************************************)
(* std::map, as a function on its keys.                                    *)
(***************************************************************************)

\* The map after map[key] = value, whether or not the key was there.
Put(map, key, value) ==
    [k \in DOMAIN map \cup {key} |-> IF k = key THEN value ELSE map[k]]

\* The map {{key1, value1}, {key2, value2}}.
MapOf(key1, value1, key2, value2) ==
    [k \in {key1, key2} |-> IF k = key1 THEN value1 ELSE value2]

=============================================================================
