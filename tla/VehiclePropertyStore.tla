----------------------- MODULE VehiclePropertyStore -----------------------
(***************************************************************************)
(* VehiclePropertyStore: the configurations (mConfigs) and the records     *)
(* (mPropertyValues) of a HAL.                                             *)
(*                                                                         *)
(* Every method is one critical section of mLock, so it is an operator on  *)
(* the two maps, and a module that holds a store applies one of them in    *)
(* each of its steps.  A record is found by (property, area, token): the   *)
(* area of a global property is always 0, and the token is 0 unless the    *)
(* property was registered with a token function.                          *)
(***************************************************************************)
EXTENDS Naturals, Functions, SequencesExt, FiniteSetsExt, EmulatedConfig, Maps

\* The id that belongs to no property: getRecordIdLocked returns {} for one
\* that is not configured.
NoRecord == [prop |-> "none", area |-> GlobalArea, token |-> 0]

AreaOf(row, area) == IF isGlobalProp(row) THEN GlobalArea ELSE area

-----------------------------------------------------------------------------
\* The only token function of the repository returns the timestamp.

Registration(row, byTimestamp) == [row |-> row, byTimestamp |-> byTimestamp]

\* Mutant of Registered: a later registration replaces the earlier one.
LastRegistered(registrations) ==
    [prop \in {registrations[i].row.prop : i \in DOMAIN registrations} |->
        registrations[Max({i \in DOMAIN registrations : registrations[i].row.prop = prop})]]

\* mConfigs after these calls of registerProperty: map::insert does nothing
\* when the key is there.
Registered(registrations) ==
    [prop \in {registrations[i].row.prop : i \in DOMAIN registrations} |->
        registrations[Min({i \in DOMAIN registrations : registrations[i].row.prop = prop})]]

RecordId(configs, v) ==
    IF v.prop \notin DOMAIN configs THEN NoRecord
    ELSE [prop |-> v.prop, area |-> AreaOf(configs[v.prop].row, v.areaId),
          token |-> IF configs[v.prop].byTimestamp THEN v.timestamp ELSE 0]

\* Null is a record that is not in the map.
Holds(records, id) == id \in DOMAIN records

\* Only the caller that asks for it changes the status of a record that
\* exists.
Updated(record, v, updateStatus) ==
    [prop |-> record.prop, areaId |-> record.areaId, timestamp |-> v.timestamp,
     status |-> IF updateStatus THEN v.status ELSE record.status, value |-> v.value]

writeValue(configs, records, v, updateStatus) ==
    LET id == RecordId(configs, v)
    IN  IF v.prop \notin DOMAIN configs THEN records
        ELSE Put(records, id, IF Holds(records, id)
                              THEN Updated(records[id], v, updateStatus) ELSE v)

removeValue(configs, records, v) ==
    Restrict(records, DOMAIN records \ {RecordId(configs, v)})

RecordsOf(records, prop) == {id \in DOMAIN records : id.prop = prop}

removeValuesForProperty(records, prop) ==
    Restrict(records, DOMAIN records \ RecordsOf(records, prop))

\* In the order of the map: these records differ in the token alone.
readValuesForProperty(records, prop) ==
    LET ids == SetToSortSeq(RecordsOf(records, prop), LAMBDA i, j : i.token < j.token)
    IN  [i \in DOMAIN ids |-> records[ids[i]]]

=============================================================================
