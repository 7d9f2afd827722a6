----------------------------- MODULE InputDeviceModel -----------------------------
(***************************************************************************)
(* The QML InputDeviceModel (qdeclarativeinputdevicemodel.cpp): a list     *)
(* model of the devices its QInputInfoManager offers, which it edits row   *)
(* by row into the manager's map whenever the manager tells of a change.   *)
(***************************************************************************)
EXTENDS Integers, Sequences, SequencesExt, FiniteSets

CONSTANTS Devices, \* how many devices there are
          Types,   \* Types[d]: the input types of a device
          Filter   \* what an application filters by

VARIABLES
  deviceMap,      \* the devices QInputInfoManagerUdev knows
  managerFilter,  \* QInputInfoManager::currentFilter
  currentFilter,  \* the model's own
  inputDevices,   \* its rows
  deleted         \* devices deleteLater() is called on

vars == <<deviceMap, managerFilter, currentFilter, inputDevices, deleted>>

\* The keys of the devices; a QMap has them in order.
Device == 1 .. Devices

AllTypes == UNION {Types[d] : d \in Device}

TypeOK ==
  /\ deviceMap \subseteq Device /\ deleted \subseteq Device
  /\ managerFilter \subseteq AllTypes /\ currentFilter \subseteq AllTypes
  /\ inputDevices \in Seq(Device)

Filtered(map, filter) == {d \in map : Types[d] \cap filter # {}}

InOrder(map) ==
  LET upTo[d \in 0 .. Devices] ==
        IF d = 0 THEN <<>> ELSE IF d \in map THEN Append(upTo[d - 1], d) ELSE upTo[d - 1]
  IN  upTo[Devices]

\* The filter of the manager is every type; the model says its own is none.
Init ==
  /\ deviceMap = {} /\ deleted = {}
  /\ managerFilter = AllTypes /\ currentFilter = {}
  /\ inputDevices = <<>>

\* Mutant: a device that changed its position stays where it was.
PlaceNew(rows, device, i) ==
  IF device \in ToSet(rows) THEN rows ELSE InsertAt(rows, i, device)

\* The device of row i is inserted there, or moved there from further down.
Place(rows, device, i) ==
  IF device \notin ToSet(rows) THEN InsertAt(rows, i, device)
  ELSE InsertAt(RemoveAt(rows, CHOOSE j \in DOMAIN rows : rows[j] = device), i, device)

\* updateDeviceList; what is left over at the end is removed.
UpdateDeviceList(rows, new) ==
  LET placed[i \in 0..Len(new)] == IF i = 0 THEN rows ELSE Place(placed[i - 1], new[i], i)
  IN SubSeq(placed[Len(new)], 1, Len(new))

Updated(map, filter) ==
  inputDevices' = UpdateDeviceList(inputDevices, InOrder(Filtered(map, filter)))

\* init lists the devices: ready, and deviceAdded of the first.
Ready(map) ==
  /\ deviceMap = {} /\ map # {} /\ map \cap deleted = {}
  /\ deviceMap' = map
  /\ Updated(map, managerFilter)
  /\ UNCHANGED <<managerFilter, currentFilter, deleted>>

\* deviceAdded is emitted of a device the filter admits.
AddedDevice(d) ==
  /\ d \notin deviceMap \cup deleted
  /\ deviceMap' = deviceMap \cup {d}
  /\ IF d \in Filtered({d}, managerFilter) THEN Updated(deviceMap', managerFilter)
     ELSE UNCHANGED inputDevices
  /\ UNCHANGED <<managerFilter, currentFilter, deleted>>

\* deviceRemoved, of a device that was in the filtered map.
RemovedDevice(d) ==
  /\ d \in deviceMap
  /\ deviceMap' = deviceMap \ {d} /\ deleted' = deleted \cup {d}
  /\ IF d \in Filtered({d}, managerFilter) THEN Updated(deviceMap', managerFilter)
     ELSE UNCHANGED inputDevices
  /\ UNCHANGED <<managerFilter, currentFilter>>

\* setFilter; the manager emits filterChanged when the filter is new to it.
SetFilter(filter) ==
  /\ filter # currentFilter
  /\ currentFilter' = filter /\ managerFilter' = filter
  /\ IF filter # managerFilter THEN Updated(deviceMap, filter) ELSE UNCHANGED inputDevices
  /\ UNCHANGED <<deviceMap, deleted>>

Next ==
  \/ \E map \in SUBSET Device : Ready(map)
  \/ \E d \in Device : AddedDevice(d) \/ RemovedDevice(d)
  \/ \E filter \in Filter : SetFilter(filter)

Spec == Init /\ [][Next]_vars
-----------------------------------------------------------------------------
\* However the rows were edited, they are the devices the filter admits, in the
\* order of the map, each once and none of them deleted.
RowsAreDevices ==
  /\ inputDevices = InOrder(Filtered(deviceMap, managerFilter))
  /\ ToSet(inputDevices) \cap deleted = {}
=============================================================================
