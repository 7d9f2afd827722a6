-------------------------------- MODULE InputInfo --------------------------------
(***************************************************************************)
(* QInputInfoManager on Linux: the one QInputInfoManagerUdev of a process, *)
(* which lists the input devices 250 ms after it is made and follows udev  *)
(* from then on, and the managers of the application, each with a filtered *)
(* copy of its map.                                                        *)
(*                                                                         *)
(* The kernel shows a device as two nodes, first input<n> and below it     *)
(* event<m>, and takes them away in the opposite order; it uses the number *)
(* of an event node again, that of an input node never.                    *)
(***************************************************************************)
EXTENDS Naturals, Sequences, FiniteSets

CONSTANTS
  Device,
  InputName, EventName,  \* the names of a device's nodes
  Types,                 \* the input types of a device
  Contains,              \* Contains[m, n]: the name m contains the name n
  Manager,
  Filter                 \* what applications filter by: sets of types

VARIABLES
  node,                  \* how much of each device there is
  monitored,             \* udev's messages are received
  uevents,               \* the messages on their way
  phase,                 \* of the manager: waiting, listening, listed
  deviceMap,             \* the devices it knows, by key
  manager                \* the QInputInfoManagers

vars == <<node, monitored, uevents, phase, deviceMap, manager>>

AllTypes == UNION {Types[d] : d \in Device}
Name == {InputName[d] : d \in Device} \cup {EventName[d] : d \in Device}
Entry == [key : Name, device : Device]
Unmade == [made |-> FALSE, filter |-> AllTypes, map |-> {}, count |-> 0, filtered |-> FALSE]

TypeOK ==
  /\ node \in [Device -> {"absent", "coming", "there", "leaving", "gone"}]
  /\ phase \in {"waiting", "listening", "listed"} /\ monitored = (phase # "waiting")
  /\ deviceMap \subseteq Entry
  /\ \A e, f \in deviceMap : e.key = f.key => e = f
  /\ \A m \in Manager : manager[m].map \subseteq Entry /\ manager[m].filter \subseteq AllTypes

Init ==
  /\ node \in [Device -> {"absent", "there"}]
  /\ \A d, e \in Device : node[d] = "there" /\ node[e] = "there" /\ EventName[d] = EventName[e] => d = e
  /\ monitored = FALSE /\ uevents = <<>> /\ phase = "waiting"
  /\ deviceMap = {}
  /\ manager = [m \in Manager |-> Unmade]
-----------------------------------------------------------------------------
(***************************************************************************)
(* QInputInfoManager.                                                      *)
(***************************************************************************)
Filtered(map, filter) == {e \in map : Types[e.device] \cap filter # {}}

\* setFilter; no type at all stays none.
SetFilter(m, map, filter) ==
  LET new == Filtered(map, filter)
  IN  [m EXCEPT !.filter = filter, !.map = new, !.count = Cardinality(new), !.filtered = TRUE]

\* addedDevice, removedDevice and privateReady: the signals they emit differ.
Refreshed(map) ==
  [m \in Manager |-> IF manager[m].made THEN SetFilter(manager[m], map, manager[m].filter)
                     ELSE manager[m]]

\* A manager made late has an empty map until something is plugged in or out.
Make(m) ==
  /\ ~manager[m].made
  /\ manager' = [manager EXCEPT ![m].made = TRUE]
  /\ UNCHANGED <<node, monitored, uevents, phase, deviceMap>>

ChangeFilter(m, filter) ==
  /\ manager[m].made
  /\ manager' = [manager EXCEPT ![m] = SetFilter(@, deviceMap, filter)]
  /\ UNCHANGED <<node, monitored, uevents, phase, deviceMap>>
-----------------------------------------------------------------------------
(***************************************************************************)
(* QInputInfoManagerUdev.                                                  *)
(***************************************************************************)
Keys == {e.key : e \in deviceMap}

\* addDevice, of a node: only an input node has an event node below it.
Addable(d, name) == name = InputName[d] /\ node[d] = "there"

\* init: the messages are asked for before the devices are listed.
StartListening ==
  /\ phase = "waiting" /\ \E m \in Manager : manager[m].made
  /\ phase' = "listening" /\ monitored' = TRUE
  /\ UNCHANGED <<node, uevents, deviceMap, manager>>

\* What libevdev does not open is left out; the rest is known by its event node.
ListDevices ==
  /\ phase = "listening"
  /\ phase' = "listed"
  /\ \E listed \in SUBSET {d \in Device : Addable(d, InputName[d])} :
       deviceMap' = {[key |-> EventName[d], device |-> d] : d \in listed}
  /\ manager' = Refreshed(deviceMap')
  /\ UNCHANGED <<node, monitored, uevents>>

\* onUDevChanges: a device plugged in later is known by its input node.
DeviceAdded ==
  /\ phase = "listed" /\ uevents # <<>> /\ Head(uevents).action = "add"
  /\ uevents' = Tail(uevents)
  /\ LET name == Head(uevents).name
         d == Head(uevents).device
     IN  \E opened \in BOOLEAN :
           IF opened /\ name \notin Keys /\ Addable(d, name)
             THEN /\ deviceMap' = deviceMap \cup {[key |-> name, device |-> d]}
                  /\ manager' = Refreshed(deviceMap')
             ELSE UNCHANGED <<deviceMap, manager>>
  /\ UNCHANGED <<node, monitored, phase>>

\* removeDevice takes every key that contains the name.
DeviceRemoved ==
  /\ phase = "listed" /\ uevents # <<>> /\ Head(uevents).action = "remove"
  /\ uevents' = Tail(uevents)
  /\ LET removed == {e \in deviceMap : Contains[e.key, Head(uevents).name]}
     IN  /\ deviceMap' = deviceMap \ removed
         /\ manager' = IF removed = {} THEN manager ELSE Refreshed(deviceMap')
  /\ UNCHANGED <<node, monitored, phase>>
-----------------------------------------------------------------------------
(***************************************************************************)
(* The kernel.                                                             *)
(***************************************************************************)
Step(d, from, to, action, name) ==
  /\ node[d] = from
  /\ node' = [node EXCEPT ![d] = to]
  /\ uevents' = IF monitored THEN Append(uevents, [action |-> action, name |-> name, device |-> d])
                ELSE uevents
  /\ UNCHANGED <<monitored, phase, deviceMap, manager>>

PlugInput(d) == Step(d, "absent", "coming", "add", InputName[d])
PlugEvent(d) ==
  /\ \A e \in Device : node[e] = "there" => EventName[e] # EventName[d]
  /\ Step(d, "coming", "there", "add", EventName[d])
UnplugEvent(d) == Step(d, "there", "leaving", "remove", EventName[d])
UnplugInput(d) == Step(d, "leaving", "gone", "remove", InputName[d])
-----------------------------------------------------------------------------
Next ==
  \/ StartListening \/ ListDevices \/ DeviceAdded \/ DeviceRemoved
  \/ \E d \in Device : PlugInput(d) \/ PlugEvent(d) \/ UnplugEvent(d) \/ UnplugInput(d)
  \/ \E m \in Manager : Make(m) \/ \E filter \in Filter : ChangeFilter(m, filter)
Spec == Init /\ [][Next]_vars

\* A device that went, at whatever moment of the listing, is not in the map once
\* the messages are handled.
NoGhostDevices == uevents = <<>> => \A e \in deviceMap : node[e.device] # "gone"

\* No manager offers a device that was deleted, and one that was told anything
\* offers what its filter admits.
FiltersCurrent ==
  \A m \in Manager :
    /\ manager[m].map \subseteq deviceMap
    /\ manager[m].filtered =>
         /\ manager[m].map = Filtered(deviceMap, manager[m].filter)
         /\ manager[m].count = Cardinality(manager[m].map)

\* A device that is there is known, once the messages are handled.
\* (The code does not keep it; no run checks it.)
DevicesKnown ==
  phase = "listed" /\ uevents = <<>> =>
    \A d \in Device : node[d] = "there" => \E e \in deviceMap : e.device = d
===============================================================================
