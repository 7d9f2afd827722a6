---------------------------- MODULE UPowerBatteryInfo ----------------------------
(***************************************************************************)
(* QBatteryInfo by UPower: the map of the batteries' properties, and the   *)
(* D-Bus interfaces of UPower and of its devices that keep it up to date.  *)
(*                                                                         *)
(* A call that blocks reads the daemon at once, past the messages that     *)
(* wait to be dispatched; the signals and the answers of other calls come  *)
(* in the order they were sent.  The energy stands for the other numbers   *)
(* of a battery, which are handled alike.                                  *)
(***************************************************************************)
EXTENDS Integers, Sequences, FiniteSets, FiniteSetsExt, Functions

CONSTANTS
  Device, Battery,   \* UPower's devices, those that are batteries
  Lists,             \* the lists of devices it may answer with
  Energy, State,     \* a battery's energy and state
  Index,             \* what setBatteryIndex is given
  MaxInterfaces, MaxChanges  \* bounds: of interface objects, of UPower's changes

VARIABLES
  up, present, properties,   \* the daemon: runs, its devices, their properties
  inbox,             \* the messages on their way to the client
  requests,          \* GetAll calls without an answer: the interfaces they are of
  interfaces,        \* QUPowerDeviceInterface objects, which are never deleted
  client,            \* the QBatteryInfoPrivate, a record of
                     \*   map, cType, cState, index
                     \*   watchers   its QUPowerInterface objects
                     \*   job        the slot that runs, and the devices left to it
                     \*   told       the last values slots were told (history)
  missed,            \* devices with a change that was not heard or not answered (history)
  changes

daemon == <<up, present, properties>>
vars == <<daemon, inbox, requests, interfaces, client, missed, changes>>

Untold == <<>>
Nothing == [native |-> "none", energy |-> 0, state |-> "none", online |-> FALSE]
Idle == [slot |-> "none", devices |-> <<>>]
Slots == {"none", "enumerate", "read", "match", "readAdded", "matchAdded"}

Entry == [native : Device \cup {"none"}, energy : Energy \cup {0},
          state : State \cup {"none", "Unknown"}, online : BOOLEAN]
Interface == [device : Device, map : Entry, matched : BOOLEAN]
Messages == [kind : {"registered", "unregistered", "added", "removed", "changed", "answer"},
             device : Device \cup {"none"}, interface : Nat, map : Entry]

TypeOK ==
  /\ up \in BOOLEAN /\ present \subseteq Device /\ properties \in [Device -> Entry]
  /\ inbox \in Seq(Messages)
  /\ interfaces \in Seq(Interface) /\ requests \in Seq(1 .. Len(interfaces))
  /\ DOMAIN client.map \subseteq Nat /\ IsFiniteSet(DOMAIN client.map)
  /\ \A k \in DOMAIN client.map : client.map[k] \in Entry
  /\ client.job \in [slot : Slots, devices : Seq(Device)]
  /\ client.cType \in {"Unknown", "Wall"} /\ client.index \in Index /\ client.watchers \in Nat

NewProperties(d, e, s) ==
  [native |-> d, energy |-> IF d \in Battery THEN e ELSE 0,
   state |-> IF d \in Battery THEN s ELSE "Unknown", online |-> FALSE]

Init ==
  /\ up \in BOOLEAN /\ present \in SUBSET Device
  /\ \E e \in Energy, s \in State : properties = [d \in Device |-> NewProperties(d, e, s)]
  /\ inbox = <<>> /\ requests = <<>> /\ interfaces = <<>>
  /\ \E i \in Index :
       client = [map |-> <<>>, cType |-> "Unknown", cState |-> "Unknown", index |-> i,
                 watchers |-> IF up THEN 1 ELSE 0,
                 job |-> IF up THEN [Idle EXCEPT !.slot = "enumerate"] ELSE Idle,
                 told |-> [energy |-> Untold, valid |-> Untold]]
  /\ missed = {} /\ changes = 0
-----------------------------------------------------------------------------
(***************************************************************************)
(* The map.                                                                *)
(***************************************************************************)
\* Battery 0 stands for one that is not found.
KeysOf(map, native) == {k \in DOMAIN map : map[k].native = native}
Found(map, native) == IF KeysOf(map, native) = {} THEN 0 ELSE Min(KeysOf(map, native))
Value(map, k) == IF k \in DOMAIN map THEN map[k] ELSE Nothing
Inserted(map, k, entry) == [j \in DOMAIN map \cup {k} |-> IF j = k THEN entry ELSE map[j]]
Removed(map, k) == Restrict(map, DOMAIN map \ {k})

IsValid(c) == c.index >= 0 /\ c.index < Cardinality(DOMAIN c.map)
RemainingCapacity(c) == IF Cardinality(DOMAIN c.map) >= c.index THEN Value(c.map, c.index).energy ELSE 0

ChargingStateOf(state) ==
  CASE state = "charging" -> "Charging"
    [] state \in {"discharging", "empty"} -> "Discharging"
    [] state = "full" -> "Idle"
    [] OTHER -> "Unknown"

\* The signals of a device that is no battery count as battery 0's.
TellEnergy(c, key, energy) == IF key = c.index THEN [c EXCEPT !.told.energy = <<energy>>] ELSE c

\* getBatteryStats, of one device: a supply that is off is passed over.
Stats(c, p) ==
  LET key == IF p.native \in Battery THEN Found(c.map, p.native) ELSE 0
      kept == IF p.native \in Battery THEN [c EXCEPT !.map = Inserted(@, key, p)] ELSE c
  IN  [TellEnergy(kept, key, p.energy) EXCEPT
         !.cState = ChargingStateOf(p.state),
         !.cType = IF p.online THEN "Wall" ELSE @]

\* uPowerBatteryPropertyChanged, for one property of interface's device.
PropertyChanged(c, device, prop, p) ==
  LET key == IF device \in Battery THEN Found(c.map, device) ELSE 0
      entry == [Value(c.map, key) EXCEPT ![prop] = p[prop]]
      kept == IF device \in Battery THEN [c EXCEPT !.map = Inserted(@, key, entry)] ELSE c
  IN  CASE prop = "energy" -> TellEnergy(kept, key, p.energy)
        [] prop = "state" -> [kept EXCEPT !.cState = ChargingStateOf(p.state)]
        [] prop = "online" -> [kept EXCEPT !.cType = IF p.online THEN "Wall" ELSE "Unknown"]

\* Mutant: the energy is not among the properties that are compared.
DifferencesButEnergy(c, device, old, new) ==
  LET Emit(before, prop) == IF new[prop] = old[prop] THEN before
                            ELSE PropertyChanged(before, device, prop, new)
  IN  Emit(Emit(c, "online"), "state")

\* The properties of an answer that differ from those the interface had, one by one.
Differences(c, device, old, new) ==
  LET Emit(before, prop) == IF new[prop] = old[prop] THEN before
                            ELSE PropertyChanged(before, device, prop, new)
  IN  Emit(Emit(Emit(c, "energy"), "online"), "state")
-----------------------------------------------------------------------------
(***************************************************************************)
(* The interfaces: a constructor reads the device and asks only then to be *)
(* told of its changes.  A device that is not there has no properties, and *)
(* no type.                                                                *)
(***************************************************************************)
ReadNow(d) == IF up /\ d \in present THEN properties[d] ELSE Nothing

Job == client.job
NextDevice == Head(Job.devices)
RestDevices(slot) ==
  IF Len(Job.devices) = 1 THEN Idle ELSE [slot |-> slot, devices |-> Tail(Job.devices)]

Construct(slot, next) ==
  /\ Job.slot = slot
  /\ interfaces' = Append(interfaces, [device |-> NextDevice, map |-> ReadNow(NextDevice),
                                       matched |-> FALSE])
  /\ client' = [client EXCEPT !.job.slot = next]
  /\ LET first == slot = "read" \/ KeysOf(client.map, NextDevice) = {}
     IN  missed' = IF first /\ ReadNow(NextDevice) # Nothing THEN missed \ {NextDevice} ELSE missed
  /\ UNCHANGED <<daemon, inbox, requests, changes>>

Match(slot) ==
  /\ Job.slot = slot
  /\ interfaces' = [interfaces EXCEPT ![Len(interfaces)].matched = TRUE]
  /\ UNCHANGED <<daemon, inbox, requests, missed, changes>>

Newest == interfaces[Len(interfaces)]

\* getBatteryStats
Enumerate ==
  /\ Job.slot = "enumerate"
  /\ \E devices \in Lists :
       /\ Range(devices) = IF up THEN present ELSE {}
       /\ client' = [client EXCEPT !.job = IF devices = <<>> THEN Idle
                                          ELSE [slot |-> "read", devices |-> devices]]
  /\ UNCHANGED <<daemon, inbox, requests, interfaces, missed, changes>>

ReadDevice == Construct("read", "match")

MatchDevice ==
  /\ Match("match")
  /\ LET known == IF Newest.map = Nothing THEN client ELSE Stats(client, Newest.map)
     IN  client' = [known EXCEPT !.job = RestDevices("read")]

\* deviceAdded: numbered after the count, whatever numbers there are; no signal.
ReadAdded == Construct("readAdded", "matchAdded")

MatchAdded ==
  /\ Match("matchAdded")
  /\ LET number == Cardinality(DOMAIN client.map) + 1
         added == [client EXCEPT !.map = Inserted(@, number, Newest.map),
                                 !.told.energy = IF number = client.index THEN Untold ELSE @,
                                 !.told.valid = Untold]
         known == IF Newest.map.native \in Battery THEN added ELSE client
     IN  client' = [known EXCEPT !.job = RestDevices("readAdded")]
-----------------------------------------------------------------------------
(***************************************************************************)
(* What the client is sent.                                                *)
(***************************************************************************)
Receive(kind) ==
  /\ Job = Idle /\ inbox # <<>>
  /\ Head(inbox).kind = kind
  /\ inbox' = Tail(inbox)

\* connectToUpower: the old objects stay connected.
ServiceRegistered ==
  /\ Receive("registered")
  /\ client' = [client EXCEPT !.map = <<>>, !.told.energy = Untold, !.told.valid = Untold,
                              !.watchers = @ + 1, !.job = [Idle EXCEPT !.slot = "enumerate"]]
  /\ UNCHANGED <<daemon, requests, interfaces, missed, changes>>

ServiceUnregistered ==
  /\ Receive("unregistered")
  /\ UNCHANGED <<daemon, requests, interfaces, client, missed, changes>>

\* Each of the UPower interfaces calls the slot.
DeviceAdded ==
  /\ Receive("added")
  /\ client' = [client EXCEPT !.job = [slot |-> "readAdded",
                  devices |-> [n \in 1 .. client.watchers |-> Head(inbox).device]]]
  /\ UNCHANGED <<daemon, requests, interfaces, missed, changes>>

\* deviceRemoved asks a device that has gone for its type; the object it
\* disconnects is the one it just made.
DeviceGone(c, p) ==
  LET gone == [c EXCEPT !.map = Removed(@, Found(@, p.native))]
      news == IF IsValid(c) # IsValid(gone) THEN <<IsValid(gone)>> ELSE c.told.valid
      unread == Found(c.map, p.native) = c.index
  IN  IF p.native \notin Battery THEN c
      ELSE [gone EXCEPT !.told.valid = news,
                        !.told.energy = IF unread THEN Untold ELSE @]

DeviceRemoved ==
  /\ Receive("removed")
  /\ LET p == ReadNow(Head(inbox).device)
         gone[n \in 0 .. client.watchers] == IF n = 0 THEN client ELSE DeviceGone(gone[n - 1], p)
     IN  client' = gone[client.watchers]
  /\ UNCHANGED <<daemon, requests, interfaces, missed, changes>>

\* propChanged, of each interface of the device that is connected.
Changed ==
  /\ Receive("changed")
  /\ LET asked[i \in 0 .. Len(interfaces)] ==
           IF i = 0 THEN requests
           ELSE IF interfaces[i].matched /\ interfaces[i].device = Head(inbox).device
           THEN Append(asked[i - 1], i) ELSE asked[i - 1]
     IN  requests' = asked[Len(interfaces)]
  /\ UNCHANGED <<daemon, interfaces, client, missed, changes>>

\* propRequestFinished; a call that failed changes nothing.
PropRequestFinished ==
  /\ Receive("answer")
  /\ LET i == Head(inbox).interface
         new == Head(inbox).map
     IN  /\ interfaces' = IF new = Nothing THEN interfaces
                          ELSE [interfaces EXCEPT ![i].map = new]
         /\ client' = IF new = Nothing THEN client
                      ELSE Differences(client, interfaces[i].device, interfaces[i].map, new)
         /\ missed' = IF new = Nothing THEN missed \cup {interfaces[i].device} ELSE missed
  /\ UNCHANGED <<daemon, requests, changes>>

SetBatteryIndex(i) ==
  /\ Job = Idle /\ i # client.index
  /\ LET moved == [client EXCEPT !.index = i]
         differs == ~IsValid(client) \/ RemainingCapacity(moved) # RemainingCapacity(client)
     IN  client' = [moved EXCEPT
           !.told.valid = IF IsValid(moved) # IsValid(client) THEN <<IsValid(moved)>> ELSE @,
           !.told.energy = IF IsValid(moved) /\ differs THEN <<RemainingCapacity(moved)>>
                           ELSE IF IsValid(moved) THEN @ ELSE Untold]
  /\ UNCHANGED <<daemon, inbox, requests, interfaces, missed, changes>>
-----------------------------------------------------------------------------
(***************************************************************************)
(* UPower.                                                                 *)
(***************************************************************************)
Message(kind, d) == [kind |-> kind, device |-> d, interface |-> 0, map |-> Nothing]
Change == changes < MaxChanges /\ changes' = changes + 1
          /\ client.watchers + Len(interfaces) < MaxInterfaces
Unsettled == UNCHANGED <<requests, interfaces, client>>

\* UPower stops; the bus answers the calls it did not.
Stop ==
  /\ up /\ up' = FALSE /\ Change
  /\ inbox' = Append(inbox, Message("unregistered", "none"))
                \o [n \in DOMAIN requests |->
                      [Message("answer", "none") EXCEPT !.interface = requests[n]]]
  /\ requests' = <<>>
  /\ UNCHANGED <<present, properties, interfaces, client, missed>>

Start ==
  /\ ~up /\ up' = TRUE /\ Change
  /\ inbox' = Append(inbox, Message("registered", "none"))
  /\ \E devices \in SUBSET Device : present' = devices
  /\ UNCHANGED <<properties, missed>> /\ Unsettled

\* A signal reaches the client once something there is connected to it.
Announce(kind, d, heard) ==
  inbox' = IF heard THEN Append(inbox, Message(kind, d)) ELSE inbox

Plug(d) ==
  /\ up /\ d \notin present /\ present' = present \cup {d} /\ Change
  /\ Announce("added", d, client.watchers > 0)
  /\ UNCHANGED <<up, properties, missed>> /\ Unsettled

Unplug(d) ==
  /\ up /\ d \in present /\ present' = present \ {d} /\ Change
  /\ Announce("removed", d, client.watchers > 0)
  /\ UNCHANGED <<up, properties, missed>> /\ Unsettled

Update(d, p) ==
  LET heard == \E i \in DOMAIN interfaces : interfaces[i].device = d /\ interfaces[i].matched
  IN  /\ up /\ d \in present /\ p # properties[d] /\ Change
      /\ properties' = [properties EXCEPT ![d] = p]
      /\ Announce("changed", d, heard)
      /\ missed' = IF heard THEN missed \ {d} ELSE missed \cup {d}
      /\ UNCHANGED <<up, present>> /\ Unsettled

Consume(d) ==
  \/ d \in Battery /\ \E e \in Energy, s \in State :
                        Update(d, [properties[d] EXCEPT !.energy = e, !.state = s])
  \/ d \notin Battery /\ Update(d, [properties[d] EXCEPT !.online = ~@])

Answer ==
  /\ up /\ requests # <<>>
  /\ requests' = Tail(requests)
  /\ LET i == Head(requests)
     IN  inbox' = Append(inbox, [Message("answer", "none") EXCEPT
                                   !.interface = i, !.map = ReadNow(interfaces[i].device)])
  /\ UNCHANGED <<daemon, interfaces, client, missed, changes>>
-----------------------------------------------------------------------------
Client ==
  \/ Enumerate \/ ReadDevice \/ MatchDevice \/ ReadAdded \/ MatchAdded
  \/ ServiceRegistered \/ ServiceUnregistered \/ DeviceAdded \/ DeviceRemoved
  \/ Changed \/ PropRequestFinished
UPower == Stop \/ Start \/ Answer \/ \E d \in Device : Plug(d) \/ Unplug(d) \/ Consume(d)

Next == Client \/ UPower \/ \E i \in Index : SetBatteryIndex(i)
Spec == Init /\ [][Next]_vars

Settled == up /\ Job = Idle /\ inbox = <<>> /\ requests = <<>>

\* With one battery, whatever restarts, removals and changes there were: once all
\* messages are dispatched the battery that is there is in the map.
BatteryKnown ==
  Cardinality(Battery) = 1 /\ Settled =>
    \A b \in Battery \cap present : KeysOf(client.map, b) # {}

\* And what the map says of it, unless it was added twice, is what UPower says, but
\* for a change that came between the read of the device and the request to be told
\* of its changes, or was not answered before the device went.
BatteryCurrent ==
  Cardinality(Battery) = 1 /\ Settled =>
    \A b \in Battery \cap present :
      b \notin missed /\ Cardinality(KeysOf(client.map, b)) = 1 =>
        client.map[Found(client.map, b)] = properties[b]

\* The value a slot was told last of the battery at the index is the one kept of
\* it, or the 0 of a device that is no battery.
ReadsMatchReports ==
  client.told.energy \in {Untold, <<0>>, <<Value(client.map, client.index).energy>>}

\* The batteries of the map are those of the machine.
\* (The code does not keep it; no run checks it.)
CountFollows == Settled => Cardinality(DOMAIN client.map) = Cardinality(present \cap Battery)
===============================================================================
