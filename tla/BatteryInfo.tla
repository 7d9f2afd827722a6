------------------------------- MODULE BatteryInfo -------------------------------
(***************************************************************************)
(* QBatteryInfo on Linux, by sysfs: what it reads of the batteries and the *)
(* charger, what it keeps while signals are connected, and the udev events *)
(* or, in a build without udev, the timer it is kept up to date by.        *)
(***************************************************************************)
EXTENDS Integers, Sequences, FiniteSets, UDevWrapper

CONSTANTS
  Battery,           \* the numbers of batteries, from 0
  Condition,         \* of a battery: its state, and a raw number of its driver
  Supply,            \* of power: the type of the USB charger, and whether AC is on
  Kind,              \* the properties of a battery that are watched
  Index,             \* what setBatteryIndex is given
  UdevBuild,         \* builds, with or without udev
  MaxChanges         \* bound: of the changes outside

VARIABLES
  udevBuild,
  batteries, condition, supply,   \* the world
  events,            \* udev events on their way: of a battery, or of a charger
  signals,           \* the signals that are connected
  battery,           \* the QBatteryInfoPrivate, a record of
                     \*   watch        the watch... flags that are set
                     \*   force        forceWatchBatteryCount
                     \*   count, index, charger, cache, maximum
                     \*   dataWires, chargerWires  connections to the wrapper
                     \*   timer
  udev,              \* its QUDevWrapper
  told,              \* the last values slots were told (history)
  changes

world == <<batteries, condition, supply>>
vars == <<udevBuild, world, events, signals, battery, udev, told, changes>>

Whole == {"batteryCount", "chargerType", "valid"}
\* Signals that nothing is watched for, such as levelChanged.
Signals == Kind \cup Whole \cup {"level"}
Untold == <<>>
DefaultOf(kind) == IF kind \in {"chargingState", "levelStatus"} THEN "Unknown" ELSE 0
NoReadings == [kind \in Kind |-> [b \in Battery |-> DefaultOf(kind)]]

Charge == {"Charging", "Discharging", "Full", "Not charging", "Unknown", "Idle"}
Charger == {"Unknown", "Wall", "USB", "VariableCurrent"}
Value == Charge \cup Int
Info ==
  [watch : SUBSET (Kind \cup {"batteryCount", "chargerType", "valid"}), force : BOOLEAN,
   count : Int, index : Index, charger : Charger, cache : [Kind -> [Battery -> Value]],
   maximum : [Battery -> Int], dataWires : Nat, chargerWires : {0, 1}, timer : BOOLEAN]

TypeOK ==
  /\ udevBuild \in UdevBuild
  /\ batteries \subseteq Battery /\ condition \in [Battery -> Condition] /\ supply \in Supply
  /\ events \in Seq([charger : {"none", "AC", "USB"}, battery : Battery \cup {-1}])
  /\ signals \subseteq Signals
  /\ battery \in Info /\ battery.count \in -1 .. Cardinality(Battery)
  /\ udev \in Wrapper
  /\ told = [signal \in Signals |-> told[signal]]
  /\ changes \in 0 .. MaxChanges

Init ==
  /\ udevBuild \in UdevBuild
  /\ batteries \in SUBSET Battery /\ condition \in [Battery -> Condition] /\ supply \in Supply
  /\ events = <<>> /\ signals = {}
  /\ \E i \in Index :
       battery = [watch |-> {}, force |-> FALSE, count |-> -1, index |-> i,
                  charger |-> "Unknown", cache |-> NoReadings,
                  maximum |-> [b \in Battery |-> 0],
                  dataWires |-> 0, chargerWires |-> 0, timer |-> FALSE]
  /\ udev = NoUDevWrapper
  /\ told = [signal \in Signals |-> Untold]
  /\ changes = 0
-----------------------------------------------------------------------------
(***************************************************************************)
(* Reading, with d for the QBatteryInfoPrivate.                            *)
(***************************************************************************)
GetBatteryCount == Cardinality(batteries)
BatteryCount(d) == IF "batteryCount" \in d.watch THEN d.count ELSE GetBatteryCount
IsValid(d) == d.index >= 0 /\ d.index < BatteryCount(d)

GetChargingState(b) ==
  IF b \notin batteries THEN "Unknown"
  ELSE IF condition[b].state \in {"Full", "Not charging"} THEN "Idle" ELSE condition[b].state

ChargingState(d, b) ==
  IF "chargingState" \in d.watch THEN d.cache["chargingState"][b] ELSE GetChargingState(b)

\* Discharging is a positive current whatever sign the driver gives it.
GetCurrentFlow(d, b) ==
  LET state == ChargingState(d, b)
      size == IF condition[b].raw < 0 THEN -condition[b].raw ELSE condition[b].raw
  IN  CASE b \notin batteries -> 0
        [] b \in batteries /\ state = "Charging" -> -size
        [] b \in batteries /\ state = "Discharging" -> size
        [] OTHER -> 0

GetRemainingChargingTime(d, b) ==
  CASE ChargingState(d, b) = "Unknown" -> -1
    [] ChargingState(d, b) \in {"Idle", "Discharging"} -> 0
    [] OTHER -> IF b \in batteries THEN condition[b].raw ELSE -1

Get(d, kind, b) ==
  CASE kind = "chargingState" -> GetChargingState(b)
    [] kind = "currentFlow" -> GetCurrentFlow(d, b)
    [] kind = "remainingChargingTime" -> GetRemainingChargingTime(d, b)
    [] kind = "levelStatus" -> IF b \in batteries THEN condition[b].state ELSE "Unknown"
    [] kind \in {"remainingCapacity", "voltage"} -> IF b \in batteries THEN condition[b].raw ELSE -1

\* A number no battery has is read of no file, and of no map.
Read(d, kind, b) ==
  IF kind \in d.watch
    THEN IF b \in Battery THEN d.cache[kind][b] ELSE DefaultOf(kind)
    ELSE IF b \in Battery THEN Get(d, kind, b)
    ELSE IF kind \in {"chargingState", "levelStatus"} THEN "Unknown"
    ELSE IF kind = "currentFlow" THEN 0 ELSE -1

GetChargerType ==
  CASE supply.ac \/ supply.usb = "USB_DCP" -> "Wall"
    [] ~supply.ac /\ supply.usb \in {"USB", "USB_CDP"} -> "USB"
    [] OTHER -> "Unknown"

\* What reads return of what is connected.
Reads(d, signal) ==
  CASE signal = "valid" -> <<IsValid(d)>>
    [] signal = "batteryCount" -> <<BatteryCount(d)>>
    [] signal = "chargerType" -> <<IF signal \in d.watch THEN d.charger ELSE GetChargerType>>
    [] signal \in Kind -> <<Read(d, signal, d.index)>>
    [] OTHER -> Untold

\* maximumCapacity is read once; 100 of it is a full battery.
Full == 4
Maximum(d, b) ==
  IF b \notin Battery THEN -1 ELSE IF d.maximum[b] # 0 THEN d.maximum[b]
  ELSE IF b \in batteries THEN Full ELSE -1
Weighed(d, bs) ==
  [d EXCEPT !.maximum = [b \in Battery |-> IF b \in bs THEN Maximum(d, b) ELSE d.maximum[b]]]
Remaining(d, b) ==
  IF "remainingCapacity" \in Kind THEN Read(d, "remainingCapacity", b)
  ELSE IF b \in batteries THEN condition[b].raw ELSE -1
Level(d, b) == (Remaining(d, b) * 100) \div Maximum(d, b)

\* Slots are told of what is connected.
Tell(news) ==
  told' = [signal \in Signals |->
             IF signal \in signals /\ news[signal] # Untold THEN news[signal] ELSE told[signal]]
-----------------------------------------------------------------------------
(***************************************************************************)
(* setBatteryIndex.                                                        *)
(***************************************************************************)
SetBatteryIndex(i) ==
  /\ i # battery.index
  /\ LET old == battery
         valid == IsValid(old)
         moved == [old EXCEPT !.index = i]
         now == IsValid(moved)
         News(signal) ==
           CASE signal = "valid" -> IF valid # now THEN <<now>> ELSE Untold
             [] signal \in Kind ->
                  IF now /\ (~valid \/ Reads(moved, signal) # Reads(old, signal))
                    THEN Reads(moved, signal) ELSE Untold
             [] signal = "level" ->
                  IF now /\ (~valid \/ Level(moved, i) # Level(moved, old.index))
                    THEN <<Level(moved, i)>> ELSE Untold
             [] OTHER -> Untold
     IN  /\ battery' = IF now THEN Weighed(moved, IF valid THEN {i, old.index} ELSE {i}) ELSE moved
         /\ IF now THEN Tell([signal \in Signals |-> News(signal)])
            ELSE told' = [signal \in Signals |->  \* nothing of the old battery counts
                            IF signal \in Kind THEN Untold
                            ELSE IF signal \in signals /\ News(signal) # Untold THEN News(signal)
                            ELSE told[signal]]
  /\ UNCHANGED <<udevBuild, world, events, signals, udev, changes>>
-----------------------------------------------------------------------------
(***************************************************************************)
(* connectNotify and disconnectNotify.                                     *)
(***************************************************************************)
\* The flags that keep batteryDataChanged connected.
DataWatch(d) == d.watch \ {"chargerType", "valid"}

\* A signal nothing is watched for is wired like the others, without a flag.
Wired(d, w, signal) ==
  CASE signal = "chargerType" ->
         [info |-> [d EXCEPT !.chargerWires = 1],
          udev |-> ConnectNotify(MadeWrapper(w), "chargerTypeChanged")]
    [] signal # "chargerType" /\ d.watch \ {"chargerType"} = {} ->
         [info |-> [d EXCEPT !.dataWires = @ + 1],
          udev |-> ConnectNotify(MadeWrapper(w), "batteryDataChanged")]
    [] OTHER -> [info |-> d, udev |-> MadeWrapper(w)]

Snapshot(d, kind) ==
  LET flagged == [d EXCEPT !.watch = @ \cup {kind}]
  IN  [flagged EXCEPT !.cache[kind] =
         [b \in Battery |-> IF b < BatteryCount(d) THEN Get(flagged, kind, b) ELSE d.cache[kind][b]]]

Watching(d, signal) ==
  CASE signal = "valid" ->
         [d EXCEPT !.watch = @ \cup {"valid", "batteryCount"}, !.count = GetBatteryCount,
                   !.force = @ \/ d.watch \cap {"valid", "batteryCount"} = {}]
    [] signal = "batteryCount" ->
         [d EXCEPT !.watch = @ \cup {"batteryCount"}, !.count = GetBatteryCount, !.force = FALSE]
    [] signal = "chargerType" ->
         [d EXCEPT !.watch = @ \cup {"chargerType"}, !.charger = GetChargerType]
    [] signal \in Kind -> Snapshot(d, signal)
    [] OTHER -> d

Connect(signal) ==
  /\ signal \notin signals
  /\ battery.dataWires < 2  \* bound: connections without a flag add up
  /\ signals' = signals \cup {signal}
  /\ LET wired == Wired(battery, udev, signal)
     IN  IF udevBuild
           THEN battery' = Watching(wired.info, signal) /\ udev' = wired.udev
           ELSE battery' = [Watching(battery, signal) EXCEPT !.timer = TRUE] /\ UNCHANGED udev
  /\ told' = [told EXCEPT ![signal] = Untold]
  /\ UNCHANGED <<udevBuild, world, events, changes>>

Unwatched(d, signal) ==
  LET uncounted == [d EXCEPT !.watch = @ \ {"batteryCount"}, !.count = -1]
  IN  CASE signal = "valid" ->
             LET left == IF d.force THEN uncounted ELSE d
             IN  [left EXCEPT !.watch = @ \ {"valid"}]
        [] signal = "batteryCount" ->
             IF "valid" \in d.watch THEN [d EXCEPT !.force = TRUE] ELSE uncounted
        [] signal = "chargerType" ->
             [d EXCEPT !.watch = @ \ {signal}, !.charger = "Unknown"]
        [] signal \in Kind ->
             [d EXCEPT !.watch = @ \ {signal}, !.cache[signal] = NoReadings[signal]]
        [] OTHER -> d

\* disconnect of wires that are not there notifies nobody.
Unwired(d, w, signal) ==
  LET idle == DataWatch(d) = {}
  IN  CASE w.made /\ signal = "chargerType" ->
             [info |-> [d EXCEPT !.chargerWires = 0],
              udev |-> IF d.chargerWires = 0 THEN w ELSE DisconnectNotify(w, "chargerTypeChanged")]
        [] w.made /\ signal # "chargerType" /\ idle ->
             [info |-> [d EXCEPT !.dataWires = 0],
              udev |-> IF d.dataWires = 0 THEN w ELSE DisconnectNotify(w, "batteryDataChanged")]
        [] OTHER -> [info |-> d, udev |-> w]

\* With nothing watched the wrapper is deleted, or the timer stopped.
Disconnect(signal) ==
  /\ signal \in signals
  /\ signals' = signals \ {signal}
  /\ LET less == Unwatched(battery, signal)
         unwired == Unwired(less, udev, signal)
         idle == less.watch \ {"valid"} = {}
     IN  /\ battery' =
              CASE ~udevBuild -> [less EXCEPT !.timer = @ /\ ~idle]
                [] udevBuild /\ idle -> [unwired.info EXCEPT !.dataWires = 0, !.chargerWires = 0]
                [] OTHER -> unwired.info
         /\ udev' = IF ~udevBuild THEN udev
                    ELSE IF idle THEN [NoUDevWrapper EXCEPT !.fault = unwired.udev.fault]
                    ELSE unwired.udev
  /\ told' = [told EXCEPT ![signal] = Untold]
  /\ UNCHANGED <<udevBuild, world, events, changes>>
-----------------------------------------------------------------------------
(***************************************************************************)
(* What udev and the timer bring.                                          *)
(***************************************************************************)
\* What an event makes of the raw current and time; the state it corrects the
\* sign by is the one kept, if any is.
EventReading(d, kind, b) ==
  CASE kind = "currentFlow" ->
         IF "chargingState" \in Kind /\ "chargingState" \in d.watch
            /\ GetChargingState(b) = "Discharging" /\ condition[b].raw > 0
           THEN condition[b].raw ELSE -condition[b].raw
    [] kind = "remainingChargingTime" -> condition[b].raw
    [] OTHER -> Get(d, kind, b)

Recounted(d) ==
  IF "batteryCount" \in d.watch THEN [d EXCEPT !.count = GetBatteryCount] ELSE d

\* onBatteryDataChanged, for each attribute of battery b, or onTimeout for all.
Taking(bs, reading) ==
  LET counted == Recounted(battery)
      taken == [counted EXCEPT !.cache =
                  [kind \in Kind |-> [b \in Battery |->
                     IF kind \in counted.watch /\ b \in bs THEN reading[<<kind, b>>]
                     ELSE counted.cache[kind][b]]]]
      News(signal) ==
        CASE signal = "valid" ->
               IF IsValid(counted) # IsValid(battery) THEN <<IsValid(counted)>> ELSE Untold
          [] signal = "batteryCount" ->
               IF counted.count # battery.count THEN <<counted.count>> ELSE Untold
          [] signal \in Kind ->
               IF signal \in counted.watch /\ Reads(taken, signal) # Reads(counted, signal)
                 THEN Reads(taken, signal) ELSE Untold
          [] OTHER -> Untold
  IN  [info |-> taken, news |-> [signal \in Signals |-> News(signal)]]

\* onChargerTypeChanged; a supply that goes off says unknown, whatever is left.
ChargerOf(charger) ==
  CASE charger = "AC" -> IF supply.ac THEN "Wall" ELSE "Unknown"
    [] supply.usb = "USB_DCP" -> "Wall"
    [] supply.usb = "USB_CDP" -> "VariableCurrent"
    [] supply.usb = "USB" -> "USB"
    [] OTHER -> "Unknown"

Charged(d, charger) == IF "chargerType" \in d.watch THEN [d EXCEPT !.charger = charger] ELSE d
ChargerNews(taken, d) ==
  [taken.news EXCEPT !["chargerType"] = IF d.charger # battery.charger THEN <<d.charger>> ELSE Untold]
NoNews == [signal \in Signals |-> Untold]

\* The attributes are read when the event is handled; those of a battery that has
\* gone are empty, and no signal comes of them.
OnUDevChanges ==
  /\ events # <<>> /\ udev.monitor
  /\ events' = Tail(events)
  /\ LET event == Head(events)
         quiet == [info |-> battery, news |-> NoNews]
         taken == IF event.charger = "none" /\ event.battery \in batteries /\ battery.dataWires > 0
                    THEN Taking({event.battery},
                                [p \in Kind \X {event.battery} |-> EventReading(battery, p[1], p[2])])
                    ELSE quiet
         d == IF event.charger = "none" \/ battery.chargerWires = 0 THEN taken.info
              ELSE Charged(taken.info, ChargerOf(event.charger))
     IN  battery' = d /\ Tell(ChargerNews(taken, d))
  /\ UNCHANGED <<udevBuild, world, signals, udev, changes>>

LoseEvent ==
  /\ events # <<>> /\ ~udev.monitor
  /\ events' = Tail(events)
  /\ UNCHANGED <<udevBuild, world, signals, battery, udev, told, changes>>

\* The charger is looked at once for each battery.
OnTimeout ==
  /\ battery.timer
  /\ LET there == {b \in Battery : b < GetBatteryCount}
         taken == Taking(there, [p \in Kind \X there |-> Get(battery, p[1], p[2])])
         d == IF GetBatteryCount = 0 THEN taken.info ELSE Charged(taken.info, GetChargerType)
     IN  battery' = d /\ Tell(ChargerNews(taken, d))
  /\ UNCHANGED <<udevBuild, world, events, signals, udev, changes>>
-----------------------------------------------------------------------------
(***************************************************************************)
(* The world, and reading the level.                                       *)
(***************************************************************************)
OfBattery(b) == [charger |-> "none", battery |-> b]
OfCharger(c) == [charger |-> c, battery |-> -1]
Changing(event) ==
  /\ changes < MaxChanges /\ changes' = changes + 1
  /\ events' = IF udevBuild THEN Append(events, event) ELSE events
  /\ UNCHANGED <<udevBuild, signals, battery, udev, told>>

Insert(b) == b \notin batteries /\ batteries' = batteries \cup {b}
             /\ UNCHANGED <<condition, supply>> /\ Changing(OfBattery(b))
Remove(b) == b \in batteries /\ batteries' = batteries \ {b}
             /\ UNCHANGED <<condition, supply>> /\ Changing(OfBattery(b))
Drain(b, c) == b \in batteries /\ condition[b] # c /\ condition' = [condition EXCEPT ![b] = c]
               /\ UNCHANGED <<batteries, supply>> /\ Changing(OfBattery(b))
SetSupply(s) == s # supply /\ supply' = s
                /\ UNCHANGED <<batteries, condition>>
                /\ Changing(OfCharger(IF s.ac # supply.ac THEN "AC" ELSE "USB"))

ReadLevel ==
  /\ battery' = Weighed(battery, {battery.index})
  /\ UNCHANGED <<udevBuild, world, events, signals, udev, told, changes>>

World ==
  \/ \E b \in Battery : Insert(b) \/ Remove(b) \/ \E c \in Condition : Drain(b, c)
  \/ \E s \in Supply : SetSupply(s)

Next ==
  /\ ~udev.fault
  /\ \/ World
     \/ \E signal \in Signals : Connect(signal) \/ Disconnect(signal)
     \/ \E i \in Index : SetBatteryIndex(i)
     \/ ReadLevel
     \/ OnUDevChanges \/ LoseEvent \/ OnTimeout
Spec == Init /\ [][Next]_vars
-----------------------------------------------------------------------------
\* Whatever is connected in which order: what is connected is watched, a watched
\* validity with the count it comes of, and nothing is watched that is not
\* connected; what is watched is wired to a udev wrapper that is there, or polled.
WatchesServed ==
  /\ signals \ {"level"} \subseteq battery.watch
  /\ battery.watch \subseteq signals \cup (IF "valid" \in signals THEN {"batteryCount"} ELSE {})
  /\ "valid" \in battery.watch => "batteryCount" \in battery.watch
  /\ udevBuild =>
       /\ battery.watch # {} => udev.made
       /\ DataWatch(battery) # {} => battery.dataWires > 0
       /\ "chargerType" \in battery.watch => battery.chargerWires > 0
  /\ ~udevBuild => (battery.watch # {} => battery.timer)

\* The value of a battery that a slot was told last is the one a read returns, as
\* long as the index is that of a battery; the same for the charger.
ReadsMatchReports ==
  \A signal \in signals \cap (Kind \cup {"chargerType"}) :
    told[signal] # Untold /\ (signal \in Kind => IsValid(battery)) =>
      told[signal] = Reads(battery, signal)

\* The batteries and chargers a slot hears of are monitored.
\* (The code does not keep it; no run checks it.)
PowerSupplyMonitored ==
  udevBuild /\ signals \cap (Kind \cup Whole) # {} => udev.monitor /\ ~udev.fault
===============================================================================
