------------------------------- MODULE NetworkInfo -------------------------------
(***************************************************************************)
(* QNetworkInfo on Linux: what it reads of the network interfaces, what it *)
(* keeps of that while signals are connected, the udev events and the two  *)
(* second timer it keeps it up to date by, and the modems of oFono.        *)
(*                                                                         *)
(* The interfaces of a mode are numbered by their names, here from 1: the  *)
(* number of one changes when another comes or goes.  Carrier, signal and  *)
(* name of an interface are one condition of it.                           *)
(***************************************************************************)
EXTENDS OfonoWrapper, Integers, FiniteSets, FiniteSetsExt

CONSTANTS
  Device,            \* interfaces, numbers in the order of their names
  ModeOf,            \* the mode of each
  Condition,         \* "down" is without a carrier
  Signal,            \* the signals an application connects
  Ofono,             \* builds: "without" oFono, or with it, "absent" or "present"
  Udev,              \* and with or without udev
  MaxChanges         \* bound: of the changes outside

VARIABLES
  build,             \* of the program, and whether oFono was found
  present, condition,  \* the interfaces there are, and the state of each
  uevents,           \* udev events on their way
  connected,         \* the signals of QNetworkInfo that are connected
  info,              \* the QNetworkInfoPrivate, a record of
                     \*   watch         the watch... flags that are set
                     \*   counts        networkInterfaceCounts
                     \*   cache         the maps of strengths, statuses, names
                     \*   currentMode
                     \*   timer, monitor  whether there are, and run
  told,              \* the last values slots were told (history)
  fault,             \* the program did what is undefined
  changes            \* how often the world changed (bounds the model)

outside == <<present, condition>>
vars == <<ofonoVars, build, outside, uevents, connected, info, told, fault, changes>>

Local == {"WlanMode", "EthernetMode", "BluetoothMode"}
ModeChanged == "currentNetworkModeChanged"
CountChanged == "networkInterfaceCountChanged"
StrengthChanged == "networkSignalStrengthChanged"
StatusChanged == "networkStatusChanged"
NameChanged == "networkNameChanged"
Polled == {StrengthChanged, StatusChanged, NameChanged}

\* What the maps may have: for the modes of devices, and one number beyond these.
Key == (Polled \cap (Signal \cup {StatusChanged})) \X {ModeOf[x] : x \in Device}
         \X (1 .. Cardinality(Device) + 1)
CurrentModeKey == <<ModeChanged, "", 0>>
Reading == Condition \cup {"HomeNetwork", "NoNetworkAvailable", "100", "-1", Unread}

Preference == <<"EthernetMode", "WlanMode", "BluetoothMode", "WimaxMode", "LteMode",
                "WcdmaMode", "CdmaMode", "GsmMode", "TdscdmaMode">>
Modes == {Preference[n] : n \in 1 .. 9} \cup {"UnknownMode"}
Info ==
  [watch : SUBSET {StrengthChanged, StatusChanged, NameChanged, ModeChanged, CountChanged},
   counts : [Local -> Int], cache : [Key -> Reading],
   currentMode : Modes,
   timer : {"none", "stopped", "active"}, monitor : {"none", "off", "on"}]

TypeOK ==
  /\ OfonoTypeOK
  /\ build \in [ofono : Ofono, udev : Udev]
  /\ present \subseteq Device /\ condition \in [Device -> Condition]
  /\ uevents \in Seq([action : {"add", "remove"}, device : Device])
  /\ connected \subseteq Signal
  /\ info \in Info
  /\ told = [key \in Key \cup {CurrentModeKey} |-> told[key]]
  /\ fault \in BOOLEAN /\ changes \in 0 .. MaxChanges

Init ==
  /\ OfonoInit
  /\ build \in [ofono : Ofono, udev : Udev]
  /\ present \in SUBSET Device /\ condition \in [Device -> Condition]
  /\ uevents = <<>> /\ connected = {}
  /\ info = [watch |-> {}, counts |-> [mode \in Local |-> 0],
             cache |-> [key \in Key |-> Unread], currentMode |-> "UnknownMode",
             timer |-> "none", monitor |-> "none"]
  /\ told = [key \in Key \cup {CurrentModeKey} |-> Unread]
  /\ fault = FALSE /\ changes = 0
-----------------------------------------------------------------------------
(***************************************************************************)
(* What is read, with d for the QNetworkInfoPrivate.                       *)
(***************************************************************************)
There(mode) == {x \in present : ModeOf[x] = mode}
InterfaceName(mode, i) ==
  CHOOSE x \in There(mode) : Cardinality({y \in There(mode) : y <= x}) = i
Exists(mode, i) == i <= Cardinality(There(mode))
ConditionOf(mode, i) == condition[InterfaceName(mode, i)]

NetworkInterfaceCount(d, mode) ==
  IF CountChanged \in d.watch THEN d.counts[mode] ELSE Cardinality(There(mode))

GetNetworkStatus(mode, i) ==
  IF Exists(mode, i)
    THEN IF ConditionOf(mode, i) = "down" THEN "NoNetworkAvailable" ELSE "HomeNetwork"
    ELSE IF mode = "BluetoothMode" THEN Unread ELSE "NoNetworkAvailable"

NetworkStatus(d, mode, i) ==
  IF StatusChanged \notin d.watch THEN GetNetworkStatus(mode, i)
  ELSE IF <<StatusChanged, mode, i>> \in Key THEN d.cache[<<StatusChanged, mode, i>>] ELSE Unread

GetSignalStrength(d, mode, i) ==
  IF mode = "EthernetMode"
    THEN IF NetworkStatus(d, mode, i) = "HomeNetwork" THEN "100" ELSE "-1"
    ELSE IF Exists(mode, i) THEN ConditionOf(mode, i) ELSE "-1"

GetNetworkName(mode, i) ==
  CASE mode = "EthernetMode" -> "100"  \* the domain, of all of them
    [] OTHER -> IF Exists(mode, i) THEN ConditionOf(mode, i) ELSE Unread

Get(d, key) ==
  LET mode == key[2]
      i == key[3]
  IN  CASE key[1] = StrengthChanged -> GetSignalStrength(d, mode, i)
        [] key[1] = StatusChanged -> GetNetworkStatus(mode, i)
        [] key[1] = NameChanged -> GetNetworkName(mode, i)

\* at() of the list of the interfaces there are, for a number below the count kept.
BeyondList(d, key) ==
  /\ \/ key[1] = StatusChanged /\ key[2] # "BluetoothMode"
     \/ key[1] = NameChanged /\ key[2] = "WlanMode"
     \/ key[1] = StrengthChanged /\ key[2] = "EthernetMode" /\ StatusChanged \notin d.watch
  /\ ~Exists(key[2], key[3])

ModemStatus(property) ==
  CASE property = "registered" -> "HomeNetwork" [] property = "roaming" -> "Roaming"
    [] OTHER -> Unread

\* getCurrentNetworkMode; each mode of a modem has the status of the first modem.
CurrentNetworkMode(d, modem) ==
  LET Status(mode) ==
        IF mode \in Local THEN NetworkStatus(d, mode, 1)
        ELSE IF mode = "WimaxMode" \/ build.ofono # "present" THEN Unread
        ELSE ModemStatus(modem)
      Home == {n \in 1 .. 9 : Status(Preference[n]) = "HomeNetwork"}
      Roaming == {n \in 4 .. 9 : Status(Preference[n]) = "Roaming"}
  IN  CASE Home # {} -> Preference[Min(Home)]
        [] Home = {} /\ Roaming # {} -> Preference[Min(Roaming)]
        [] OTHER -> "UnknownMode"

\* The numbers the code goes through, and what it then reads of a kind.
Counted(d, key) == key[3] <= NetworkInterfaceCount(d, key[2])
Snapshot(d, kind) ==
  [d EXCEPT !.cache = [key \in Key |-> IF key[1] # kind THEN d.cache[key]
                                       ELSE IF Counted(d, key) THEN Get(d, key) ELSE Unread],
            !.watch = @ \cup {kind}]
-----------------------------------------------------------------------------
(***************************************************************************)
(* connectNotify and disconnectNotify.                                     *)
(***************************************************************************)
OfonoConnect(signal) ==
  IF build.ofono # "present" THEN UNCHANGED ofonoVars
  ELSE IF signal = CountChanged THEN ConnectCount ELSE ConnectProperty

OfonoDisconnect(signal) ==
  IF build.ofono # "present" THEN UNCHANGED ofonoVars
  ELSE IF signal = CountChanged THEN DisconnectCount ELSE DisconnectProperty

\* The interfaces are counted whatever is connected; a notifier turned off keeps
\* the events of the meantime.
WithCounts(d) ==
  IF CountChanged \in d.watch THEN d
  ELSE [d EXCEPT !.counts = [mode \in Local |-> Cardinality(There(mode))],
                 !.monitor = IF build.udev THEN "on" ELSE @,
                 !.watch = @ \cup {CountChanged}]

\* What the slots of a signal were told before is of no account any more.
Forget(signal) == told' = [key \in DOMAIN told |-> IF key[1] = signal THEN Unread ELSE told[key]]

Connect(signal) ==
  /\ signal \notin connected
  /\ connected' = connected \cup {signal}
  /\ OfonoConnect(signal)
  /\ LET counted == WithCounts(info)
         kind == IF signal = ModeChanged THEN StatusChanged ELSE signal
         skip == kind \notin Polled \/ (signal = ModeChanged /\ StatusChanged \in counted.watch)
         taken == IF skip THEN counted ELSE Snapshot(counted, kind)
         timed == IF signal \in Polled \cup {ModeChanged} THEN [taken EXCEPT !.timer = "active"]
                  ELSE taken
     IN  /\ info' = IF signal # ModeChanged THEN timed
                    ELSE [timed EXCEPT !.watch = @ \cup {ModeChanged},
                                       !.currentMode = CurrentNetworkMode(timed, ModemProperty(1)')]
         /\ fault' = (~skip /\ \E key \in Key :
                       key[1] = kind /\ Counted(counted, key) /\ BeyondList(counted, key))
  /\ Forget(signal)
  /\ UNCHANGED <<build, outside, uevents, changes>>

\* Mutant: the status is let go of although the mode is made of it.
UnwatchedAlone(signal) ==
  LET without == [info EXCEPT !.watch = @ \ {signal}]
  IN  IF build.ofono = "absent" THEN info
      ELSE CASE signal = CountChanged /\ info.watch \cap Polled = {} ->
                  IF info.monitor = "none" THEN without ELSE [without EXCEPT !.monitor = "off"]
             [] signal \in Polled \cup {ModeChanged} -> without
             [] OTHER -> info

\* With oFono built in but absent this returns at once.
Unwatched(signal) ==
  LET d == info
      without == [d EXCEPT !.watch = @ \ {signal}]
  IN  IF build.ofono = "absent" THEN d
      ELSE CASE signal = CountChanged /\ d.watch \cap Polled = {} ->
                  IF d.monitor = "none" THEN without ELSE [without EXCEPT !.monitor = "off"]
             [] signal = StatusChanged /\ ModeChanged \notin d.watch -> without
             [] signal \in {StrengthChanged, NameChanged, ModeChanged} -> without
             [] OTHER -> d

\* The timer is stopped when nothing is watched, whether it was ever made or not;
\* with udev interfaces stay counted, and it runs on.
Disconnect(signal) ==
  /\ signal \in connected
  /\ connected' = connected \ {signal}
  /\ OfonoDisconnect(signal)
  /\ LET idle == ~build.udev /\ Unwatched(signal).watch = {} /\ info.watch # {}
     IN  /\ info' = [Unwatched(signal) EXCEPT !.timer = IF idle /\ @ = "active" THEN "stopped" ELSE @]
         /\ fault' = (idle /\ info.timer = "none")
  /\ Forget(signal)
  /\ UNCHANGED <<build, outside, uevents, changes>>
-----------------------------------------------------------------------------
(***************************************************************************)
(* Keeping up: udev's events, the timer, oFono's signals.                  *)
(***************************************************************************)
OnUdevChanged ==
  /\ uevents # <<>> /\ info.monitor = "on"
  /\ uevents' = Tail(uevents)
  /\ LET event == Head(uevents)
         step == IF event.action = "add" THEN 1 ELSE -1
     IN  info' = IF CountChanged \notin info.watch THEN info
                 ELSE [info EXCEPT !.counts[ModeOf[event.device]] = @ + step]
  /\ UNCHANGED <<ofonoVars, build, outside, connected, told, fault, changes>>

\* No monitor is there to receive it.
LoseUdevEvent ==
  /\ uevents # <<>> /\ info.monitor = "none"
  /\ uevents' = Tail(uevents)
  /\ UNCHANGED <<ofonoVars, build, outside, connected, info, told, fault, changes>>

\* Without udev the timer counts, too.
Recounted(d) ==
  IF build.udev \/ CountChanged \notin d.watch THEN d
  ELSE [d EXCEPT !.counts = [mode \in Local |-> Cardinality(There(mode))]]

OnTimeout ==
  /\ info.timer = "active"
  /\ LET d == Recounted(info)
         polled == {key \in Key : key[1] \in d.watch /\ Counted(d, key)}
         read == [d EXCEPT !.cache = [key \in Key |-> IF key \in polled THEN Get(d, key)
                                                      ELSE d.cache[key]]]
         mode == CurrentNetworkMode(read, ModemProperty(1))
         news == [key \in DOMAIN told |->
                    CASE key \notin Key -> IF mode # d.currentMode THEN mode ELSE told[key]
                      [] key \in Key /\ read.cache[key] # d.cache[key] -> read.cache[key]
                      [] OTHER -> told[key]]
     IN  /\ info' = IF ModeChanged \in d.watch THEN [read EXCEPT !.currentMode = mode] ELSE read
         /\ told' = [key \in DOMAIN told |-> IF key[1] \in connected THEN news[key] ELSE told[key]]
         /\ fault' = \E key \in polled : BeyondList(d, key)
  /\ UNCHANGED <<ofonoVars, build, outside, uevents, connected, changes>>

\* What comes of oFono is passed on, of modems only.
OnOfonoSignal ==
  /\ HandleMessage
  /\ UNCHANGED <<build, outside, uevents, connected, info, told, fault, changes>>

\* The bus gets to a match the wrapper asked for.
MatchAdded ==
  /\ AddMatch
  /\ UNCHANGED <<build, outside, uevents, connected, info, told, fault, changes>>
-----------------------------------------------------------------------------
(***************************************************************************)
(* The world: interfaces and modems come, go and change.                   *)
(***************************************************************************)
Changing ==
  /\ changes < MaxChanges /\ changes' = changes + 1
  /\ UNCHANGED <<build, connected, info, told, fault>>

\* udev has events of "net" for these; a Bluetooth adapter is of another subsystem.
Event(action, x) ==
  uevents' = IF ModeOf[x] = "BluetoothMode" THEN uevents
             ELSE Append(uevents, [action |-> action, device |-> x])

Plug(x) ==
  /\ x \notin present /\ present' = present \cup {x}
  /\ Event("add", x)
  /\ Changing /\ UNCHANGED <<ofonoVars, condition>>

Unplug(x) ==
  /\ x \in present /\ present' = present \ {x}
  /\ Event("remove", x)
  /\ Changing /\ UNCHANGED <<ofonoVars, condition>>

ChangeCondition(x, c) ==
  /\ x \in present /\ condition[x] # c
  /\ condition' = [condition EXCEPT ![x] = c]
  /\ Changing /\ UNCHANGED <<ofonoVars, present, uevents>>

ChangeModems ==
  /\ \E m \in Modem :
       AddModem(m) \/ RemoveModem(m) \/ \E r \in Registration : Register(m, r)
  /\ Changing /\ UNCHANGED <<outside, uevents>>

World ==
  \/ \E x \in Device : Plug(x) \/ Unplug(x) \/ \E c \in Condition : ChangeCondition(x, c)
  \/ ChangeModems

Application == \E signal \in Signal : Connect(signal) \/ Disconnect(signal)
EventLoop == OnUdevChanged \/ OnTimeout \/ OnOfonoSignal

Next == ~fault /\ (World \/ MatchAdded \/ LoseUdevEvent \/ Application \/ EventLoop)
Spec == Init /\ [][Next]_vars
FairSpec == Spec /\ WF_vars(~fault /\ OnUdevChanged) /\ WF_vars(~fault /\ OnTimeout)
-----------------------------------------------------------------------------
\* Whatever was connected and disconnected in which order: what a connected signal
\* needs is watched; what is polled has a timer that runs and counted interfaces;
\* a mode is kept with the statuses it is made of; counted interfaces have a
\* monitor that is on.
WatchesServed ==
  /\ connected \cap (Polled \cup {ModeChanged, CountChanged}) \subseteq info.watch
  /\ info.watch \cap (Polled \cup {ModeChanged}) # {} =>
       info.timer = "active" /\ CountChanged \in info.watch
  /\ ModeChanged \in info.watch => StatusChanged \in info.watch
  /\ CountChanged \in info.watch /\ build.udev => info.monitor = "on"

\* The value a slot was told last is the one a read returns.
ReadsMatchReports ==
  \A key \in DOMAIN told :
    key[1] \in connected /\ told[key] # Unread =>
      told[key] = IF key \in Key THEN info.cache[key] ELSE info.currentMode

\* What is polled of an interface that is there and counted comes to be what it is.
InterfacesCurrent ==
  fault \/ \A key \in Key :
             (key[1] \in info.watch /\ Counted(info, key)
              /\ Exists(key[2], key[3])) => info.cache[key] = Get(info, key)
InterfacesFollowed == []<>InterfacesCurrent

\* The current network mode comes to be what the interfaces there are make it.
\* (The code does not keep it; no run checks it.)
ModeFollows ==
  []<>(fault \/ (ModeChanged \in info.watch =>
                   info.currentMode = CurrentNetworkMode([info EXCEPT !.watch = {}],
                                                         IF modems = <<>> THEN Unread
                                                         ELSE registration[modems[1]])))
===============================================================================
