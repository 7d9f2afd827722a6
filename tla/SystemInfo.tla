------------------------------- MODULE SystemInfo -------------------------------
(***************************************************************************)
(* The components of QtSystemInfo share no state: an application looks at  *)
(* each on its own.  One specification holds them all: active says which   *)
(* one a behaviour is about, and the others stay idle.                     *)
(***************************************************************************)
EXTENDS Integers, Sequences, FiniteSets

CONSTANTS
  \* of the network information on Linux: NetStart is what the interfaces and the modems
  \* may say at first
  Modem, Registration, NetDevice, ModeOf, NetCondition, NetStart, NetSignal, Ofono, Udev,
  MaxNetChanges,
  \* of the battery on Linux: BatStart is what the batteries and the supply may say at first
  Battery, BatCondition, Supply, BatStart, Kind, BatIndex, UdevBuild, MaxBatChanges,
  \* of the battery by UPower
  UPowerDevice, UPowerBattery, Lists, Energy, State, UPowerIndex, MaxInterfaces,
  MaxUPowerChanges,
  \* of the input devices and the model of them
  InputDevice, InputName, EventName, InputTypes, Contains, Manager, InputFilter,
  Devices, ModelTypes, ModelFilter,
  \* of the device information
  Monitors, MaxSensors, Measure, DevModem, Lookup, MaxDevChanges,
  \* of the network information and the battery on Windows
  Handle, Quality, Adapters, Polls, Fails, MaxTimers, MaxInbox, MaxWinNetChanges,
  Answers, WinBatIndex, MaxWinBatChanges,
  \* of the QML network information
  QmlSignal, Obsolete, MaxQmlChanges,
  \* of the simulator's battery
  User, SimSignal, SimIndex, Packets, Garbage, None, MaxSimChanges

VARIABLES
  active,
  netModems, registration, messages, wrapper, build, netPresent, netCondition,
  netUevents, connected, netInfo, netTold, fault, netChanges,
  udevBuild, batBatteries, batCondition, supply, events, batSignals, battery, udev,
  batTold, batChanges,
  up, upPresent, properties, upInbox, requests, interfaces, upClient, missed, upChanges,
  node, monitored, inputUevents, phase, inputDeviceMap, manager,
  modelDeviceMap, managerFilter, currentFilter, inputDevices, deleted,
  sensors, powered, devModems, files, devSignals, devInfo, devChanges,
  polls, wlan, adapters, handles, callbacks, hWlan, wlanCallbackInitialized,
  wifiStrength, ethStrength, timers, winNetInbox, toldWifi, toldEthernet, toldStatus,
  toldMode, enumerationFailed, winNetChanges,
  winBatBatteries, index, numberOfBatteries, currentChargerType, stored, winBatClient,
  crashed, winBatChanges,
  monitor, connections, emitted, heard, qmlChanges,
  simData, simIndex, simReported, connection, infos, making, stuck, simConnected, simTold,
  simInbox, simChanges

Net == INSTANCE NetworkInfo
  WITH Device <- NetDevice, Condition <- NetCondition, Signal <- NetSignal,
       MaxChanges <- MaxNetChanges, modems <- netModems, present <- netPresent,
       condition <- netCondition, uevents <- netUevents, info <- netInfo,
       told <- netTold, changes <- netChanges
Bat == INSTANCE BatteryInfo
  WITH Condition <- BatCondition, Index <- BatIndex, MaxChanges <- MaxBatChanges,
       batteries <- batBatteries, condition <- batCondition, signals <- batSignals,
       told <- batTold, changes <- batChanges
UPower == INSTANCE UPowerBatteryInfo
  WITH Device <- UPowerDevice, Battery <- UPowerBattery, Index <- UPowerIndex,
       MaxChanges <- MaxUPowerChanges, present <- upPresent, inbox <- upInbox,
       client <- upClient, changes <- upChanges
Inp == INSTANCE InputInfo
  WITH Device <- InputDevice, Types <- InputTypes, Filter <- InputFilter,
       uevents <- inputUevents, deviceMap <- inputDeviceMap
Model == INSTANCE InputDeviceModel
  WITH Types <- ModelTypes, Filter <- ModelFilter, deviceMap <- modelDeviceMap
Dev == INSTANCE DeviceInfo
  WITH Modem <- DevModem, Reading <- Measure, Answer <- Lookup,
       MaxChanges <- MaxDevChanges, modems <- devModems,
       signals <- devSignals, info <- devInfo, changes <- devChanges
WinNet == INSTANCE WindowsNetworkInfo
  WITH MaxChanges <- MaxWinNetChanges, inbox <- winNetInbox, changes <- winNetChanges
WinBat == INSTANCE WindowsBatteryInfo
  WITH Index <- WinBatIndex, MaxChanges <- MaxWinBatChanges, batteries <- winBatBatteries,
       client <- winBatClient, changes <- winBatChanges
Qml == INSTANCE DeclarativeNetworkInfo
  WITH Signal <- QmlSignal, MaxChanges <- MaxQmlChanges, changes <- qmlChanges
Sim == INSTANCE SimulatedBattery
  WITH Info <- User, Signal <- SimSignal, Index <- SimIndex,
       MaxChanges <- MaxSimChanges,
       data <- simData, index <- simIndex, reported <- simReported,
       connected <- simConnected, told <- simTold, inbox <- simInbox,
       changes <- simChanges

\* Interfaces are numbers, in the order of their names.
ASSUME NetworkAssumption ==
  /\ NetDevice \subseteq Nat /\ IsFiniteSet(NetDevice) /\ ModeOf \in [NetDevice -> Net!Local]
  /\ MaxNetChanges \in Nat
ASSUME BatteryAssumption ==
  /\ Battery \subseteq Nat /\ IsFiniteSet(Battery) /\ BatIndex \subseteq Int
  /\ BatCondition \subseteq [state : Bat!Charge, raw : Int]
  /\ Supply \subseteq [ac : BOOLEAN, usb : {"none", "USB", "USB_CDP", "USB_DCP"}]
  /\ Kind \subseteq {"chargingState", "currentFlow", "remainingChargingTime", "levelStatus",
                     "remainingCapacity", "voltage"}
  /\ UdevBuild \subseteq BOOLEAN /\ MaxBatChanges \in Nat
\* An object path names a device, and the empty one none.
ASSUME UPowerAssumption ==
  /\ "none" \notin UPowerDevice /\ UPowerBattery \subseteq UPowerDevice
  /\ IsFiniteSet(UPowerBattery) /\ Lists \subseteq Seq(UPowerDevice)
  /\ UPowerIndex \subseteq Nat
  /\ MaxUPowerChanges \in Nat /\ MaxInterfaces \in Nat
\* A device's two nodes have names of their own.
ASSUME InputAssumption ==
  /\ \A filter \in InputFilter : filter \subseteq Inp!AllTypes
  /\ \A name \in Inp!Name : Contains[<<name, name>>]
  /\ \A d, e \in InputDevice : InputName[d] # EventName[e]
ASSUME ModelAssumption ==
  Devices \in Nat /\ \A filter \in ModelFilter : filter \subseteq Model!AllTypes
ASSUME DeviceAssumption ==
  /\ Monitors \in Nat /\ MaxSensors \in Nat /\ MaxDevChanges \in Nat
  /\ Lookup \subseteq DOMAIN Dev!Sources
\* A handle and a quality that are not 0 say something.
ASSUME WinNetAssumption ==
  /\ Handle \subseteq Nat \ {0} /\ IsFiniteSet(Handle) /\ Quality \subseteq Nat \ {0}
  /\ Polls \subseteq BOOLEAN /\ Fails \subseteq BOOLEAN
  /\ MaxTimers \in Nat \ {0} /\ MaxInbox \in Nat /\ MaxWinNetChanges \in Nat
\* What a battery may answer.
WinBatAnswer == [kind : {"system", "mute"}, power : {"charging", "discharging", "idle"},
                 voltage : Nat \cup {-1}, rate : Int, capacity : Nat, full : Nat,
                 critical : BOOLEAN, online : BOOLEAN]
ASSUME WinBatAssumption ==
  Answers \subseteq Seq(WinBatAnswer) /\ WinBatIndex \subseteq Nat /\ MaxWinBatChanges \in Nat
ASSUME QmlAssumption == MaxQmlChanges \in Nat
ASSUME SimAssumption ==
  /\ SimSignal \subseteq Sim!Field \cup {"level"}
  /\ 0 \in SimIndex /\ SimIndex \subseteq Int
  /\ Packets \subseteq [Sim!Field -> Int] /\ Garbage \subseteq Int
  /\ MaxSimChanges \in Nat

netVars == <<netModems, registration, messages, wrapper, build, netPresent, netCondition,
             netUevents, connected, netInfo, netTold, fault, netChanges>>
batVars == <<udevBuild, batBatteries, batCondition, supply, events, batSignals, battery, udev,
             batTold, batChanges>>
upVars == <<up, upPresent, properties, upInbox, requests, interfaces, upClient, missed, upChanges>>
inputVars == <<node, monitored, inputUevents, phase, inputDeviceMap, manager>>
modelVars == <<modelDeviceMap, managerFilter, currentFilter, inputDevices, deleted>>
devVars == <<sensors, powered, devModems, files, devSignals, devInfo, devChanges>>
winNetVars == <<polls, wlan, adapters, handles, callbacks, hWlan, wlanCallbackInitialized,
                wifiStrength, ethStrength, timers, winNetInbox, toldWifi,
                toldEthernet, toldStatus, toldMode, enumerationFailed, winNetChanges>>
winBatVars == <<winBatBatteries, index, numberOfBatteries, currentChargerType, stored, winBatClient,
                crashed, winBatChanges>>
qmlVars == <<monitor, connections, emitted, heard, qmlChanges>>
simVars == <<simData, simIndex, simReported, connection, infos, making, stuck, simConnected,
             simTold, simInbox, simChanges>>

\* Nothing is known of the components that are not looked at.
NetIdle ==
  /\ netModems = 0 /\ registration = 0 /\ messages = 0 /\ wrapper = 0 /\ build = 0
  /\ netPresent = 0 /\ netCondition = 0 /\ netUevents = 0 /\ connected = 0
  /\ netInfo = 0 /\ netTold = 0 /\ fault = 0 /\ netChanges = 0
BatIdle ==
  /\ udevBuild = 0 /\ batBatteries = 0 /\ batCondition = 0 /\ supply = 0
  /\ events = 0 /\ batSignals = 0 /\ battery = 0 /\ udev = 0 /\ batTold = 0
  /\ batChanges = 0
UPowerIdle ==
  /\ up = 0 /\ upPresent = 0 /\ properties = 0 /\ upInbox = 0 /\ requests = 0
  /\ interfaces = 0 /\ upClient = 0 /\ missed = 0 /\ upChanges = 0
InpIdle ==
  /\ node = 0 /\ monitored = 0 /\ inputUevents = 0 /\ phase = 0
  /\ inputDeviceMap = 0 /\ manager = 0
ModelIdle ==
  /\ modelDeviceMap = 0 /\ managerFilter = 0 /\ currentFilter = 0
  /\ inputDevices = 0 /\ deleted = 0
DevIdle ==
  /\ sensors = 0 /\ powered = 0 /\ devModems = 0 /\ files = 0 /\ devSignals = 0
  /\ devInfo = 0 /\ devChanges = 0
WinNetIdle ==
  /\ polls = 0 /\ wlan = 0 /\ adapters = 0 /\ handles = 0 /\ callbacks = 0
  /\ hWlan = 0 /\ wlanCallbackInitialized = 0 /\ wifiStrength = 0 /\ ethStrength = 0
  /\ timers = 0 /\ winNetInbox = 0 /\ toldWifi = 0 /\ toldEthernet = 0
  /\ toldStatus = 0 /\ toldMode = 0 /\ enumerationFailed = 0 /\ winNetChanges = 0
WinBatIdle ==
  /\ winBatBatteries = 0 /\ index = 0 /\ numberOfBatteries = 0
  /\ currentChargerType = 0 /\ stored = 0 /\ winBatClient = 0 /\ crashed = 0
  /\ winBatChanges = 0
QmlIdle ==
  /\ monitor = 0 /\ connections = 0 /\ emitted = 0 /\ heard = 0 /\ qmlChanges = 0
SimIdle ==
  /\ simData = 0 /\ simIndex = 0 /\ simReported = 0 /\ connection = 0 /\ infos = 0
  /\ making = 0 /\ stuck = 0 /\ simConnected = 0 /\ simTold = 0 /\ simInbox = 0
  /\ simChanges = 0

OthersIdle ==
  /\ active # "network" => NetIdle
  /\ active # "battery" => BatIdle
  /\ active # "upower" => UPowerIdle
  /\ active # "input" => InpIdle
  /\ active # "inputModel" => ModelIdle
  /\ active # "device" => DevIdle
  /\ active # "windowsNetwork" => WinNetIdle
  /\ active # "windowsBattery" => WinBatIdle
  /\ active # "declarative" => QmlIdle
  /\ active # "simulated" => SimIdle

Init ==
  /\ \/ active = "network" /\ Net!Init /\ <<netCondition, registration>> \in NetStart
     \/ active = "battery" /\ Bat!Init /\ <<batCondition, supply>> \in BatStart
     \/ active = "upower" /\ UPower!Init
     \/ active = "input" /\ Inp!Init
     \/ active = "inputModel" /\ Model!Init
     \/ active = "device" /\ Dev!Init
     \/ active = "windowsNetwork" /\ WinNet!Init
     \/ active = "windowsBattery" /\ WinBat!Init
     \/ active = "declarative" /\ Qml!Init
     \/ active = "simulated" /\ Sim!Init
  /\ OthersIdle

NetStep ==
  /\ active = "network" /\ Net!Next
  /\ UNCHANGED <<active, batVars, upVars, inputVars, modelVars, devVars,
                  winNetVars, winBatVars, qmlVars, simVars>>
BatStep ==
  /\ active = "battery" /\ Bat!Next
  /\ UNCHANGED <<active, netVars, upVars, inputVars, modelVars, devVars,
                  winNetVars, winBatVars, qmlVars, simVars>>
UPowerStep ==
  /\ active = "upower" /\ UPower!Next
  /\ UNCHANGED <<active, netVars, batVars, inputVars, modelVars, devVars,
                  winNetVars, winBatVars, qmlVars, simVars>>
InpStep ==
  /\ active = "input" /\ Inp!Next
  /\ UNCHANGED <<active, netVars, batVars, upVars, modelVars, devVars,
                  winNetVars, winBatVars, qmlVars, simVars>>
ModelStep ==
  /\ active = "inputModel" /\ Model!Next
  /\ UNCHANGED <<active, netVars, batVars, upVars, inputVars, devVars,
                  winNetVars, winBatVars, qmlVars, simVars>>
DevStep ==
  /\ active = "device" /\ Dev!Next
  /\ UNCHANGED <<active, netVars, batVars, upVars, inputVars, modelVars,
                  winNetVars, winBatVars, qmlVars, simVars>>
WinNetStep ==
  /\ active = "windowsNetwork" /\ WinNet!Next
  /\ UNCHANGED <<active, netVars, batVars, upVars, inputVars, modelVars,
                  devVars, winBatVars, qmlVars, simVars>>
WinBatStep ==
  /\ active = "windowsBattery" /\ WinBat!Next
  /\ UNCHANGED <<active, netVars, batVars, upVars, inputVars, modelVars,
                  devVars, winNetVars, qmlVars, simVars>>
QmlStep ==
  /\ active = "declarative" /\ Qml!Next
  /\ UNCHANGED <<active, netVars, batVars, upVars, inputVars, modelVars,
                  devVars, winNetVars, winBatVars, simVars>>
SimStep ==
  /\ active = "simulated" /\ Sim!Next
  /\ UNCHANGED <<active, netVars, batVars, upVars, inputVars, modelVars,
                  devVars, winNetVars, winBatVars, qmlVars>>

Next ==
  \/ NetStep \/ BatStep \/ UPowerStep \/ InpStep \/ ModelStep \/ DevStep \/ WinNetStep
  \/ WinBatStep \/ QmlStep \/ SimStep

vars == <<active, netVars, batVars, upVars, inputVars, modelVars, devVars, winNetVars,
          winBatVars, qmlVars, simVars>>

Fairness ==
  /\ WF_netVars(active = "network" /\ ~fault /\ Net!OnUdevChanged)
  /\ WF_netVars(active = "network" /\ ~fault /\ Net!OnTimeout)
  /\ WF_devVars(active = "device" /\ Dev!OnTimeout)
Spec == Init /\ [][Next]_vars /\ Fairness
-----------------------------------------------------------------------------
TypesOK ==
  /\ active = "network" => Net!TypeOK
  /\ active = "battery" => Bat!TypeOK
  /\ active = "upower" => UPower!TypeOK
  /\ active = "input" => Inp!TypeOK
  /\ active = "inputModel" => Model!TypeOK
  /\ active = "device" => Dev!TypeOK
  /\ active = "windowsNetwork" => WinNet!TypeOK
  /\ active = "windowsBattery" => WinBat!TypeOK
  /\ active = "declarative" => Qml!TypeOK
  /\ active = "simulated" => Sim!TypeOK

\* Whatever is connected and disconnected in which order, what a connected signal
\* needs is watched or polled for (qnetworkinfo_linux.cpp 419-572,
\* qbatteryinfo_linux.cpp 378-530, qdeviceinfo_linux.cpp 647-693), a wireless
\* callback stays registered and the polling goes on (qnetworkinfo_win.cpp 515-610).
WatchesServed ==
  /\ active = "network" => Net!WatchesServed
  /\ active = "battery" => Bat!WatchesServed
  /\ active = "device" => Dev!ThermalPolled
  /\ active = "windowsNetwork" => WinNet!StillNotified

\* Whoever read a value and follows its signal has the value the next read would
\* be compared with: no change is told twice, and none that is noticed is left out.
\* The thermal state read is that of the most critical sensor before the first gap
\* (qdeviceinfo_linux.cpp 695-748).
ReadsMatchReports ==
  /\ active = "network" => Net!ReadsMatchReports
  /\ active = "battery" => Bat!ReadsMatchReports
  /\ active = "upower" => UPower!ReadsMatchReports
  /\ active = "windowsNetwork" => WinNet!EthernetReported
  /\ active = "windowsBattery" => WinBat!SignalsFollow
  /\ active = "declarative" => Qml!HeardWhileMonitored
  /\ active = "device" => Dev!MostCriticalReported
  /\ active = "simulated" => Sim!ReadsMatchReports

\* Whatever comes and goes while it is listed, the lists kept of devices become
\* those of the devices there are: modems (qofonowrapper.cpp 341-382), the battery
\* of UPower (qbatteryinfo_upower.cpp 486-627), input devices, their filtered maps
\* and the rows of the model (qinputinfomanagerudev.cpp 66-286, qinputinfo.cpp
\* 331-499, qdeclarativeinputdevicemodel.cpp 123-166).
DevicesFollowed ==
  /\ active = "network" => Net!ModemListFollows
  /\ active = "upower" => UPower!BatteryKnown
  /\ active = "input" => Inp!NoGhostDevices /\ Inp!FiltersCurrent
  /\ active = "inputModel" => Model!RowsAreDevices

\* What the map says of UPower's battery is what UPower says, unless a change came
\* before anybody asked to be told or was not answered (qbatteryinfo_upower.cpp
\* 486-627, qupowerinterface_linux.cpp 96-192).
BatteryFollowed == active = "upower" => UPower!BatteryCurrent

\* What is polled for while it is connected comes to be what it is: the state of
\* an interface (qnetworkinfo_linux.cpp 609-670) and the thermal state
\* (qdeviceinfo_linux.cpp 684-693).
Followed ==
  /\ []<>(active = "network" => Net!InterfacesCurrent)
  /\ []<>(active = "device" => Dev!ThermalCurrent)
=============================================================================
