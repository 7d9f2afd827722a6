-------------------------------- MODULE DeviceInfo --------------------------------
(***************************************************************************)
(* QDeviceInfo on Linux: the thermal state, read of the sensors or kept by *)
(* a timer while thermalStateChanged is connected; the bluetooth state;    *)
(* the IMEIs; and the names and versions, each read from the first of      *)
(* several sources that has it and kept for good.                          *)
(***************************************************************************)
EXTENDS Integers, Sequences, FiniteSets, SequencesExt

CONSTANTS
  Monitors,          \* how many hwmon directories there are
  MaxSensors,        \* bound: of a monitor's sensors
  Reading,           \* of a sensor: its temperature and its two limits
  Modem,
  Answer,            \* what is asked for by name
  MaxChanges         \* bound: of the changes outside

Monitor == 1 .. Monitors

VARIABLES
  sensors,           \* the sensors of each monitor, numbered from 1
  powered,           \* bluetooth's power, a message of bluez away
  modems,            \* those of ofono
  files,             \* the files that have an answer
  signals,           \* the signals that are connected
  info,              \* the QDeviceInfoPrivate, a record of
                     \*   watch, thermal, timer   the thermal state kept
                     \*   btPowered, imeiBuffer
                     \*   buffer                  the answers kept
                     \*   told                    what a slot was told (history)
  changes

world == <<sensors, powered, modems, files>>
vars == <<world, signals, info, changes>>

Signals == {"thermalState", "bluetoothState"}
Severity == [Unknown |-> 0, Normal |-> 1, Warning |-> 2, Alert |-> 3]
Untold == "untold"

\* Where each answer is looked for, in order.
NameSources ==
  [manufacturer |-> <<"sys_vendor", "release BUILD">>,
   model |-> <<"hw-release NAME", "product_name", "release BUILD">>,
   productName |-> <<"release PRETTY_NAME", "lsb_release -c">>]
IdentifierSources ==
  [uniqueDeviceID |-> <<"product_uuid", "unique-id", "wlan address", "ethernet address",
                        "machine-id", "dbus machine-id">>]
VersionSources ==
  [osVersion |-> <<"os-release VERSION_ID", "release VERSION_ID", "lsb_release -r">>,
   firmware |-> <<"hw-release VERSION_ID", "osrelease">>,
   operatingSystemName |-> <<"os-release NAME", "release NAME">>,
   boardName |-> <<"boardname", "board_name">>]
Sources ==
  [a \in UNION {DOMAIN NameSources, DOMAIN IdentifierSources, DOMAIN VersionSources} |->
     IF a \in DOMAIN NameSources THEN NameSources[a]
     ELSE IF a \in DOMAIN IdentifierSources THEN IdentifierSources[a] ELSE VersionSources[a]]
Found == UNION {Range(Sources[a]) : a \in Answer}
Empty == "empty"

TypeOK ==
  /\ sensors \in [Monitor -> UNION {[1 .. n -> Reading] : n \in 0 .. MaxSensors}]
  /\ powered \in BOOLEAN /\ modems \in {<<>>, <<Modem>>}
  /\ signals \subseteq Signals
  /\ info \in [watch : BOOLEAN, thermal : DOMAIN Severity, timer : BOOLEAN,
               btPowered : BOOLEAN, imeiBuffer : {<<>>, <<Modem>>},
               buffer : [Answer -> Found \cup {Empty}], told : DOMAIN Severity \cup {Untold}]
  /\ \A a \in Answer : info.buffer[a] \in Range(Sources[a]) \cup {Empty}
  /\ changes \in 0 .. MaxChanges

Init ==
  /\ sensors \in [Monitor -> UNION {[1 .. n -> Reading] : n \in 0 .. MaxSensors}]
  /\ powered = FALSE /\ modems = <<>>
  /\ \E n \in {1, 2} : files = {Sources[a][n] : a \in {b \in Answer : n \in DOMAIN Sources[b]}}
  /\ signals = {}
  /\ info = [watch |-> FALSE, thermal |-> "Unknown", timer |-> FALSE,
             btPowered |-> FALSE, imeiBuffer |-> <<>>,
             buffer |-> [a \in Answer |-> Empty], told |-> Untold]
  /\ changes = 0
-----------------------------------------------------------------------------
(***************************************************************************)
(* getThermalState: the sensors of a monitor up to the first that is not   *)
(* there or not a number; what a limit cannot change any more is not read. *)
(***************************************************************************)
Worse(state, sensor) ==
  LET known == IF state = "Unknown" THEN "Normal" ELSE state
      warned == IF Severity[known] < Severity["Warning"] /\ sensor.temp > sensor.critical
                  THEN "Warning" ELSE known
  IN  IF Severity[warned] < Severity["Alert"] /\ sensor.temp > sensor.emergency
        THEN "Alert" ELSE warned

Readable(m) ==
  {n \in DOMAIN sensors[m] : \A k \in 1 .. n : sensors[m][k].ok}

\* An alert, which nothing changes, ends those of its monitor.
AfterSensors(m, before) ==
  LET after[n \in 0 .. MaxSensors] ==
        IF n = 0 THEN before
        ELSE IF n \in Readable(m) THEN Worse(after[n - 1], sensors[m][n]) ELSE after[n - 1]
  IN  after[MaxSensors]

\* Monitor by monitor.
GetThermalState ==
  LET state[m \in 0 .. Monitors] ==
        IF m = 0 THEN "Unknown" ELSE AfterSensors(m, state[m - 1])
  IN  state[Monitors]

ThermalState == IF info.watch THEN info.thermal ELSE GetThermalState
-----------------------------------------------------------------------------
(***************************************************************************)
(* Signals and the timer.                                                  *)
(***************************************************************************)
Connect(signal) ==
  /\ signal \notin signals
  /\ signals' = signals \cup {signal}
  /\ info' = IF signal = "thermalState"
               THEN [info EXCEPT !.timer = TRUE, !.watch = TRUE, !.thermal = GetThermalState,
                                 !.told = Untold]
               ELSE [info EXCEPT !.timer = TRUE]
  /\ UNCHANGED <<world, changes>>

\* connectBtPowered connects only what is connected already, which nothing is.
Disconnect(signal) ==
  /\ signal \in signals
  /\ signals' = signals \ {signal}
  /\ LET left == IF signal = "thermalState"
                   THEN [info EXCEPT !.watch = FALSE, !.thermal = "Unknown", !.told = Untold]
                   ELSE info
     IN  info' = [left EXCEPT !.timer = @ /\ left.watch]
  /\ UNCHANGED <<world, changes>>

\* Mutant: a timer that fires once.
OnTimeoutOnce ==
  /\ info.timer
  /\ info' = [info EXCEPT !.timer = FALSE]
  /\ UNCHANGED <<world, signals, changes>>

OnTimeout ==
  /\ info.timer
  /\ info' = IF info.watch /\ GetThermalState # info.thermal
               THEN [info EXCEPT !.thermal = GetThermalState, !.told = GetThermalState]
               ELSE info
  /\ UNCHANGED <<world, signals, changes>>
-----------------------------------------------------------------------------
(***************************************************************************)
(* Questions.                                                              *)
(***************************************************************************)
ReadBluetooth ==
  /\ info' = [info EXCEPT !.btPowered = powered]
  /\ UNCHANGED <<world, signals, changes>>

\* imei reads all modems anew; imeiCount only when none was found before.
ReadImei ==
  /\ info' = [info EXCEPT !.imeiBuffer = modems]
  /\ UNCHANGED <<world, signals, changes>>

CountImeis ==
  /\ info.imeiBuffer = <<>>
  /\ ReadImei

\* An answer found once is not looked for again.
Ask(a) ==
  LET found == SelectInSeq(Sources[a], LAMBDA source : source \in files)
  IN  /\ info' = [info EXCEPT !.buffer[a] =
                    IF @ = Empty /\ found # 0 THEN Sources[a][found] ELSE @]
      /\ UNCHANGED <<world, signals, changes>>
-----------------------------------------------------------------------------
(***************************************************************************)
(* The world.                                                              *)
(***************************************************************************)
Change == changes < MaxChanges /\ changes' = changes + 1 /\ UNCHANGED <<signals, info>>

Warm(m, n, reading) ==
  /\ n \in DOMAIN sensors[m] /\ Change
  /\ sensors' = [sensors EXCEPT ![m][n] = reading]
  /\ UNCHANGED <<powered, modems, files>>

Elsewhere ==
  /\ Change /\ UNCHANGED <<sensors, files>>
  /\ \/ powered' = ~powered /\ UNCHANGED modems
     \/ modems' = (IF modems = <<>> THEN <<Modem>> ELSE <<>>) /\ UNCHANGED powered

World ==
  \/ \E m \in Monitor, n \in 1 .. MaxSensors, reading \in Reading : Warm(m, n, reading)
  \/ Elsewhere

Next ==
  \/ World \/ OnTimeout
  \/ \E signal \in Signals : Connect(signal) \/ Disconnect(signal)
  \/ ReadBluetooth \/ ReadImei \/ CountImeis
  \/ \E a \in Answer : Ask(a)

Spec == Init /\ [][Next]_vars
\* The timer of the event loop fires every two seconds.
FairSpec == Spec /\ WF_vars(OnTimeout)
-----------------------------------------------------------------------------
\* The state is that of the most critical sensor there is before the first gap.
Critical(sensor) ==
  IF sensor.temp > sensor.emergency THEN 3 ELSE IF sensor.temp > sensor.critical THEN 2 ELSE 1
MostCriticalReported ==
  LET all == UNION {{Critical(sensors[m][n]) : n \in Readable(m)} : m \in Monitor}
  IN  /\ all = {} => GetThermalState = "Unknown"
      /\ all # {} => /\ Severity[GetThermalState] \in all
                     /\ \A c \in all : c <= Severity[GetThermalState]

\* A slot on thermalStateChanged is polled for, whatever else is disconnected.
ThermalPolled == "thermalState" \in signals => info.watch /\ info.timer

\* While it is connected the state that is kept comes to be the one there is.
ThermalCurrent == "thermalState" \in signals => info.thermal = GetThermalState
ThermalFollowed == []<>ThermalCurrent
===============================================================================
