----------------------------- MODULE SimulatedBattery -----------------------------
(***************************************************************************)
(* The battery of a build for the simulator (systeminfo/simulator): every  *)
(* QBatteryInfo of the process looks at one QBatteryInfoSimulatorBackend,  *)
(* which a SystemInfoConnection fills with what the simulator sends.  The  *)
(* first QBatteryInfo made waits for that in an event loop of its own,     *)
(* inside the initialiser of a static variable and under a mutex.          *)
(***************************************************************************)
EXTENDS Integers, Sequences

CONSTANTS Info,       \* the QBatteryInfo objects of the application
          Signal,     \* the signals it may connect to, by their fields
          Index,      \* the indexes it may set
          Packets,    \* the QBatteryInfoData the simulator may send
          Garbage,    \* what an uninitialised number may hold
          None,
          MaxChanges  \* bound on what the application and the simulator do

VARIABLES
  data,        \* QBatteryInfoSimulatorBackend::data, the index apart
  index,       \* data.index
  reported,    \* what levelChanged told of the backend told last, in order
  connection,  \* the static SystemInfoConnection
  infos,       \* the QBatteryInfo objects
  making,      \* the one whose constructor waits, and the index it is given
  stuck,       \* a thread locks the mutex it holds
  connected,   \* the signals of each that have a receiver
  told,        \* what that receiver read or was told
  inbox,       \* packages sent and not received
  changes

vars == <<data, index, reported, connection, infos, making, stuck, connected, told, inbox, changes>>

\* What a package carries, and the two fields it leaves out or keeps unset.
Plain == {"currentFlow", "voltage", "remainingChargingTime", "chargerType", "chargingState",
          "levelStatus", "health", "temperature"}
Field == Plain \cup {"cycleCount", "maximumCapacity", "remainingCapacity"}

\* Of the signals these reach the QBatteryInfo: levelChanged, validChanged,
\* batteryIndexChanged and cycleCountChanged are not handed on.
Forwarded == Plain \cup {"remainingCapacity"}

Unknown(field) ==
  IF field \in {"cycleCount", "maximumCapacity", "remainingCapacity", "remainingChargingTime",
                "voltage"} THEN -1 ELSE 0

TypeOK ==
  /\ data \in [Field -> Int] /\ index \in Index /\ reported \in Seq(Int)
  /\ connection \in {"none", "waiting", "made", "refused"}
  /\ infos \subseteq Info
  /\ making \in {None} \cup (Info \X (Index \cup {None}))
  /\ IF connection = "waiting" THEN making \in Info \X (Index \cup {None}) ELSE making = None
  /\ stuck \in BOOLEAN
  /\ connected \in [Info -> SUBSET Signal]
  /\ told \in [Info -> [Signal -> Int \cup {None}]]
  /\ inbox \in Seq(Packets)
  /\ changes \in 0..MaxChanges

\* The temperature is not initialised.
Init ==
  /\ \E t \in Garbage : data = [f \in Field |-> IF f = "temperature" THEN t ELSE Unknown(f)]
  /\ index = 0 /\ reported = <<>>
  /\ connection = "none" /\ infos = {} /\ making = None /\ stuck = FALSE
  /\ connected = [i \in Info |-> {}]
  /\ told = [i \in Info |-> [s \in Signal |-> None]]
  /\ inbox = <<>> /\ changes = 0

Change == changes < MaxChanges /\ changes' = changes + 1
-----------------------------------------------------------------------------
\* Division as C++ has it.
Quotient(a, b) ==
  LET Size(n) == IF n < 0 THEN -n ELSE n
  IN IF (a < 0) = (b < 0) THEN Size(a) \div Size(b) ELSE -(Size(a) \div Size(b))

\* getBatteryCount is 1, whatever the simulator shows.
BatteryCount == 1
IsValid == 0 <= index /\ index < BatteryCount

\* getLevel(0)
LevelOf(d) ==
  IF d.maximumCapacity = 0 THEN -1 ELSE Quotient(d.remainingCapacity * 100, d.maximumCapacity)

\* The backend's getters: they know battery 0 alone, and the charger is not that
\* of a battery.
Get(battery, field) ==
  IF field = "level" THEN IF battery = 0 THEN LevelOf(data) ELSE -1
  ELSE IF field = "chargerType" \/ battery = 0 THEN data[field] ELSE Unknown(field)

\* What a QBatteryInfo answers is of the battery of the index they share.
Answer(field) == Get(index, field)

\* What levelChanged tells as one capacity and then the other is set.
LevelsTold(before, d) ==
  LET between == [before EXCEPT !.maximumCapacity = d.maximumCapacity]
      If(old, new) == IF LevelOf(old) = LevelOf(new) THEN <<>> ELSE <<LevelOf(new)>>
  IN If(before, between) \o If(between, [between EXCEPT !.remainingCapacity = d.remainingCapacity])

\* Each setter tells what it changes; the signals connected hear that.
Hear(i, d) ==
  [s \in Signal |-> IF s \in connected[i] \cap Forwarded /\ d[s] # data[s] THEN d[s] ELSE told[i][s]]

\* setBatteryInfoData.  The cycle count is not sent: what is set is what the
\* variable the package was read into held.
SetBatteryInfoData(packet, garbage) ==
  LET d == [f \in Field |-> IF f = "cycleCount" THEN garbage ELSE packet[f]] IN
  /\ data' = d
  /\ reported' = IF LevelsTold(data, d) = <<>> THEN reported ELSE LevelsTold(data, d)
  /\ told' = [i \in Info |-> Hear(i, d)]

\* The setters of the index, one for all objects.
SetIndex(n) == index' = IF n = None THEN index ELSE n
-----------------------------------------------------------------------------
\* A QBatteryInfo, with an index or without: its constructor makes the connection
\* first if there is none.  An application that makes another while that one waits
\* locks the mutex twice.
Create(i, n) ==
  /\ ~stuck /\ i \notin infos /\ (making # None => making[1] # i)
  /\ \/ /\ connection = "none"
        /\ \/ connection' = "waiting" /\ making' = <<i, n>> /\ UNCHANGED <<infos, index>>
           \/ connection' = "refused" /\ infos' = infos \cup {i} /\ SetIndex(n) /\ UNCHANGED making
        /\ UNCHANGED stuck
     \/ /\ connection = "waiting" /\ stuck' = TRUE
        /\ UNCHANGED <<connection, infos, making, index>>
     \/ /\ connection \in {"made", "refused"}
        /\ infos' = infos \cup {i} /\ SetIndex(n)
        /\ UNCHANGED <<connection, making, stuck>>
  /\ UNCHANGED <<data, reported, connected, told, inbox, changes>>

\* The loop ends with the first package or after a second; the object is made.
LoopEnds ==
  IF connection = "waiting"
  THEN /\ connection' = "made" /\ making' = None
       /\ infos' = infos \cup {making[1]}
       /\ SetIndex(making[2])
  ELSE UNCHANGED <<connection, making, infos, index>>

Receive ==
  /\ ~stuck /\ inbox # <<>> /\ inbox' = Tail(inbox)
  /\ \E garbage \in Garbage : SetBatteryInfoData(Head(inbox), garbage)
  /\ LoopEnds
  /\ UNCHANGED <<stuck, connected, changes>>

Timeout ==
  /\ ~stuck /\ connection = "waiting"
  /\ LoopEnds
  /\ UNCHANGED <<data, reported, stuck, connected, told, inbox, changes>>

SetBatteryIndex(i, n) ==
  /\ ~stuck /\ i \in infos /\ Change
  /\ index' = n
  /\ UNCHANGED <<data, reported, connection, infos, making, stuck, connected, told, inbox>>

\* An application reads a valid battery and follows a signal.
Connect(i, s) ==
  /\ ~stuck /\ i \in infos /\ s \notin connected[i] /\ Change
  /\ connected' = [connected EXCEPT ![i] = @ \cup {s}]
  /\ told' = [told EXCEPT ![i][s] = IF IsValid THEN Answer(s) ELSE None]
  /\ UNCHANGED <<data, index, reported, connection, infos, making, stuck, inbox>>

Disconnect(i, s) ==
  /\ ~stuck /\ s \in connected[i] /\ Change
  /\ connected' = [connected EXCEPT ![i] = @ \ {s}]
  /\ told' = [told EXCEPT ![i][s] = None]
  /\ UNCHANGED <<data, index, reported, connection, infos, making, stuck, inbox>>

Send(packet) ==
  /\ connection \in {"waiting", "made"} /\ Change
  /\ inbox' = Append(inbox, packet)
  /\ UNCHANGED <<data, index, reported, connection, infos, making, stuck, connected, told>>

Next ==
  \/ \E i \in Info, n \in Index \cup {None} : Create(i, n)
  \/ Receive \/ Timeout
  \/ \E i \in Info, n \in Index : SetBatteryIndex(i, n)
  \/ \E i \in Info, s \in Signal : Connect(i, s) \/ Disconnect(i, s)
  \/ \E packet \in Packets : Send(packet)

Spec == Init /\ [][Next]_vars
-----------------------------------------------------------------------------
\* Whoever read the battery and follows a signal that is handed on has what is
\* stored, whatever index the objects set meanwhile, and the level told last is
\* that of the capacities (qsysteminfobackend_simulator.cpp 195-227,
\* qsysteminfo_simulator.cpp 231-287, qsysteminfoconnection_simulator.cpp 92-108).
ReadsMatchReports ==
  /\ \A i \in Info : \A s \in Signal \cap Forwarded : told[i][s] \in {None, data[s]}
  /\ reported # <<>> => reported[Len(reported)] = LevelOf(data)

\* "The current battery index" of an object is the one it was given; but another
\* object's setter sets that of all.
\* (The code does not keep it; no run checks it.)
IndexIsOwn == [][\A i \in infos : index' # index => \A j \in infos : i = j]_vars

\* "The level of the battery as a percentage": but the level told between the two
\* capacities is of the new one and the old, and before any is known it is 100.
\* (The code does not keep it; no run checks it.)
LevelIsPercentage == \A n \in DOMAIN reported : reported[n] \in -1..100

\* An object can be made at any time.
\* (The code does not keep it; no run checks it.)
NeverStuck == ~stuck
=============================================================================
