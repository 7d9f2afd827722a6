---------------------------- MODULE WindowsBatteryInfo ----------------------------
(***************************************************************************)
(* QBatteryInfoPrivate of the Windows build (qbatteryinfo_win.cpp): every  *)
(* second getBatteryStatus asks the batteries in turn, keeps what they say *)
(* in maps by number, and emits what changed of the battery looked at.     *)
(* The batteries are numbered from 1, the index starts from 0.             *)
(***************************************************************************)
EXTENDS Integers, Sequences, FiniteSets

CONSTANTS Answers,    \* what the batteries present may say, in turn
          Index,      \* indexes an application asks for
          MaxChanges  \* bound on what the system and the application change

VARIABLES
  batteries,  \* what each battery answers now
  index, numberOfBatteries, currentChargerType,
  stored,     \* the maps, by battery number, as one record per number
  client,     \* what the signals and, on validChanged(true), the getters told
  crashed,
  changes

vars == <<batteries, index, numberOfBatteries, currentChargerType, stored, client,
          crashed, changes>>

\* A battery: does its device open, is it a system battery that is not short
\* term, and what does its status say?
Field == {"chargingState", "voltage", "currentFlow", "remainingCapacity", "levelStatus"}

\* QMap::operator[] makes an entry of zeros where there is none.
Zeros == [field \in Field |-> 0]
NumbersUsed == (UNION {DOMAIN answer : answer \in Answers}) \cup Index

TypeOK ==
  /\ batteries \in Answers
  /\ index \in Index /\ numberOfBatteries \in Nat
  /\ currentChargerType \in {"WallCharger", "UnknownCharger"}
  /\ stored \in [NumbersUsed -> [Field -> Int]]
  /\ client \in [told : BOOLEAN, values : [Field -> Int]]
  /\ crashed \in BOOLEAN
  /\ changes \in 0..MaxChanges

IsValid(i, count) == 0 <= i /\ i < count

\* A battery whose tag, information or status cannot be had is counted only.
Answering(answers) == {n \in DOMAIN answers : answers[n].kind = "system"}

\* mWh over mV, as whole numbers; an unknown voltage makes both capacities -1.
Remaining(a) == IF a.voltage = -1 THEN -1 ELSE a.capacity \div a.voltage

\* The level is the energy when full over what remains, without sign: 0 where that
\* is unknown.  It is compared with 100 only where it is more than 66 already.
\* 1 stands for LevelEmpty, 2 for LevelLow, 3 for LevelOk.
LevelStatus(a) ==
  LET level == IF Remaining(a) = -1 THEN 0 ELSE a.full \div Remaining(a)
  IN IF a.critical THEN 1 ELSE IF level < 67 THEN 2 ELSE 3

\* A voltage of 0 is divided by, and so is what remains, which is 0 when the energy
\* is less than the voltage in numbers.
Crashes(answers) ==
  \E n \in Answering(answers) : answers[n].voltage = 0 \/ Remaining(answers[n]) = 0

\* The charging state of a battery that neither charges nor discharges is an
\* uninitialised variable.
StatusOf(a, state) ==
  [chargingState |-> IF a.power = "idle" THEN state ELSE IF a.power = "charging" THEN 1 ELSE 2,
   voltage |-> a.voltage,
   currentFlow |-> a.rate,
   remainingCapacity |-> Remaining(a),
   levelStatus |-> LevelStatus(a)]

\* The fields of battery i that change are emitted.
Heard(told, before, after, i) ==
  [told EXCEPT !.values =
     [f \in Field |-> IF before[i][f] # after[i][f] THEN after[i][f] ELSE @[f]]]

\* validChanged(true): whoever listens reads everything.
Validated(told, validBefore, validNow, values) ==
  IF validNow /\ ~validBefore THEN [told |-> TRUE, values |-> values]
  ELSE [told EXCEPT !.told = @ /\ validNow]

\* getBatteryStatus, every second.  numberOfBatteries, and with it isValid(),
\* follows when the batteries are through.
GetBatteryStatus(answers, i, states) ==
  LET after == [n \in NumbersUsed |-> IF n \in Answering(answers)
                                      THEN StatusOf(answers[n], states[n]) ELSE stored[n]]
  IN
  /\ stored' = after
  /\ currentChargerType' =
       IF Answering(answers) = {} THEN currentChargerType
       ELSE LET last == CHOOSE n \in Answering(answers) : \A m \in Answering(answers) : m <= n
            IN IF answers[last].online THEN "WallCharger" ELSE "UnknownCharger"
  /\ numberOfBatteries' = Len(answers)
  /\ client' = Validated(Heard(client, stored, after, i), IsValid(i, numberOfBatteries),
                         IsValid(i, Len(answers)), after[i])

Init ==
  /\ batteries \in Answers /\ ~Crashes(batteries)
  /\ index \in Index
  /\ numberOfBatteries = Len(batteries)
  /\ \E states \in [NumbersUsed -> 1..2] :
       stored = [n \in NumbersUsed |-> IF n \in Answering(batteries)
                                       THEN StatusOf(batteries[n], states[n]) ELSE Zeros]
  /\ currentChargerType = "UnknownCharger"
  /\ client = [told |-> IsValid(index, numberOfBatteries), values |-> stored[index]]
  /\ crashed = FALSE
  /\ changes = 0

Timeout ==
  /\ ~crashed
  /\ crashed' = Crashes(batteries)
  /\ IF crashed'
     THEN UNCHANGED <<stored, currentChargerType, numberOfBatteries, client>>
     ELSE \E states \in [NumbersUsed -> 1..2] : GetBatteryStatus(batteries, index, states)
  /\ UNCHANGED <<batteries, index, changes>>

\* setBatteryIndex: of two valid batteries, what differs is emitted.
SetBatteryIndex(i) ==
  /\ ~crashed /\ changes < MaxChanges /\ changes' = changes + 1
  /\ i # index /\ index' = i
  /\ LET validBefore == IsValid(index, numberOfBatteries)
         validNow == IsValid(i, numberOfBatteries)
         differing == [client EXCEPT !.values =
                         [f \in Field |-> IF stored[i][f] # stored[index][f]
                                          THEN stored[i][f] ELSE @[f]]]
     IN client' = Validated(IF validBefore /\ validNow THEN differing ELSE client,
                            validBefore, validNow, stored[i])
  /\ UNCHANGED <<batteries, numberOfBatteries, currentChargerType, stored, crashed>>

BatteriesChange(answers) ==
  /\ changes < MaxChanges /\ changes' = changes + 1
  /\ answers # batteries /\ batteries' = answers
  /\ UNCHANGED <<index, numberOfBatteries, currentChargerType, stored, client,
                 crashed>>

Next ==
  \/ Timeout
  \/ \E i \in Index : SetBatteryIndex(i)
  \/ \E answers \in Answers : BatteriesChange(answers)

Spec == Init /\ [][Next]_vars
-----------------------------------------------------------------------------
\* Whoever reads a battery once it is valid, and follows the signals, has what
\* the getters answer.
SignalsFollow == client.told => client.values = stored[index]

\* "The first battery is represented by 0", and a valid index is below the number
\* of batteries: of a valid index something is known.
\* (The code does not keep it; no run checks it.)
ValidIsServed == IsValid(index, numberOfBatteries) => stored[index] # Zeros
=============================================================================
