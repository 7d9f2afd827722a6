-------------------------------- MODULE BatteryProofs --------------------------------
(***************************************************************************)
(* Proofs about the battery information of QtSystemInfo, by each of the    *)
(* four ways it is come by, for any batteries, readings and lists: each    *)
(* has an inductive invariant.  SystemInfoProofs makes theorems of them.   *)
(***************************************************************************)
EXTENDS SystemInfo, FiniteSetTheorems, WellFoundedInduction, TLAPS

\* The least number of a set, and from it the induction the components need: over
\* a set of numbers, not over a predicate.
LEMMA LeastNat ==
  ASSUME NEW T, T \subseteq Nat, T # {}
  PROVE  \E x \in T : \A y \in T : x <= y
<1> DEFINE R == {ss \in Nat \X Nat : ss[1] < ss[2]}
<1>1. IsWellFoundedOn(R, Nat)
  BY NatLessThanWellFounded DEF OpToRel
<1> HIDE DEF R
<1>2. \E x \in T : \A y \in T : ~ (<<y, x>> \in R)
  BY <1>1, WFMin
<1>3. PICK x \in T : \A y \in T : ~ (<<y, x>> \in R)
  BY <1>2
<1>4. ASSUME NEW y \in T PROVE x <= y
  <2>1. ~ (<<y, x>> \in R)
    BY <1>3
  <2>2. y \in Nat /\ x \in Nat
    OBVIOUS
  <2> QED BY <2>1, <2>2 DEF R
<1> QED BY <1>4

LEMMA SetInduction ==
  ASSUME NEW P, P \subseteq Nat, 0 \in P, \A n \in P : n + 1 \in P
  PROVE  P = Nat
<1>1. CASE Nat \ P = {}
  BY <1>1
<1>2. CASE Nat \ P # {}
  <2>1. PICK x \in Nat \ P : \A y \in Nat \ P : x <= y
    BY <1>2, LeastNat
  <2>2. x - 1 \in P
    BY <2>1
  <2> QED BY <2>1, <2>2
<1> QED BY <1>1, <1>2

\* A function on 0 .. N, from a first value and a function that leads from each to the next.
Recursive(S, s0, g, N) == s0 \in S /\ g \in [Nat \X S -> S] /\ N \in Nat
Iterates(f, S, s0, g, N) ==
  f \in [0 .. N -> S] /\ f[0] = s0 /\ \A n \in 1 .. N : f[n] = g[<<n, f[n - 1]>>]

LEMMA Recursion ==
  ASSUME NEW S, NEW s0, NEW g, NEW N, Recursive(S, s0, g, N)
  PROVE  \E f : Iterates(f, S, s0, g, N)
<1>0. s0 \in S /\ g \in [Nat \X S -> S] /\ N \in Nat
  BY DEF Recursive
<1> DEFINE Has(n) == \E f \in [0 .. n -> S] :
                       f[0] = s0 /\ \A k \in 1 .. n : f[k] = g[<<k, f[k - 1]>>]
           P == {n \in Nat : Has(n)}
<1>1. 0 \in P
  <2> DEFINE f == [k \in 0 .. 0 |-> s0]
  <2>1. f \in [0 .. 0 -> S] /\ f[0] = s0
    BY <1>0
  <2> HIDE DEF f
  <2>2. Has(0)
    BY <2>1
  <2> QED BY <2>2
<1>2. ASSUME NEW n \in P PROVE n + 1 \in P
  <2>1. PICK f \in [0 .. n -> S] : f[0] = s0 /\ \A k \in 1 .. n : f[k] = g[<<k, f[k - 1]>>]
    OBVIOUS
  <2>2. n \in Nat /\ f[n] \in S
    BY <2>1
  <2> DEFINE h == [k \in 0 .. n + 1 |-> IF k = n + 1 THEN g[<<n + 1, f[n]>>] ELSE f[k]]
  <2>3. g[<<n + 1, f[n]>>] \in S
    BY <1>0, <2>2
  <2>4. ASSUME NEW k \in 0 .. n + 1
        PROVE  h[k] \in S /\ (k # n + 1 => k \in 0 .. n /\ h[k] = f[k])
    BY <2>1, <2>2, <2>3
  <2>5. h \in [0 .. n + 1 -> S]
    BY <2>4
  <2>6. h[0] = s0
    BY <2>1, <2>2
  <2>9. h[n + 1] = g[<<n + 1, f[n]>>]
    BY <2>2
  <2> HIDE DEF h
  <2>7. ASSUME NEW k \in 1 .. n + 1 PROVE h[k] = g[<<k, h[k - 1]>>]
    <3>1. k - 1 \in 0 .. n + 1 /\ k - 1 # n + 1 /\ k \in 0 .. n + 1
      BY <2>2
    <3>2. h[k - 1] = f[k - 1]
      <4> DEFINE j == k - 1
      <4>1. j \in 0 .. n + 1 /\ j # n + 1
        BY <3>1
      <4> HIDE DEF j
      <4>2. h[j] = f[j]
        BY <2>4, <4>1
      <4> QED BY <4>2 DEF j
    <3>3. CASE k = n + 1
      BY <2>2, <2>9, <3>2, <3>3
    <3>4. CASE k # n + 1
      <4>1. k \in 1 .. n
        BY <2>2, <3>4
      <4>2. f[k] = g[<<k, f[k - 1]>>]
        BY <2>1, <4>1
      <4> QED BY <2>4, <3>1, <3>2, <3>4, <4>2
    <3> QED BY <3>3, <3>4
  <2>8. Has(n + 1)
    BY <2>5, <2>6, <2>7
  <2> QED BY <2>2, <2>8
<1>3. P \subseteq Nat
  OBVIOUS
<1>4. P = Nat
  <2> HIDE DEF P
  <2> QED BY <1>1, <1>2, <1>3, SetInduction
<1>5. N \in P
  BY <1>0, <1>4
<1> QED BY <1>5 DEF Iterates

\* The components count as this module does.
LEMMA SameCardinality ==
  \A S : /\ Net!Cardinality(S) = Cardinality(S) /\ Bat!Cardinality(S) = Cardinality(S)
         /\ UPower!Cardinality(S) = Cardinality(S) /\ Inp!Cardinality(S) = Cardinality(S)
         /\ WinNet!Cardinality(S) = Cardinality(S)
<1>1. \A S : Net!Cardinality(S) = Cardinality(S)
  BY DEF Net!Cardinality, Cardinality
<1>2. \A S : Bat!Cardinality(S) = Cardinality(S)
  BY DEF Bat!Cardinality, Cardinality
<1>3. \A S : UPower!Cardinality(S) = Cardinality(S)
  BY DEF UPower!Cardinality, Cardinality
<1>4. \A S : Inp!Cardinality(S) = Cardinality(S)
  BY DEF Inp!Cardinality, Cardinality
<1>5. \A S : WinNet!Cardinality(S) = Cardinality(S)
  BY DEF WinNet!Cardinality, Cardinality
<1> QED BY <1>1, <1>2, <1>3, <1>4, <1>5
-----------------------------------------------------------------------------
(***************************************************************************)
(* The battery information on Linux: whatever connects and disconnects,    *)
(* what a connected signal needs is watched or polled for, and the values  *)
(* kept are those told.                                                    *)
(***************************************************************************)
\* What is counted for whom, and what was told.
Forced == battery.force => "batteryCount" \notin batSignals
ForcedFor == "valid" \in batSignals /\ "batteryCount" \notin batSignals => battery.force
BatToldAll ==
  \A signal \in batSignals \cap (Kind \cup {"chargerType"}) :
    batTold[signal] # Bat!Untold => batTold[signal] = Bat!Reads(battery, signal)
BatInv == Bat!TypeOK /\ Bat!WatchesServed /\ Forced /\ ForcedFor /\ BatToldAll

LEMMA BatInvReads == BatInv => Bat!ReadsMatchReports
  BY DEF BatInv, BatToldAll, Bat!ReadsMatchReports

\* A function on 1 .. n is a sequence of length n.
LEMMA SequenceOf ==
  ASSUME NEW S, NEW n \in Nat, NEW s \in [1 .. n -> S]
  PROVE  s \in Seq(S) /\ Len(s) = n
OBVIOUS

LEMMA KindsApart ==
  /\ "valid" \notin Kind /\ "batteryCount" \notin Kind /\ "chargerType" \notin Kind
  /\ "level" \notin Kind
  BY BatteryAssumption

LEMMA CountTyped ==
  ASSUME Bat!TypeOK
  PROVE  Bat!GetBatteryCount \in 0 .. Bat!Cardinality(Battery) /\ Bat!Cardinality(Battery) \in Nat
<1>1. IsFiniteSet(Battery) /\ batBatteries \subseteq Battery
  BY BatteryAssumption DEF Bat!TypeOK
<1>2. Bat!Cardinality(batBatteries) <= Bat!Cardinality(Battery) /\ IsFiniteSet(batBatteries)
  BY <1>1, FS_Subset, SameCardinality
<1>3. Bat!Cardinality(batBatteries) \in Nat /\ Bat!Cardinality(Battery) \in Nat
  BY <1>1, <1>2, FS_CardinalityType, SameCardinality
<1> QED BY <1>2, <1>3 DEF Bat!GetBatteryCount

\* What a read of a watched property returns is what is kept.
Kept(d, kind) == IF d.index \in Battery THEN d.cache[kind][d.index] ELSE Bat!DefaultOf(kind)

LEMMA ReadsKept ==
  ASSUME NEW d, NEW kind \in Kind, kind \in d.watch
  PROVE  Bat!Reads(d, kind) = <<Kept(d, kind)>>
<1>1. kind # "valid" /\ kind # "batteryCount" /\ kind # "chargerType"
  BY KindsApart
<1>2. Bat!Reads(d, kind) = <<Bat!Read(d, kind, d.index)>>
  BY <1>1 DEF Bat!Reads
<1>3. Bat!Read(d, kind, d.index) = Kept(d, kind)
  BY DEF Bat!Read, Kept
<1> QED BY <1>2, <1>3

LEMMA ReadsCharger ==
  ASSUME NEW d, "chargerType" \in d.watch
  PROVE  Bat!Reads(d, "chargerType") = <<d.charger>>
<1>1. Bat!Reads(d, "chargerType") = <<IF "chargerType" \in d.watch THEN d.charger
      ELSE Bat!GetChargerType>>
  BY KindsApart DEF Bat!Reads
<1> QED BY <1>1

\* ToldAll in terms of what is kept.
KeptTold(ss, t, d) ==
  /\ \A kind \in ss \cap Kind : t[kind] # Bat!Untold => t[kind] = <<Kept(d, kind)>>
  /\ "chargerType" \in ss /\ t["chargerType"] # Bat!Untold => t["chargerType"] = <<d.charger>>

BatToldIs ==
  batSignals \subseteq Bat!Signals /\ batSignals \ {"level"} \subseteq battery.watch
    => (BatToldAll <=> KeptTold(batSignals, batTold, battery))

LEMMA ToldIsKept == BatToldIs
<1> SUFFICES ASSUME batSignals \subseteq Bat!Signals, batSignals \ {"level"} \subseteq battery.watch
    PROVE  BatToldAll <=> KeptTold(batSignals, batTold, battery)
  BY DEF BatToldIs
<1>1. \A kind \in batSignals \cap Kind : Bat!Reads(battery, kind) = <<Kept(battery, kind)>>
  <2>1. SUFFICES ASSUME NEW kind \in batSignals \cap Kind PROVE Bat!Reads(battery,
                        kind) = <<Kept(battery, kind)>>
    OBVIOUS
  <2>2. kind \in battery.watch
    BY KindsApart
  <2> QED BY <2>2, ReadsKept
<1>2. "chargerType" \in batSignals => Bat!Reads(battery, "chargerType") = <<battery.charger>>
  BY ReadsCharger
<1>3. \A signal \in batSignals \cap (Kind \cup {"chargerType"}) : signal \in batSignals \cap Kind \/ signal = "chargerType"
  OBVIOUS
<1> QED BY <1>1, <1>2, <1>3 DEF BatToldAll, KeptTold

LEMMA ToldIsKeptPrimed ==
  ASSUME batSignals' \subseteq Bat!Signals, batSignals' \ {"level"} \subseteq battery'.watch,
         KeptTold(batSignals', batTold', battery')
  PROVE  BatToldAll'
<1>1. BatToldIs'
  BY ToldIsKept, PTL
<1>2. KeptTold(batSignals, batTold, battery)' <=> KeptTold(batSignals', batTold', battery')
  BY DEF KeptTold, Kept
<1> QED BY <1>1, <1>2 DEF BatToldIs

LEMMA BatGetTyped ==
  ASSUME Bat!TypeOK, NEW d \in Bat!Info, NEW kind \in Kind, NEW b \in Battery
  PROVE  Bat!Get(d, kind, b) \in Bat!Value
<1>1. batCondition[b] \in [state : Bat!Charge, raw : Int]
  BY BatteryAssumption DEF Bat!TypeOK
<1> DEFINE state == batCondition[b].state
           raw == batCondition[b].raw
<1>2. state \in Bat!Charge /\ raw \in Int
  BY <1>1
<1>3. Bat!GetChargingState(b) \in Bat!Charge
  BY <1>2 DEF Bat!GetChargingState, Bat!Charge
<1>4. Bat!ChargingState(d, b) \in Bat!Value
  BY <1>3 DEF Bat!ChargingState, Bat!Info, Bat!Value
<1> HIDE DEF state, raw
<1>5. Bat!GetCurrentFlow(d, b) \in Int
  <2> DEFINE size == IF raw < 0 THEN -raw ELSE raw
  <2>1. size \in Int /\ -size \in Int
    BY <1>2
  <2>2. Bat!GetCurrentFlow(d, b) \in {0, size, -size}
    <3> HIDE DEF size
    <3> USE DEF size, raw
    <3> QED BY DEF Bat!GetCurrentFlow
  <2> HIDE DEF size
  <2> QED BY <2>1, <2>2
<1>6. Bat!GetRemainingChargingTime(d, b) \in Int
  <2>1. Bat!GetRemainingChargingTime(d, b) \in {-1, 0, raw}
    BY DEF Bat!GetRemainingChargingTime, raw
  <2> QED BY <1>2, <2>1
<1>7. CASE kind = "chargingState"
  BY <1>3, <1>7 DEF Bat!Get, Bat!Value
<1>8. CASE kind = "currentFlow"
  BY <1>5, <1>8 DEF Bat!Get, Bat!Value
<1>9. CASE kind = "remainingChargingTime"
  BY <1>6, <1>9 DEF Bat!Get, Bat!Value
<1>10. CASE kind = "levelStatus"
  BY <1>2, <1>10 DEF Bat!Get, Bat!Value, Bat!Charge, state
<1>11. CASE kind \in {"remainingCapacity", "voltage"}
  BY <1>2, <1>11 DEF Bat!Get, Bat!Value, raw
<1> QED BY <1>7, <1>8, <1>9, <1>10, <1>11, BatteryAssumption

LEMMA ChargerTyped ==
  /\ Bat!GetChargerType \in Bat!Charger
  /\ \A c : Bat!ChargerOf(c) \in Bat!Charger
  BY DEF Bat!GetChargerType, Bat!ChargerOf, Bat!Charger

-----------------------------------------------------------------------------
\* What the rest of Inv says of signals, the watch flags, the wires and the counts.
Served(ss, d, made) ==
  /\ ss \subseteq Bat!Signals
  /\ ss \ {"level"} \subseteq d.watch
  /\ d.watch \subseteq ss \cup (IF "valid" \in ss THEN {"batteryCount"} ELSE {})
  /\ "valid" \in d.watch => "batteryCount" \in d.watch
  /\ udevBuild =>
       /\ d.watch # {} => made
       /\ Bat!DataWatch(d) # {} => d.dataWires > 0
       /\ "chargerType" \in d.watch => d.chargerWires > 0
  /\ ~udevBuild => (d.watch # {} => d.timer)
  /\ d.force => "batteryCount" \notin ss
  /\ "valid" \in ss /\ "batteryCount" \notin ss => d.force

\* And what TypeOK says of the rest.
Typed(d) == d \in Bat!Info /\ d.count \in -1 .. Bat!Cardinality(Battery)
World0 ==
  /\ udevBuild \in UdevBuild
  /\ batBatteries \subseteq Battery /\ batCondition \in [Battery -> BatCondition]
  /\ supply \in Supply
  /\ events \in Seq([charger : {"none", "AC", "USB"}, battery : Battery \cup {-1}])
  /\ batChanges \in 0 .. MaxBatChanges

InvParts ==
  /\ World0 /\ Typed(battery) /\ udev \in Bat!Wrapper /\ batTold = [signal \in Bat!Signals |-> batTold[signal]]
  /\ Served(batSignals, battery, udev.made) /\ KeptTold(batSignals, batTold, battery)

LEMMA BatInvIs == BatInv <=> InvParts
<1>1. BatInv => InvParts
  <2> SUFFICES ASSUME BatInv PROVE InvParts
    OBVIOUS
  <2>1. World0 /\ Typed(battery) /\ udev \in Bat!Wrapper /\ batTold = [signal \in Bat!Signals |-> batTold[signal]]
    BY DEF BatInv, Bat!TypeOK, World0, Typed
  <2>2. Served(batSignals, battery, udev.made)
    BY DEF BatInv, Bat!TypeOK, Bat!WatchesServed, Forced, ForcedFor, Served
  <2>3. KeptTold(batSignals, batTold, battery)
    BY ToldIsKept DEF BatInv, Bat!TypeOK, Bat!WatchesServed, BatToldIs
  <2> QED BY <2>1, <2>2, <2>3 DEF InvParts
<1>2. InvParts => BatInv
  <2> SUFFICES ASSUME InvParts PROVE BatInv
    OBVIOUS
  <2>1. Bat!TypeOK
    BY DEF InvParts, Bat!TypeOK, World0, Typed, Served
  <2>2. Bat!WatchesServed /\ Forced /\ ForcedFor
    BY DEF InvParts, Bat!WatchesServed, Forced, ForcedFor, Served
  <2>3. BatToldAll
    BY ToldIsKept DEF InvParts, Served, BatToldIs
  <2> QED BY <2>1, <2>2, <2>3 DEF BatInv
<1> QED BY <1>1, <1>2

LEMMA PartsPrimed ==
  ASSUME World0', Typed(battery'), udev' \in Bat!Wrapper, batTold' = [signal \in Bat!Signals |-> batTold'[signal]],
         Served(batSignals', battery', udev'.made), UNCHANGED udevBuild,
         KeptTold(batSignals', batTold', battery')
  PROVE  BatInv'
<1>1. (BatInv <=> InvParts)'
  BY BatInvIs, PTL
<1>2. Served(batSignals', battery', udev'.made) => Served(batSignals, battery, udev.made)'
  BY DEF Served, Bat!DataWatch
<1>3. KeptTold(batSignals', batTold', battery') => KeptTold(batSignals, batTold, battery)'
  BY DEF KeptTold, Kept
<1>4. Typed(battery') => Typed(battery)'
  BY DEF Typed
<1> QED BY <1>1, <1>2, <1>3, <1>4 DEF InvParts

LEMMA BatInitInv == Bat!Init => BatInv
<1> SUFFICES ASSUME Bat!Init PROVE BatInv
  OBVIOUS
<1>1. World0
  BY BatteryAssumption DEF Bat!Init, World0
<1>2. PICK i \in BatIndex :
        battery = [watch |-> {}, force |-> FALSE, count |-> -1, index |-> i,
                   charger |-> "Unknown", cache |-> Bat!NoReadings,
                   maximum |-> [b \in Battery |-> 0],
                   dataWires |-> 0, chargerWires |-> 0, timer |-> FALSE]
  BY DEF Bat!Init
<1>3. Bat!NoReadings \in [Kind -> [Battery -> Bat!Value]]
  BY DEF Bat!NoReadings, Bat!DefaultOf, Bat!Value, Bat!Charge
<1>4. Typed(battery)
  <2>1. [b \in Battery |-> 0] \in [Battery -> Int]
    OBVIOUS
  <2>2. -1 \in -1 .. Bat!Cardinality(Battery)
    BY BatteryAssumption, FS_CardinalityType, SameCardinality
  <2> DEFINE m == [b \in Battery |-> 0]
  <2>3. m \in [Battery -> Int] /\ battery.maximum = m
    BY <1>2, <2>1
  <2> HIDE DEF m
  <2> HIDE DEF Bat!NoReadings
  <2>4. battery \in Bat!Info
    BY <1>2, <1>3, <2>3 DEF Bat!Info, Bat!Charger
  <2> QED BY <1>2, <2>2, <2>4 DEF Typed
<1>5. udev \in Bat!Wrapper
  BY DEF Bat!Init, Bat!NoUDevWrapper, Bat!Wrapper
<1>6. Served(batSignals, battery, udev.made)
  <2>1. batSignals = {} /\ battery.watch = {} /\ ~battery.force
    BY <1>2 DEF Bat!Init
  <2> QED BY <2>1 DEF Served, Bat!DataWatch
<1>7. KeptTold(batSignals, batTold, battery)
  BY DEF Bat!Init, KeptTold
<1>8. batTold = [signal \in Bat!Signals |-> batTold[signal]]
  BY DEF Bat!Init
<1>9. InvParts
  BY <1>1, <1>4, <1>5, <1>6, <1>7, <1>8 DEF InvParts
<1> QED BY <1>9, BatInvIs

\* What a slot is told of keeps in step with what is kept.
LEMMA TellKeeps ==
  ASSUME NEW news, Bat!Tell(news), KeptTold(batSignals, batTold, battery), UNCHANGED batSignals,
         \A kind \in batSignals \cap Kind :
           IF news[kind] = Bat!Untold THEN Kept(battery', kind) = Kept(battery, kind)
                                  ELSE news[kind] = <<Kept(battery', kind)>>,
         "chargerType" \in batSignals =>
           IF news["chargerType"] = Bat!Untold THEN battery'.charger = battery.charger
                                           ELSE news["chargerType"] = <<battery'.charger>>,
         batSignals \subseteq Bat!Signals
  PROVE  KeptTold(batSignals', batTold', battery') /\ batTold' = [signal \in Bat!Signals |-> batTold'[signal]]
<1>1. \A signal \in batSignals : batTold'[signal] = IF news[signal] # Bat!Untold THEN news[signal]
                                 ELSE batTold[signal]
  BY DEF Bat!Tell
<1>2. batTold' = [signal \in Bat!Signals |-> batTold'[signal]]
  BY DEF Bat!Tell
<1>3. \A kind \in batSignals' \cap Kind : batTold'[kind] # Bat!Untold
                                          => batTold'[kind] = <<Kept(battery', kind)>>
  BY <1>1 DEF KeptTold
<1>4. "chargerType" \in batSignals' /\ batTold'["chargerType"] # Bat!Untold
      => batTold'["chargerType"] = <<battery'.charger>>
  BY <1>1 DEF KeptTold
<1> QED BY <1>2, <1>3, <1>4 DEF KeptTold

LEMMA ConstantTyped ==
  /\ \A d \in Bat!Info : d.watch \subseteq Kind \cup {"batteryCount", "chargerType", "valid"}
  /\ \A kind \in Kind : Bat!DefaultOf(kind) \in Bat!Value
  /\ \A kind \in Kind : Bat!NoReadings[kind] \in [Battery -> Bat!Value]
<1>1. \A d \in Bat!Info : d.watch \subseteq Kind \cup {"batteryCount", "chargerType", "valid"}
  BY DEF Bat!Info
<1>2. \A kind \in Kind : Bat!DefaultOf(kind) \in Bat!Value
  BY DEF Bat!DefaultOf, Bat!Value, Bat!Charge
<1>3. \A kind \in Kind : Bat!NoReadings[kind] \in [Battery -> Bat!Value]
  <2> HIDE DEF Bat!DefaultOf
  <2> QED BY <1>2 DEF Bat!NoReadings
<1> QED BY <1>1, <1>2, <1>3

\* The record but for its watch flags, readings and charger.
SameRest(d, e) ==
  /\ d.index = e.index /\ d.maximum = e.maximum /\ d.force = e.force
  /\ d.dataWires = e.dataWires /\ d.chargerWires = e.chargerWires /\ d.timer = e.timer

LEMMA RecountedTyped ==
  ASSUME Bat!TypeOK
  PROVE  /\ Typed(Bat!Recounted(battery)) /\ SameRest(Bat!Recounted(battery), battery)
         /\ Bat!Recounted(battery).watch = battery.watch /\ Bat!Recounted(battery).cache = battery.cache
         /\ Bat!Recounted(battery).charger = battery.charger
<1>0. battery \in Bat!Info /\ Typed(battery)
  BY DEF Bat!TypeOK, Typed
<1>1. Bat!GetBatteryCount \in Int /\ Bat!GetBatteryCount \in -1 .. Bat!Cardinality(Battery)
  BY CountTyped
<1> DEFINE c == Bat!GetBatteryCount
<1>2. CASE "batteryCount" \in battery.watch
  <2>1. Bat!Recounted(battery) = [battery EXCEPT !.count = c]
    BY <1>2 DEF Bat!Recounted
  <2>2. c \in Int /\ c \in -1 .. Bat!Cardinality(Battery)
    BY <1>1
  <2> HIDE DEF c
  <2> QED BY <1>0, <2>1, <2>2 DEF Typed, Bat!Info, SameRest
<1>3. CASE "batteryCount" \notin battery.watch
  BY <1>0, <1>3 DEF Bat!Recounted, SameRest
<1> QED BY <1>2, <1>3

\* What Taking does to the record and to those who follow a property.
LEMMA TakingKeeps ==
  ASSUME Bat!TypeOK, batSignals \ {"level"} \subseteq battery.watch, NEW bs, NEW reading,
         \A kind \in Kind, b \in Battery : b \in bs => reading[<<kind, b>>] \in Bat!Value
  PROVE  /\ Typed(Bat!Taking(bs, reading).info)
         /\ SameRest(Bat!Taking(bs, reading).info, battery)
         /\ Bat!Taking(bs, reading).info.watch = battery.watch
         /\ Bat!Taking(bs, reading).info.charger = battery.charger
         /\ Bat!Taking(bs, reading).news = [signal \in Bat!Signals |-> Bat!Taking(bs,
            reading).news[signal]]
         /\ \A kind \in batSignals \cap Kind :
              IF Bat!Taking(bs, reading).news[kind] = Bat!Untold
              THEN Kept(Bat!Taking(bs, reading).info, kind) = Kept(battery, kind)
              ELSE Bat!Taking(bs, reading).news[kind] = <<Kept(Bat!Taking(bs, reading).info, kind)>>
<1> DEFINE counted == Bat!Recounted(battery)
           cache == [kind \in Kind |-> [b \in Battery |->
                       IF kind \in counted.watch /\ b \in bs THEN reading[<<kind, b>>]
                       ELSE counted.cache[kind][b]]]
           taken == [counted EXCEPT !.cache = cache]
           News(signal) ==
             CASE signal = "valid" ->
                    IF Bat!IsValid(counted) # Bat!IsValid(battery) THEN <<Bat!IsValid(counted)>>
                      ELSE Bat!Untold
               [] signal = "batteryCount" ->
                    IF counted.count # battery.count THEN <<counted.count>> ELSE Bat!Untold
               [] signal \in Kind ->
                    IF signal \in counted.watch /\ Bat!Reads(taken, signal) # Bat!Reads(counted,
                      signal)
                      THEN Bat!Reads(taken, signal) ELSE Bat!Untold
               [] OTHER -> Bat!Untold
           news == [signal \in Bat!Signals |-> News(signal)]
<1>1. Bat!Taking(bs, reading) = [info |-> taken, news |-> news]
  BY DEF Bat!Taking
<1>2. /\ Typed(counted) /\ SameRest(counted, battery) /\ counted.watch = battery.watch
      /\ counted.cache = battery.cache /\ counted.charger = battery.charger
  BY RecountedTyped
<1> HIDE DEF counted
<1>3. cache \in [Kind -> [Battery -> Bat!Value]]
  <2>1. ASSUME NEW kind \in Kind, NEW b \in Battery
        PROVE  (IF kind \in counted.watch /\ b \in bs THEN reading[<<kind, b>>]
                ELSE counted.cache[kind][b]) \in Bat!Value
    <3>1. counted.cache[kind][b] \in Bat!Value
      BY <1>2 DEF Typed, Bat!Info
    <3> QED BY <3>1
  <2> QED BY <2>1
<1> HIDE DEF cache
<1>4. /\ Typed(taken) /\ SameRest(taken, battery) /\ taken.watch = battery.watch
      /\ taken.charger = battery.charger
  BY <1>2, <1>3 DEF Typed, Bat!Info, SameRest
<1> HIDE DEF taken
<1>5. ASSUME NEW kind \in batSignals \cap Kind
      PROVE  IF news[kind] = Bat!Untold THEN Kept(taken, kind) = Kept(battery, kind)
                                    ELSE news[kind] = <<Kept(taken, kind)>>
  <2>1. kind \in battery.watch /\ kind \in counted.watch /\ kind \in taken.watch
    BY <1>2, <1>4, KindsApart
  <2>2. Bat!Reads(taken, kind) = <<Kept(taken, kind)>> /\ Bat!Reads(counted,
        kind) = <<Kept(counted, kind)>>
    BY <2>1, ReadsKept
  <2>3. Kept(counted, kind) = Kept(battery, kind)
    BY <1>2 DEF Kept, SameRest
  <2>4. kind \in Bat!Signals /\ kind # "valid" /\ kind # "batteryCount"
    BY KindsApart DEF Bat!Signals
  <2>5. news[kind] = IF Bat!Reads(taken, kind) # Bat!Reads(counted, kind) THEN Bat!Reads(taken,
        kind) ELSE Bat!Untold
    BY <2>1, <2>4
  <2>6. <<Kept(taken, kind)>> # Bat!Untold
    BY DEF Bat!Untold
  <2> HIDE DEF news
  <2> QED BY <2>2, <2>3, <2>5, <2>6
<1>6. news = [signal \in Bat!Signals |-> news[signal]]
  OBVIOUS
<1> HIDE DEF news
<1> QED BY <1>1, <1>4, <1>5, <1>6

LEMMA ChargedTyped ==
  ASSUME NEW d, Typed(d), NEW charger \in Bat!Charger
  PROVE  /\ Typed(Bat!Charged(d, charger)) /\ SameRest(Bat!Charged(d, charger), d)
         /\ Bat!Charged(d, charger).watch = d.watch
         /\ \A kind \in Kind : Kept(Bat!Charged(d, charger), kind) = Kept(d, kind)
  BY DEF Typed, Bat!Info, Bat!Charged, SameRest, Kept

\* The rest of an action that takes news in: from t to d, the charger's may have changed.
LEMMA NewsKept ==
  ASSUME BatInv, NEW t, NEW d, t.news = [signal \in Bat!Signals |-> t.news[signal]],
         \A kind \in batSignals \cap Kind :
              IF t.news[kind] = Bat!Untold THEN Kept(t.info, kind) = Kept(battery, kind)
                                       ELSE t.news[kind] = <<Kept(t.info, kind)>>,
         \A kind \in Kind : Kept(d, kind) = Kept(t.info, kind),
         Typed(d), SameRest(d, battery), d.watch = battery.watch,
         battery' = d, Bat!Tell(Bat!ChargerNews(t, d)), World0', UNCHANGED <<udevBuild, batSignals,
           udev>>
  PROVE  BatInv'
<1> DEFINE news == Bat!ChargerNews(t, d)
<1>0. InvParts
  BY BatInvIs
<1>1. batSignals \subseteq Bat!Signals /\ "chargerType" \in Bat!Signals
  BY <1>0 DEF InvParts, Served, Bat!Signals, Bat!Whole
<1>2. \A kind \in Kind : news[kind] = t.news[kind]
  BY KindsApart DEF Bat!ChargerNews, Bat!Signals
<1>3. news["chargerType"] = IF d.charger # battery.charger THEN <<d.charger>> ELSE Bat!Untold
  BY <1>1 DEF Bat!ChargerNews
<1>4. Bat!Tell(news)
  OBVIOUS
<1> HIDE DEF news
<1>5. <<d.charger>> # Bat!Untold
  BY DEF Bat!Untold
<1>6. KeptTold(batSignals, batTold, battery)
  BY <1>0 DEF InvParts
<1>7. \A kind \in batSignals \cap Kind :
         IF news[kind] = Bat!Untold THEN Kept(battery', kind) = Kept(battery, kind)
                                ELSE news[kind] = <<Kept(battery', kind)>>
  BY <1>2
<1>8. IF news["chargerType"] = Bat!Untold THEN battery'.charger = battery.charger
                                      ELSE news["chargerType"] = <<battery'.charger>>
  BY <1>3, <1>5
<1>9. KeptTold(batSignals', batTold', battery') /\ batTold' = [signal \in Bat!Signals |-> batTold'[signal]]
  <2>1. batSignals' = batSignals
    OBVIOUS
  <2> QED BY ONLY <2>1, <1>1, <1>4, <1>6, <1>7, <1>8, TellKeeps
<1>10. Served(batSignals', battery', udev'.made)
  BY <1>0 DEF InvParts, Served, SameRest, Bat!DataWatch
<1>11. Typed(battery') /\ udev' \in Bat!Wrapper
  BY <1>0 DEF InvParts
<1> QED BY <1>9, <1>10, <1>11, PartsPrimed

LEMMA EventReadingTyped ==
  ASSUME Bat!TypeOK, NEW kind \in Kind, NEW b \in Battery
  PROVE  Bat!EventReading(battery, kind, b) \in Bat!Value
<1>1. batCondition[b].raw \in Int /\ -batCondition[b].raw \in Int
  BY BatteryAssumption DEF Bat!TypeOK
<1>2. Bat!Get(battery, kind, b) \in Bat!Value
  BY BatGetTyped DEF Bat!TypeOK
<1> DEFINE raw == batCondition[b].raw
           minus == -batCondition[b].raw
<1>3. Bat!EventReading(battery, kind, b) \in {raw, minus, Bat!Get(battery, kind, b)}
  <2> HIDE DEF Bat!Get
  <2> QED BY DEF Bat!EventReading
<1> HIDE DEF raw, minus
<1>4. raw \in Bat!Value /\ minus \in Bat!Value
  BY <1>1 DEF raw, minus, Bat!Value
<1> QED BY <1>2, <1>3, <1>4

LEMMA EventPreserves ==
  ASSUME BatInv, Bat!OnUDevChanges
  PROVE  BatInv'
<1> DEFINE event == Head(events)
           quiet == [info |-> battery, news |-> Bat!NoNews]
           reading == [p \in Kind \X {event.battery} |-> Bat!EventReading(battery, p[1], p[2])]
           takes == event.charger = "none" /\ event.battery \in batBatteries
             /\ battery.dataWires > 0
           taken == IF takes THEN Bat!Taking({event.battery}, reading) ELSE quiet
           d == IF event.charger = "none" \/ battery.chargerWires = 0 THEN taken.info
                ELSE Bat!Charged(taken.info, Bat!ChargerOf(event.charger))
<1>0. /\ Bat!TypeOK /\ batSignals \ {"level"} \subseteq battery.watch
      /\ batBatteries \subseteq Battery
      /\ Typed(battery)
  BY DEF BatInv, Bat!TypeOK, Bat!WatchesServed, Typed
<1>1. \A kind \in Kind, b \in Battery : b \in {event.battery} => reading[<<kind, b>>] \in Bat!Value
  <2> SUFFICES ASSUME NEW kind \in Kind, NEW b \in Battery, b \in {event.battery}
               PROVE  reading[<<kind, b>>] \in Bat!Value
    OBVIOUS
  <2>1. reading[<<kind, b>>] = Bat!EventReading(battery, kind, b)
    OBVIOUS
  <2> QED BY <1>0, <2>1, EventReadingTyped
<1> HIDE DEF reading
<1>2. /\ Typed(taken.info) /\ SameRest(taken.info, battery) /\ taken.info.watch = battery.watch
      /\ taken.news = [signal \in Bat!Signals |-> taken.news[signal]]
      /\ \A kind \in batSignals \cap Kind :
            IF taken.news[kind] = Bat!Untold THEN Kept(taken.info, kind) = Kept(battery, kind)
            ELSE taken.news[kind] = <<Kept(taken.info, kind)>>
  <2>1. CASE takes
    <3>1. taken = Bat!Taking({event.battery}, reading)
      BY <2>1
    <3> HIDE DEF taken, event
    <3>2. \A kind \in Kind, b \in Battery : b \in {event.battery} => reading[<<kind,
                                            b>>] \in Bat!Value
      BY <1>1
    <3> DEFINE bs == {event.battery}
    <3>3. \A kind \in Kind, b \in Battery : b \in bs => reading[<<kind, b>>] \in Bat!Value
      BY <3>2
    <3>4. taken = Bat!Taking(bs, reading)
      BY <3>1
    <3> HIDE DEF bs
    <3> QED BY <1>0, <3>3, <3>4, TakingKeeps
  <2>2. CASE ~takes
    <3>1. taken = quiet
      BY <2>2
    <3>2. quiet.info = battery /\ quiet.news = Bat!NoNews
      OBVIOUS
    <3>3. /\ \A kind \in batSignals \cap Kind : Bat!NoNews[kind] = Bat!Untold
          /\ Bat!NoNews = [signal \in Bat!Signals |-> Bat!NoNews[signal]]
      BY DEF Bat!NoNews, Bat!Signals
    <3> HIDE DEF taken, quiet
    <3> QED BY <1>0, <3>1, <3>2, <3>3 DEF SameRest
  <2> QED BY <2>1, <2>2
<1>3. battery' = d /\ Bat!Tell(Bat!ChargerNews(taken, d))
  BY DEF Bat!OnUDevChanges, reading
<1> HIDE DEF taken
<1>4. /\ \A kind \in Kind : Kept(d, kind) = Kept(taken.info, kind)
      /\ Typed(d) /\ SameRest(d, battery) /\ d.watch = battery.watch
  <2>1. CASE event.charger = "none" \/ battery.chargerWires = 0
    BY <1>2, <2>1
  <2>2. CASE ~(event.charger = "none" \/ battery.chargerWires = 0)
    <3>1. d = Bat!Charged(taken.info, Bat!ChargerOf(event.charger))
      BY <2>2
    <3>2. Bat!ChargerOf(event.charger) \in Bat!Charger
      BY ChargerTyped
    <3> HIDE DEF d, event
    <3> QED BY <1>2, <3>1, <3>2, ChargedTyped DEF SameRest
  <2> QED BY <2>1, <2>2
<1> HIDE DEF d, event
<1>5. World0'
  <2>1. events' \in Seq([charger : {"none", "AC", "USB"}, battery : Battery \cup {-1}])
    BY <1>0 DEF Bat!OnUDevChanges, Bat!TypeOK
  <2> QED BY <1>0, <2>1 DEF Bat!OnUDevChanges, Bat!TypeOK, World0, Bat!world
<1>6. UNCHANGED <<udevBuild, batSignals, udev>>
  BY DEF Bat!OnUDevChanges
<1> QED BY <1>2, <1>3, <1>4, <1>5, <1>6, NewsKept

LEMMA BatTimeoutPreserves ==
  ASSUME BatInv, Bat!OnTimeout
  PROVE  BatInv'
<1> DEFINE there == {b \in Battery : b < Bat!GetBatteryCount}
           reading == [p \in Kind \X there |-> Bat!Get(battery, p[1], p[2])]
           taken == Bat!Taking(there, reading)
           d == IF Bat!GetBatteryCount = 0 THEN taken.info ELSE Bat!Charged(taken.info,
             Bat!GetChargerType)
<1>0. /\ Bat!TypeOK /\ batSignals \ {"level"} \subseteq battery.watch /\ battery \in Bat!Info
      /\ Typed(battery)
  BY DEF BatInv, Bat!TypeOK, Bat!WatchesServed, Typed
<1>1. \A kind \in Kind, b \in Battery : b \in there => reading[<<kind, b>>] \in Bat!Value
  <2> SUFFICES ASSUME NEW kind \in Kind, NEW b \in Battery, b \in there
               PROVE  reading[<<kind, b>>] \in Bat!Value
    OBVIOUS
  <2>1. reading[<<kind, b>>] = Bat!Get(battery, kind, b)
    OBVIOUS
  <2> QED BY <1>0, <2>1, BatGetTyped
<1>2. battery' = d /\ Bat!Tell(Bat!ChargerNews(taken, d))
  BY DEF Bat!OnTimeout
<1> HIDE DEF reading, there
<1>3. /\ Typed(taken.info) /\ SameRest(taken.info, battery) /\ taken.info.watch = battery.watch
      /\ taken.news = [signal \in Bat!Signals |-> taken.news[signal]]
      /\ \A kind \in batSignals \cap Kind :
            IF taken.news[kind] = Bat!Untold THEN Kept(taken.info, kind) = Kept(battery, kind)
            ELSE taken.news[kind] = <<Kept(taken.info, kind)>>
  BY <1>0, <1>1, TakingKeeps
<1> HIDE DEF taken
<1>4. /\ \A kind \in Kind : Kept(d, kind) = Kept(taken.info, kind)
      /\ Typed(d) /\ SameRest(d, battery) /\ d.watch = battery.watch
  <2>1. CASE Bat!GetBatteryCount = 0
    BY <1>3, <2>1
  <2>2. CASE Bat!GetBatteryCount # 0
    <3>1. d = Bat!Charged(taken.info, Bat!GetChargerType)
      BY <2>2
    <3>2. Bat!GetChargerType \in Bat!Charger
      BY ChargerTyped
    <3> HIDE DEF d, Bat!GetChargerType
    <3> QED BY <1>3, <3>1, <3>2, ChargedTyped DEF SameRest
  <2> QED BY <2>1, <2>2
<1> HIDE DEF d
<1>5. World0'
  BY <1>0 DEF Bat!OnTimeout, Bat!TypeOK, World0, Bat!world
<1>6. UNCHANGED <<udevBuild, batSignals, udev>>
  BY DEF Bat!OnTimeout
<1> QED BY <1>2, <1>3, <1>4, <1>5, <1>6, NewsKept

\* Actions that leave the record alone.
LEMMA QuietPreserves ==
  ASSUME BatInv, World0', UNCHANGED <<udevBuild, batSignals, battery, udev, batTold>>
  PROVE  BatInv'
<1>0. InvParts
  BY BatInvIs
<1> QED BY <1>0, PartsPrimed DEF InvParts

LEMMA BatWorldPreserves ==
  ASSUME BatInv, Bat!World \/ Bat!LoseEvent
  PROVE  BatInv'
<1>0. World0
  BY BatInvIs DEF InvParts
<1> DEFINE Event == [charger : {"none", "AC", "USB"}, battery : Battery \cup {-1}]
<1>1. CASE Bat!LoseEvent
  <2>1. events' \in Seq(Event)
    BY <1>0, <1>1 DEF Bat!LoseEvent, World0
  <2> QED BY <1>0, <1>1, <2>1, QuietPreserves DEF Bat!LoseEvent, World0, Bat!world
<1>2. ASSUME NEW event \in Event, Bat!Changing(event)
      PROVE  /\ events' \in Seq(Event) /\ batChanges' \in 0 .. MaxBatChanges
             /\ UNCHANGED <<udevBuild, batSignals, battery, udev, batTold>>
  <2>0. events \in Seq(Event)
    BY <1>0 DEF World0
  <2> HIDE DEF Event
  <2>1. events \in Seq(Event) /\ Append(events, event) \in Seq(Event)
    BY <2>0
  <2> QED BY <1>0, <1>2, <2>1, BatteryAssumption DEF Bat!Changing, World0
<1>3. ASSUME NEW b \in Battery, Bat!Insert(b) \/ Bat!Remove(b) \/ \E c \in BatCondition : Bat!Drain(b, c)
      PROVE  BatInv'
  <2>1. Bat!OfBattery(b) \in Event /\ Bat!Changing(Bat!OfBattery(b))
    BY <1>3 DEF Bat!OfBattery, Bat!Insert, Bat!Remove, Bat!Drain
  <2>2. /\ events' \in Seq(Event) /\ batChanges' \in 0 .. MaxBatChanges
        /\ UNCHANGED <<udevBuild, batSignals, battery, udev, batTold>>
    BY <1>2, <2>1
  <2>3. batBatteries' \subseteq Battery /\ batCondition' \in [Battery -> BatCondition]
        /\ supply' \in Supply
    BY <1>0, <1>3 DEF Bat!Insert, Bat!Remove, Bat!Drain, World0
  <2> QED BY <1>0, <2>2, <2>3, QuietPreserves DEF World0
<1>4. ASSUME NEW s \in Supply, Bat!SetSupply(s)
      PROVE  BatInv'
  <2>1. PICK event \in Event : Bat!Changing(event)
    <3>1. Bat!OfCharger("AC") \in Event /\ Bat!OfCharger("USB") \in Event
      BY DEF Bat!OfCharger
    <3> HIDE DEF Event
    <3> QED BY <1>4, <3>1 DEF Bat!SetSupply
  <2>2. /\ events' \in Seq(Event) /\ batChanges' \in 0 .. MaxBatChanges
        /\ UNCHANGED <<udevBuild, batSignals, battery, udev, batTold>>
    BY <1>2, <2>1
  <2>3. batBatteries' \subseteq Battery /\ batCondition' \in [Battery -> BatCondition]
        /\ supply' \in Supply
    BY <1>0, <1>4 DEF Bat!SetSupply, World0
  <2> QED BY <1>0, <2>2, <2>3, QuietPreserves DEF World0
<1> QED BY <1>1, <1>3, <1>4 DEF Bat!World

LEMMA WeighedTyped ==
  ASSUME NEW d, Typed(d), NEW bs
  PROVE  /\ Typed(Bat!Weighed(d, bs)) /\ Bat!Weighed(d, bs) = [d EXCEPT !.maximum = Bat!Weighed(d,
            bs).maximum]
         /\ Bat!Weighed(d, bs).maximum \in [Battery -> Int]
<1> DEFINE m == [b \in Battery |-> IF b \in bs THEN Bat!Maximum(d, b) ELSE d.maximum[b]]
<1>1. m \in [Battery -> Int]
  <2>1. \A b \in Battery : Bat!Maximum(d, b) \in Int /\ d.maximum[b] \in Int
    BY DEF Bat!Maximum, Bat!Full, Typed, Bat!Info
  <2> QED BY <2>1
<1>2. Bat!Weighed(d, bs) = [d EXCEPT !.maximum = m]
  BY DEF Bat!Weighed
<1> HIDE DEF m
<1> QED BY <1>1, <1>2 DEF Typed, Bat!Info

\* A change of the record's index or maxima.
SameKept(d, e) ==
  /\ d.watch = e.watch /\ d.cache = e.cache /\ d.charger = e.charger /\ d.force = e.force
  /\ d.dataWires = e.dataWires /\ d.chargerWires = e.chargerWires /\ d.timer = e.timer

LEMMA WeighedSame ==
  ASSUME NEW d, Typed(d), NEW bs
  PROVE  Typed(Bat!Weighed(d, bs)) /\ SameKept(Bat!Weighed(d, bs), d)
         /\ Bat!Weighed(d, bs).index = d.index
<1> DEFINE m == Bat!Weighed(d, bs).maximum
           w == Bat!Weighed(d, bs)
<1>1. w = [d EXCEPT !.maximum = m] /\ m \in [Battery -> Int] /\ Typed(w)
  BY WeighedTyped
<1> HIDE DEF m, w
<1>2. SameKept(w, d) /\ w.index = d.index
  BY <1>1 DEF Typed, Bat!Info, SameKept
<1> QED BY <1>1, <1>2 DEF w

LEMMA ReadLevelPreserves ==
  ASSUME BatInv, Bat!ReadLevel
  PROVE  BatInv'
<1>0. InvParts
  BY BatInvIs
<1> DEFINE w == Bat!Weighed(battery, {battery.index})
<1>1. Typed(w) /\ SameKept(w, battery) /\ w.index = battery.index
  BY <1>0, WeighedSame DEF InvParts
<1>2. battery' = w /\ UNCHANGED <<udevBuild, Bat!world, events, batSignals, udev, batTold,
      batChanges>>
  BY DEF Bat!ReadLevel
<1> HIDE DEF w
<1>3. World0'
  BY <1>0, <1>2 DEF InvParts, World0, Bat!world
<1>4. Served(batSignals', battery', udev'.made)
  BY <1>0, <1>1, <1>2 DEF InvParts, Served, SameKept, Bat!DataWatch
<1>5. KeptTold(batSignals', batTold', battery')
  BY <1>0, <1>1, <1>2 DEF InvParts, KeptTold, Kept, SameKept
<1> QED BY <1>0, <1>1, <1>2, <1>3, <1>4, <1>5, PartsPrimed DEF InvParts

LEMMA IndexPreserves ==
  ASSUME BatInv, NEW i \in BatIndex, Bat!SetBatteryIndex(i)
  PROVE  BatInv'
<1> DEFINE old == battery
           valid == Bat!IsValid(old)
           moved == [old EXCEPT !.index = i]
           now == Bat!IsValid(moved)
           News(signal) ==
             CASE signal = "valid" -> IF valid # now THEN <<now>> ELSE Bat!Untold
               [] signal \in Kind ->
                    IF now /\ (~valid \/ Bat!Reads(moved, signal) # Bat!Reads(old, signal))
                      THEN Bat!Reads(moved, signal) ELSE Bat!Untold
               [] signal = "level" ->
                    IF now /\ (~valid \/ Bat!Level(moved, i) # Bat!Level(moved, old.index))
                      THEN <<Bat!Level(moved, i)>> ELSE Bat!Untold
               [] OTHER -> Bat!Untold
           news == [signal \in Bat!Signals |-> News(signal)]
           weighed == Bat!Weighed(moved, IF valid THEN {i, old.index} ELSE {i})
<1>0. InvParts
  BY BatInvIs
<1>1. Typed(moved) /\ SameKept(moved, battery) /\ moved.index = i
  BY <1>0 DEF InvParts, Typed, Bat!Info, SameKept
<1>2. battery' = IF now THEN weighed ELSE moved
  BY DEF Bat!SetBatteryIndex
<1>3. IF now THEN Bat!Tell(news)
      ELSE batTold' = [signal \in Bat!Signals |->
                      IF signal \in Kind THEN Bat!Untold
                      ELSE IF signal \in batSignals /\ News(signal) # Bat!Untold THEN News(signal)
                      ELSE batTold[signal]]
  BY DEF Bat!SetBatteryIndex
<1>4. UNCHANGED <<udevBuild, Bat!world, events, batSignals, udev, batChanges>>
  BY DEF Bat!SetBatteryIndex
<1>5. News("chargerType") = Bat!Untold
  BY KindsApart
<1>6. \A kind \in Kind : News(kind) = IF now /\ (~valid \/ Bat!Reads(moved, kind) # Bat!Reads(old,
                         kind))
                                     THEN Bat!Reads(moved, kind) ELSE Bat!Untold
  BY KindsApart
<1>7. batSignals \subseteq Bat!Signals /\ \A kind \in batSignals \cap Kind : kind \in battery.watch
  BY <1>0, KindsApart DEF InvParts, Served
<1>8. \A kind \in batSignals \cap Kind : /\ Bat!Reads(moved, kind) = <<Kept(moved, kind)>>
                                     /\ Bat!Reads(old, kind) = <<Kept(old, kind)>>
  <2> SUFFICES ASSUME NEW kind \in batSignals \cap Kind
               PROVE  Bat!Reads(moved, kind) = <<Kept(moved, kind)>>
                      /\ Bat!Reads(old, kind) = <<Kept(old, kind)>>
    OBVIOUS
  <2>1. kind \in moved.watch /\ kind \in old.watch
    BY <1>1, <1>7 DEF SameKept
  <2> HIDE DEF moved
  <2> QED BY <2>1, ReadsKept
<1> HIDE DEF News, moved, now, valid
<1>9. Typed(battery') /\ SameKept(battery', battery) /\ battery'.index = i
  <2>1. Typed(weighed) /\ SameKept(weighed, moved) /\ weighed.index = moved.index
    BY <1>1, WeighedSame
  <2> HIDE DEF weighed
  <2> QED BY <1>1, <1>2, <2>1 DEF SameKept
<1>10. \A kind \in Kind : Kept(battery', kind) = Kept(moved, kind)
  BY <1>1, <1>9 DEF Kept, SameKept
<1>11. KeptTold(batSignals, batTold, battery)
  BY <1>0 DEF InvParts
<1>12. KeptTold(batSignals', batTold', battery') /\ batTold' = [signal \in Bat!Signals |-> batTold'[signal]]
  <2>0. battery'.charger = battery.charger
    BY <1>9 DEF SameKept
  <2>1. CASE now
    <3>1. Bat!Tell(news)
      BY <1>3, <2>1
    <3>2. \A signal \in Bat!Signals : news[signal] = News(signal)
      OBVIOUS
    <3> HIDE DEF news
    <3>3. batTold' = [signal \in Bat!Signals |-> batTold'[signal]] /\ \A signal \in batSignals :
              batTold'[signal] = IF News(signal) # Bat!Untold THEN News(signal) ELSE batTold[signal]
      BY <1>7, <3>1, <3>2 DEF Bat!Tell
    <3>4. ASSUME NEW kind \in batSignals \cap Kind, batTold'[kind] # Bat!Untold
          PROVE  batTold'[kind] = <<Kept(battery', kind)>>
      <4>1. CASE valid /\ Bat!Reads(moved, kind) = Bat!Reads(old, kind)
        <5>1. News(kind) = Bat!Untold
          BY <1>6, <4>1
        <5>2. batTold'[kind] = batTold[kind]
          BY <3>3, <5>1
        <5>3. batTold[kind] = <<Kept(battery, kind)>>
          BY <1>11, <3>4, <5>2 DEF KeptTold
        <5> QED BY <1>8, <1>10, <4>1, <5>2, <5>3
      <4>2. CASE ~(valid /\ Bat!Reads(moved, kind) = Bat!Reads(old, kind))
        <5>1. News(kind) = Bat!Reads(moved, kind)
          BY <1>6, <2>1, <4>2
        <5>2. News(kind) = <<Kept(moved, kind)>>
          BY <1>8, <5>1
        <5>3. <<Kept(moved, kind)>> # Bat!Untold
          BY DEF Bat!Untold
        <5> QED BY <1>10, <3>3, <5>2, <5>3
      <4> QED BY <4>1, <4>2
    <3>5. "chargerType" \in batSignals => batTold'["chargerType"] = batTold["chargerType"]
      BY <1>5, <3>3
    <3> QED BY <1>4, <1>11, <2>0, <3>3, <3>4, <3>5 DEF KeptTold
  <2>2. CASE ~now
    <3>1. batTold' = [signal \in Bat!Signals |->
                     IF signal \in Kind THEN Bat!Untold
                     ELSE IF signal \in batSignals /\ News(signal) # Bat!Untold THEN News(signal)
                     ELSE batTold[signal]]
      BY <1>3, <2>2
    <3>2. batTold' = [signal \in Bat!Signals |-> batTold'[signal]]
      BY <3>1
    <3>3. \A kind \in batSignals \cap Kind : batTold'[kind] = Bat!Untold
      BY <1>7, <3>1
    <3>4. "chargerType" \in batSignals => batTold'["chargerType"] = batTold["chargerType"]
      BY <1>5, <1>7, <3>1, KindsApart
    <3> QED BY <1>4, <1>11, <2>0, <3>2, <3>3, <3>4 DEF KeptTold
  <2> QED BY <2>1, <2>2
<1>13. World0'
  BY <1>0, <1>4 DEF InvParts, World0, Bat!world
<1>14. Served(batSignals', battery', udev'.made)
  BY <1>0, <1>4, <1>9 DEF InvParts, Served, SameKept, Bat!DataWatch
<1> QED BY <1>0, <1>4, <1>9, <1>12, <1>13, <1>14, PartsPrimed DEF InvParts

LEMMA BatWrapperTyped ==
  ASSUME NEW w \in Bat!Wrapper, NEW signal \in {"batteryDataChanged", "chargerTypeChanged"}
  PROVE  /\ Bat!MadeWrapper(w) \in Bat!Wrapper /\ Bat!MadeWrapper(w).made
         /\ Bat!ConnectNotify(w, signal) \in Bat!Wrapper /\ Bat!ConnectNotify(w,
            signal).made = w.made
         /\ Bat!DisconnectNotify(w, signal) \in Bat!Wrapper /\ Bat!DisconnectNotify(w,
            signal).made = w.made
         /\ Bat!NoUDevWrapper \in Bat!Wrapper
         /\ \A mishap \in BOOLEAN : [Bat!NoUDevWrapper EXCEPT !.fault = mishap] \in Bat!Wrapper
<1>1. Bat!MadeWrapper(w) \in Bat!Wrapper /\ Bat!MadeWrapper(w).made
  BY DEF Bat!MadeWrapper, Bat!NoUDevWrapper, Bat!Wrapper
<1>2. Bat!AddUDevWatcher(w) \in Bat!Wrapper /\ Bat!AddUDevWatcher(w).made = w.made
  BY DEF Bat!AddUDevWatcher, Bat!Wrapper
<1>3. Bat!ConnectNotify(w, signal) \in Bat!Wrapper /\ Bat!ConnectNotify(w, signal).made = w.made
  <2>1. CASE ~w.watchPowerSupply
    <3>1. Bat!ConnectNotify(w, signal) = [Bat!AddUDevWatcher(w) EXCEPT !.watchPowerSupply = TRUE]
      BY <2>1 DEF Bat!ConnectNotify
    <3> QED BY <1>2, <3>1 DEF Bat!Wrapper
  <2>2. CASE w.watchPowerSupply
    <3>1. Bat!ConnectNotify(w, signal) = w
      BY <2>2 DEF Bat!ConnectNotify
    <3> QED BY <3>1
  <2> QED BY <2>1, <2>2
<1>4. Bat!DisconnectNotify(w, signal) \in Bat!Wrapper /\ Bat!DisconnectNotify(w,
      signal).made = w.made
  <2> DEFINE less == [w EXCEPT !.watchPowerSupply = FALSE]
  <2>1. less \in Bat!Wrapper /\ less.made = w.made
    BY DEF Bat!Wrapper
  <2>2. Bat!DisconnectNotify(w, signal) =
          IF less.watchDrives \/ less.watchPowerSupply THEN less
          ELSE [less EXCEPT !.monitor = FALSE, !.fault = @ \/ w.udev = "freed", !.udev = "freed"]
    BY DEF Bat!DisconnectNotify
  <2> HIDE DEF less
  <2>3. [less EXCEPT !.monitor = FALSE, !.fault = @ \/ w.udev = "freed",
        !.udev = "freed"] \in Bat!Wrapper
    BY <2>1 DEF Bat!Wrapper
  <2>4. [less EXCEPT !.monitor = FALSE, !.fault = @ \/ w.udev = "freed",
        !.udev = "freed"].made = less.made
    BY <2>1 DEF Bat!Wrapper
  <2> QED BY <2>1, <2>2, <2>3, <2>4
<1>5. Bat!NoUDevWrapper \in Bat!Wrapper
  BY DEF Bat!NoUDevWrapper, Bat!Wrapper
<1>6. \A mishap \in BOOLEAN : [Bat!NoUDevWrapper EXCEPT !.fault = mishap] \in Bat!Wrapper
  BY DEF Bat!NoUDevWrapper, Bat!Wrapper
<1> QED BY <1>1, <1>3, <1>4, <1>5, <1>6

-----------------------------------------------------------------------------
\* What a connection sets the flags of.
FlagsOf(signal) ==
  IF signal = "valid" THEN {"valid", "batteryCount"} ELSE IF signal = "level" THEN {} ELSE {signal}

\* The record but for its flags, readings, count and charger.
SameWires(d, e) ==
  /\ d.index = e.index /\ d.maximum = e.maximum /\ d.timer = e.timer
  /\ d.dataWires = e.dataWires /\ d.chargerWires = e.chargerWires
\* What is kept for the other signals.
SameOthers(d, e, signal) ==
  /\ d.index = e.index
  /\ \A kind \in Kind \ {signal} : d.cache[kind] = e.cache[kind]
  /\ signal # "chargerType" => d.charger = e.charger

LEMMA BatSnapshotIs ==
  ASSUME Bat!TypeOK, NEW d, Typed(d), NEW kind \in Kind
  PROVE  LET e == Bat!Snapshot(d, kind)
         IN  /\ Typed(e) /\ SameWires(e, d) /\ SameOthers(e, d, kind) /\ e.force = d.force
             /\ e.watch = d.watch \cup {kind}
<1> DEFINE flagged == [d EXCEPT !.watch = @ \cup {kind}]
           reading == [b \in Battery |-> IF b < Bat!BatteryCount(d) THEN Bat!Get(flagged, kind, b)
                                         ELSE d.cache[kind][b]]
           e == Bat!Snapshot(d, kind)
<1>1. /\ flagged \in Bat!Info /\ flagged.cache = d.cache /\ flagged.watch = d.watch \cup {kind}
      /\ SameWires(flagged, d) /\ flagged.force = d.force /\ flagged.charger = d.charger
      /\ flagged.count = d.count
  BY DEF Typed, Bat!Info, SameWires
<1>2. e = [flagged EXCEPT !.cache[kind] = reading]
  BY DEF Bat!Snapshot
<1> HIDE DEF flagged
<1>3. reading \in [Battery -> Bat!Value]
  <2>1. ASSUME NEW b \in Battery PROVE Bat!Get(flagged, kind, b) \in Bat!Value
               /\ d.cache[kind][b] \in Bat!Value
    BY <1>1, BatGetTyped DEF Typed, Bat!Info
  <2> QED BY <2>1
<1> HIDE DEF reading, e
<1> DEFINE cache == [flagged.cache EXCEPT ![kind] = reading]
<1>4. cache \in [Kind -> [Battery -> Bat!Value]] /\ \A k \in Kind \ {kind} : cache[k] = d.cache[k]
  BY <1>1, <1>3 DEF Bat!Info
<1>5. e = [flagged EXCEPT !.cache = cache]
  BY <1>2
<1> HIDE DEF cache
<1>6. e \in Bat!Info /\ e.cache = cache /\ e.watch = flagged.watch /\ SameWires(e, flagged)
  BY <1>1, <1>4, <1>5 DEF Bat!Info, SameWires
<1>7. e.force = flagged.force /\ e.charger = flagged.charger /\ e.count = flagged.count
  BY <1>1, <1>4, <1>5 DEF Bat!Info
<1>8. SameWires(e, d) /\ SameOthers(e, d, kind)
  BY <1>1, <1>4, <1>6, <1>7 DEF SameWires, SameOthers
<1> QED BY <1>1, <1>6, <1>7, <1>8 DEF e, Typed

LEMMA WatchingIs ==
  ASSUME Bat!TypeOK, NEW d, Typed(d), NEW signal \in Bat!Signals
  PROVE  LET e == Bat!Watching(d, signal)
         IN  /\ Typed(e) /\ SameWires(e, d) /\ SameOthers(e, d, signal)
             /\ e.watch = d.watch \cup FlagsOf(signal)
             /\ e.force <=> IF signal = "valid"
                            THEN d.force \/ d.watch \cap {"valid", "batteryCount"} = {}
                            ELSE signal # "batteryCount" /\ d.force
<1> DEFINE c == Bat!GetBatteryCount
           e == Bat!Watching(d, signal)
<1>0. c \in Int /\ c \in -1 .. Bat!Cardinality(Battery)
  BY CountTyped
<1> HIDE DEF c
<1>1. CASE signal = "valid"
  <2> DEFINE f == d.force \/ d.watch \cap {"valid", "batteryCount"} = {}
             w == d.watch \cup {"valid", "batteryCount"}
  <2>1. e = [d EXCEPT !.watch = w, !.count = c, !.force = f]
    BY <1>1, KindsApart DEF Bat!Watching, c
  <2>2. w \subseteq Kind \cup Bat!Whole /\ f \in BOOLEAN
    BY DEF Typed, Bat!Info, Bat!Whole
  <2> HIDE DEF w, f, e
  <2>3. Typed(e) /\ SameWires(e, d) /\ SameOthers(e, d, signal) /\ e.watch = w
    BY <1>0, <2>1, <2>2 DEF Typed, Bat!Info, SameWires, SameOthers, Bat!Whole
  <2>4. e.force = f
    BY <2>1 DEF Typed, Bat!Info
  <2> QED BY <1>1, <2>3, <2>4 DEF FlagsOf, w, f, e
<1>2. CASE signal = "batteryCount"
  <2> DEFINE w == d.watch \cup {"batteryCount"}
  <2>1. e = [d EXCEPT !.watch = w, !.count = c, !.force = FALSE]
    BY <1>2, KindsApart DEF Bat!Watching, c
  <2>2. w \subseteq Kind \cup Bat!Whole
    BY DEF Typed, Bat!Info, Bat!Whole
  <2> HIDE DEF w, e
  <2>3. Typed(e) /\ SameWires(e, d) /\ SameOthers(e, d, signal) /\ e.watch = w
    BY <1>0, <2>1, <2>2 DEF Typed, Bat!Info, SameWires, SameOthers, Bat!Whole
  <2>4. e.force = FALSE
    BY <2>1 DEF Typed, Bat!Info
  <2> QED BY <1>2, <2>3, <2>4 DEF FlagsOf, w, e
<1>3. CASE signal = "chargerType"
  <2> DEFINE w == d.watch \cup {"chargerType"}
             charger == Bat!GetChargerType
  <2>1. e = [d EXCEPT !.watch = w, !.charger = charger]
    BY <1>3, KindsApart DEF Bat!Watching
  <2>2. w \subseteq Kind \cup Bat!Whole /\ charger \in Bat!Charger
    BY ChargerTyped DEF Typed, Bat!Info, Bat!Whole
  <2> HIDE DEF w, e, charger
  <2>3. Typed(e) /\ SameWires(e, d) /\ e.watch = w /\ e.force = d.force
    BY <2>1, <2>2 DEF Typed, Bat!Info, SameWires, Bat!Whole
  <2>4. SameOthers(e, d, signal)
    BY <1>3, <2>1 DEF Typed, Bat!Info, SameOthers
  <2> QED BY <1>3, <2>3, <2>4 DEF FlagsOf, w, e
<1>4. CASE signal \in Kind
  <2>1. e = Bat!Snapshot(d, signal)
    BY <1>4, KindsApart DEF Bat!Watching
  <2>2. signal # "valid" /\ signal # "batteryCount" /\ FlagsOf(signal) = {signal}
    BY <1>4, KindsApart DEF FlagsOf
  <2> HIDE DEF e
  <2> QED BY <1>4, <2>1, <2>2, BatSnapshotIs DEF e
<1>5. CASE signal = "level"
  <2>1. e = d
    BY <1>5, KindsApart DEF Bat!Watching
  <2>2. FlagsOf(signal) = {}
    BY <1>5 DEF FlagsOf
  <2> HIDE DEF e
  <2> QED BY <1>5, <2>1, <2>2 DEF SameWires, SameOthers, e
<1> QED BY <1>1, <1>2, <1>3, <1>4, <1>5 DEF Bat!Signals, Bat!Whole

\* The record but for its wires.
SameButWires(d, e) ==
  /\ d.watch = e.watch /\ d.cache = e.cache /\ d.charger = e.charger /\ d.force = e.force
  /\ d.timer = e.timer /\ d.index = e.index

LEMMA WiredIs ==
  ASSUME NEW d, Typed(d), NEW w \in Bat!Wrapper, NEW signal \in Bat!Signals
  PROVE  LET r == Bat!Wired(d, w, signal)
         IN  /\ Typed(r.info) /\ SameButWires(r.info, d) /\ r.udev \in Bat!Wrapper /\ r.udev.made
             /\ r.info.chargerWires = IF signal = "chargerType" THEN 1 ELSE d.chargerWires
             /\ r.info.dataWires = IF signal # "chargerType" /\ d.watch \ {"chargerType"} = {}
                                   THEN d.dataWires + 1 ELSE d.dataWires
<1> DEFINE r == Bat!Wired(d, w, signal)
<1>0. d \in Bat!Info /\ d.dataWires + 1 \in Nat
  BY DEF Typed, Bat!Info
<1>1. CASE signal = "chargerType"
  <2>1. r = [info |-> [d EXCEPT !.chargerWires = 1],
             udev |-> Bat!ConnectNotify(Bat!MadeWrapper(w), "chargerTypeChanged")]
    BY <1>1 DEF Bat!Wired
  <2>2. r.udev \in Bat!Wrapper /\ r.udev.made
    BY <2>1, BatWrapperTyped
  <2>3. r.info = [d EXCEPT !.chargerWires = 1]
    BY <2>1
  <2> HIDE DEF r
  <2>4. Typed(r.info) /\ SameButWires(r.info, d) /\ r.info.chargerWires = 1
        /\ r.info.dataWires = d.dataWires
    BY <1>0, <2>3 DEF Typed, Bat!Info, SameButWires
  <2> QED BY <1>1, <2>2, <2>4 DEF r
<1>2. CASE signal # "chargerType" /\ d.watch \ {"chargerType"} = {}
  <2>1. r = [info |-> [d EXCEPT !.dataWires = d.dataWires + 1],
             udev |-> Bat!ConnectNotify(Bat!MadeWrapper(w), "batteryDataChanged")]
    BY <1>2 DEF Bat!Wired
  <2>2. r.udev \in Bat!Wrapper /\ r.udev.made
    BY <2>1, BatWrapperTyped
  <2>3. r.info = [d EXCEPT !.dataWires = d.dataWires + 1]
    BY <2>1
  <2> HIDE DEF r
  <2>4. /\ Typed(r.info) /\ SameButWires(r.info, d) /\ r.info.chargerWires = d.chargerWires
        /\ r.info.dataWires = d.dataWires + 1
    BY <1>0, <2>3 DEF Typed, Bat!Info, SameButWires
  <2> QED BY <1>2, <2>2, <2>4 DEF r
<1>3. CASE signal # "chargerType" /\ ~(d.watch \ {"chargerType"} = {})
  <2>1. r = [info |-> d, udev |-> Bat!MadeWrapper(w)]
    BY <1>3 DEF Bat!Wired
  <2>2. r.udev \in Bat!Wrapper /\ r.udev.made /\ r.info = d
    BY <2>1, BatWrapperTyped
  <2> HIDE DEF r
  <2> QED BY <1>3, <2>2 DEF r, SameButWires
<1> QED BY <1>1, <1>2, <1>3

LEMMA BatConnectPreserves ==
  ASSUME BatInv, NEW signal \in Bat!Signals, Bat!Connect(signal)
  PROVE  BatInv'
<1> DEFINE wired == Bat!Wired(battery, udev, signal)
           d == IF udevBuild THEN wired.info ELSE battery
           e == Bat!Watching(d, signal)
<1>0. InvParts /\ Bat!TypeOK
  BY BatInvIs DEF BatInv
<1>1. Typed(battery) /\ udev \in Bat!Wrapper /\ Served(batSignals, battery, udev.made)
  BY <1>0 DEF InvParts
<1>2. /\ Typed(wired.info) /\ SameButWires(wired.info, battery) /\ wired.udev \in Bat!Wrapper
      /\ wired.udev.made
      /\ wired.info.chargerWires = IF signal = "chargerType" THEN 1 ELSE battery.chargerWires
      /\ wired.info.dataWires = IF signal # "chargerType" /\ battery.watch \ {"chargerType"} = {}
                                THEN battery.dataWires + 1 ELSE battery.dataWires
  BY <1>1, WiredIs
<1>3. /\ battery' = IF udevBuild THEN e ELSE [e EXCEPT !.timer = TRUE]
      /\ udev' = IF udevBuild THEN wired.udev ELSE udev
  BY DEF Bat!Connect
<1>4. /\ batSignals' = batSignals \cup {signal} /\ batTold' = [batTold EXCEPT ![signal] = Bat!Untold]
      /\ UNCHANGED <<udevBuild, Bat!world, events, batChanges>> /\ signal \notin batSignals
  BY DEF Bat!Connect
<1> HIDE DEF wired
<1>5. Typed(d) /\ SameButWires(d, battery)
  BY <1>1, <1>2 DEF SameButWires
<1>6. udevBuild => d = wired.info
  OBVIOUS
<1> HIDE DEF d
<1>7. /\ Typed(e) /\ SameWires(e, d) /\ SameOthers(e, d, signal)
      /\ e.watch = d.watch \cup FlagsOf(signal)
      /\ e.force <=> IF signal = "valid"
                     THEN d.force \/ d.watch \cap {"valid", "batteryCount"} = {}
                     ELSE signal # "batteryCount" /\ d.force
  BY <1>0, <1>5, WatchingIs
<1> HIDE DEF e
<1>8. /\ Typed(battery') /\ SameOthers(battery', battery, signal)
      /\ battery'.watch = battery.watch \cup FlagsOf(signal)
      /\ battery'.force <=> IF signal = "valid"
                            THEN battery.force \/ battery.watch \cap {"valid", "batteryCount"} = {}
                            ELSE signal # "batteryCount" /\ battery.force
      /\ udevBuild => battery'.dataWires = wired.info.dataWires
         /\ battery'.chargerWires = wired.info.chargerWires
      /\ ~udevBuild => battery'.timer
  <2>1. CASE udevBuild
    BY <1>3, <1>5, <1>6, <1>7, <2>1 DEF SameOthers, SameWires, SameButWires
  <2>2. CASE ~udevBuild
    <3>1. battery' = [e EXCEPT !.timer = TRUE]
      BY <1>3, <2>2
    <3>2. /\ Typed(battery') /\ battery'.watch = e.watch /\ battery'.cache = e.cache
          /\ battery'.charger = e.charger /\ battery'.force = e.force /\ battery'.index = e.index
          /\ battery'.timer
      BY <1>7, <3>1 DEF Typed, Bat!Info
    <3> QED BY <1>5, <1>7, <2>2, <3>2 DEF SameOthers, SameWires, SameButWires
  <2> QED BY <2>1, <2>2
<1>9. World0'
  BY <1>0, <1>4 DEF InvParts, World0, Bat!world
<1>10. udev' \in Bat!Wrapper /\ (udevBuild => udev'.made)
  BY <1>1, <1>2, <1>3
<1>11. batTold' = [s \in Bat!Signals |-> batTold'[s]] /\ KeptTold(batSignals', batTold', battery')
  <2>1. \A s \in batSignals \ {signal} : batTold'[s] = batTold[s]
    BY <1>0, <1>4 DEF InvParts
  <2>2. batTold'[signal] = Bat!Untold
    BY <1>0, <1>4 DEF InvParts
  <2>3. \A kind \in Kind \ {signal} : Kept(battery', kind) = Kept(battery, kind)
    BY <1>8 DEF SameOthers, Kept
  <2>4. signal # "chargerType" => battery'.charger = battery.charger
    BY <1>8 DEF SameOthers
  <2>5. batTold' = [s \in Bat!Signals |-> batTold'[s]]
    BY <1>0, <1>4 DEF InvParts
  <2>6. KeptTold(batSignals, batTold, battery)
    BY <1>0 DEF InvParts
  <2>7. ASSUME NEW kind \in batSignals' \cap Kind, batTold'[kind] # Bat!Untold
        PROVE  batTold'[kind] = <<Kept(battery', kind)>>
    BY <1>4, <2>1, <2>2, <2>3, <2>6, <2>7 DEF KeptTold
  <2>8. ASSUME "chargerType" \in batSignals', batTold'["chargerType"] # Bat!Untold
        PROVE  batTold'["chargerType"] = <<battery'.charger>>
    BY <1>4, <2>1, <2>2, <2>4, <2>6, <2>8 DEF KeptTold
  <2> QED BY <2>5, <2>7, <2>8 DEF KeptTold
<1>12. Served(batSignals', battery', udev'.made)
  <2> DEFINE ss == batSignals \cup {signal}
  <2>1. ss \subseteq Bat!Signals /\ ss \ {"level"} \subseteq battery'.watch
    BY <1>1, <1>8 DEF Served, FlagsOf
  <2>2. /\ battery'.watch \subseteq ss \cup (IF "valid" \in ss THEN {"batteryCount"} ELSE {})
        /\ "valid" \in battery'.watch => "batteryCount" \in battery'.watch
    BY <1>1, <1>8 DEF Served, FlagsOf
  <2>3. battery'.force => "batteryCount" \notin ss
    BY <1>1, <1>4, <1>8 DEF Served
  <2>4. "valid" \in ss /\ "batteryCount" \notin ss => battery'.force
    BY <1>1, <1>4, <1>8, KindsApart DEF Served
  <2>5. ASSUME udevBuild PROVE Bat!DataWatch(battery') # {} => battery'.dataWires > 0
    <3>1. battery.dataWires \in Nat
      BY <1>1 DEF Typed, Bat!Info
    <3>2. CASE signal = "chargerType"
      <4>1. Bat!DataWatch(battery') = Bat!DataWatch(battery)
            /\ battery'.dataWires = battery.dataWires
        BY <1>2, <1>8, <2>5, <3>2 DEF Bat!DataWatch, FlagsOf
      <4> QED BY <1>1, <2>5, <4>1 DEF Served
    <3>3. CASE signal # "chargerType" /\ battery.watch \ {"chargerType"} = {}
      BY <1>2, <1>8, <2>5, <3>1, <3>3
    <3>4. CASE signal # "chargerType" /\ battery.watch \ {"chargerType"} # {}
      <4>1. Bat!DataWatch(battery) # {}
        BY <1>1, <3>4 DEF Bat!DataWatch, Served
      <4> QED BY <1>1, <1>2, <1>8, <2>5, <3>4, <4>1 DEF Served
    <3> QED BY <3>2, <3>3, <3>4
  <2>6. ASSUME udevBuild PROVE "chargerType" \in battery'.watch => battery'.chargerWires > 0
    <3>1. CASE signal = "chargerType"
      BY <1>2, <1>8, <2>6, <3>1
    <3>2. CASE signal # "chargerType"
      <4>1. "chargerType" \in battery'.watch => "chargerType" \in battery.watch
        BY <1>8, <3>2 DEF FlagsOf
      <4> QED BY <1>1, <1>2, <1>8, <2>6, <3>2, <4>1 DEF Served
    <3> QED BY <3>1, <3>2
  <2>7. Served(ss, battery', udev'.made)
    BY <1>8, <1>10, <2>1, <2>2, <2>3, <2>4, <2>5, <2>6 DEF Served
  <2> QED BY <1>4, <2>7
<1> QED BY <1>4, <1>8, <1>9, <1>10, <1>11, <1>12, PartsPrimed

LEMMA BatUnwatchedIs ==
  ASSUME NEW d, Typed(d), NEW signal \in Bat!Signals
  PROVE  LET e == Bat!Unwatched(d, signal)
         IN  /\ Typed(e) /\ SameWires(e, d) /\ SameOthers(e, d, signal)
             /\ e.watch = CASE signal = "valid" ->
                                 d.watch \ (IF d.force THEN {"valid", "batteryCount"}
                                   ELSE {"valid"})
                            [] signal = "batteryCount" ->
                                 IF "valid" \in d.watch THEN d.watch ELSE d.watch \ {"batteryCount"}
                            [] OTHER -> d.watch \ {signal}
             /\ e.force <=> (signal = "batteryCount" /\ "valid" \in d.watch) \/ d.force
<1> DEFINE uncounted == [d EXCEPT !.watch = @ \ {"batteryCount"}, !.count = -1]
           e == Bat!Unwatched(d, signal)
<1>0. /\ uncounted \in Bat!Info /\ uncounted.count = -1 /\ uncounted.watch = d.watch \ {"batteryCount"}
      /\ SameWires(uncounted, d) /\ uncounted.cache = d.cache /\ uncounted.charger = d.charger
      /\ uncounted.force = d.force
  <2> DEFINE w == d.watch \ {"batteryCount"}
  <2>1. uncounted = [d EXCEPT !.watch = w, !.count = -1]
    OBVIOUS
  <2>2. w \subseteq Kind \cup {"batteryCount", "chargerType", "valid"}
    BY DEF Typed, Bat!Info
  <2> HIDE DEF w, uncounted
  <2> DEFINE n == -1
  <2>5. n \in Int /\ uncounted = [d EXCEPT !.watch = w, !.count = n]
    BY <2>1
  <2> HIDE DEF n
  <2>6. uncounted \in Bat!Info
    BY <2>2, <2>5 DEF Typed, Bat!Info
  <2>7. uncounted.count = n /\ uncounted.watch = w /\ SameWires(uncounted, d)
    BY <2>5 DEF Typed, Bat!Info, SameWires
  <2>3. /\ uncounted \in Bat!Info /\ uncounted.count = -1 /\ uncounted.watch = w
        /\ SameWires(uncounted, d)
    BY <2>6, <2>7 DEF n
  <2>4. uncounted.cache = d.cache /\ uncounted.charger = d.charger /\ uncounted.force = d.force
    BY <2>1 DEF Typed, Bat!Info
  <2> QED BY <2>3, <2>4 DEF w
<1>00. -1 \in -1 .. Bat!Cardinality(Battery) /\ d \in Bat!Info
       /\ d.count \in -1 .. Bat!Cardinality(Battery)
  BY BatteryAssumption, FS_CardinalityType, SameCardinality DEF Typed
<1>1. CASE signal = "valid"
  <2> DEFINE left == IF d.force THEN uncounted ELSE d
  <2>1. e = [left EXCEPT !.watch = @ \ {"valid"}]
    BY <1>1, KindsApart DEF Bat!Unwatched
  <2> HIDE DEF uncounted
  <2>2. /\ left \in Bat!Info /\ left.count \in -1 .. Bat!Cardinality(Battery) /\ SameWires(left, d)
        /\ left.cache = d.cache /\ left.charger = d.charger /\ left.force = d.force
        /\ left.watch = IF d.force THEN d.watch \ {"batteryCount"} ELSE d.watch
    BY <1>0, <1>00 DEF SameWires
  <2> HIDE DEF left, e
  <2>3. Typed(e) /\ SameWires(e, left) /\ e.watch = left.watch \ {"valid"} /\ e.force = left.force
    BY <2>1, <2>2 DEF Typed, Bat!Info, SameWires
  <2>4. e.cache = left.cache /\ e.charger = left.charger
    BY <2>1, <2>2 DEF Bat!Info
  <2>5. SameWires(e, d) /\ SameOthers(e, d, signal)
    BY <2>2, <2>3, <2>4 DEF SameWires, SameOthers
  <2>6. e.watch = d.watch \ (IF d.force THEN {"valid", "batteryCount"} ELSE {"valid"})
    BY <2>2, <2>3
  <2> QED BY <1>1, <2>2, <2>3, <2>5, <2>6 DEF e
<1>2. CASE signal = "batteryCount" /\ "valid" \in d.watch
  <2>1. e = [d EXCEPT !.force = TRUE]
    BY <1>2, KindsApart DEF Bat!Unwatched
  <2> HIDE DEF e
  <2>2. /\ Typed(e) /\ SameWires(e, d) /\ SameOthers(e, d, signal) /\ e.force /\ e.watch = d.watch
    BY <1>00, <2>1 DEF Typed, Bat!Info, SameWires, SameOthers
  <2> QED BY <1>2, <2>2 DEF e
<1>3. CASE signal = "batteryCount" /\ "valid" \notin d.watch
  <2>1. e = uncounted
    BY <1>3, KindsApart DEF Bat!Unwatched
  <2> HIDE DEF e, uncounted
  <2>2. /\ Typed(e) /\ SameWires(e, d) /\ SameOthers(e, d, signal)
        /\ e.force = d.force /\ e.watch = d.watch \ {"batteryCount"}
    BY <1>0, <1>00, <2>1 DEF Typed, SameWires, SameOthers
  <2> QED BY <1>3, <2>2 DEF e
<1>4. CASE signal = "chargerType"
  <2>1. e = [d EXCEPT !.watch = d.watch \ {signal}, !.charger = "Unknown"]
    BY <1>4, KindsApart DEF Bat!Unwatched
  <2> HIDE DEF e
  <2>2. d.watch \ {signal} \subseteq Kind \cup {"batteryCount", "chargerType", "valid"}
    BY <1>00 DEF Bat!Info
  <2>3. Typed(e) /\ SameWires(e, d) /\ e.force = d.force /\ e.watch = d.watch \ {signal}
    BY <1>00, <2>1, <2>2 DEF Typed, Bat!Info, SameWires, Bat!Charger
  <2>4. SameOthers(e, d, signal)
    BY <1>00, <1>4, <2>1 DEF Bat!Info, SameOthers
  <2> QED BY <1>4, <2>3, <2>4 DEF e
<1>5. CASE signal \in Kind
  <2> DEFINE readings == Bat!NoReadings[signal]
             cache == [d.cache EXCEPT ![signal] = readings]
  <2>1. e = [d EXCEPT !.watch = d.watch \ {signal}, !.cache[signal] = readings]
    BY <1>5, KindsApart DEF Bat!Unwatched
  <2>2. readings \in [Battery -> Bat!Value]
    BY <1>5, ConstantTyped
  <2> HIDE DEF e, readings
  <2>3. cache \in [Kind -> [Battery -> Bat!Value]] /\ \A k \in Kind \ {signal} : cache[k] = d.cache[k]
    BY <1>00, <1>5, <2>2 DEF Bat!Info
  <2>4. e = [d EXCEPT !.watch = d.watch \ {signal}, !.cache = cache]
    BY <1>00, <2>1 DEF Bat!Info
  <2> HIDE DEF cache
  <2>5. /\ Typed(e) /\ SameWires(e, d) /\ e.force = d.force /\ e.watch = d.watch \ {signal}
        /\ e.cache = cache /\ e.charger = d.charger
    BY <1>00, <2>3, <2>4 DEF Typed, Bat!Info, SameWires
  <2>6. SameOthers(e, d, signal)
    BY <2>3, <2>5 DEF SameOthers, SameWires
  <2>7. signal # "valid" /\ signal # "batteryCount"
    BY <1>5, KindsApart
  <2> QED BY <2>5, <2>6, <2>7 DEF e
<1>6. CASE signal = "level"
  <2>1. e = d
    BY <1>6, KindsApart DEF Bat!Unwatched
  <2>2. d.watch = d.watch \ {signal}
    BY <1>00, <1>6, KindsApart DEF Bat!Info
  <2> HIDE DEF e
  <2> QED BY <1>6, <2>1, <2>2 DEF e, SameWires, SameOthers
<1> QED BY <1>1, <1>2, <1>3, <1>4, <1>5, <1>6 DEF Bat!Signals, Bat!Whole

LEMMA UnwiredIs ==
  ASSUME NEW d, Typed(d), NEW w \in Bat!Wrapper, NEW signal \in Bat!Signals
  PROVE  LET r == Bat!Unwired(d, w, signal)
         IN  /\ Typed(r.info) /\ SameButWires(r.info, d) /\ r.udev \in Bat!Wrapper
             /\ r.udev.made = w.made
             /\ signal # "chargerType" => r.info.chargerWires = d.chargerWires
             /\ Bat!DataWatch(d) # {} => r.info.dataWires = d.dataWires
<1> DEFINE r == Bat!Unwired(d, w, signal)
<1>0. d \in Bat!Info
  BY DEF Typed
<1>1. CASE w.made /\ signal = "chargerType"
  <2> DEFINE u == IF d.chargerWires = 0 THEN w ELSE Bat!DisconnectNotify(w, "chargerTypeChanged")
  <2>1. r = [info |-> [d EXCEPT !.chargerWires = 0], udev |-> u]
    BY <1>1 DEF Bat!Unwired
  <2>2. u \in Bat!Wrapper /\ u.made = w.made
    BY BatWrapperTyped
  <2> HIDE DEF u
  <2>3. r.info = [d EXCEPT !.chargerWires = 0] /\ r.udev = u
    BY <2>1
  <2> HIDE DEF r
  <2>4. Typed(r.info) /\ SameButWires(r.info, d) /\ r.info.dataWires = d.dataWires
    BY <1>0, <2>3 DEF Typed, Bat!Info, SameButWires
  <2> QED BY <1>1, <2>2, <2>3, <2>4 DEF r
<1>2. CASE w.made /\ signal # "chargerType" /\ Bat!DataWatch(d) = {}
  <2> DEFINE u == IF d.dataWires = 0 THEN w ELSE Bat!DisconnectNotify(w, "batteryDataChanged")
  <2>1. r = [info |-> [d EXCEPT !.dataWires = 0], udev |-> u]
    BY <1>2 DEF Bat!Unwired
  <2>2. u \in Bat!Wrapper /\ u.made = w.made
    BY BatWrapperTyped
  <2> HIDE DEF u
  <2>3. r.info = [d EXCEPT !.dataWires = 0] /\ r.udev = u
    BY <2>1
  <2> HIDE DEF r
  <2>4. Typed(r.info) /\ SameButWires(r.info, d) /\ r.info.chargerWires = d.chargerWires
    BY <1>0, <2>3 DEF Typed, Bat!Info, SameButWires
  <2> QED BY <1>2, <2>2, <2>3, <2>4 DEF r
<1>3. CASE ~(w.made /\ signal = "chargerType") /\ ~(w.made /\ signal # "chargerType"
           /\ Bat!DataWatch(d) = {})
  <2>1. r = [info |-> d, udev |-> w]
    BY <1>3 DEF Bat!Unwired
  <2>2. r.info = d /\ r.udev = w
    BY <2>1
  <2> HIDE DEF r
  <2> QED BY <2>2 DEF r, SameButWires
<1> QED BY <1>1, <1>2, <1>3

LEMMA DisconnectPreserves ==
  ASSUME BatInv, NEW signal \in Bat!Signals, Bat!Disconnect(signal)
  PROVE  BatInv'
<1> DEFINE less == Bat!Unwatched(battery, signal)
           unwired == Bat!Unwired(less, udev, signal)
           idle == less.watch \ {"valid"} = {}
           none == [Bat!NoUDevWrapper EXCEPT !.fault = unwired.udev.fault]
<1>0. InvParts
  BY BatInvIs
<1>1. Typed(battery) /\ udev \in Bat!Wrapper /\ Served(batSignals, battery, udev.made)
  BY <1>0 DEF InvParts
<1>2. /\ batSignals' = batSignals \ {signal} /\ batTold' = [batTold EXCEPT ![signal] = Bat!Untold]
      /\ UNCHANGED <<udevBuild, Bat!world, events, batChanges>> /\ signal \in batSignals
  BY DEF Bat!Disconnect
<1>3. battery' = CASE ~udevBuild -> [less EXCEPT !.timer = @ /\ ~idle]
                   [] udevBuild /\ idle -> [unwired.info EXCEPT !.dataWires = 0, !.chargerWires = 0]
                   [] OTHER -> unwired.info
  BY DEF Bat!Disconnect
<1>4. udev' = IF ~udevBuild THEN udev ELSE IF idle THEN none ELSE unwired.udev
  BY DEF Bat!Disconnect
<1>5. /\ Typed(less) /\ SameWires(less, battery) /\ SameOthers(less, battery, signal)
      /\ less.watch = CASE signal = "valid" ->
                             battery.watch \ (IF battery.force THEN {"valid", "batteryCount"}
                               ELSE {"valid"})
                        [] signal = "batteryCount" ->
                             IF "valid" \in battery.watch THEN battery.watch
                             ELSE battery.watch \ {"batteryCount"}
                        [] OTHER -> battery.watch \ {signal}
      /\ less.force <=> (signal = "batteryCount" /\ "valid" \in battery.watch) \/ battery.force
  BY <1>1, BatUnwatchedIs
<1> HIDE DEF less
<1>6. /\ Typed(unwired.info) /\ SameButWires(unwired.info, less)
      /\ unwired.udev \in Bat!Wrapper /\ unwired.udev.made = udev.made
      /\ signal # "chargerType" => unwired.info.chargerWires = less.chargerWires
      /\ Bat!DataWatch(less) # {} => unwired.info.dataWires = less.dataWires
  BY <1>1, <1>5, UnwiredIs
<1> HIDE DEF unwired
<1>7. /\ Typed(battery') /\ battery'.watch = less.watch /\ battery'.cache = less.cache
      /\ battery'.charger = less.charger /\ battery'.force = less.force
      /\ battery'.index = less.index
      /\ ~udevBuild => (battery'.timer <=> less.timer /\ ~idle)
      /\ udevBuild /\ ~idle => battery'.dataWires = unwired.info.dataWires
                               /\ battery'.chargerWires = unwired.info.chargerWires
  <2>1. CASE ~udevBuild
    <3> DEFINE timer == less.timer /\ ~idle
    <3>1. battery' = [less EXCEPT !.timer = timer]
      BY <1>3, <2>1
    <3>2. timer \in BOOLEAN
      OBVIOUS
    <3> HIDE DEF timer
    <3>3. /\ Typed(battery') /\ battery'.watch = less.watch /\ battery'.cache = less.cache
          /\ battery'.charger = less.charger /\ battery'.force = less.force
          /\ battery'.index = less.index /\ battery'.timer = timer
      BY <1>5, <3>1, <3>2 DEF Typed, Bat!Info
    <3> QED BY <2>1, <3>3 DEF timer
  <2>2. CASE udevBuild /\ idle
    <3>1. battery' = [unwired.info EXCEPT !.dataWires = 0, !.chargerWires = 0]
      BY <1>3, <2>2
    <3>2. /\ Typed(battery') /\ SameButWires(battery', unwired.info)
      BY <1>6, <3>1 DEF Typed, Bat!Info, SameButWires
    <3> QED BY <1>6, <2>2, <3>2 DEF SameButWires
  <2>3. CASE udevBuild /\ ~idle
    <3>1. battery' = unwired.info
      BY <1>3, <2>3
    <3> QED BY <1>6, <2>3, <3>1 DEF SameButWires
  <2> QED BY <2>1, <2>2, <2>3
<1>8. udev' \in Bat!Wrapper /\ (udevBuild /\ ~idle => udev'.made = udev.made)
  <2>1. none \in Bat!Wrapper
    <3>1. unwired.udev.fault \in BOOLEAN
      BY <1>6 DEF Bat!Wrapper
    <3> QED BY <3>1 DEF Bat!NoUDevWrapper, Bat!Wrapper
  <2> HIDE DEF none
  <2> QED BY <1>1, <1>4, <1>6, <2>1
<1>9. World0'
  BY <1>0, <1>2 DEF InvParts, World0, Bat!world
<1>10. SameOthers(battery', battery, signal)
  BY <1>5, <1>7 DEF SameOthers
<1>11. batTold' = [s \in Bat!Signals |-> batTold'[s]] /\ KeptTold(batSignals', batTold', battery')
  <2>1. \A s \in batSignals \ {signal} : batTold'[s] = batTold[s]
    BY <1>0, <1>2 DEF InvParts
  <2>3. \A kind \in Kind \ {signal} : Kept(battery', kind) = Kept(battery, kind)
    BY <1>10 DEF SameOthers, Kept
  <2>4. signal # "chargerType" => battery'.charger = battery.charger
    BY <1>10 DEF SameOthers
  <2>5. batTold' = [s \in Bat!Signals |-> batTold'[s]]
    BY <1>0, <1>2 DEF InvParts
  <2>6. KeptTold(batSignals, batTold, battery)
    BY <1>0 DEF InvParts
  <2>7. ASSUME NEW kind \in batSignals' \cap Kind, batTold'[kind] # Bat!Untold
        PROVE  batTold'[kind] = <<Kept(battery', kind)>>
    BY <1>2, <2>1, <2>3, <2>6, <2>7 DEF KeptTold
  <2>8. ASSUME "chargerType" \in batSignals', batTold'["chargerType"] # Bat!Untold
        PROVE  batTold'["chargerType"] = <<battery'.charger>>
    BY <1>2, <2>1, <2>4, <2>6, <2>8 DEF KeptTold
  <2> QED BY <2>5, <2>7, <2>8 DEF KeptTold
<1>12. Served(batSignals', battery', udev'.made)
  <2> DEFINE ss == batSignals \ {signal}
             old == battery.watch
             new == battery'.watch
  <2>0. /\ signal = "valid" => new = old \ (IF battery.force THEN {"valid", "batteryCount"}
           ELSE {"valid"})
        /\ signal = "batteryCount" => new = IF "valid" \in old THEN old ELSE old \ {"batteryCount"}
        /\ signal \notin {"valid", "batteryCount"} => new = old \ {signal}
        /\ battery'.force <=> (signal = "batteryCount" /\ "valid" \in old) \/ battery.force
    BY <1>5, <1>7
  <2>00. /\ batSignals \subseteq Bat!Signals /\ batSignals \ {"level"} \subseteq old
         /\ old \subseteq batSignals \cup (IF "valid" \in batSignals THEN {"batteryCount"} ELSE {})
         /\ "valid" \in old => "batteryCount" \in old
         /\ battery.force => "batteryCount" \notin batSignals
         /\ "valid" \in batSignals /\ "batteryCount" \notin batSignals => battery.force
         /\ ~udevBuild => (old # {} => battery.timer)
         /\ udevBuild => /\ old # {} => udev.made
                         /\ Bat!DataWatch(battery) # {} => battery.dataWires > 0
                         /\ "chargerType" \in old => battery.chargerWires > 0
    BY <1>1 DEF Served
  <2>000. "valid" \in batSignals <=> "valid" \in old
    BY <2>00
  <2> HIDE DEF old, new
  <2>1. ss \subseteq Bat!Signals /\ ss \ {"level"} \subseteq new
    <3>1. CASE signal = "valid"
      BY <2>0, <2>00, <3>1
    <3>2. CASE signal = "batteryCount"
      BY <2>0, <2>00, <3>2
    <3>3. CASE signal \notin {"valid", "batteryCount"}
      BY <2>0, <2>00, <3>3
    <3> QED BY <3>1, <3>2, <3>3
  <2>2. /\ new \subseteq ss \cup (IF "valid" \in ss THEN {"batteryCount"} ELSE {})
        /\ "valid" \in new => "batteryCount" \in new
    <3>1. CASE signal = "valid"
      BY <2>0, <2>00, <3>1
    <3>2. CASE signal = "batteryCount"
      BY <2>0, <2>00, <2>000, <3>2
    <3>3. CASE signal \notin {"valid", "batteryCount"}
      BY <2>0, <2>00, <3>3
    <3> QED BY <3>1, <3>2, <3>3
  <2>3. battery'.force => "batteryCount" \notin ss
    BY <2>0, <2>00
  <2>4. "valid" \in ss /\ "batteryCount" \notin ss => battery'.force
    BY <2>0, <2>00, <2>000
  <2>5. new \subseteq old
    BY <2>0
  <2>6. idle => new = {}
    <3>1. idle => new \subseteq {"valid"}
      BY <1>7 DEF new
    <3> QED BY <2>2, <3>1
  <2>7. ASSUME udevBuild, ~idle
        PROVE  /\ new # {} => udev'.made
               /\ Bat!DataWatch(battery') # {} => battery'.dataWires > 0
               /\ "chargerType" \in new => battery'.chargerWires > 0
    <3>1. new # {} => udev'.made
      BY <1>8, <2>00, <2>5, <2>7
    <3>2. Bat!DataWatch(battery') # {} => battery'.dataWires > 0
      <4>1. Bat!DataWatch(battery') = Bat!DataWatch(less) /\ Bat!DataWatch(battery') \subseteq Bat!DataWatch(battery)
        BY <1>7, <2>5 DEF Bat!DataWatch, new, old
      <4>2. less.dataWires = battery.dataWires
        BY <1>5 DEF SameWires
      <4> QED BY <1>6, <1>7, <2>00, <2>7, <4>1, <4>2
    <3>3. "chargerType" \in new => battery'.chargerWires > 0
      <4>1. less.chargerWires = battery.chargerWires
        BY <1>5 DEF SameWires
      <4>2. signal = "chargerType" => "chargerType" \notin new
        BY <2>0
      <4> QED BY <1>6, <1>7, <2>00, <2>5, <2>7, <4>1, <4>2
    <3> QED BY <3>1, <3>2, <3>3
  <2>8. ASSUME ~udevBuild, new # {} PROVE battery'.timer
    <3>1. less.timer = battery.timer
      BY <1>5 DEF SameWires
    <3> QED BY <1>7, <2>00, <2>5, <2>6, <2>8, <3>1
  <2>9. new = {} => Bat!DataWatch(battery') = {}
    BY DEF Bat!DataWatch, new
  <2>10. Served(ss, battery', udev'.made)
    <3>1. udevBuild => /\ new # {} => udev'.made
                       /\ Bat!DataWatch(battery') # {} => battery'.dataWires > 0
                       /\ "chargerType" \in new => battery'.chargerWires > 0
      BY <2>6, <2>7, <2>9
    <3> QED BY <2>1, <2>2, <2>3, <2>4, <2>8, <3>1 DEF Served, new
  <2> QED BY <1>2, <2>10
<1> QED BY <1>2, <1>7, <1>8, <1>9, <1>11, <1>12, PartsPrimed

LEMMA BatPreserves ==
  ASSUME BatInv, [Bat!Next]_(Bat!vars)
  PROVE  BatInv'
<1>1. CASE UNCHANGED Bat!vars
  <2>1. World0'
    BY <1>1, BatInvIs DEF Bat!vars, Bat!world, InvParts, World0
  <2> QED BY <1>1, <2>1, QuietPreserves DEF Bat!vars
<1> QED BY <1>1, BatWorldPreserves, BatConnectPreserves, DisconnectPreserves, IndexPreserves,
     ReadLevelPreserves, EventPreserves, BatTimeoutPreserves DEF Bat!Next
-----------------------------------------------------------------------------
(***************************************************************************)
(* The battery by UPower. With one battery, what the client does not know  *)
(* of it is on its way: an enumeration, a message or an answer will bring  *)
(* it.                                                                     *)
(***************************************************************************)
Maps == UNION {[K -> UPower!Entry] : K \in {N \in SUBSET Nat : IsFiniteSet(N)}}
Energies == {UPower!Untold} \cup {<<e>> : e \in Energy \cup {0}}
Valids == {UPower!Untold} \cup {<<v>> : v \in BOOLEAN}
Jobs == [slot : UPower!Slots, devices : Seq(UPowerDevice)]
ChargingStates == {"Charging", "Discharging", "Idle", "Unknown"}
Client0 == [map : Maps, cType : {"Unknown", "Wall"}, cState : ChargingStates, index : UPowerIndex,
            watchers : Nat, job : Jobs, told : [energy : Energies, valid : Valids]]

\* What is read of a device: a device that is no battery has no energy.
Proper(m, d) == m \in UPower!Entry /\ m.native = d /\ (d \notin UPowerBattery => m.energy = 0)
OfDevice(m, d) == m = UPower!Nothing \/ Proper(m, d)

Working(slot) == slot \in {"read", "match", "readAdded", "matchAdded"}
Matching(slot) == slot \in {"match", "matchAdded"}

UTypes ==
  /\ up \in BOOLEAN /\ upPresent \subseteq UPowerDevice
  /\ properties \in [UPowerDevice -> UPower!Entry]
  /\ \A d \in UPowerDevice : Proper(properties[d], d)
  /\ upInbox \in Seq(UPower!Messages) /\ requests \in Seq(1 .. Len(interfaces))
  /\ interfaces \in Seq(UPower!Interface)
  /\ \A i \in 1 .. Len(interfaces) : OfDevice(interfaces[i].map, interfaces[i].device)
  /\ \A n \in 1 .. Len(upInbox) :
       /\ upInbox[n].kind = "answer" =>
            /\ upInbox[n].interface \in 1 .. Len(interfaces)
            /\ OfDevice(upInbox[n].map, interfaces[upInbox[n].interface].device)
       /\ upInbox[n].kind \in {"added", "removed", "changed"} => upInbox[n].device \in UPowerDevice
  /\ upClient \in Client0
  /\ Working(upClient.job.slot) => upClient.job.devices # <<>>
  /\ Matching(upClient.job.slot) => interfaces # <<>> /\ UPower!Newest.device = Head(upClient.job.devices)

Reads(c) == c.told.energy \in {UPower!Untold, <<0>>, <<UPower!Value(c.map, c.index).energy>>}

LEMMA NothingIs ==
  /\ UPower!Nothing \in UPower!Entry /\ UPower!Nothing.native = "none" /\ UPower!Nothing.energy = 0
  /\ \A d : OfDevice(UPower!Nothing, d)
  BY DEF UPower!Nothing, UPower!Entry, OfDevice

-----------------------------------------------------------------------------
LEMMA MapsIs ==
  ASSUME NEW map
  PROVE  map \in Maps <=> /\ DOMAIN map \subseteq Nat /\ IsFiniteSet(DOMAIN map)
                          /\ map = [k \in DOMAIN map |-> map[k]]
                          /\ \A k \in DOMAIN map : map[k] \in UPower!Entry
<1>1. ASSUME map \in Maps
      PROVE  /\ DOMAIN map \subseteq Nat /\ IsFiniteSet(DOMAIN map)
             /\ map = [k \in DOMAIN map |-> map[k]]
             /\ \A k \in DOMAIN map : map[k] \in UPower!Entry
  <2>1. PICK K \in {N \in SUBSET Nat : IsFiniteSet(N)} : map \in [K -> UPower!Entry]
    BY <1>1 DEF Maps
  <2> QED BY <2>1
<1>2. ASSUME DOMAIN map \subseteq Nat, IsFiniteSet(DOMAIN map),
             map = [k \in DOMAIN map |-> map[k]], \A k \in DOMAIN map : map[k] \in UPower!Entry
      PROVE  map \in Maps
  <2>1. map \in [DOMAIN map -> UPower!Entry]
    BY <1>2
  <2> QED BY <1>2, <2>1 DEF Maps
<1> QED BY <1>1, <1>2

LEMMA FoundIs ==
  ASSUME NEW map \in Maps, NEW d
  PROVE  /\ UPower!Found(map, d) \in Nat
         /\ UPower!KeysOf(map, d) # {} => UPower!Found(map, d) \in UPower!KeysOf(map, d)
         /\ UPower!KeysOf(map, d) = {} => UPower!Found(map, d) = 0
<1>1. UPower!KeysOf(map, d) \subseteq Nat
  BY MapsIs DEF UPower!KeysOf
<1>2. CASE UPower!KeysOf(map, d) = {}
  BY <1>2 DEF UPower!Found
<1>3. CASE UPower!KeysOf(map, d) # {}
  <2>1. \E x \in UPower!KeysOf(map, d) : \A y \in UPower!KeysOf(map, d) : x <= y
    BY <1>1, <1>3, LeastNat
  <2>2. UPower!Found(map, d) = CHOOSE x \in UPower!KeysOf(map, d) : \A y \in UPower!KeysOf(map,
        d) : x <= y
    BY <1>3 DEF UPower!Found, UPower!Min
  <2>3. UPower!Found(map, d) \in UPower!KeysOf(map, d)
    BY <2>1, <2>2
  <2> QED BY <1>1, <1>3, <2>3
<1> QED BY <1>2, <1>3

LEMMA InsertedIs ==
  ASSUME NEW map \in Maps, NEW k \in Nat, NEW e \in UPower!Entry
  PROVE  /\ UPower!Inserted(map, k, e) \in Maps
         /\ DOMAIN UPower!Inserted(map, k, e) = DOMAIN map \cup {k}
         /\ \A j \in DOMAIN map \cup {k} : UPower!Inserted(map, k, e)[j] = IF j = k THEN e
            ELSE map[j]
         /\ UPower!Value(UPower!Inserted(map, k, e), k) = e
         /\ \A j : j # k => UPower!Value(UPower!Inserted(map, k, e), j) = UPower!Value(map, j)
<1> DEFINE new == UPower!Inserted(map, k, e)
<1>1. new = [j \in DOMAIN map \cup {k} |-> IF j = k THEN e ELSE map[j]]
  BY DEF UPower!Inserted
<1>2. DOMAIN map \subseteq Nat /\ IsFiniteSet(DOMAIN map) /\ \A j \in DOMAIN map : map[j] \in UPower!Entry
  BY MapsIs
<1>3. IsFiniteSet(DOMAIN map \cup {k})
  BY <1>2, FS_AddElement, SameCardinality
<1> HIDE DEF new
<1>4. DOMAIN new = DOMAIN map \cup {k} /\ new = [j \in DOMAIN new |-> new[j]]
      /\ \A j \in DOMAIN map \cup {k} : new[j] = IF j = k THEN e ELSE map[j]
  BY <1>1
<1>5. new \in Maps
  <2>1. DOMAIN new \subseteq Nat /\ \A j \in DOMAIN new : new[j] \in UPower!Entry
    BY <1>2, <1>4
  <2> QED BY <1>3, <1>4, <2>1, MapsIs
<1>6. UPower!Value(new, k) = e /\ \A j : j # k => UPower!Value(new, j) = UPower!Value(map, j)
  BY <1>4 DEF UPower!Value
<1> QED BY <1>4, <1>5, <1>6 DEF new

LEMMA InsertedValues ==
  \A map \in Maps, k \in Nat, e \in UPower!Entry :
    /\ UPower!Value(UPower!Inserted(map, k, e), k) = e
    /\ \A j : j # k => UPower!Value(UPower!Inserted(map, k, e), j) = UPower!Value(map, j)
  BY DEF UPower!Inserted, UPower!Value

LEMMA RemovedIs ==
  ASSUME NEW map \in Maps, NEW k
  PROVE  /\ UPower!Removed(map, k) \in Maps
         /\ DOMAIN UPower!Removed(map, k) = DOMAIN map \ {k}
         /\ \A j \in DOMAIN map \ {k} : UPower!Removed(map, k)[j] = map[j]
         /\ \A j : j # k => UPower!Value(UPower!Removed(map, k), j) = UPower!Value(map, j)
<1> DEFINE new == UPower!Removed(map, k)
<1>1. new = [j \in DOMAIN map \ {k} |-> map[j]]
  BY DEF UPower!Removed, UPower!Restrict
<1>2. DOMAIN map \subseteq Nat /\ IsFiniteSet(DOMAIN map) /\ \A j \in DOMAIN map : map[j] \in UPower!Entry
  BY MapsIs
<1>3. IsFiniteSet(DOMAIN map \ {k})
  BY <1>2, FS_RemoveElement, SameCardinality
<1> HIDE DEF new
<1>4. DOMAIN new = DOMAIN map \ {k} /\ new = [j \in DOMAIN new |-> new[j]]
      /\ \A j \in DOMAIN map \ {k} : new[j] = map[j]
  BY <1>1
<1>5. new \in Maps
  <2>1. DOMAIN new \subseteq Nat /\ \A j \in DOMAIN new : new[j] \in UPower!Entry
    BY <1>2, <1>4
  <2> QED BY <1>3, <1>4, <2>1, MapsIs
<1>6. \A j : j # k => UPower!Value(new, j) = UPower!Value(map, j)
  BY <1>4 DEF UPower!Value
<1> QED BY <1>4, <1>5, <1>6 DEF new

LEMMA InsertedTyped == \A map \in Maps, k \in Nat, e \in UPower!Entry : UPower!Inserted(map, k,
  e) \in Maps
  BY InsertedIs

LEMMA ValueIs == ASSUME NEW map \in Maps, NEW k PROVE UPower!Value(map, k) \in UPower!Entry
  BY MapsIs, NothingIs DEF UPower!Value

-----------------------------------------------------------------------------
(***************************************************************************)
(* The client, field by field.                                             *)
(***************************************************************************)
ClientIs(map, cType, cState, i, watchers, job, told) ==
  [map |-> map, cType |-> cType, cState |-> cState, index |-> i, watchers |-> watchers,
   job |-> job, told |-> told]

LEMMA ClientParts ==
  ASSUME NEW c \in Client0
  PROVE  /\ c.map \in Maps /\ c.cType \in {"Unknown", "Wall"} /\ c.cState \in ChargingStates
         /\ c.index \in UPowerIndex /\ c.watchers \in Nat
         /\ c.job \in Jobs /\ c.job.slot \in UPower!Slots /\ c.job.devices \in Seq(UPowerDevice)
         /\ c.told \in [energy : Energies, valid : Valids]
         /\ c.told.energy \in Energies /\ c.told.valid \in Valids
         /\ c = ClientIs(c.map, c.cType, c.cState, c.index, c.watchers, c.job, c.told)
<1>1. /\ c.map \in Maps /\ c.cType \in {"Unknown", "Wall"} /\ c.cState \in ChargingStates
      /\ c.index \in UPowerIndex /\ c.watchers \in Nat /\ c.job \in Jobs
      /\ c.told \in [energy : Energies, valid : Valids]
      /\ c = ClientIs(c.map, c.cType, c.cState, c.index, c.watchers, c.job, c.told)
  BY DEF Client0, ClientIs
<1>2. c.job.slot \in UPower!Slots /\ c.job.devices \in Seq(UPowerDevice)
  BY <1>1 DEF Jobs
<1>3. c.told.energy \in Energies /\ c.told.valid \in Valids
  BY <1>1
<1> QED BY <1>1, <1>2, <1>3

LEMMA ClientTyped ==
  ASSUME NEW map \in Maps, NEW cType \in {"Unknown", "Wall"}, NEW cState \in ChargingStates,
         NEW i \in UPowerIndex, NEW watchers \in Nat, NEW job \in Jobs,
         NEW told \in [energy : Energies, valid : Valids]
  PROVE  ClientIs(map, cType, cState, i, watchers, job, told) \in Client0
  BY DEF Client0, ClientIs

LEMMA UPowerToldIs ==
  ASSUME NEW told \in [energy : Energies, valid : Valids], NEW e \in Energies, NEW v \in Valids
  PROVE  /\ [told EXCEPT !.energy = e] \in [energy : Energies, valid : Valids]
         /\ [told EXCEPT !.energy = e].energy = e
         /\ [told EXCEPT !.energy = e].valid = told.valid
         /\ [told EXCEPT !.valid = v] \in [energy : Energies, valid : Valids]
         /\ [told EXCEPT !.valid = v].energy = told.energy
  OBVIOUS

LEMMA FieldsIs ==
  ASSUME NEW c \in Client0
  PROVE  /\ \A m \in Maps : [c EXCEPT !.map = m] = ClientIs(m, c.cType, c.cState, c.index,
            c.watchers, c.job, c.told)
         /\ \A t : [c EXCEPT !.cType = t] = ClientIs(c.map, t, c.cState, c.index, c.watchers,
            c.job, c.told)
         /\ \A t : [c EXCEPT !.cState = t] = ClientIs(c.map, c.cType, t, c.index, c.watchers,
            c.job, c.told)
         /\ \A t : [c EXCEPT !.index = t] = ClientIs(c.map, c.cType, c.cState, t, c.watchers,
            c.job, c.told)
         /\ \A t : [c EXCEPT !.watchers = t] = ClientIs(c.map, c.cType, c.cState, c.index, t,
            c.job, c.told)
         /\ \A t : [c EXCEPT !.job = t] = ClientIs(c.map, c.cType, c.cState, c.index, c.watchers,
            t, c.told)
         /\ \A t : [c EXCEPT !.told = t] = ClientIs(c.map, c.cType, c.cState, c.index, c.watchers,
            c.job, t)
<1>1. c = ClientIs(c.map, c.cType, c.cState, c.index, c.watchers, c.job, c.told)
  BY ClientParts
<1>2. \A m, a, b, i, w, j, t :
        /\ ClientIs(m, a, b, i, w, j, t).map = m /\ ClientIs(m, a, b, i, w, j, t).job = j
        /\ \A x : [ClientIs(m, a, b, i, w, j, t) EXCEPT !.map = x] = ClientIs(x, a, b, i, w, j, t)
        /\ \A x : [ClientIs(m, a, b, i, w, j, t) EXCEPT !.cType = x] = ClientIs(m, x, b, i, w, j, t)
        /\ \A x : [ClientIs(m, a, b, i, w, j, t) EXCEPT !.cState = x] = ClientIs(m, a, x, i, w, j,
           t)
        /\ \A x : [ClientIs(m, a, b, i, w, j, t) EXCEPT !.index = x] = ClientIs(m, a, b, x, w, j, t)
        /\ \A x : [ClientIs(m, a, b, i, w, j, t) EXCEPT !.watchers = x] = ClientIs(m, a, b, i, x,
           j, t)
        /\ \A x : [ClientIs(m, a, b, i, w, j, t) EXCEPT !.job = x] = ClientIs(m, a, b, i, w, x, t)
        /\ \A x : [ClientIs(m, a, b, i, w, j, t) EXCEPT !.told = x] = ClientIs(m, a, b, i, w, j, x)
  BY DEF ClientIs
<1> QED BY <1>1, <1>2

LEMMA IsFields ==
  \A m, a, b, i, w, j, t :
    /\ ClientIs(m, a, b, i, w, j, t).map = m /\ ClientIs(m, a, b, i, w, j, t).cType = a
    /\ ClientIs(m, a, b, i, w, j, t).cState = b /\ ClientIs(m, a, b, i, w, j, t).index = i
    /\ ClientIs(m, a, b, i, w, j, t).watchers = w /\ ClientIs(m, a, b, i, w, j, t).job = j
    /\ ClientIs(m, a, b, i, w, j, t).told = t
  BY DEF ClientIs

\* What a slot that runs through a device's properties leaves alone.
Same(c, d) == d.index = c.index /\ d.watchers = c.watchers /\ d.job = c.job

LEMMA TellIs ==
  ASSUME NEW c \in Client0, NEW x \in Energies
  PROVE  /\ [c EXCEPT !.told.energy = x] \in Client0 /\ Same(c, [c EXCEPT !.told.energy = x])
         /\ [c EXCEPT !.told.energy = x].map = c.map
         /\ [c EXCEPT !.told.energy = x].told.energy = x
<1> DEFINE t == [c.told EXCEPT !.energy = x]
           d == ClientIs(c.map, c.cType, c.cState, c.index, c.watchers, c.job, t)
<1>1. t \in [energy : Energies, valid : Valids] /\ t.energy = x
  BY ClientParts, UPowerToldIs
<1>2. [c EXCEPT !.told.energy = x] = [c EXCEPT !.told = t]
  OBVIOUS
<1> HIDE DEF t
<1>3. [c EXCEPT !.told = t] = d
  BY FieldsIs
<1>4. d \in Client0
  BY <1>1, ClientParts, ClientTyped
<1>5. d.map = c.map /\ d.told = t /\ Same(c, d)
  BY IsFields DEF Same
<1> QED BY <1>1, <1>2, <1>3, <1>4, <1>5

LEMMA TellEnergyIs ==
  ASSUME NEW c \in Client0, NEW key, NEW e \in Energy \cup {0},
         \/ key # c.index /\ Reads(c)
         \/ key = c.index /\ (e = UPower!Value(c.map, key).energy \/ e = 0)
  PROVE  /\ UPower!TellEnergy(c, key, e) \in Client0 /\ Same(c, UPower!TellEnergy(c, key, e))
         /\ UPower!TellEnergy(c, key, e).map = c.map /\ Reads(UPower!TellEnergy(c, key, e))
<1>1. CASE key # c.index
  BY <1>1 DEF UPower!TellEnergy, Same
<1>2. CASE key = c.index
  <2>1. <<e>> \in Energies
    BY DEF Energies
  <2> DEFINE d == [c EXCEPT !.told.energy = <<e>>]
  <2>2. d \in Client0 /\ Same(c, d) /\ d.map = c.map /\ d.told.energy = <<e>>
    BY <2>1, TellIs
  <2> HIDE DEF d
  <2>3. Reads(d)
    BY <1>2, <2>2 DEF Reads, Same
  <2>4. UPower!TellEnergy(c, key, e) = d
    BY <1>2 DEF UPower!TellEnergy, d
  <2> QED BY <2>2, <2>3, <2>4
<1> QED BY <1>1, <1>2

LEMMA KeepMap ==
  ASSUME NEW c \in Client0, NEW m \in Maps
  PROVE  /\ [c EXCEPT !.map = m] \in Client0 /\ Same(c, [c EXCEPT !.map = m])
         /\ [c EXCEPT !.map = m].map = m /\ [c EXCEPT !.map = m].told = c.told
<1>1. [c EXCEPT !.map = m] = ClientIs(m, c.cType, c.cState, c.index, c.watchers, c.job, c.told)
  BY FieldsIs
<1>2. ClientIs(m, c.cType, c.cState, c.index, c.watchers, c.job, c.told) \in Client0
  BY ClientParts, ClientTyped
<1> QED BY <1>1, <1>2, IsFields DEF Same

LEMMA KeepOthers ==
  ASSUME NEW c \in Client0, NEW a \in {"Unknown", "Wall"}, NEW b \in ChargingStates
  PROVE  /\ [c EXCEPT !.cState = b, !.cType = a] \in Client0
         /\ [c EXCEPT !.cState = b] \in Client0 /\ [c EXCEPT !.cType = a] \in Client0
         /\ Same(c, [c EXCEPT !.cState = b, !.cType = a])
         /\ Same(c, [c EXCEPT !.cState = b]) /\ Same(c, [c EXCEPT !.cType = a])
         /\ [c EXCEPT !.cState = b, !.cType = a].map = c.map
         /\ [c EXCEPT !.cState = b].map = c.map /\ [c EXCEPT !.cType = a].map = c.map
         /\ [c EXCEPT !.cState = b, !.cType = a].told = c.told
         /\ [c EXCEPT !.cState = b].told = c.told /\ [c EXCEPT !.cType = a].told = c.told
<1> DEFINE d == [c EXCEPT !.cState = b]
<1>1. d = ClientIs(c.map, c.cType, b, c.index, c.watchers, c.job, c.told)
  BY FieldsIs
<1>2. d \in Client0
  BY <1>1, ClientParts, ClientTyped
<1>3. /\ d.map = c.map /\ d.cState = b /\ d.cType = c.cType /\ d.index = c.index
      /\ d.watchers = c.watchers /\ d.job = c.job /\ d.told = c.told
  BY <1>1, IsFields
<1>4. [c EXCEPT !.cState = b, !.cType = a] = [d EXCEPT !.cType = a]
  OBVIOUS
<1> HIDE DEF d
<1> DEFINE e(x) == [x EXCEPT !.cType = a]
<1>5. \A x \in Client0 : /\ e(x) \in Client0 /\ Same(x, e(x)) /\ e(x).map = x.map
                         /\ e(x).told = x.told
  <2>1. TAKE x \in Client0
  <2>2. e(x) = ClientIs(x.map, a, x.cState, x.index, x.watchers, x.job, x.told)
    BY FieldsIs
  <2>3. ClientIs(x.map, a, x.cState, x.index, x.watchers, x.job, x.told) \in Client0
    BY ClientParts, ClientTyped
  <2> QED BY <2>2, <2>3, IsFields DEF Same
<1>6. e(c) \in Client0 /\ Same(c, e(c)) /\ e(c).map = c.map /\ e(c).told = c.told
  BY <1>5
<1>7. e(d) \in Client0 /\ Same(d, e(d)) /\ e(d).map = d.map /\ e(d).told = d.told
  BY <1>2, <1>5
<1>8. Same(c, d) /\ Same(c, e(d))
  BY <1>3, <1>7 DEF Same
<1> QED BY <1>2, <1>3, <1>4, <1>6, <1>7, <1>8 DEF d

LEMMA ChargingStateTyped == \A s : UPower!ChargingStateOf(s) \in ChargingStates
  BY DEF UPower!ChargingStateOf, ChargingStates

\* The entry a slot keeps of a battery, and what it told of the one at the index.
LEMMA StatsIs ==
  ASSUME NEW c \in Client0, NEW p \in UPower!Entry, p.native \notin UPowerBattery => p.energy = 0,
         Reads(c)
  PROVE  /\ UPower!Stats(c, p) \in Client0 /\ Same(c, UPower!Stats(c, p))
         /\ Reads(UPower!Stats(c, p))
         /\ UPower!Stats(c, p).map = IF p.native \in UPowerBattery THEN UPower!Inserted(c.map,
            UPower!Found(c.map, p.native), p)
                              ELSE c.map
<1> DEFINE key == IF p.native \in UPowerBattery THEN UPower!Found(c.map, p.native) ELSE 0
           m == IF p.native \in UPowerBattery THEN UPower!Inserted(c.map, key, p) ELSE c.map
           kept == IF p.native \in UPowerBattery THEN [c EXCEPT !.map = UPower!Inserted(@, key, p)]
             ELSE c
           spoken == UPower!TellEnergy(kept, key, p.energy)
           a == IF p.online THEN "Wall" ELSE spoken.cType
           b == UPower!ChargingStateOf(p.state)
<1>1. UPower!Stats(c, p) = [spoken EXCEPT !.cState = b, !.cType = a]
  BY DEF UPower!Stats
<1>2. c.map \in Maps /\ p.energy \in Energy \cup {0}
  BY ClientParts DEF UPower!Entry
<1>3. key \in Nat
  BY <1>2, FoundIs
<1> HIDE DEF key
<1>4. kept \in Client0 /\ Same(c, kept) /\ kept.map = m /\ kept.told = c.told
  <2>1. CASE p.native \in UPowerBattery
    <3>1. m \in Maps
      BY <1>2, <1>3, <2>1, InsertedIs
    <3>2. kept = [c EXCEPT !.map = m]
      BY <2>1
    <3> HIDE DEF kept, m
    <3> QED BY <3>1, <3>2, KeepMap
  <2>2. CASE p.native \notin UPowerBattery
    BY <2>2 DEF Same
  <2> QED BY <2>1, <2>2
<1>5. \/ key # kept.index /\ Reads(kept)
      \/ key = kept.index /\ (p.energy = UPower!Value(kept.map, key).energy \/ p.energy = 0)
  <2>1. CASE p.native \in UPowerBattery
    <3>1. UPower!Value(m, key) = p /\ \A j : j # key => UPower!Value(m, j) = UPower!Value(c.map, j)
      <4>1. m = UPower!Inserted(c.map, key, p)
        BY <2>1
      <4> HIDE DEF m
      <4> QED BY <1>2, <1>3, <4>1, InsertedValues
    <3> HIDE DEF kept, m
    <3> QED BY <1>4, <3>1 DEF Reads, Same
  <2>2. CASE p.native \notin UPowerBattery
    <3>1. kept = c /\ p.energy = 0
      BY <2>2
    <3> QED BY <3>1
  <2> QED BY <2>1, <2>2
<1> HIDE DEF kept, m
<1>6. spoken \in Client0 /\ Same(kept, spoken) /\ spoken.map = kept.map /\ Reads(spoken)
  BY <1>2, <1>4, <1>5, TellEnergyIs
<1> HIDE DEF spoken
<1>7. a \in {"Unknown", "Wall"} /\ b \in ChargingStates
  BY <1>6, ClientParts, ChargingStateTyped
<1> HIDE DEF a, b
<1> DEFINE d == [spoken EXCEPT !.cState = b, !.cType = a]
<1>8. d \in Client0 /\ Same(spoken, d) /\ d.map = spoken.map /\ d.told = spoken.told
  <2>1. spoken \in Client0
    BY <1>6
  <2> QED BY <1>7, <2>1, KeepOthers
<1> HIDE DEF d
<1>9. Reads(d)
  BY <1>6, <1>8 DEF Reads, Same
<1>10. UPower!Stats(c, p) = d
  BY <1>1 DEF d
<1>11. Same(c, d) /\ d.map = m
  BY <1>4, <1>6, <1>8 DEF Same
<1> QED BY <1>8, <1>9, <1>10, <1>11 DEF m, key

\* The map after one property of a device changed.
Entered(map, device, prop, p) ==
  IF device \in UPowerBattery
  THEN UPower!Inserted(map, UPower!Found(map, device), [UPower!Value(map, UPower!Found(map,
       device)) EXCEPT ![prop] = p[prop]])
  ELSE map

LEMMA EntryChanged ==
  ASSUME NEW e \in UPower!Entry, NEW p \in UPower!Entry
  PROVE  /\ [e EXCEPT !["energy"] = p["energy"]] \in UPower!Entry
         /\ [e EXCEPT !["energy"] = p["energy"]].energy = p.energy
         /\ [e EXCEPT !["energy"] = p["energy"]].native = e.native
         /\ [e EXCEPT !["online"] = p["online"]] \in UPower!Entry
         /\ [e EXCEPT !["online"] = p["online"]].energy = e.energy
         /\ [e EXCEPT !["online"] = p["online"]].native = e.native
         /\ [e EXCEPT !["state"] = p["state"]] \in UPower!Entry
         /\ [e EXCEPT !["state"] = p["state"]].energy = e.energy
         /\ [e EXCEPT !["state"] = p["state"]].native = e.native
  BY DEF UPower!Entry

LEMMA PropertyChangedIs ==
  ASSUME NEW c \in Client0, NEW p \in UPower!Entry, NEW device, NEW prop \in {"energy", "online",
         "state"},
         device \notin UPowerBattery => p.energy = 0, Reads(c)
  PROVE  /\ UPower!PropertyChanged(c, device, prop, p) \in Client0
         /\ Same(c, UPower!PropertyChanged(c, device, prop, p))
         /\ Reads(UPower!PropertyChanged(c, device, prop, p))
         /\ UPower!PropertyChanged(c, device, prop, p).map = Entered(c.map, device, prop, p)
<1> DEFINE key == IF device \in UPowerBattery THEN UPower!Found(c.map, device) ELSE 0
           entry == [UPower!Value(c.map, key) EXCEPT ![prop] = p[prop]]
           m == IF device \in UPowerBattery THEN UPower!Inserted(c.map, key, entry) ELSE c.map
           kept == IF device \in UPowerBattery THEN [c EXCEPT !.map = UPower!Inserted(@, key,
             entry)] ELSE c
           a == IF p.online THEN "Wall" ELSE "Unknown"
           b == UPower!ChargingStateOf(p.state)
<1>1. UPower!PropertyChanged(c, device, prop, p) =
        CASE prop = "energy" -> UPower!TellEnergy(kept, key, p.energy)
          [] prop = "state" -> [kept EXCEPT !.cState = b]
          [] prop = "online" -> [kept EXCEPT !.cType = a]
  BY DEF UPower!PropertyChanged
<1>2. c.map \in Maps /\ p.energy \in Energy \cup {0}
  BY ClientParts DEF UPower!Entry
<1>3. key \in Nat
  BY <1>2, FoundIs
<1>0. m = Entered(c.map, device, prop, p)
  BY DEF Entered
<1> HIDE DEF key
<1>30. UPower!Value(c.map, key) \in UPower!Entry
  BY <1>2, ValueIs
<1>31. /\ entry \in UPower!Entry
       /\ prop = "energy" => entry.energy = p.energy
       /\ prop # "energy" => entry.energy = UPower!Value(c.map, key).energy
  <2> DEFINE v == UPower!Value(c.map, key)
  <2> HIDE DEF v
  <2>1. v \in UPower!Entry
    BY <1>30 DEF v
  <2>2. CASE prop = "energy"
    <3>1. entry = [v EXCEPT !["energy"] = p["energy"]]
      BY <2>2 DEF v
    <3>2. UPower!Value(c.map, key).energy = v.energy
      BY DEF v
    <3> HIDE DEF entry
    <3> QED BY <2>1, <2>2, <3>1, <3>2, EntryChanged
  <2>3. CASE prop = "online"
    <3>1. entry = [v EXCEPT !["online"] = p["online"]]
      BY <2>3 DEF v
    <3>2. UPower!Value(c.map, key).energy = v.energy
      BY DEF v
    <3> HIDE DEF entry
    <3> QED BY <2>1, <2>3, <3>1, <3>2, EntryChanged
  <2>4. CASE prop = "state"
    <3>1. entry = [v EXCEPT !["state"] = p["state"]]
      BY <2>4 DEF v
    <3>2. UPower!Value(c.map, key).energy = v.energy
      BY DEF v
    <3> HIDE DEF entry
    <3> QED BY <2>1, <2>4, <3>1, <3>2, EntryChanged
  <2> QED BY <2>2, <2>3, <2>4
<1> HIDE DEF entry
<1>4. kept \in Client0 /\ Same(c, kept) /\ kept.map = m /\ kept.told = c.told
  <2>1. CASE device \in UPowerBattery
    <3>1. m \in Maps
      BY <1>2, <1>3, <1>31, <2>1, InsertedIs
    <3>2. kept = [c EXCEPT !.map = m]
      BY <2>1
    <3> HIDE DEF kept, m
    <3> QED BY <3>1, <3>2, KeepMap
  <2>2. CASE device \notin UPowerBattery
    BY <2>2 DEF Same
  <2> QED BY <2>1, <2>2
<1>5. /\ prop # "energy" => Reads(kept)
      /\ prop = "energy" =>
           \/ key # kept.index /\ Reads(kept)
           \/ key = kept.index /\ (p.energy = UPower!Value(kept.map, key).energy \/ p.energy = 0)
  <2>1. CASE device \in UPowerBattery
    <3>1. UPower!Value(m, key) = entry /\ \A j : j # key => UPower!Value(m,
          j) = UPower!Value(c.map, j)
      <4>1. m = UPower!Inserted(c.map, key, entry)
        BY <2>1
      <4> HIDE DEF m
      <4> QED BY <1>2, <1>3, <1>31, <4>1, InsertedValues
    <3> HIDE DEF kept, m
    <3>2. key # kept.index => Reads(kept)
      BY <1>4, <3>1 DEF Reads, Same
    <3>3. CASE prop = "energy"
      BY <1>4, <1>31, <3>1, <3>2, <3>3
    <3>4. CASE prop # "energy"
      <4>1. \A j : UPower!Value(m, j).energy = UPower!Value(c.map, j).energy
        BY <1>31, <3>1, <3>4
      <4> QED BY <1>4, <3>4, <4>1 DEF Reads, Same
    <3> QED BY <3>3, <3>4
  <2>2. CASE device \notin UPowerBattery
    <3>1. kept = c /\ p.energy = 0
      BY <2>2
    <3> QED BY <3>1
  <2> QED BY <2>1, <2>2
<1> HIDE DEF kept, m
<1>6. a \in {"Unknown", "Wall"} /\ b \in ChargingStates
  BY ChargingStateTyped
<1> HIDE DEF a, b
<1> DEFINE d == UPower!PropertyChanged(c, device, prop, p)
<1>7. CASE prop = "energy"
  <2>1. d = UPower!TellEnergy(kept, key, p.energy)
    BY <1>1, <1>7
  <2> HIDE DEF d
  <2>2. d \in Client0 /\ Same(kept, d) /\ d.map = kept.map /\ Reads(d)
    BY <1>2, <1>4, <1>5, <1>7, <2>1, TellEnergyIs
  <2>3. Same(c, d) /\ d.map = m
    BY <1>4, <2>2 DEF Same
  <2> QED BY <1>0, <2>2, <2>3 DEF d
<1>8. CASE prop = "state"
  <2>1. d = [kept EXCEPT !.cState = b]
    BY <1>1, <1>8
  <2> HIDE DEF d
  <2>2. d \in Client0 /\ Same(kept, d) /\ d.map = kept.map /\ d.told = kept.told
    BY <1>4, <1>6, <2>1, KeepOthers
  <2>3. Same(c, d) /\ d.map = m /\ Reads(d)
    BY <1>4, <1>5, <1>8, <2>2 DEF Same, Reads
  <2> QED BY <1>0, <2>2, <2>3 DEF d
<1>9. CASE prop = "online"
  <2>1. d = [kept EXCEPT !.cType = a]
    BY <1>1, <1>9
  <2> HIDE DEF d
  <2>2. d \in Client0 /\ Same(kept, d) /\ d.map = kept.map /\ d.told = kept.told
    BY <1>4, <1>6, <2>1, KeepOthers
  <2>3. Same(c, d) /\ d.map = m /\ Reads(d)
    BY <1>4, <1>5, <1>9, <2>2 DEF Same, Reads
  <2> QED BY <1>0, <2>2, <2>3 DEF d
<1> QED BY <1>7, <1>8, <1>9

UPowerReading == UTypes /\ Reads(upClient)

LEMMA ReadNowIs ==
  ASSUME UTypes, NEW d \in UPowerDevice
  PROVE  /\ UPower!ReadNow(d) \in UPower!Entry /\ OfDevice(UPower!ReadNow(d), d)
         /\ up /\ d \in upPresent => UPower!ReadNow(d) = properties[d]
            /\ UPower!ReadNow(d).native = d
         /\ UPower!ReadNow(d).native \in {"none", d}
  BY NothingIs DEF UTypes, UPower!ReadNow, OfDevice, Proper

LEMMA OfDeviceIs ==
  ASSUME NEW d \in UPowerDevice, NEW m, OfDevice(m, d)
  PROVE  m \in UPower!Entry /\ (m.native \notin UPowerBattery => m.energy = 0)
         /\ (d \notin UPowerBattery => m.energy = 0)
  BY NothingIs DEF OfDevice, Proper

LEMMA DeviceGoneIs ==
  ASSUME NEW c \in Client0, NEW p \in UPower!Entry, Reads(c)
  PROVE  /\ UPower!DeviceGone(c, p) \in Client0 /\ Same(c, UPower!DeviceGone(c, p))
         /\ Reads(UPower!DeviceGone(c, p))
         /\ p.native \notin UPowerBattery => UPower!DeviceGone(c, p) = c
<1>1. CASE p.native \notin UPowerBattery
  BY <1>1 DEF UPower!DeviceGone, Same
<1>2. CASE p.native \in UPowerBattery
  <2> DEFINE k == UPower!Found(c.map, p.native)
             m == UPower!Removed(c.map, k)
             gone == [c EXCEPT !.map = m]
             v == IF UPower!IsValid(c) # UPower!IsValid(gone) THEN <<UPower!IsValid(gone)>>
               ELSE c.told.valid
             e == IF k = c.index THEN UPower!Untold ELSE c.told.energy
             t == [[c.told EXCEPT !.valid = v] EXCEPT !.energy = e]
             d == [gone EXCEPT !.told = t]
  <2>1. c.map \in Maps
    BY ClientParts
  <2>2. m \in Maps /\ \A j : j # k => UPower!Value(m, j) = UPower!Value(c.map, j)
    BY <2>1, RemovedIs
  <2>3. UPower!DeviceGone(c, p) = [gone EXCEPT !.told.valid = v, !.told.energy = e]
    <3>1. [gone EXCEPT !.told.valid = v, !.told.energy = IF k = c.index THEN UPower!Untold ELSE @]
            = [gone EXCEPT !.told.valid = v, !.told.energy = e]
      <4>1. gone.told.energy = c.told.energy
        BY <2>2, KeepMap
      <4> HIDE DEF gone, v, k, m
      <4> QED BY <4>1
    <3> QED BY <1>2, <3>1 DEF UPower!DeviceGone
  <2>4. gone \in Client0 /\ Same(c, gone) /\ gone.map = m /\ gone.told = c.told
    BY <2>2, KeepMap
  <2>5. v \in Valids /\ e \in Energies
    <3>1. UPower!IsValid(gone) \in BOOLEAN
      BY DEF UPower!IsValid
    <3>2. c.told.valid \in Valids /\ c.told.energy \in Energies /\ UPower!Untold \in Energies
      BY ClientParts DEF Energies
    <3> QED BY <3>1, <3>2 DEF Valids
  <2> HIDE DEF k, m, gone, v
  <2>6. t \in [energy : Energies, valid : Valids] /\ t.energy = e
    <3> DEFINE t1 == [c.told EXCEPT !.valid = v]
    <3>1. t1 \in [energy : Energies, valid : Valids]
      BY <2>5, ClientParts, UPowerToldIs
    <3> HIDE DEF t1, e
    <3>2. [t1 EXCEPT !.energy = e] \in [energy : Energies, valid : Valids]
          /\ [t1 EXCEPT !.energy = e].energy = e
      BY <2>5, <3>1, UPowerToldIs
    <3> QED BY <3>2 DEF t1
  <2>7. [gone EXCEPT !.told.valid = v, !.told.energy = e] = d
    BY <2>4
  <2>8. e \in {UPower!Untold, <<0>>, <<UPower!Value(m, c.index).energy>>}
    BY <2>2 DEF Reads
  <2> HIDE DEF t, e
  <2>9. d = ClientIs(gone.map, gone.cType, gone.cState, gone.index, gone.watchers, gone.job, t)
    BY <2>4, FieldsIs
  <2>10. d \in Client0
    BY <2>4, <2>6, <2>9, ClientParts, ClientTyped
  <2>11. d.map = m /\ d.told = t /\ Same(c, d)
    BY <2>4, <2>9, IsFields DEF Same
  <2> HIDE DEF d
  <2>12. Reads(d)
    BY <2>6, <2>8, <2>11 DEF Reads, Same
  <2> QED BY <1>2, <2>3, <2>7, <2>10, <2>11, <2>12
<1> QED BY <1>1, <1>2

LEMMA JobIs ==
  ASSUME NEW c \in Client0, NEW j \in Jobs
  PROVE  /\ [c EXCEPT !.job = j] \in Client0 /\ [c EXCEPT !.job = j].job = j
         /\ [c EXCEPT !.job = j].map = c.map /\ [c EXCEPT !.job = j].told = c.told
         /\ [c EXCEPT !.job = j].index = c.index /\ [c EXCEPT !.job = j].watchers = c.watchers
         /\ Reads(c) => Reads([c EXCEPT !.job = j])
<1> DEFINE d == [c EXCEPT !.job = j]
<1>1. d = ClientIs(c.map, c.cType, c.cState, c.index, c.watchers, j, c.told)
  BY FieldsIs
<1>2. d \in Client0
  BY <1>1, ClientParts, ClientTyped
<1>3. d.job = j /\ d.map = c.map /\ d.told = c.told /\ d.index = c.index /\ d.watchers = c.watchers
  BY <1>1, IsFields
<1> HIDE DEF d
<1>4. Reads(c) => Reads(d)
  BY <1>3 DEF Reads
<1> QED BY <1>2, <1>3, <1>4 DEF d

LEMMA JobKept ==
  \A c \in Client0, j \in Jobs : Reads(c) =>
    LET d == [c EXCEPT !.job = j]
    IN  d \in Client0 /\ d.job = j /\ d.map = c.map /\ d.watchers = c.watchers /\ Reads(d)
  BY JobIs

LEMMA RestIs ==
  ASSUME UTypes, NEW slot \in {"read", "readAdded"}, UPower!Job.devices # <<>>
  PROVE  /\ UPower!RestDevices(slot) \in Jobs
         /\ UPower!RestDevices(slot) = IF Len(UPower!Job.devices) = 1 THEN UPower!Idle
                                ELSE [slot |-> slot, devices |-> Tail(UPower!Job.devices)]
         /\ Len(UPower!Job.devices) # 1 => Tail(UPower!Job.devices) # <<>>
         /\ \/ UPower!RestDevices(slot).slot = "none"
            \/ /\ UPower!RestDevices(slot).slot = slot
               /\ UPower!RestDevices(slot).devices = Tail(UPower!Job.devices)
               /\ Tail(UPower!Job.devices) # <<>>
<1>1. UPower!Job.devices \in Seq(UPowerDevice)
  BY ClientParts DEF UTypes, UPower!Job
<1>2. Len(UPower!Job.devices) # 1 => Tail(UPower!Job.devices) # <<>>
      /\ Tail(UPower!Job.devices) \in Seq(UPowerDevice)
  <2>1. \A q \in Seq(UPowerDevice) : q # <<>> /\ Len(q) # 1 => Tail(q) # <<>>
                                     /\ Tail(q) \in Seq(UPowerDevice)
    <3>1. SUFFICES ASSUME NEW q \in Seq(UPowerDevice), q # <<>>, Len(q) # 1
          PROVE  Tail(q) # <<>> /\ Tail(q) \in Seq(UPowerDevice)
      OBVIOUS
    <3>2. Len(q) \in Nat /\ Len(q) # 0
      BY <3>1
    <3>3. Tail(q) \in Seq(UPowerDevice) /\ Len(Tail(q)) = Len(q) - 1
      BY <3>1
    <3>4. Len(Tail(q)) # 0
      BY <3>1, <3>2, <3>3
    <3>5. \A r : Len(r) # 0 => r # <<>>
      OBVIOUS
    <3>6. Tail(q) # <<>>
      BY <3>4, <3>5
    <3> QED BY <3>3, <3>6
  <2> QED BY <1>1, <2>1
<1>3. UPower!Idle \in Jobs
  BY DEF UPower!Idle, Jobs, UPower!Slots
<1>4. Len(UPower!Job.devices) # 1 => [slot |-> slot, devices |-> Tail(UPower!Job.devices)] \in Jobs
  <2>1. \A q \in Seq(UPowerDevice) : [slot |-> slot, devices |-> q] \in Jobs
    BY DEF Jobs, UPower!Slots
  <2>2. Tail(UPower!Job.devices) \in Seq(UPowerDevice)
          => [slot |-> slot, devices |-> Tail(UPower!Job.devices)] \in Jobs
    BY <2>1
  <2>3. CASE Len(UPower!Job.devices) = 1
    BY <2>3
  <2>4. CASE Len(UPower!Job.devices) # 1
    <3>1. Tail(UPower!Job.devices) \in Seq(UPowerDevice)
      BY <1>2, <2>4
    <3> QED BY <2>2, <3>1
  <2> QED BY <2>3, <2>4
<1>5. UPower!RestDevices(slot) = IF Len(UPower!Job.devices) = 1 THEN UPower!Idle
                           ELSE [slot |-> slot, devices |-> Tail(UPower!Job.devices)]
  BY DEF UPower!RestDevices
<1>6. CASE Len(UPower!Job.devices) = 1
  <2>1. UPower!RestDevices(slot) = UPower!Idle /\ UPower!Idle.slot = "none"
    BY <1>5, <1>6 DEF UPower!Idle
  <2>2. UPower!RestDevices(slot) \in Jobs
    BY <1>3, <2>1
  <2> QED BY <1>2, <1>5, <2>1, <2>2
<1>7. CASE Len(UPower!Job.devices) # 1
  <2> DEFINE t == Tail(UPower!Job.devices)
             r == [slot |-> slot, devices |-> t]
  <2>1. t # <<>> /\ r \in Jobs
    BY <1>2, <1>4, <1>7
  <2> HIDE DEF t
  <2>2. r.slot = slot /\ r.devices = t
    OBVIOUS
  <2> HIDE DEF r
  <2>3. UPower!RestDevices(slot) = r
    BY <1>5, <1>7 DEF r, t
  <2> QED BY <1>5, <1>7, <2>1, <2>2, <2>3 DEF t
<1> QED BY <1>6, <1>7

LEMMA EmptyMap == <<>> \in Maps /\ \A k : UPower!Value(<<>>, k) = UPower!Nothing
  /\ \A d : UPower!KeysOf(<<>>, d) = {}
<1>1. IsFiniteSet({})
  BY FS_EmptySet, SameCardinality
<1>2. DOMAIN <<>> = {}
  OBVIOUS
<1>3. <<>> \in [{} -> UPower!Entry]
  OBVIOUS
<1> QED BY <1>1, <1>2, <1>3 DEF Maps, UPower!Value, UPower!KeysOf
-----------------------------------------------------------------------------
(***************************************************************************)
(* The messages.                                                           *)
(***************************************************************************)
Sent(kind, d) == \E n \in 1 .. Len(upInbox) : upInbox[n].kind = kind /\ upInbox[n].device = d
Restarted == \E n \in 1 .. Len(upInbox) : upInbox[n].kind = "registered"
\* That a battery that is there went is told before that it came, or UPower did.
Ordered(b) ==
  \A n \in 1 .. Len(upInbox) : upInbox[n].kind = "removed" /\ upInbox[n].device = b =>
    \E m \in n + 1 .. Len(upInbox) :
      \/ upInbox[m].kind = "registered"
      \/ upInbox[m].kind = "added" /\ upInbox[m].device = b

Coming(b) ==
  \/ UPower!KeysOf(upClient.map, b) # {}
  \/ Sent("added", b) \/ Restarted
  \/ UPower!Job.slot = "enumerate"
  \/ UPower!Job.slot \in {"read", "readAdded"} /\ b \in UPower!Range(UPower!Job.devices)
  \/ Matching(UPower!Job.slot) /\ (b \in UPower!Range(Tail(UPower!Job.devices)) \/ UPower!Newest.map.native = b)

Known(b) == up /\ b \in upPresent => Coming(b) /\ Ordered(b)

Unwatched ==
  upClient.watchers = 0 =>
    /\ \A n \in 1 .. Len(upInbox) : upInbox[n].kind \notin {"added", "removed"}
    /\ up => Restarted

OnlyBattery(b) == UPowerBattery = {b}

UPowerInv == UTypes /\ Reads(upClient) /\ Unwatched /\ \A b : OnlyBattery(b) => Known(b)

LEMMA TailInbox ==
  ASSUME upInbox \in Seq(UPower!Messages), upInbox # <<>>, upInbox' = Tail(upInbox)
  PROVE  /\ upInbox' \in Seq(UPower!Messages) /\ Len(upInbox) \in Nat
         /\ Len(upInbox') = Len(upInbox) - 1
         /\ 1 \in 1 .. Len(upInbox) /\ Head(upInbox) = upInbox[1]
         /\ Head(upInbox) \in UPower!Messages
         /\ \A n \in 1 .. Len(upInbox') : n + 1 \in 1 .. Len(upInbox)
            /\ upInbox'[n] = upInbox[n + 1]
<1>1. Len(upInbox) \in Nat /\ Len(upInbox) # 0
  OBVIOUS
<1> QED BY <1>1

LEMMA TailSent ==
  ASSUME upInbox \in Seq(UPower!Messages), upInbox # <<>>, upInbox' = Tail(upInbox)
  PROVE  /\ \A kind, d : Sent(kind, d) => Sent(kind, d)' \/ (Head(upInbox).kind = kind
            /\ Head(upInbox).device = d)
         /\ Restarted => Restarted' \/ Head(upInbox).kind = "registered"
<1>1. \A n \in 1 .. Len(upInbox) : n # 1 => n - 1 \in 1 .. Len(upInbox')
                                   /\ upInbox'[n - 1] = upInbox[n]
  BY TailInbox
<1>2. Head(upInbox) = upInbox[1]
  BY TailInbox
<1>3. ASSUME NEW kind, NEW d, Sent(kind, d), ~(Head(upInbox).kind = kind
             /\ Head(upInbox).device = d)
      PROVE  Sent(kind, d)'
  <2>1. PICK n \in 1 .. Len(upInbox) : upInbox[n].kind = kind /\ upInbox[n].device = d
    BY <1>3 DEF Sent
  <2>2. n # 1
    BY <1>2, <1>3, <2>1
  <2> QED BY <1>1, <2>1, <2>2 DEF Sent
<1>4. ASSUME Restarted, Head(upInbox).kind # "registered" PROVE Restarted'
  <2>1. PICK n \in 1 .. Len(upInbox) : upInbox[n].kind = "registered"
    BY <1>4 DEF Restarted
  <2>2. n # 1
    BY <1>2, <1>4, <2>1
  <2> QED BY <1>1, <2>1, <2>2 DEF Restarted
<1> QED BY <1>3, <1>4

LEMMA TailOrdered ==
  ASSUME upInbox \in Seq(UPower!Messages), upInbox # <<>>, upInbox' = Tail(upInbox), NEW b,
         Ordered(b)
  PROVE  /\ Ordered(b)'
         /\ Head(upInbox).kind = "removed" /\ Head(upInbox).device = b
            => Restarted' \/ Sent("added", b)'
<1>1. \A n \in 1 .. Len(upInbox) : n # 1 => n - 1 \in 1 .. Len(upInbox')
                                   /\ upInbox'[n - 1] = upInbox[n]
  BY TailInbox
<1>2. Head(upInbox) = upInbox[1] /\ 1 \in 1 .. Len(upInbox) /\ Len(upInbox) \in Nat
      /\ Len(upInbox') = Len(upInbox) - 1
  BY TailInbox
<1>3. Ordered(b)'
  <2>1. SUFFICES ASSUME NEW n \in 1 .. Len(upInbox'), upInbox'[n].kind = "removed",
                        upInbox'[n].device = b
        PROVE  \E m \in n + 1 .. Len(upInbox') :
                 \/ upInbox'[m].kind = "registered"
                 \/ upInbox'[m].kind = "added" /\ upInbox'[m].device = b
    BY DEF Ordered
  <2>2. n + 1 \in 1 .. Len(upInbox) /\ upInbox'[n] = upInbox[n + 1]
    BY TailInbox
  <2>3. PICK m \in (n + 1) + 1 .. Len(upInbox) :
          \/ upInbox[m].kind = "registered"
          \/ upInbox[m].kind = "added" /\ upInbox[m].device = b
    BY <2>1, <2>2 DEF Ordered
  <2>4. m - 1 \in n + 1 .. Len(upInbox') /\ upInbox'[m - 1] = upInbox[m]
    BY <1>1, <1>2, <2>2
  <2> QED BY <2>3, <2>4
<1>4. ASSUME Head(upInbox).kind = "removed", Head(upInbox).device = b PROVE Restarted' \/ Sent("added", b)'
  <2>1. PICK m \in 1 + 1 .. Len(upInbox) :
          \/ upInbox[m].kind = "registered"
          \/ upInbox[m].kind = "added" /\ upInbox[m].device = b
    BY <1>2, <1>4 DEF Ordered
  <2>2. m - 1 \in 1 .. Len(upInbox') /\ upInbox'[m - 1] = upInbox[m]
    BY <1>1, <1>2
  <2> QED BY <2>1, <2>2 DEF Restarted, Sent
<1> QED BY <1>3, <1>4

LEMMA AppendInbox ==
  ASSUME upInbox \in Seq(UPower!Messages), NEW m \in UPower!Messages, upInbox' = Append(upInbox, m)
  PROVE  /\ upInbox' \in Seq(UPower!Messages) /\ Len(upInbox') = Len(upInbox) + 1
         /\ Len(upInbox) \in Nat
         /\ \A n \in 1 .. Len(upInbox) : upInbox'[n] = upInbox[n]
         /\ upInbox'[Len(upInbox) + 1] = m
         /\ \A n \in 1 .. Len(upInbox') : n \in 1 .. Len(upInbox) \/ n = Len(upInbox) + 1
  OBVIOUS

LEMMA AppendSent ==
  ASSUME upInbox \in Seq(UPower!Messages), NEW m \in UPower!Messages, upInbox' = Append(upInbox, m)
  PROVE  /\ \A kind, d : Sent(kind, d) => Sent(kind, d)'
         /\ Restarted => Restarted'
         /\ \A d : m.kind = "added" /\ m.device = d => Sent("added", d)'
         /\ m.kind = "registered" => Restarted'
         /\ \A b : Ordered(b) /\ ~(m.kind = "removed" /\ m.device = b) => Ordered(b)'
         /\ \A b : m.kind = "registered" \/ (m.kind = "added" /\ m.device = b) => Ordered(b)'
<1>1. /\ Len(upInbox') = Len(upInbox) + 1 /\ Len(upInbox) \in Nat
      /\ \A n \in 1 .. Len(upInbox) : upInbox'[n] = upInbox[n] /\ n \in 1 .. Len(upInbox')
      /\ upInbox'[Len(upInbox) + 1] = m /\ Len(upInbox) + 1 \in 1 .. Len(upInbox')
      /\ \A n \in 1 .. Len(upInbox') : n \in 1 .. Len(upInbox) \/ n = Len(upInbox) + 1
  BY AppendInbox
<1>2. ASSUME NEW kind, NEW d, Sent(kind, d) PROVE Sent(kind, d)'
  BY <1>1, <1>2 DEF Sent
<1>3. ASSUME Restarted PROVE Restarted'
  BY <1>1, <1>3 DEF Restarted
<1>4. \A d : m.kind = "added" /\ m.device = d => Sent("added", d)'
  BY <1>1 DEF Sent
<1>5. m.kind = "registered" => Restarted'
  BY <1>1 DEF Restarted
<1>6. ASSUME NEW b, Ordered(b), ~(m.kind = "removed" /\ m.device = b) PROVE Ordered(b)'
  <2>1. SUFFICES ASSUME NEW n \in 1 .. Len(upInbox'), upInbox'[n].kind = "removed",
                        upInbox'[n].device = b
        PROVE  \E j \in n + 1 .. Len(upInbox') :
                 \/ upInbox'[j].kind = "registered"
                 \/ upInbox'[j].kind = "added" /\ upInbox'[j].device = b
    BY DEF Ordered
  <2>2. n \in 1 .. Len(upInbox) /\ upInbox'[n] = upInbox[n]
    BY <1>1, <1>6, <2>1
  <2>3. PICK j \in n + 1 .. Len(upInbox) :
          \/ upInbox[j].kind = "registered"
          \/ upInbox[j].kind = "added" /\ upInbox[j].device = b
    BY <1>6, <2>1, <2>2 DEF Ordered
  <2>4. j \in n + 1 .. Len(upInbox') /\ upInbox'[j] = upInbox[j]
    BY <1>1, <2>2, <2>3
  <2> QED BY <2>3, <2>4
<1>7. ASSUME NEW b, m.kind = "registered" \/ (m.kind = "added" /\ m.device = b) PROVE Ordered(b)'
  <2>1. SUFFICES ASSUME NEW n \in 1 .. Len(upInbox'), upInbox'[n].kind = "removed",
                        upInbox'[n].device = b
        PROVE  \E j \in n + 1 .. Len(upInbox') :
                 \/ upInbox'[j].kind = "registered"
                 \/ upInbox'[j].kind = "added" /\ upInbox'[j].device = b
    BY DEF Ordered
  <2>2. n # Len(upInbox) + 1
    BY <1>1, <1>7, <2>1
  <2>3. Len(upInbox) + 1 \in n + 1 .. Len(upInbox')
    BY <1>1, <2>1, <2>2
  <2> QED BY <1>1, <1>7, <2>3
<1> QED BY <1>2, <1>3, <1>4, <1>5, <1>6, <1>7
-----------------------------------------------------------------------------
(***************************************************************************)
(* The steps of the client.                                                *)
(***************************************************************************)
\* A step that leaves UPower and the interfaces alone, and at most takes a message.
Taken == upInbox' = upInbox \/ (upInbox # <<>> /\ upInbox' = Tail(upInbox))
JobFits(j) ==
  /\ Working(j.slot) => j.devices # <<>>
  /\ Matching(j.slot) => interfaces # <<>> /\ UPower!Newest.device = Head(j.devices)

LEMMA TakenIs ==
  ASSUME upInbox \in Seq(UPower!Messages), Taken
  PROVE  upInbox' \in Seq(UPower!Messages)
      /\ \A n \in 1 .. Len(upInbox') : \E m \in 1 .. Len(upInbox) : upInbox'[n] = upInbox[m]
<1>1. CASE upInbox' = upInbox
  BY <1>1
<1>2. CASE upInbox # <<>> /\ upInbox' = Tail(upInbox)
  BY <1>2, TailInbox
<1> QED BY <1>1, <1>2 DEF Taken

LEMMA TypesStay ==
  ASSUME UTypes, UNCHANGED <<UPower!daemon, interfaces>>, requests' \in Seq(1 .. Len(interfaces)),
         Taken,
         upClient' \in Client0, JobFits(upClient'.job)
  PROVE  UTypes'
<1>1. upInbox' \in Seq(UPower!Messages)
      /\ \A n \in 1 .. Len(upInbox') : \E m \in 1 .. Len(upInbox) : upInbox'[n] = upInbox[m]
  BY TakenIs DEF UTypes
<1>2. \A n \in 1 .. Len(upInbox') :
        /\ upInbox'[n].kind = "answer" =>
             /\ upInbox'[n].interface \in 1 .. Len(interfaces)
             /\ OfDevice(upInbox'[n].map, interfaces[upInbox'[n].interface].device)
        /\ upInbox'[n].kind \in {"added", "removed", "changed"}
           => upInbox'[n].device \in UPowerDevice
  <2>1. TAKE n \in 1 .. Len(upInbox')
  <2>2. PICK m \in 1 .. Len(upInbox) : upInbox'[n] = upInbox[m]
    BY <1>1
  <2> QED BY <2>2 DEF UTypes
<1>3. /\ up' = up /\ upPresent' = upPresent /\ properties' = properties /\ interfaces' = interfaces
  BY DEF UPower!daemon
<1>4. UPower!Newest' = UPower!Newest
  BY <1>3 DEF UPower!Newest
<1>5. /\ Working(upClient'.job.slot) => upClient'.job.devices # <<>>
      /\ Matching(upClient'.job.slot) => interfaces # <<>> /\ UPower!Newest.device = Head(upClient'.job.devices)
  BY DEF JobFits
<1>6. /\ up \in BOOLEAN /\ upPresent \subseteq UPowerDevice
      /\ properties \in [UPowerDevice -> UPower!Entry] /\ (\A d \in UPowerDevice : Proper(properties[d], d))
      /\ interfaces \in Seq(UPower!Interface)
      /\ \A i \in 1 .. Len(interfaces) : OfDevice(interfaces[i].map, interfaces[i].device)
  BY DEF UTypes
<1> QED BY <1>1, <1>2, <1>3, <1>4, <1>5, <1>6 DEF UTypes

LEMMA UnwatchedStays ==
  ASSUME UTypes, Unwatched, UNCHANGED UPower!daemon, Taken, upClient'.watchers = upClient.watchers,
         upInbox' = upInbox \/ Head(upInbox).kind # "registered"
  PROVE  Unwatched'
<1>1. upInbox \in Seq(UPower!Messages)
  BY DEF UTypes
<1>2. SUFFICES ASSUME upClient.watchers = 0
      PROVE  /\ \A n \in 1 .. Len(upInbox') : upInbox'[n].kind \notin {"added", "removed"}
             /\ up' => Restarted'
  BY DEF Unwatched
<1>3. /\ \A n \in 1 .. Len(upInbox) : upInbox[n].kind \notin {"added", "removed"}
      /\ up' => Restarted
  BY <1>2 DEF Unwatched, UPower!daemon
<1>4. CASE upInbox' = upInbox
  BY <1>3, <1>4 DEF Restarted
<1>5. CASE upInbox # <<>> /\ upInbox' = Tail(upInbox) /\ Head(upInbox).kind # "registered"
  BY <1>1, <1>3, <1>5, TailInbox, TailSent
<1> QED BY <1>4, <1>5 DEF Taken

LEMMA OrderedStays ==
  ASSUME UTypes, Taken, NEW b, Ordered(b)
  PROVE  Ordered(b)'
<1>1. CASE upInbox' = upInbox
  BY <1>1 DEF Ordered
<1>2. CASE upInbox # <<>> /\ upInbox' = Tail(upInbox)
  BY <1>2, TailOrdered DEF UTypes
<1> QED BY <1>1, <1>2 DEF Taken

\* What a battery that comes is announced by stays, unless the step takes that message.
LEMMA SentStays ==
  ASSUME UTypes, Taken, NEW b,
         upInbox' = upInbox \/ ~(Head(upInbox).kind = "added" /\ Head(upInbox).device = b)
  PROVE  /\ Sent("added", b) => Sent("added", b)'
         /\ Restarted => Restarted' \/ (upInbox' # upInbox /\ Head(upInbox).kind = "registered")
<1>1. CASE upInbox' = upInbox
  BY <1>1 DEF Sent, Restarted
<1>2. CASE upInbox # <<>> /\ upInbox' = Tail(upInbox) /\ upInbox' # upInbox
  BY <1>2, TailSent DEF UTypes
<1> QED BY <1>1, <1>2 DEF Taken

LEMMA JobInv ==
  ASSUME UPowerInv, UNCHANGED <<UPower!daemon, upInbox, requests, interfaces>>, NEW j \in Jobs,
         JobFits(j),
         upClient' = [upClient EXCEPT !.job = j],
         \A b : OnlyBattery(b) /\ up /\ b \in upPresent /\ Coming(b) => Coming(b)'
  PROVE  UPowerInv'
<1>1. upClient \in Client0 /\ requests \in Seq(1 .. Len(interfaces))
  BY DEF UPowerInv, UTypes
<1>2. /\ upClient' \in Client0 /\ upClient'.job = j /\ upClient'.map = upClient.map
      /\ upClient'.watchers = upClient.watchers /\ Reads(upClient')
  BY <1>1, JobIs DEF UPowerInv
<1>3. Taken /\ upInbox' = upInbox /\ requests' = requests
  BY DEF Taken
<1>4. UTypes'
  <2>1. upClient'.job = j /\ JobFits(upClient'.job)
    BY <1>2
  <2> QED BY <1>1, <1>2, <1>3, <2>1, TypesStay DEF UPowerInv
<1>5. Unwatched'
  BY <1>2, <1>3, UnwatchedStays DEF UPowerInv
<1>6. ASSUME NEW b, OnlyBattery(b) PROVE Known(b)'
  BY <1>3, <1>6, OrderedStays DEF UPowerInv, Known, UPower!daemon
<1>7. \A b : OnlyBattery(b)' <=> OnlyBattery(b)
  BY DEF OnlyBattery
<1> QED BY <1>2, <1>4, <1>5, <1>6, <1>7 DEF UPowerInv

LEMMA EnumerateInv == UPowerInv /\ UPower!Enumerate => UPowerInv'
<1> SUFFICES ASSUME UPowerInv, UPower!Enumerate PROVE UPowerInv'
  OBVIOUS
<1>1. PICK devices \in Lists :
        /\ UPower!Range(devices) = IF up THEN upPresent ELSE {}
        /\ upClient' = [upClient EXCEPT !.job = IF devices = <<>> THEN UPower!Idle
                                            ELSE [slot |-> "read", devices |-> devices]]
  BY DEF UPower!Enumerate
<1> DEFINE j == IF devices = <<>> THEN UPower!Idle ELSE [slot |-> "read", devices |-> devices]
<1>2. devices \in Seq(UPowerDevice)
  BY UPowerAssumption
<1>3. j \in Jobs
  BY <1>2 DEF Jobs, UPower!Idle, UPower!Slots
<1>4. /\ devices = <<>> => j.slot = "none"
      /\ devices # <<>> => j.slot = "read" /\ j.devices = devices
  BY DEF UPower!Idle
<1>5. UNCHANGED <<UPower!daemon, upInbox, requests, interfaces>>
  BY DEF UPower!Enumerate
<1>6. upClient' = [upClient EXCEPT !.job = j]
  BY <1>1
<1>7. JobFits(j)
  BY <1>4 DEF JobFits, Working, Matching
<1>8. upClient'.job = j
  BY <1>3, <1>6, JobIs DEF UPowerInv, UTypes
<1> HIDE DEF j
<1>9. ASSUME NEW b, OnlyBattery(b), up, b \in upPresent PROVE Coming(b)'
  <2>1. b \in UPower!Range(devices)
    BY <1>1, <1>9
  <2>2. devices # <<>>
    BY <2>1 DEF UPower!Range
  <2>3. UPower!Job'.slot = "read" /\ b \in UPower!Range(UPower!Job'.devices)
    BY <1>4, <1>8, <2>1, <2>2 DEF UPower!Job
  <2> QED BY <2>3 DEF Coming
<1> QED BY <1>3, <1>5, <1>6, <1>7, <1>9, JobInv

LEMMA InSet == \A s, n : n \in 1 .. Len(s) /\ s \in Seq(UPowerDevice) => s[n] \in UPower!Range(s)
<1>1. \A s \in Seq(UPowerDevice) : DOMAIN s = 1 .. Len(s)
  OBVIOUS
<1> QED BY <1>1 DEF UPower!Range

LEMMA SeqWider == ASSUME NEW A, NEW B, A \subseteq B, NEW s \in Seq(A) PROVE s \in Seq(B)
<1>1. Len(s) \in Nat /\ \A i \in 1 .. Len(s) : s[i] \in B
  OBVIOUS
<1> QED BY <1>1

\* The interfaces keep their devices, and new ones are added after them.
LEMMA TypesOfInterfaces ==
  ASSUME UTypes, UNCHANGED <<UPower!daemon, requests>>, Taken,
         interfaces' \in Seq(UPower!Interface), Len(interfaces') \in Nat,
           Len(interfaces') >= Len(interfaces),
         \A i \in 1 .. Len(interfaces) : interfaces'[i].device = interfaces[i].device,
         \A i \in 1 .. Len(interfaces') : OfDevice(interfaces'[i].map, interfaces'[i].device),
         upClient' \in Client0,
         Working(upClient'.job.slot) => upClient'.job.devices # <<>>,
         Matching(upClient'.job.slot) => interfaces' # <<>> /\ UPower!Newest'.device = Head(upClient'.job.devices)
  PROVE  UTypes'
<1>1. Len(interfaces) \in Nat /\ 1 .. Len(interfaces) \subseteq 1 .. Len(interfaces')
  BY DEF UTypes
<1>2. requests \in Seq(1 .. Len(interfaces'))
  BY <1>1, SeqWider DEF UTypes
<1>3. upInbox' \in Seq(UPower!Messages)
      /\ \A n \in 1 .. Len(upInbox') : \E m \in 1 .. Len(upInbox) : upInbox'[n] = upInbox[m]
  BY TakenIs DEF UTypes
<1>4. \A n \in 1 .. Len(upInbox') :
        /\ upInbox'[n].kind = "answer" =>
             /\ upInbox'[n].interface \in 1 .. Len(interfaces')
             /\ OfDevice(upInbox'[n].map, interfaces'[upInbox'[n].interface].device)
        /\ upInbox'[n].kind \in {"added", "removed", "changed"}
           => upInbox'[n].device \in UPowerDevice
  <2>1. TAKE n \in 1 .. Len(upInbox')
  <2>2. PICK m \in 1 .. Len(upInbox) : upInbox'[n] = upInbox[m]
    BY <1>3
  <2> QED BY <1>1, <2>2 DEF UTypes
<1>5. /\ up' \in BOOLEAN /\ upPresent' \subseteq UPowerDevice
      /\ properties' \in [UPowerDevice -> UPower!Entry]
      /\ \A d \in UPowerDevice : Proper(properties'[d], d)
  BY DEF UTypes, UPower!daemon
<1> QED BY <1>2, <1>3, <1>4, <1>5 DEF UTypes

LEMMA ConstructInv ==
  ASSUME UPowerInv, NEW slot, NEW next,
         \/ slot = "read" /\ next = "match"
         \/ slot = "readAdded" /\ next = "matchAdded",
         UPower!Construct(slot, next)
  PROVE  UPowerInv'
<1> DEFINE new == [device |-> UPower!NextDevice, map |-> UPower!ReadNow(UPower!NextDevice),
    matched |-> FALSE]
           j == [slot |-> next, devices |-> UPower!Job.devices]
           N == Len(interfaces)
<1>1. UPower!Job.slot = slot /\ interfaces' = Append(interfaces, new)
      /\ UNCHANGED <<UPower!daemon, upInbox, requests>>
  BY DEF UPower!Construct
<1>2. UPower!Job.devices \in Seq(UPowerDevice) /\ UPower!Job.devices # <<>> /\ UPower!Job \in Jobs
      /\ upClient \in Client0
      /\ interfaces \in Seq(UPower!Interface) /\ N \in Nat
  BY <1>1, ClientParts DEF UPowerInv, UTypes, UPower!Job, Working
<1>3. UPower!NextDevice \in UPowerDevice
  BY <1>2 DEF UPower!NextDevice
<1>4. new \in UPower!Interface /\ OfDevice(new.map, new.device)
      /\ new.map = UPower!ReadNow(UPower!NextDevice) /\ new.device = UPower!NextDevice
  BY <1>3, ReadNowIs DEF UPower!Interface, UPowerInv
<1>5. j \in Jobs /\ j.slot = next /\ j.devices = UPower!Job.devices
  BY <1>2 DEF Jobs, UPower!Slots
<1>6. upClient' = [upClient EXCEPT !.job = j]
  <2>1. upClient' = [upClient EXCEPT !.job = [upClient.job EXCEPT !.slot = next]]
    BY DEF UPower!Construct
  <2>2. [upClient.job EXCEPT !.slot = next] = j
    BY <1>2 DEF Jobs, UPower!Job
  <2> HIDE DEF j
  <2> QED BY <2>1, <2>2
<1> HIDE DEF new, j
<1>7. /\ upClient' \in Client0 /\ upClient'.job = j /\ upClient'.map = upClient.map
      /\ upClient'.watchers = upClient.watchers /\ Reads(upClient')
  BY <1>2, <1>5, <1>6, JobIs DEF UPowerInv
<1>8. /\ interfaces' \in Seq(UPower!Interface) /\ Len(interfaces') = N + 1
      /\ \A i \in 1 .. N : interfaces'[i] = interfaces[i]
      /\ interfaces'[N + 1] = new
  BY <1>1, <1>2, <1>4
<1>9. UPower!Newest' = new /\ interfaces' # <<>>
  BY <1>2, <1>8 DEF UPower!Newest
<1>10. \A i \in 1 .. N + 1 : OfDevice(interfaces'[i].map, interfaces'[i].device)
  <2>1. TAKE i \in 1 .. N + 1
  <2>2. CASE i = N + 1
    BY <1>4, <1>8, <2>2
  <2>3. CASE i # N + 1
    <3>1. i \in 1 .. N
      BY <1>2, <2>3
    <3> QED BY <1>8, <3>1 DEF UPowerInv, UTypes
  <2> QED BY <2>2, <2>3
<1>11. UTypes'
  <2>1. /\ Working(upClient'.job.slot) => upClient'.job.devices # <<>>
        /\ Matching(upClient'.job.slot) => interfaces' # <<>>
           /\ UPower!Newest'.device = Head(upClient'.job.devices)
    BY <1>2, <1>4, <1>5, <1>7, <1>9 DEF UPower!NextDevice
  <2>2. Len(interfaces') \in Nat /\ Len(interfaces') >= Len(interfaces)
    BY <1>2, <1>8
  <2>3. \A i \in 1 .. N : interfaces'[i].device = interfaces[i].device
    BY <1>8
  <2> QED BY <1>1, <1>7, <1>8, <1>10, <2>1, <2>2, <2>3, TypesOfInterfaces DEF UPowerInv, Taken
<1>12. Unwatched'
  BY <1>1, <1>7, UnwatchedStays DEF UPowerInv, Taken
<1>13. ASSUME NEW b, OnlyBattery(b), up, b \in upPresent, Coming(b) PROVE Coming(b)'
  <2>1. CASE UPower!KeysOf(upClient.map, b) # {} \/ Sent("added", b) \/ Restarted
    BY <1>1, <1>7, <2>1 DEF Coming, Sent, Restarted
  <2>2. CASE b \in UPower!Range(UPower!Job.devices)
    <3>1. PICK n \in 1 .. Len(UPower!Job.devices) : UPower!Job.devices[n] = b
      BY <1>2, <2>2 DEF UPower!Range
    <3>2. CASE n = 1
      <4>1. UPower!NextDevice = b
        BY <1>2, <3>1, <3>2 DEF UPower!NextDevice
      <4>2. UPower!Newest'.map.native = b
        BY <1>3, <1>4, <1>9, <1>13, <4>1, ReadNowIs DEF UPowerInv
      <4> QED BY <1>5, <1>7, <4>2 DEF Coming, Matching, UPower!Job
    <3>3. CASE n # 1
      <4>1. /\ Tail(UPower!Job.devices) \in Seq(UPowerDevice)
            /\ n - 1 \in 1 .. Len(Tail(UPower!Job.devices)) /\ Tail(UPower!Job.devices)[n - 1] = b
        BY <1>2, <3>1, <3>3
      <4>2. b \in UPower!Range(Tail(UPower!Job.devices))
        BY <4>1, InSet
      <4> QED BY <1>5, <1>7, <4>2 DEF Coming, Matching, UPower!Job
    <3> QED BY <3>2, <3>3
  <2> QED BY <1>1, <1>13, <2>1, <2>2 DEF Coming, Matching
<1>14. ASSUME NEW b, OnlyBattery(b) PROVE Known(b)'
  <2>1. Ordered(b)' <=> Ordered(b)
    BY <1>1 DEF Ordered
  <2> QED BY <1>1, <1>13, <1>14, <2>1 DEF UPowerInv, Known, UPower!daemon
<1>15. \A b : OnlyBattery(b)' <=> OnlyBattery(b)
  BY DEF OnlyBattery
<1> QED BY <1>7, <1>11, <1>12, <1>14, <1>15 DEF UPowerInv

LEMMA RestComing ==
  ASSUME UTypes, NEW slot \in {"read", "readAdded"}, UPower!Job.devices # <<>>,
         NEW b, b \in UPower!Range(Tail(UPower!Job.devices))
  PROVE  UPower!RestDevices(slot).slot = slot /\ b \in UPower!Range(UPower!RestDevices(slot).devices)
<1>1. UPower!Job.devices \in Seq(UPowerDevice)
  BY ClientParts DEF UTypes, UPower!Job
<1>2. Len(UPower!Job.devices) # 1
  <2>1. SUFFICES ASSUME Len(UPower!Job.devices) = 1 PROVE FALSE
    OBVIOUS
  <2>2. Len(Tail(UPower!Job.devices)) = 0 /\ Tail(UPower!Job.devices) \in Seq(UPowerDevice)
    BY <1>1, <2>1
  <2> QED BY <2>2 DEF UPower!Range
<1>3. UPower!RestDevices(slot) = [slot |-> slot, devices |-> Tail(UPower!Job.devices)]
  BY <1>2, RestIs
<1> QED BY <1>3

\* The object of the device asks to be told of its changes, and the slot goes on.
LEMMA MatchInv ==
  ASSUME UPowerInv, NEW slot, NEW rest,
         \/ slot = "match" /\ rest = "read"
         \/ slot = "matchAdded" /\ rest = "readAdded",
         UPower!Match(slot), NEW known \in Client0, Same(upClient, known), Reads(known),
         upClient' = [known EXCEPT !.job = UPower!RestDevices(rest)],
         \A b : OnlyBattery(b) /\ (UPower!KeysOf(upClient.map,
                b) # {} \/ UPower!Newest.map.native = b)
                  => UPower!KeysOf(known.map, b) # {}
  PROVE  UPowerInv'
<1> DEFINE N == Len(interfaces)
           j == UPower!RestDevices(rest)
<1>1. /\ UPower!Job.slot = slot /\ UNCHANGED <<UPower!daemon, upInbox, requests>>
      /\ interfaces' = [interfaces EXCEPT ![N].matched = TRUE]
  BY DEF UPower!Match
<1>2. UPower!Job.devices # <<>> /\ interfaces \in Seq(UPower!Interface) /\ N \in Nat
  BY <1>1 DEF UPowerInv, UTypes, UPower!Job, Working
<1>3. /\ j \in Jobs
      /\ \/ j.slot = "none"
         \/ j.slot = rest /\ j.devices # <<>>
  BY <1>2, RestIs DEF UPowerInv
<1> HIDE DEF j
<1>4. /\ upClient' \in Client0 /\ upClient'.job = j /\ upClient'.map = known.map
      /\ upClient'.watchers = upClient.watchers /\ Reads(upClient')
  <2>1. upClient' = [known EXCEPT !.job = j]
    BY DEF j
  <2> DEFINE d == [known EXCEPT !.job = j]
  <2>2. j \in Jobs
    BY <1>3
  <2>3. /\ d \in Client0 /\ d.job = j /\ d.map = known.map
        /\ d.watchers = known.watchers /\ Reads(d)
    BY <2>2, JobIs
  <2> HIDE DEF d
  <2>4. upClient' = d
    BY <2>1 DEF d
  <2> QED BY <2>3, <2>4 DEF Same
<1>5. /\ interfaces' \in Seq(UPower!Interface) /\ Len(interfaces') = N
      /\ \A i \in 1 .. N : interfaces'[i].device = interfaces[i].device
                           /\ interfaces'[i].map = interfaces[i].map
  <2> DEFINE x == [interfaces[N] EXCEPT !.matched = TRUE]
  <2>1. \A i \in 1 .. N : interfaces[i] \in UPower!Interface
    BY <1>2
  <2>5. N \in 1 .. N => /\ x \in UPower!Interface /\ x.device = interfaces[N].device
                        /\ x.map = interfaces[N].map
    BY <2>1 DEF UPower!Interface
  <2>6. interfaces' = [interfaces EXCEPT ![N] = x]
    BY <1>1
  <2> HIDE DEF x
  <2>7. DOMAIN interfaces = 1 .. N /\ interfaces = [i \in 1 .. N |-> interfaces[i]]
    BY <1>2
  <2>2. interfaces' = [i \in 1 .. N |-> IF i = N THEN x ELSE interfaces[i]]
    BY <2>6, <2>7
  <2>3. \A i \in 1 .. N : /\ interfaces'[i] \in UPower!Interface
                          /\ interfaces'[i].device = interfaces[i].device
                          /\ interfaces'[i].map = interfaces[i].map
    BY <2>1, <2>2, <2>5
  <2>4. interfaces' \in Seq(UPower!Interface) /\ Len(interfaces') = N
    <3>1. interfaces' \in [1 .. N -> UPower!Interface]
      BY <2>2, <2>3
    <3> QED BY <1>2, <3>1
  <2> QED BY <2>3, <2>4
<1>6. UTypes'
  <2>1. /\ Working(upClient'.job.slot) => upClient'.job.devices # <<>>
        /\ Matching(upClient'.job.slot) => interfaces' # <<>>
           /\ UPower!Newest'.device = Head(upClient'.job.devices)
    BY <1>3, <1>4 DEF Working, Matching
  <2>2. \A i \in 1 .. N : OfDevice(interfaces'[i].map, interfaces'[i].device)
    BY <1>5 DEF UPowerInv, UTypes
  <2> QED BY <1>1, <1>2, <1>4, <1>5, <2>1, <2>2, TypesOfInterfaces DEF UPowerInv, Taken
<1>7. Unwatched'
  BY <1>1, <1>4, UnwatchedStays DEF UPowerInv, Taken
<1>8. ASSUME NEW b, OnlyBattery(b), Coming(b) PROVE Coming(b)'
  <2>1. CASE UPower!KeysOf(upClient.map, b) # {} \/ UPower!Newest.map.native = b
    <3>1. UPower!KeysOf(upClient'.map, b) # {}
      BY <1>4, <1>8, <2>1
    <3> QED BY <3>1 DEF Coming
  <2>2. CASE Sent("added", b) \/ Restarted
    BY <1>1, <2>2 DEF Coming, Sent, Restarted
  <2>3. CASE b \in UPower!Range(Tail(UPower!Job.devices))
    <3>1. j.slot = rest /\ b \in UPower!Range(j.devices)
      BY <1>2, <2>3, RestComing DEF UPowerInv, j
    <3> QED BY <1>4, <3>1 DEF Coming, UPower!Job
  <2> QED BY <1>1, <1>8, <2>1, <2>2, <2>3 DEF Coming
<1>9. ASSUME NEW b, OnlyBattery(b) PROVE Known(b)'
  <2>1. Ordered(b)' <=> Ordered(b)
    BY <1>1 DEF Ordered
  <2> QED BY <1>1, <1>8, <1>9, <2>1 DEF UPowerInv, Known, UPower!daemon
<1>10. \A b : OnlyBattery(b)' <=> OnlyBattery(b)
  BY DEF OnlyBattery
<1> QED BY <1>4, <1>6, <1>7, <1>9, <1>10 DEF UPowerInv

LEMMA KeysKept ==
  ASSUME NEW map \in Maps, NEW k \in Nat, NEW e \in UPower!Entry
  PROVE  UPower!KeysOf(UPower!Inserted(map, k, e), e.native) # {}
<1>1. /\ k \in DOMAIN UPower!Inserted(map, k, e)
      /\ UPower!Inserted(map, k, e)[k] = e
  BY DEF UPower!Inserted
<1> QED BY <1>1 DEF UPower!KeysOf

LEMMA NewestIs ==
  ASSUME UTypes, Matching(UPower!Job.slot)
  PROVE  /\ UPower!Newest.map \in UPower!Entry /\ (UPower!Newest.map.native \notin UPowerBattery
            => UPower!Newest.map.energy = 0)
         /\ UPower!Newest.device \in UPowerDevice /\ OfDevice(UPower!Newest.map,
            UPower!Newest.device)
<1>1. interfaces # <<>> /\ interfaces \in Seq(UPower!Interface)
  BY DEF UTypes, UPower!Job
<1>2. Len(interfaces) \in 1 .. Len(interfaces)
  BY <1>1
<1>3. UPower!Newest \in UPower!Interface /\ OfDevice(UPower!Newest.map, UPower!Newest.device)
  BY <1>1, <1>2 DEF UTypes, UPower!Newest
<1>4. UPower!Newest.device \in UPowerDevice
  BY <1>3 DEF UPower!Interface
<1> QED BY <1>3, <1>4, OfDeviceIs

LEMMA MatchDeviceInv == UPowerInv /\ UPower!MatchDevice => UPowerInv'
<1> SUFFICES ASSUME UPowerInv, UPower!MatchDevice PROVE UPowerInv'
  OBVIOUS
<1> DEFINE m == UPower!Newest.map
           known == IF m = UPower!Nothing THEN upClient ELSE UPower!Stats(upClient, m)
<1>1. UPower!Match("match") /\ upClient' = [known EXCEPT !.job = UPower!RestDevices("read")]
  BY DEF UPower!MatchDevice
<1>2. Matching(UPower!Job.slot) /\ upClient \in Client0 /\ Reads(upClient) /\ upClient.map \in Maps
  BY <1>1, ClientParts DEF UPower!Match, Matching, UPowerInv, UTypes
<1>3. m \in UPower!Entry /\ (m.native \notin UPowerBattery => m.energy = 0)
  BY <1>2, NewestIs DEF UPowerInv
<1>4. known \in Client0 /\ Same(upClient, known) /\ Reads(known)
  BY <1>2, <1>3, StatsIs DEF Same
<1>5. ASSUME NEW b, OnlyBattery(b), UPower!KeysOf(upClient.map, b) # {} \/ m.native = b
      PROVE  UPower!KeysOf(known.map, b) # {}
  <2>1. CASE m.native \in UPowerBattery
    <3>1. m # UPower!Nothing /\ m.native = b
      BY <1>5, <2>1, NothingIs, UPowerAssumption DEF OnlyBattery
    <3>2. known.map = UPower!Inserted(upClient.map, UPower!Found(upClient.map, m.native), m)
      BY <1>2, <1>3, <2>1, <3>1, StatsIs
    <3>3. UPower!Found(upClient.map, m.native) \in Nat
      BY <1>2, FoundIs
    <3> HIDE DEF known, m
    <3> QED BY <1>2, <1>3, <3>1, <3>2, <3>3, KeysKept
  <2>2. CASE m.native \notin UPowerBattery
    <3>1. known.map = upClient.map
      BY <1>2, <1>3, <2>2, StatsIs
    <3>2. m.native # b
      BY <1>5, <2>2 DEF OnlyBattery
    <3> HIDE DEF known, m
    <3> QED BY <1>5, <3>1, <3>2
  <2> QED BY <2>1, <2>2
<1> HIDE DEF known
<1> QED BY <1>1, <1>4, <1>5, MatchInv

IsTold(d, c, m, e, v) == d = [c EXCEPT !.map = m, !.told.energy = e, !.told.valid = v]

LEMMA ToldBoth ==
  ASSUME NEW c \in Client0, NEW m \in Maps, NEW e \in Energies, NEW v \in Valids,
         NEW x, IsTold(x, c, m, e, v)
  PROVE  x \in Client0 /\ Same(c, x) /\ x.map = m /\ x.told.energy = e
<1> DEFINE t == [[c.told EXCEPT !.energy = e] EXCEPT !.valid = v]
           d == ClientIs(m, c.cType, c.cState, c.index, c.watchers, c.job, t)
<1>1. t \in [energy : Energies, valid : Valids] /\ t.energy = e
  <2> DEFINE t1 == [c.told EXCEPT !.energy = e]
  <2>1. t1 \in [energy : Energies, valid : Valids] /\ t1.energy = e
    BY ClientParts, UPowerToldIs
  <2> HIDE DEF t1
  <2>2. /\ [t1 EXCEPT !.valid = v] \in [energy : Energies, valid : Valids]
        /\ [t1 EXCEPT !.valid = v].energy = e
    BY <2>1, UPowerToldIs
  <2> QED BY <2>2 DEF t1
<1>2. x = [[c EXCEPT !.map = m] EXCEPT !.told = t]
  <2> DEFINE k == [c EXCEPT !.map = m]
  <2>1. k.told = c.told
    BY KeepMap
  <2>2. x = [k EXCEPT !.told = [[k.told EXCEPT !.energy = e] EXCEPT !.valid = v]]
    BY DEF IsTold
  <2> HIDE DEF k
  <2> QED BY <2>1, <2>2 DEF k
<1> HIDE DEF t
<1>3. [[c EXCEPT !.map = m] EXCEPT !.told = t] = d
  <2> DEFINE k == [c EXCEPT !.map = m]
  <2>1. k \in Client0 /\ k = ClientIs(m, c.cType, c.cState, c.index, c.watchers, c.job, c.told)
    BY KeepMap, FieldsIs
  <2> HIDE DEF k
  <2>2. [k EXCEPT !.told = t] = ClientIs(k.map, k.cType, k.cState, k.index, k.watchers, k.job, t)
    BY <2>1, FieldsIs
  <2>3. /\ k.map = m /\ k.cType = c.cType /\ k.cState = c.cState /\ k.index = c.index
        /\ k.watchers = c.watchers /\ k.job = c.job
    BY <2>1, IsFields
  <2>4. [k EXCEPT !.told = t] = d
    BY <2>2, <2>3
  <2> HIDE DEF d
  <2> QED BY <2>4 DEF k
<1>4. d \in Client0
  BY <1>1, ClientParts, ClientTyped
<1>5. d.map = m /\ d.told = t /\ Same(c, d)
  BY IsFields DEF Same
<1> HIDE DEF d
<1> QED BY <1>1, <1>2, <1>3, <1>4, <1>5

LEMMA UPowerToldAll ==
  \A c \in Client0, m \in Maps, e \in Energies, v \in Valids : \A d :
    IsTold(d, c, m, e, v) => d \in Client0 /\ Same(c, d) /\ d.map = m /\ d.told.energy = e
  BY ToldBoth

LEMMA MatchAddedInv == UPowerInv /\ UPower!MatchAdded => UPowerInv'
<1> SUFFICES ASSUME UPowerInv, UPower!MatchAdded PROVE UPowerInv'
  OBVIOUS
<1> DEFINE m == UPower!Newest.map
           number == UPower!Cardinality(DOMAIN upClient.map) + 1
           map == UPower!Inserted(upClient.map, number, m)
           e == IF number = upClient.index THEN UPower!Untold ELSE upClient.told.energy
           added == [upClient EXCEPT !.map = map, !.told.energy = e, !.told.valid = UPower!Untold]
           known == IF m.native \in UPowerBattery THEN added ELSE upClient
<1>1. UPower!Match("matchAdded") /\ upClient' = [known EXCEPT !.job = UPower!RestDevices("readAdded")]
  BY DEF UPower!MatchAdded
<1>2. Matching(UPower!Job.slot) /\ upClient \in Client0 /\ Reads(upClient) /\ upClient.map \in Maps
  BY <1>1, ClientParts DEF UPower!Match, Matching, UPowerInv, UTypes
<1>3. m \in UPower!Entry
  BY <1>2, NewestIs DEF UPowerInv
<1>4. number \in Nat
  BY <1>2, MapsIs, FS_CardinalityType, SameCardinality
<1> HIDE DEF number
<1>5. map \in Maps /\ \A j : j # number => UPower!Value(map, j) = UPower!Value(upClient.map, j)
  <2>1. map = UPower!Inserted(upClient.map, number, m)
    OBVIOUS
  <2> HIDE DEF map, m
  <2> QED BY <1>2, <1>3, <1>4, <2>1, InsertedTyped, InsertedValues
<1>6. e \in Energies /\ UPower!Untold \in Valids
  BY <1>2, ClientParts DEF Energies, Valids
<1>7. /\ added \in Client0 /\ Same(upClient, added) /\ added.map = map /\ added.told.energy = e
  <2> HIDE DEF map, e
  <2>1. map \in Maps /\ upClient \in Client0
    BY <1>2, <1>5
  <2>2. IsTold(added, upClient, map, e, UPower!Untold)
    BY DEF IsTold
  <2> HIDE DEF added
  <2> QED BY <1>6, <2>1, <2>2, UPowerToldAll
<1>8. Reads(added)
  <2>1. e \in {UPower!Untold, <<0>>, <<UPower!Value(map, upClient.index).energy>>}
    <3> HIDE DEF map
    <3> QED BY <1>2, <1>5 DEF Reads
  <2> HIDE DEF added, map, e
  <2> QED BY <1>7, <2>1 DEF Reads, Same
<1>9. known \in Client0 /\ Same(upClient, known) /\ Reads(known)
  <2> HIDE DEF added
  <2> QED BY <1>2, <1>7, <1>8 DEF Same
<1>10. ASSUME NEW b, OnlyBattery(b), UPower!KeysOf(upClient.map, b) # {} \/ m.native = b
      PROVE  UPower!KeysOf(known.map, b) # {}
  <2>1. CASE m.native \in UPowerBattery
    <3>1. m.native = b
      BY <2>1, <1>10 DEF OnlyBattery
    <3>2. UPower!KeysOf(map, b) # {}
      BY <1>2, <1>3, <1>4, <3>1, KeysKept
    <3>3. known = added
      BY <2>1
    <3> HIDE DEF known, added, map
    <3> QED BY <1>7, <3>2, <3>3
  <2>2. CASE m.native \notin UPowerBattery
    <3>1. known = upClient /\ m.native # b
      BY <1>10, <2>2 DEF OnlyBattery
    <3> HIDE DEF known, m
    <3> QED BY <1>10, <3>1
  <2> QED BY <2>1, <2>2
<1> HIDE DEF known
<1> QED BY <1>1, <1>9, <1>10, MatchInv

\* A message is dispatched: what remains to be shown of the slot.
LEMMA MessageInv ==
  ASSUME UPowerInv, UPower!Job = UPower!Idle, upInbox # <<>>, upInbox' = Tail(upInbox),
         UNCHANGED UPower!daemon,
         UTypes', Reads(upClient'),
         upClient'.watchers = upClient.watchers \/ upClient'.watchers # 0,
         Head(upInbox).kind = "registered" =>
           upClient'.watchers # 0 /\ upClient'.job.slot = "enumerate",
         \A b : /\ OnlyBattery(b) /\ up /\ b \in upPresent
                /\ Ordered(b)
                /\ UPower!KeysOf(upClient.map, b) # {} \/ (Head(upInbox).kind = "added"
                   /\ Head(upInbox).device = b)
                => Coming(b)'
  PROVE  UPowerInv'
<1>1. Taken /\ upInbox \in Seq(UPower!Messages)
  BY DEF Taken, UPowerInv, UTypes
<1>2. Unwatched'
  <2>1. CASE upClient'.watchers # 0
    BY <2>1 DEF Unwatched
  <2>2. CASE upClient'.watchers = upClient.watchers /\ Head(upInbox).kind # "registered"
    BY <1>1, <2>2, UnwatchedStays DEF UPowerInv
  <2> QED BY <2>1, <2>2
<1>3. ASSUME NEW b, OnlyBattery(b), up, b \in upPresent PROVE Coming(b)'
  <2>1. Coming(b) /\ Ordered(b)
    BY <1>3 DEF UPowerInv, Known
  <2>2. UPower!KeysOf(upClient.map, b) # {} \/ Sent("added", b) \/ Restarted
    BY <2>1 DEF Coming, UPower!Idle, Matching
  <2>3. CASE UPower!KeysOf(upClient.map, b) # {} \/ (Head(upInbox).kind = "added"
             /\ Head(upInbox).device = b)
    BY <1>3, <2>1, <2>3
  <2>4. CASE Head(upInbox).kind = "registered"
    BY <2>4 DEF Coming, UPower!Job
  <2>5. CASE /\ Sent("added", b) \/ Restarted
             /\ Head(upInbox).kind # "registered"
             /\ ~ (Head(upInbox).kind = "added" /\ Head(upInbox).device = b)
    <3>1. Sent("added", b)' \/ Restarted'
      BY <1>1, <2>5, TailSent
    <3> QED BY <3>1 DEF Coming
  <2> QED BY <2>2, <2>3, <2>4, <2>5
<1>4. ASSUME NEW b, OnlyBattery(b) PROVE Known(b)'
  <2>1. Ordered(b) => Ordered(b)'
    BY <1>1, OrderedStays DEF UPowerInv
  <2> QED BY <1>3, <1>4, <2>1 DEF UPowerInv, Known, UPower!daemon
<1>5. \A b : OnlyBattery(b)' <=> OnlyBattery(b)
  BY DEF OnlyBattery
<1> QED BY <1>2, <1>4, <1>5 DEF UPowerInv

LEMMA ServiceRegisteredInv == UPowerInv /\ UPower!ServiceRegistered => UPowerInv'
<1> SUFFICES ASSUME UPowerInv, UPower!ServiceRegistered PROVE UPowerInv'
  OBVIOUS
<1> DEFINE mid == [upClient EXCEPT !.map = <<>>, !.told.energy = UPower!Untold,
    !.told.valid = UPower!Untold]
           w == upClient.watchers + 1
           j == [UPower!Idle EXCEPT !.slot = "enumerate"]
           more == [mid EXCEPT !.watchers = w]
           new == [more EXCEPT !.job = j]
<1>1. /\ UPower!Job = UPower!Idle /\ upInbox # <<>> /\ upInbox' = Tail(upInbox)
      /\ Head(upInbox).kind = "registered"
      /\ UNCHANGED <<UPower!daemon, requests, interfaces>>
  BY DEF UPower!ServiceRegistered, UPower!Receive
<1>2. upClient \in Client0 /\ requests \in Seq(1 .. Len(interfaces)) /\ upClient.watchers \in Nat
  BY ClientParts DEF UPowerInv, UTypes
<1>3. upClient' = new
  BY DEF UPower!ServiceRegistered
<1>4. mid \in Client0 /\ Same(upClient, mid) /\ mid.told.energy = UPower!Untold
  <2>1. IsTold(mid, upClient, <<>>, UPower!Untold, UPower!Untold)
    BY DEF IsTold
  <2>2. UPower!Untold \in Energies /\ UPower!Untold \in Valids
    BY DEF Energies, Valids
  <2> HIDE DEF mid
  <2> QED BY <1>2, <2>1, <2>2, EmptyMap, UPowerToldAll
<1>5. w \in Nat /\ w # 0
  BY <1>2
<1>6. j \in Jobs /\ j.slot = "enumerate"
  <2>1. j = [slot |-> "enumerate", devices |-> <<>>]
    BY DEF UPower!Idle
  <2>2. <<>> \in Seq(UPowerDevice)
    OBVIOUS
  <2> HIDE DEF j
  <2> QED BY <2>1, <2>2 DEF Jobs, UPower!Slots
<1> HIDE DEF mid, w, j
<1>7. more \in Client0 /\ more.watchers = w /\ more.told = mid.told
  <2>1. more = ClientIs(mid.map, mid.cType, mid.cState, mid.index, w, mid.job, mid.told)
    BY <1>4, FieldsIs
  <2>2. ClientIs(mid.map, mid.cType, mid.cState, mid.index, w, mid.job, mid.told) \in Client0
    BY <1>4, <1>5, ClientParts, ClientTyped
  <2> HIDE DEF more
  <2> QED BY <2>1, <2>2, IsFields
<1>8. Reads(more)
  <2> HIDE DEF more
  <2> QED BY <1>4, <1>7 DEF Reads
<1> HIDE DEF more
<1>9. new \in Client0 /\ new.job = j /\ new.watchers = w /\ Reads(new)
  BY <1>6, <1>7, <1>8, JobIs
<1> HIDE DEF new
<1>10. UTypes'
  <2>1. JobFits(upClient'.job) /\ upClient' \in Client0
    BY <1>3, <1>6, <1>9 DEF JobFits, Working, Matching
  <2>2. Taken /\ requests' \in Seq(1 .. Len(interfaces))
    BY <1>1, <1>2 DEF Taken
  <2> QED BY <1>1, <2>1, <2>2, TypesStay DEF UPowerInv
<1>11. upClient'.watchers # 0 /\ upClient'.job.slot = "enumerate" /\ Reads(upClient')
  BY <1>3, <1>5, <1>6, <1>9
<1>12. \A b : Coming(b)'
  BY <1>11 DEF Coming, UPower!Job
<1> QED BY <1>1, <1>10, <1>11, <1>12, MessageInv

LEMMA ServiceUnregisteredInv == UPowerInv /\ UPower!ServiceUnregistered => UPowerInv'
<1> SUFFICES ASSUME UPowerInv, UPower!ServiceUnregistered PROVE UPowerInv'
  OBVIOUS
<1>1. /\ UPower!Job = UPower!Idle /\ upInbox # <<>> /\ upInbox' = Tail(upInbox)
      /\ Head(upInbox).kind = "unregistered"
      /\ UNCHANGED <<UPower!daemon, requests, interfaces>> /\ upClient' = upClient
  BY DEF UPower!ServiceUnregistered, UPower!Receive
<1>2. UTypes'
  <2>1. upClient' \in Client0 /\ JobFits(upClient'.job) /\ requests' \in Seq(1 .. Len(interfaces))
        /\ Taken
    BY <1>1 DEF UPowerInv, UTypes, JobFits, Taken
  <2> QED BY <1>1, <2>1, TypesStay DEF UPowerInv
<1>3. Reads(upClient') /\ upClient'.watchers = upClient.watchers
  BY <1>1 DEF UPowerInv
<1>4. \A b : UPower!KeysOf(upClient.map, b) # {} => Coming(b)'
  BY <1>1 DEF Coming
<1> QED BY <1>1, <1>2, <1>3, <1>4, MessageInv

LEMMA HeadDevice ==
  ASSUME UTypes, upInbox # <<>>, Head(upInbox).kind \in {"added", "removed", "changed"}
  PROVE  Head(upInbox).device \in UPowerDevice
<1>1. upInbox \in Seq(UPower!Messages)
  BY DEF UTypes
<1>2. 1 \in 1 .. Len(upInbox) /\ Head(upInbox) = upInbox[1]
  BY <1>1
<1> QED BY <1>2 DEF UTypes

LEMMA SeqOfOne ==
  ASSUME NEW d \in UPowerDevice, NEW n \in Nat, n # 0
  PROVE  LET s == [k \in 1 .. n |-> d] IN s \in Seq(UPowerDevice) /\ s # <<>>
         /\ d \in UPower!Range(s)
<1> DEFINE s == [k \in 1 .. n |-> d]
<1>1. s \in Seq(UPowerDevice) /\ Len(s) = n
  OBVIOUS
<1>2. 1 \in 1 .. Len(s) /\ s[1] = d
  BY <1>1
<1> HIDE DEF s
<1>3. d \in UPower!Range(s)
  BY <1>1, <1>2, InSet
<1>4. s # <<>>
  <2>1. \A q : Len(q) # 0 => q # <<>>
    OBVIOUS
  <2> QED BY <1>1, <2>1
<1> QED BY <1>1, <1>3, <1>4 DEF s

LEMMA DeviceAddedInv == UPowerInv /\ UPower!DeviceAdded => UPowerInv'
<1> SUFFICES ASSUME UPowerInv, UPower!DeviceAdded PROVE UPowerInv'
  OBVIOUS
<1> DEFINE d == Head(upInbox).device
           s == [n \in 1 .. upClient.watchers |-> d]
           j == [slot |-> "readAdded", devices |-> s]
<1>1. /\ UPower!Job = UPower!Idle /\ upInbox # <<>> /\ upInbox' = Tail(upInbox)
      /\ Head(upInbox).kind = "added"
      /\ UNCHANGED <<UPower!daemon, requests, interfaces>> /\ upClient' = [upClient EXCEPT !.job = j]
  BY DEF UPower!DeviceAdded, UPower!Receive
<1>2. upClient \in Client0 /\ requests \in Seq(1 .. Len(interfaces)) /\ upClient.watchers \in Nat
      /\ upInbox \in Seq(UPower!Messages)
  BY ClientParts DEF UPowerInv, UTypes
<1>3. d \in UPowerDevice
  BY <1>1, HeadDevice DEF UPowerInv
<1>4. upClient.watchers # 0
  <2>1. 1 \in 1 .. Len(upInbox) /\ upInbox[1].kind = "added"
    BY <1>1, <1>2
  <2> QED BY <2>1 DEF UPowerInv, Unwatched
<1>5. s \in Seq(UPowerDevice) /\ s # <<>> /\ d \in UPower!Range(s)
  <2> HIDE DEF d
  <2> QED BY <1>2, <1>3, <1>4, SeqOfOne
<1> HIDE DEF s
<1>6. j \in Jobs /\ j.slot = "readAdded" /\ j.devices = s
  BY <1>5 DEF Jobs, UPower!Slots
<1> HIDE DEF j, d
<1>7. /\ upClient' \in Client0 /\ upClient'.job = j /\ upClient'.map = upClient.map
      /\ upClient'.watchers = upClient.watchers /\ Reads(upClient')
  BY <1>1, <1>2, <1>6, JobIs DEF UPowerInv
<1>8. UTypes'
  <2>1. JobFits(upClient'.job) /\ Taken /\ requests' \in Seq(1 .. Len(interfaces))
    BY <1>1, <1>2, <1>5, <1>6, <1>7 DEF JobFits, Working, Matching, Taken
  <2> QED BY <1>1, <1>7, <2>1, TypesStay DEF UPowerInv
<1>9. \A b : UPower!KeysOf(upClient.map, b) # {} => Coming(b)'
  BY <1>7 DEF Coming
<1>10. \A b : Head(upInbox).device = b => Coming(b)'
  BY <1>5, <1>6, <1>7 DEF Coming, UPower!Job, d
<1> QED BY <1>1, <1>7, <1>8, <1>9, <1>10, MessageInv

-----------------------------------------------------------------------------
(***************************************************************************)
(* The slots that go through what is connected, one by one.                *)
(***************************************************************************)
GoneAll(p) ==
  CHOOSE f : f = [n \in 0 .. upClient.watchers |-> IF n = 0 THEN upClient
    ELSE UPower!DeviceGone(f[n - 1], p)]

LEMMA GoneAllIs ==
  ASSUME UPowerInv, NEW p \in UPower!Entry
  PROVE  LET c == GoneAll(p)[upClient.watchers]
         IN  c \in Client0 /\ Same(upClient, c) /\ Reads(c) /\ (p.native \notin UPowerBattery
             => c = upClient)
<1> DEFINE N == upClient.watchers
           S == {c \in Client0 : /\ Same(upClient, c) /\ Reads(c)
                                 /\ p.native \notin UPowerBattery => c = upClient}
           g == [q \in Nat \X S |-> UPower!DeviceGone(q[2], p)]
           Is(f) == f = [n \in 0 .. N |-> IF n = 0 THEN upClient ELSE UPower!DeviceGone(f[n - 1],
             p)]
           all == GoneAll(p)
<1>0. N \in Nat /\ upClient \in S
  BY ClientParts DEF UPowerInv, UTypes, Same
<1>1. ASSUME NEW c \in S PROVE UPower!DeviceGone(c, p) \in S
  <2> DEFINE d == UPower!DeviceGone(c, p)
  <2>1. d \in Client0 /\ Same(c, d) /\ Reads(d) /\ (p.native \notin UPowerBattery => d = c)
    BY DeviceGoneIs
  <2> HIDE DEF d
  <2>2. d \in S
    BY <2>1 DEF Same
  <2> QED BY <2>2 DEF d
<1>2. \A n \in Nat, c \in S : g[<<n, c>>] = UPower!DeviceGone(c, p)
  <2> HIDE DEF S
  <2> QED OBVIOUS
<1>3. g \in [Nat \X S -> S]
  <2>1. \A q \in Nat \X S : q[2] \in S
    OBVIOUS
  <2> HIDE DEF S
  <2> QED BY <1>1, <2>1
<1> HIDE DEF g, S
<1>4. PICK f0 \in [0 .. N -> S] : f0[0] = upClient /\ \A n \in 1 .. N : f0[n] = g[<<n, f0[n - 1]>>]
  <2> HIDE DEF N
  <2>2. Recursive(S, upClient, g, N)
    BY <1>0, <1>3 DEF Recursive
  <2>3. \E f : Iterates(f, S, upClient, g, N)
    BY <2>2, Recursion
  <2> QED BY <2>3 DEF Iterates
<1>5. ASSUME NEW n \in 0 .. N
      PROVE  f0[n] = IF n = 0 THEN upClient ELSE UPower!DeviceGone(f0[n - 1], p)
  <2> HIDE DEF N
  <2>1. CASE n = 0
    BY <1>4, <2>1
  <2>2. CASE n # 0
    <3>1. n \in 1 .. N /\ n \in Nat /\ n - 1 \in 0 .. N
      BY <1>0, <2>2
    <3>2. f0[n - 1] \in S /\ f0[n] = g[<<n, f0[n - 1]>>]
      BY <1>4, <3>1
    <3> QED BY <1>2, <2>2, <3>1, <3>2
  <2> QED BY <2>1, <2>2
<1>6. Is(f0)
  BY <1>4, <1>5
<1>7. Is(all)
  BY <1>6 DEF GoneAll
<1> HIDE DEF all
<1>8. \A n \in 0 .. N : all[n] = IF n = 0 THEN upClient ELSE UPower!DeviceGone(all[n - 1], p)
  BY <1>7
<1> HIDE DEF N, Is
<1> DEFINE P == {n \in Nat : n <= N => all[n] \in S}
<1>9. 0 \in P
  BY <1>0, <1>8
<1>10. ASSUME NEW n \in P PROVE n + 1 \in P
  <2>1. SUFFICES ASSUME n + 1 <= N PROVE all[n + 1] \in S
    OBVIOUS
  <2>2. all[n] \in S
    BY <1>0, <2>1
  <2> DEFINE k == n + 1
  <2>3. k \in 0 .. N /\ k # 0 /\ k - 1 = n
    BY <1>0, <2>1
  <2> HIDE DEF k
  <2>4. all[k] = UPower!DeviceGone(all[n], p)
    BY <1>8, <2>3
  <2> QED BY <1>1, <2>2, <2>4 DEF k
<1>11. P = Nat
  <2>1. P \subseteq Nat
    OBVIOUS
  <2> HIDE DEF P
  <2> QED BY <1>9, <1>10, <2>1, SetInduction
<1>12. all[N] \in S
  BY <1>0, <1>11
<1> QED BY <1>12 DEF all, N, S

LEMMA DeviceRemovedInv == UPowerInv /\ UPower!DeviceRemoved => UPowerInv'
<1> SUFFICES ASSUME UPowerInv, UPower!DeviceRemoved PROVE UPowerInv'
  OBVIOUS
<1> DEFINE d == Head(upInbox).device
           p == UPower!ReadNow(d)
<1>1. /\ UPower!Job = UPower!Idle /\ upInbox # <<>> /\ upInbox' = Tail(upInbox)
      /\ Head(upInbox).kind = "removed"
      /\ UNCHANGED <<UPower!daemon, requests, interfaces>>
  BY DEF UPower!DeviceRemoved, UPower!Receive
<1>2. upClient' = GoneAll(p)[upClient.watchers]
  BY DEF UPower!DeviceRemoved, GoneAll
<1>3. d \in UPowerDevice /\ upInbox \in Seq(UPower!Messages)
      /\ requests \in Seq(1 .. Len(interfaces))
  BY <1>1, HeadDevice DEF UPowerInv, UTypes
<1>4. p \in UPower!Entry /\ p.native \in {"none", d}
  BY <1>3, ReadNowIs DEF UPowerInv
<1>5. /\ upClient' \in Client0 /\ Same(upClient, upClient') /\ Reads(upClient')
      /\ p.native \notin UPowerBattery => upClient' = upClient
  <2> HIDE DEF p
  <2> QED BY <1>2, <1>4, GoneAllIs
<1>6. UTypes'
  <2>1. JobFits(upClient'.job) /\ Taken /\ requests' \in Seq(1 .. Len(interfaces))
    BY <1>1, <1>3, <1>5 DEF JobFits, Working, Matching, Taken, Same, UPower!Job, UPower!Idle
  <2> QED BY <1>1, <1>5, <2>1, TypesStay DEF UPowerInv
<1>7. ASSUME NEW b, OnlyBattery(b), Ordered(b), UPower!KeysOf(upClient.map, b) # {} PROVE Coming(b)'
  <2>1. CASE p.native \in UPowerBattery
    <3>1. d = b
      BY <1>4, <1>7, <2>1, UPowerAssumption DEF OnlyBattery
    <3>2. Restarted' \/ Sent("added", b)'
      BY <1>1, <1>3, <1>7, <3>1, TailOrdered
    <3> QED BY <3>2 DEF Coming
  <2>2. CASE p.native \notin UPowerBattery
    <3>1. upClient' = upClient
      BY <1>5, <2>2
    <3> QED BY <1>7, <3>1 DEF Coming
  <2> QED BY <2>1, <2>2
<1>8. upClient'.watchers = upClient.watchers
  BY <1>5 DEF Same
<1> QED BY <1>1, <1>5, <1>6, <1>7, <1>8, MessageInv

AskedAll(d) ==
  CHOOSE f : f = [i \in 0 .. Len(interfaces) |->
                    IF i = 0 THEN requests
                    ELSE IF interfaces[i].matched /\ interfaces[i].device = d
                    THEN Append(f[i - 1], i) ELSE f[i - 1]]

LEMMA AskedAllIs ==
  ASSUME UTypes, NEW d
  PROVE  AskedAll(d)[Len(interfaces)] \in Seq(1 .. Len(interfaces))
<1> DEFINE N == Len(interfaces)
           S == Seq(1 .. N)
           Asks(i) == interfaces[i].matched /\ interfaces[i].device = d
           g == [q \in Nat \X S |-> IF q[1] \in 1 .. N /\ Asks(q[1]) THEN Append(q[2], q[1])
             ELSE q[2]]
           Is(f) == f = [i \in 0 .. N |-> IF i = 0 THEN requests
                                          ELSE IF Asks(i) THEN Append(f[i - 1], i) ELSE f[i - 1]]
           all == AskedAll(d)
<1>0. N \in Nat /\ requests \in S
  BY DEF UTypes
<1>1. ASSUME NEW i \in 1 .. N, NEW s \in S PROVE Append(s, i) \in S
  OBVIOUS
<1>2. \A i \in 1 .. N, s \in S : g[<<i, s>>] = IF Asks(i) THEN Append(s, i) ELSE s
  <2> HIDE DEF S, Asks, N
  <2>1. \A i \in 1 .. N : i \in Nat
    BY <1>0
  <2> QED BY <2>1
<1>3. g \in [Nat \X S -> S]
  <2> HIDE DEF S, Asks, N
  <2> SUFFICES ASSUME NEW q \in Nat \X S
      PROVE  (IF q[1] \in 1 .. N /\ Asks(q[1]) THEN Append(q[2], q[1]) ELSE q[2]) \in S
    OBVIOUS
  <2>1. q[2] \in S
    OBVIOUS
  <2>2. CASE q[1] \in 1 .. N /\ Asks(q[1])
    BY <1>1, <2>1, <2>2
  <2>3. CASE ~ (q[1] \in 1 .. N /\ Asks(q[1]))
    BY <2>1, <2>3
  <2> QED BY <2>2, <2>3
<1> HIDE DEF g, S
<1>4. PICK f0 \in [0 .. N -> S] : f0[0] = requests /\ \A n \in 1 .. N : f0[n] = g[<<n, f0[n - 1]>>]
  <2> HIDE DEF N
  <2>2. Recursive(S, requests, g, N)
    BY <1>0, <1>3 DEF Recursive
  <2>3. \E f : Iterates(f, S, requests, g, N)
    BY <2>2, Recursion
  <2> QED BY <2>3 DEF Iterates
<1>5. ASSUME NEW n \in 0 .. N
      PROVE  f0[n] = IF n = 0 THEN requests ELSE IF Asks(n) THEN Append(f0[n - 1], n) ELSE f0[n - 1]
  <2> HIDE DEF N, Asks
  <2>1. CASE n = 0
    BY <1>4, <2>1
  <2>2. CASE n # 0
    <3>1. n \in 1 .. N /\ n \in Nat /\ n - 1 \in 0 .. N
      BY <1>0, <2>2
    <3>2. f0[n - 1] \in S /\ f0[n] = g[<<n, f0[n - 1]>>]
      BY <1>4, <3>1
    <3> QED BY <1>2, <2>2, <3>1, <3>2
  <2> QED BY <2>1, <2>2
<1>6. Is(f0)
  <2> HIDE DEF Asks
  <2> QED BY <1>4, <1>5
<1>7. Is(all)
  BY <1>6 DEF AskedAll
<1> HIDE DEF all, Asks
<1>8. \A n \in 0 .. N : all[n] = IF n = 0 THEN requests
                                 ELSE IF Asks(n) THEN Append(all[n - 1], n) ELSE all[n - 1]
  BY <1>7
<1> HIDE DEF N, Is
<1> DEFINE P == {n \in Nat : n <= N => all[n] \in S}
<1>9. 0 \in P
  BY <1>0, <1>8
<1>10. ASSUME NEW n \in P PROVE n + 1 \in P
  <2>1. SUFFICES ASSUME n + 1 <= N PROVE all[n + 1] \in S
    OBVIOUS
  <2>2. all[n] \in S
    BY <1>0, <2>1
  <2> DEFINE k == n + 1
  <2>3. k \in 0 .. N /\ k \in 1 .. N /\ k # 0 /\ k - 1 = n
    BY <1>0, <2>1
  <2> HIDE DEF k
  <2>4. all[k] = IF Asks(k) THEN Append(all[n], k) ELSE all[n]
    BY <1>8, <2>3
  <2>5. Append(all[n], k) \in S
    BY <1>1, <2>2, <2>3
  <2>6. all[k] \in S
    BY <2>2, <2>4, <2>5
  <2> QED BY <2>6 DEF k
<1>11. P = Nat
  <2>1. P \subseteq Nat
    OBVIOUS
  <2> HIDE DEF P
  <2> QED BY <1>9, <1>10, <2>1, SetInduction
<1>12. all[N] \in S
  BY <1>0, <1>11
<1> QED BY <1>12 DEF all, N, S

LEMMA ChangedInv == UPowerInv /\ UPower!Changed => UPowerInv'
<1> SUFFICES ASSUME UPowerInv, UPower!Changed PROVE UPowerInv'
  OBVIOUS
<1>1. /\ UPower!Job = UPower!Idle /\ upInbox # <<>> /\ upInbox' = Tail(upInbox)
      /\ Head(upInbox).kind = "changed"
      /\ UNCHANGED <<UPower!daemon, interfaces>> /\ upClient' = upClient
  BY DEF UPower!Changed, UPower!Receive
<1>2. requests' = AskedAll(Head(upInbox).device)[Len(interfaces)]
  BY DEF UPower!Changed, AskedAll
<1>3. requests' \in Seq(1 .. Len(interfaces))
  BY <1>2, AskedAllIs DEF UPowerInv
<1>4. UTypes'
  <2>1. upClient' \in Client0 /\ JobFits(upClient'.job) /\ Taken
    BY <1>1 DEF UPowerInv, UTypes, JobFits, Taken
  <2> QED BY <1>1, <1>3, <2>1, TypesStay DEF UPowerInv
<1>5. Reads(upClient') /\ upClient'.watchers = upClient.watchers
  BY <1>1 DEF UPowerInv
<1>6. \A b : UPower!KeysOf(upClient.map, b) # {} => Coming(b)'
  BY <1>1 DEF Coming
<1> QED BY <1>1, <1>4, <1>5, <1>6, MessageInv

LEMMA EnteredKeys ==
  ASSUME NEW map \in Maps, NEW device, NEW prop \in {"energy", "online", "state"},
         NEW p \in UPower!Entry,
         NEW b, OnlyBattery(b), UPower!KeysOf(map, b) # {}
  PROVE  UPower!KeysOf(Entered(map, device, prop, p), b) # {}
<1>1. CASE device \notin UPowerBattery
  BY <1>1 DEF Entered
<1>2. CASE device \in UPowerBattery
  <2> DEFINE k == UPower!Found(map, device)
             v == UPower!Value(map, k)
             e == [v EXCEPT ![prop] = p[prop]]
  <2>1. device = b /\ k \in Nat /\ k \in UPower!KeysOf(map, b) /\ v \in UPower!Entry
    BY <1>2, FoundIs, ValueIs DEF OnlyBattery
  <2>2. v.native = b
    BY <2>1 DEF UPower!KeysOf, UPower!Value
  <2> HIDE DEF k
  <2>3. e \in UPower!Entry /\ e.native = b
    <3> HIDE DEF v
    <3>1. CASE prop = "energy"
      <4>1. e = [v EXCEPT !["energy"] = p["energy"]]
        BY <3>1
      <4> HIDE DEF e
      <4> QED BY <2>1, <2>2, <4>1, EntryChanged
    <3>2. CASE prop = "online"
      <4>1. e = [v EXCEPT !["online"] = p["online"]]
        BY <3>2
      <4> HIDE DEF e
      <4> QED BY <2>1, <2>2, <4>1, EntryChanged
    <3>3. CASE prop = "state"
      <4>1. e = [v EXCEPT !["state"] = p["state"]]
        BY <3>3
      <4> HIDE DEF e
      <4> QED BY <2>1, <2>2, <4>1, EntryChanged
    <3> QED BY <3>1, <3>2, <3>3
  <2>4. Entered(map, device, prop, p) = UPower!Inserted(map, k, e)
    BY <1>2 DEF Entered, k
  <2> HIDE DEF e
  <2>5. UPower!KeysOf(UPower!Inserted(map, k, e), e.native) # {}
    BY <2>1, <2>3, KeysKept
  <2> QED BY <2>3, <2>4, <2>5
<1> QED BY <1>1, <1>2

Keeps(c, d) ==
  /\ d \in Client0 /\ Same(c, d) /\ Reads(d)
  /\ \A b : OnlyBattery(b) /\ UPower!KeysOf(c.map, b) # {} => UPower!KeysOf(d.map, b) # {}

LEMMA DifferencesIs ==
  ASSUME NEW c \in Client0, Reads(c), NEW device, NEW old \in UPower!Entry,
         NEW new \in UPower!Entry,
         device \notin UPowerBattery => new.energy = 0
  PROVE  Keeps(c, UPower!Differences(c, device, old, new))
<1> DEFINE Emit(before, prop) == IF new[prop] = old[prop] THEN before
                                 ELSE UPower!PropertyChanged(before, device, prop, new)
<1>1. ASSUME NEW x \in Client0, Keeps(c, x), NEW prop \in {"energy", "online", "state"}
      PROVE  Keeps(c, Emit(x, prop)) /\ Emit(x, prop) \in Client0
  <2>1. CASE new[prop] = old[prop]
    BY <1>1, <2>1
  <2>2. CASE new[prop] # old[prop]
    <3> DEFINE y == UPower!PropertyChanged(x, device, prop, new)
    <3>1. /\ y \in Client0 /\ Same(x, y) /\ Reads(y)
          /\ y.map = Entered(x.map, device, prop, new)
      BY <1>1, PropertyChangedIs DEF Keeps
    <3>2. Emit(x, prop) = y
      BY <2>2
    <3> HIDE DEF y, Emit
    <3>3. ASSUME NEW b, OnlyBattery(b), UPower!KeysOf(c.map, b) # {} PROVE UPower!KeysOf(y.map,
                 b) # {}
      <4>1. UPower!KeysOf(x.map, b) # {} /\ x.map \in Maps
        BY <1>1, <3>3, ClientParts DEF Keeps
      <4> QED BY <3>1, <3>3, <4>1, EnteredKeys
    <3> QED BY <1>1, <3>1, <3>2, <3>3 DEF Keeps, Same
  <2> QED BY <2>1, <2>2
<1>2. UPower!Differences(c, device, old, new) = Emit(Emit(Emit(c, "energy"), "online"), "state")
  BY DEF UPower!Differences
<1>3. Keeps(c, c)
  BY DEF Keeps, Same
<1> HIDE DEF Emit
<1>4. Keeps(c, Emit(c, "energy")) /\ Emit(c, "energy") \in Client0
  BY <1>1, <1>3
<1>5. Keeps(c, Emit(Emit(c, "energy"), "online")) /\ Emit(Emit(c, "energy"), "online") \in Client0
  BY <1>1, <1>4
<1>6. Keeps(c, Emit(Emit(Emit(c, "energy"), "online"), "state"))
  BY <1>1, <1>5
<1> QED BY <1>2, <1>6

LEMMA PropRequestFinishedInv == UPowerInv /\ UPower!PropRequestFinished => UPowerInv'
<1> SUFFICES ASSUME UPowerInv, UPower!PropRequestFinished PROVE UPowerInv'
  OBVIOUS
<1> DEFINE i == Head(upInbox).interface
           new == Head(upInbox).map
           N == Len(interfaces)
<1>1. /\ UPower!Job = UPower!Idle /\ upInbox # <<>> /\ upInbox' = Tail(upInbox)
      /\ Head(upInbox).kind = "answer"
      /\ UNCHANGED <<UPower!daemon, requests>>
  BY DEF UPower!PropRequestFinished, UPower!Receive
<1>2. /\ upClient \in Client0 /\ Reads(upClient) /\ requests \in Seq(1 .. N)
      /\ upInbox \in Seq(UPower!Messages)
      /\ interfaces \in Seq(UPower!Interface) /\ N \in Nat
  BY DEF UPowerInv, UTypes
<1>3. i \in 1 .. N /\ OfDevice(new, interfaces[i].device)
  <2>1. 1 \in 1 .. Len(upInbox) /\ Head(upInbox) = upInbox[1]
    BY <1>1, <1>2
  <2> QED BY <1>1, <2>1 DEF UPowerInv, UTypes
<1>4. Taken
  BY <1>1 DEF Taken
<1>5. CASE new = UPower!Nothing
  <2>1. interfaces' = interfaces /\ upClient' = upClient
    BY <1>5 DEF UPower!PropRequestFinished
  <2>2. UTypes'
    <3>1. upClient' \in Client0 /\ JobFits(upClient'.job) /\ requests' \in Seq(1 .. Len(interfaces))
      BY <1>1, <1>2, <2>1 DEF UPowerInv, UTypes, JobFits
    <3> QED BY <1>1, <1>4, <2>1, <3>1, TypesStay DEF UPowerInv
  <2>3. Reads(upClient') /\ upClient'.watchers = upClient.watchers
    BY <1>2, <2>1
  <2>4. \A b : UPower!KeysOf(upClient.map, b) # {} => Coming(b)'
    BY <2>1 DEF Coming
  <2> QED BY <1>1, <2>2, <2>3, <2>4, MessageInv
<1>6. CASE new # UPower!Nothing
  <2> DEFINE old == interfaces[i].map
             device == interfaces[i].device
  <2>1. /\ interfaces' = [interfaces EXCEPT ![i].map = new]
        /\ upClient' = UPower!Differences(upClient, device, old, new)
    BY <1>6 DEF UPower!PropRequestFinished
  <2>2. old \in UPower!Entry /\ device \in UPowerDevice /\ interfaces[i] \in UPower!Interface
    <3> HIDE DEF i
    <3>1. interfaces[i] \in UPower!Interface
      BY <1>2, <1>3
    <3> QED BY <3>1 DEF UPower!Interface
  <2>3. new \in UPower!Entry /\ (device \notin UPowerBattery => new.energy = 0)
    BY <1>3, <2>2, OfDeviceIs
  <2>4. Keeps(upClient, upClient')
    <3> HIDE DEF new, old, device
    <3> QED BY <1>2, <2>1, <2>2, <2>3, DifferencesIs
  <2>5. /\ upClient' \in Client0 /\ upClient'.job = upClient.job
        /\ upClient'.watchers = upClient.watchers
        /\ Reads(upClient') /\ \A b : OnlyBattery(b) /\ UPower!KeysOf(upClient.map, b) # {}
           => UPower!KeysOf(upClient'.map, b) # {}
    BY <2>4 DEF Keeps, Same
  <2> HIDE DEF new
  <2>6. /\ interfaces' \in Seq(UPower!Interface) /\ Len(interfaces') = N
        /\ \A k \in 1 .. N : /\ interfaces'[k].device = interfaces[k].device
                             /\ interfaces'[k].map = IF k = i THEN new ELSE interfaces[k].map
    <3> DEFINE x == [interfaces[i] EXCEPT !.map = new]
    <3>1. \A k \in 1 .. N : interfaces[k] \in UPower!Interface
      BY <1>2
    <3>2. x \in UPower!Interface /\ x.device = interfaces[i].device /\ x.map = new
      BY <2>2, <2>3 DEF UPower!Interface
    <3>3. interfaces' = [interfaces EXCEPT ![i] = x]
      BY <2>1
    <3> HIDE DEF x
    <3>4. DOMAIN interfaces = 1 .. N /\ interfaces = [k \in 1 .. N |-> interfaces[k]]
      BY <1>2
    <3>5. interfaces' = [k \in 1 .. N |-> IF k = i THEN x ELSE interfaces[k]]
      <4> HIDE DEF i, N
      <4> QED BY <3>3, <3>4
    <3> HIDE DEF i
    <3>6. \A k \in 1 .. N : /\ interfaces'[k] \in UPower!Interface
                            /\ interfaces'[k].device = interfaces[k].device
                            /\ interfaces'[k].map = IF k = i THEN new ELSE interfaces[k].map
      BY <3>1, <3>2, <3>5
    <3>7. interfaces' \in Seq(UPower!Interface) /\ Len(interfaces') = N
      <4>1. interfaces' \in [1 .. N -> UPower!Interface]
        BY <3>5, <3>6
      <4>2. N \in Nat
        BY <1>2
      <4> QED BY <4>1, <4>2, SequenceOf
    <3> QED BY <3>6, <3>7
  <2>7. UTypes'
    <3>1. \A k \in 1 .. N : OfDevice(interfaces'[k].map, interfaces'[k].device)
      <4>1. \A k \in 1 .. N : OfDevice(interfaces[k].map, interfaces[k].device)
        BY DEF UPowerInv, UTypes
      <4> HIDE DEF i
      <4> QED BY <1>3, <2>6, <4>1
    <3>2. /\ Working(upClient'.job.slot) => upClient'.job.devices # <<>>
          /\ Matching(upClient'.job.slot) => interfaces' # <<>>
             /\ UPower!Newest'.device = Head(upClient'.job.devices)
      BY <1>1, <2>5 DEF Working, Matching, UPower!Job, UPower!Idle
    <3>3. \A k \in 1 .. N : interfaces'[k].device = interfaces[k].device
      BY <2>6
    <3>4. Len(interfaces') \in Nat /\ Len(interfaces') >= Len(interfaces)
      BY <1>2, <2>6
    <3> QED BY <1>1, <1>2, <1>4, <2>5, <2>6, <3>1, <3>2, <3>3, <3>4, TypesOfInterfaces DEF UPowerInv
  <2>8. \A b : OnlyBattery(b) /\ UPower!KeysOf(upClient.map, b) # {} => Coming(b)'
    BY <2>5 DEF Coming
  <2> QED BY <1>1, <2>5, <2>7, <2>8, MessageInv
<1> QED BY <1>5, <1>6

-----------------------------------------------------------------------------
(***************************************************************************)
(* The index, and UPower.                                                  *)
(***************************************************************************)
LEMMA SetBatteryIndexInv ==
  ASSUME UPowerInv, NEW i \in UPowerIndex, UPower!SetBatteryIndex(i)
  PROVE  UPowerInv'
<1> DEFINE moved == [upClient EXCEPT !.index = i]
           differs == ~UPower!IsValid(upClient) \/ UPower!RemainingCapacity(moved) # UPower!RemainingCapacity(upClient)
           e == IF UPower!IsValid(moved) /\ differs THEN <<UPower!RemainingCapacity(moved)>>
                ELSE IF UPower!IsValid(moved) THEN moved.told.energy ELSE UPower!Untold
           v == IF UPower!IsValid(moved) # UPower!IsValid(upClient) THEN <<UPower!IsValid(moved)>>
             ELSE moved.told.valid
           new == [moved EXCEPT !.told.valid = v, !.told.energy = e]
<1>1. /\ UPower!Job = UPower!Idle /\ UNCHANGED <<UPower!daemon, upInbox, requests, interfaces>>
      /\ upClient' = new
  <2>1. upClient' = [moved EXCEPT
           !.told.valid = IF UPower!IsValid(moved) # UPower!IsValid(upClient)
             THEN <<UPower!IsValid(moved)>> ELSE @,
           !.told.energy = IF UPower!IsValid(moved) /\ differs
             THEN <<UPower!RemainingCapacity(moved)>>
                           ELSE IF UPower!IsValid(moved) THEN @ ELSE UPower!Untold]
    BY DEF UPower!SetBatteryIndex
  <2> HIDE DEF moved, differs
  <2> QED BY <2>1 DEF UPower!SetBatteryIndex
<1>2. /\ upClient \in Client0 /\ Reads(upClient) /\ upClient.map \in Maps /\ upClient.index \in Nat
      /\ i \in Nat
      /\ upClient.told.energy \in Energies /\ upClient.told.valid \in Valids
      /\ requests \in Seq(1 .. Len(interfaces))
  BY ClientParts, UPowerAssumption DEF UPowerInv, UTypes
<1>3. /\ moved \in Client0 /\ moved.map = upClient.map /\ moved.index = i
      /\ moved.told = upClient.told /\ moved.job = upClient.job
      /\ moved.watchers = upClient.watchers
  <2>1. moved = ClientIs(upClient.map, upClient.cType, upClient.cState, i, upClient.watchers,
        upClient.job, upClient.told)
    BY <1>2, FieldsIs
  <2>2. ClientIs(upClient.map, upClient.cType, upClient.cState, i, upClient.watchers, upClient.job,
        upClient.told) \in Client0
    BY <1>2, ClientParts, ClientTyped
  <2> HIDE DEF moved
  <2> QED BY <2>1, <2>2, IsFields
<1> HIDE DEF moved
<1>4. \A c \in {upClient, moved} :
        /\ UPower!RemainingCapacity(c) \in Energy \cup {0}
        /\ UPower!RemainingCapacity(c) \in {0, UPower!Value(upClient.map, c.index).energy}
        /\ UPower!IsValid(c) => UPower!RemainingCapacity(c) = UPower!Value(upClient.map,
           c.index).energy
        /\ UPower!IsValid(c) \in BOOLEAN
  <2>1. TAKE c \in {upClient, moved}
  <2>2. c.map = upClient.map /\ c.index \in Nat
    BY <1>2, <1>3
  <2>3. UPower!Cardinality(DOMAIN upClient.map) \in Nat
    BY <1>2, MapsIs, FS_CardinalityType, SameCardinality
  <2>4. UPower!Value(upClient.map, c.index).energy \in Energy \cup {0}
    BY <1>2, ValueIs DEF UPower!Entry
  <2>5. UPower!IsValid(c) => UPower!Cardinality(DOMAIN c.map) >= c.index
    BY <2>2, <2>3 DEF UPower!IsValid
  <2>6. UPower!RemainingCapacity(c) = IF UPower!Cardinality(DOMAIN c.map) >= c.index
                               THEN UPower!Value(upClient.map, c.index).energy ELSE 0
    BY <2>2 DEF UPower!RemainingCapacity
  <2> QED BY <2>4, <2>5, <2>6 DEF UPower!IsValid
<1>5. e \in Energies /\ v \in Valids
  <2>1. UPower!Untold \in Energies /\ \A x \in Energy \cup {0} : <<x>> \in Energies
    BY DEF Energies
  <2>2. e \in Energies
    <3> HIDE DEF differs
    <3> QED BY <1>2, <1>3, <1>4, <2>1
  <2>3. v \in Valids
    BY <1>2, <1>3, <1>4 DEF Valids
  <2> QED BY <2>2, <2>3
<1>6. e \in {UPower!Untold, <<0>>, <<UPower!Value(upClient.map, i).energy>>}
  <2>1. CASE ~ UPower!IsValid(moved)
    BY <2>1
  <2>2. CASE UPower!IsValid(moved) /\ differs
    <3>1. e = <<UPower!RemainingCapacity(moved)>>
      BY <2>2
    <3>2. UPower!RemainingCapacity(moved) = UPower!Value(upClient.map, i).energy
      BY <1>3, <1>4, <2>2
    <3> QED BY <3>1, <3>2
  <2>3. CASE UPower!IsValid(moved) /\ ~ differs
    <3>1. e = upClient.told.energy
      BY <1>3, <2>3
    <3>2. UPower!Value(upClient.map, i).energy = UPower!Value(upClient.map, upClient.index).energy
      BY <1>3, <1>4, <2>3
    <3> QED BY <1>2, <3>1, <3>2 DEF Reads
  <2> QED BY <2>1, <2>2, <2>3
<1> HIDE DEF e, v
<1>7. new \in Client0 /\ Same(moved, new) /\ new.map = upClient.map /\ new.told.energy = e
  <2> DEFINE t == [[moved.told EXCEPT !.valid = v] EXCEPT !.energy = e]
             t1 == [moved.told EXCEPT !.valid = v]
  <2>1. moved.told \in [energy : Energies, valid : Valids]
    BY <1>3, ClientParts
  <2>2. t1 \in [energy : Energies, valid : Valids]
    BY <1>5, <2>1, UPowerToldIs
  <2> HIDE DEF t1
  <2>3. [t1 EXCEPT !.energy = e] \in [energy : Energies, valid : Valids]
        /\ [t1 EXCEPT !.energy = e].energy = e
    BY <1>5, <2>2, UPowerToldIs
  <2>4. t \in [energy : Energies, valid : Valids] /\ t.energy = e
    BY <2>3 DEF t1
  <2>5. new = [moved EXCEPT !.told = t]
    OBVIOUS
  <2> HIDE DEF t
  <2>6. new = ClientIs(moved.map, moved.cType, moved.cState, moved.index, moved.watchers,
        moved.job, t)
    BY <1>3, <2>5, FieldsIs
  <2>7. ClientIs(moved.map, moved.cType, moved.cState, moved.index, moved.watchers, moved.job,
        t) \in Client0
    BY <1>3, <2>4, ClientParts, ClientTyped
  <2> HIDE DEF new
  <2> QED BY <1>3, <2>4, <2>6, <2>7, IsFields DEF Same
<1> HIDE DEF new
<1>8. /\ upClient' \in Client0 /\ upClient'.map = upClient.map /\ upClient'.job = upClient.job
      /\ upClient'.watchers = upClient.watchers /\ upClient'.index = i /\ upClient'.told.energy = e
  BY <1>1, <1>3, <1>7 DEF Same
<1>9. Reads(upClient')
  BY <1>6, <1>8 DEF Reads
<1>10. Taken /\ upInbox' = upInbox
  BY <1>1 DEF Taken
<1>11. UTypes'
  <2>1. JobFits(upClient'.job) /\ requests' \in Seq(1 .. Len(interfaces))
    BY <1>1, <1>2, <1>8 DEF JobFits, Working, Matching, UPower!Job, UPower!Idle
  <2> QED BY <1>1, <1>8, <1>10, <2>1, TypesStay DEF UPowerInv
<1>12. Unwatched'
  BY <1>1, <1>8, <1>10, UnwatchedStays DEF UPowerInv
<1>13. ASSUME NEW b, OnlyBattery(b) PROVE Known(b)'
  <2>1. Coming(b) => Coming(b)'
    BY <1>1, <1>8 DEF Coming, UPower!Job, Sent, Restarted, UPower!Newest
  <2>2. Ordered(b) => Ordered(b)'
    BY <1>10, OrderedStays DEF UPowerInv
  <2> QED BY <1>1, <1>13, <2>1, <2>2 DEF UPowerInv, Known, UPower!daemon
<1>14. \A b : OnlyBattery(b)' <=> OnlyBattery(b)
  BY DEF OnlyBattery
<1> QED BY <1>9, <1>11, <1>12, <1>13, <1>14 DEF UPowerInv

Fits(m) ==
  /\ m.kind = "answer" =>
       m.interface \in 1 .. Len(interfaces) /\ OfDevice(m.map, interfaces[m.interface].device)
  /\ m.kind \in {"added", "removed", "changed"} => m.device \in UPowerDevice

LEMMA TypesOfUPower ==
  ASSUME UTypes, UNCHANGED <<interfaces, upClient>>,
         up' \in BOOLEAN, upPresent' \subseteq UPowerDevice,
           properties' \in [UPowerDevice -> UPower!Entry],
         \A d \in UPowerDevice : Proper(properties'[d], d),
         requests' \in Seq(1 .. Len(interfaces)), upInbox' \in Seq(UPower!Messages),
         \A n \in 1 .. Len(upInbox') : Fits(upInbox'[n]) \/ \E m \in 1 .. Len(upInbox) : upInbox'[n] = upInbox[m]
  PROVE  UTypes'
<1>1. \A n \in 1 .. Len(upInbox') :
        /\ upInbox'[n].kind = "answer" =>
             /\ upInbox'[n].interface \in 1 .. Len(interfaces)
             /\ OfDevice(upInbox'[n].map, interfaces[upInbox'[n].interface].device)
        /\ upInbox'[n].kind \in {"added", "removed", "changed"}
           => upInbox'[n].device \in UPowerDevice
  <2>1. TAKE n \in 1 .. Len(upInbox')
  <2>2. CASE Fits(upInbox'[n])
    BY <2>2 DEF Fits
  <2>3. CASE \E m \in 1 .. Len(upInbox) : upInbox'[n] = upInbox[m]
    BY <2>3 DEF UTypes
  <2> QED BY <2>2, <2>3
<1>2. UPower!Newest' = UPower!Newest /\ interfaces' = interfaces /\ upClient' = upClient
  BY DEF UPower!Newest
<1>3. /\ upClient \in Client0 /\ (Working(upClient.job.slot) => upClient.job.devices # <<>>)
      /\ Matching(upClient.job.slot) => interfaces # <<>> /\ UPower!Newest.device = Head(upClient.job.devices)
      /\ interfaces \in Seq(UPower!Interface)
      /\ \A i \in 1 .. Len(interfaces) : OfDevice(interfaces[i].map, interfaces[i].device)
  BY DEF UTypes
<1> QED BY <1>1, <1>2, <1>3 DEF UTypes

\* UPower sends at most one message.
LEMMA SendInv ==
  ASSUME UPowerInv, UNCHANGED <<interfaces, upClient>>,
         up' \in BOOLEAN, upPresent' \subseteq UPowerDevice,
           properties' \in [UPowerDevice -> UPower!Entry],
         \A d \in UPowerDevice : Proper(properties'[d], d),
         requests' \in Seq(1 .. Len(interfaces)),
         NEW m \in UPower!Messages, Fits(m), upInbox' = Append(upInbox, m),
         m.kind \in {"added", "removed"} => upClient.watchers # 0,
         up' => up \/ m.kind = "registered",
         \A b : OnlyBattery(b) /\ up' /\ b \in upPresent' =>
           \/ m.kind = "registered"
           \/ m.kind = "added" /\ m.device = b
           \/ up /\ b \in upPresent /\ ~ (m.kind = "removed" /\ m.device = b)
  PROVE  UPowerInv'
<1>1. upInbox \in Seq(UPower!Messages)
  BY DEF UPowerInv, UTypes
<1>2. /\ upInbox' \in Seq(UPower!Messages) /\ Len(upInbox) \in Nat
      /\ \A n \in 1 .. Len(upInbox) : upInbox'[n] = upInbox[n]
      /\ upInbox'[Len(upInbox) + 1] = m
      /\ \A n \in 1 .. Len(upInbox') : n \in 1 .. Len(upInbox) \/ n = Len(upInbox) + 1
  BY <1>1, AppendInbox
<1>3. UTypes'
  <2>1. \A n \in 1 .. Len(upInbox') : Fits(upInbox'[n]) \/ \E k \in 1 .. Len(upInbox) : upInbox'[n] = upInbox[k]
    BY <1>2
  <2> QED BY <1>2, <2>1, TypesOfUPower DEF UPowerInv
<1>4. Unwatched'
  <2>1. SUFFICES ASSUME upClient.watchers = 0
        PROVE  /\ \A n \in 1 .. Len(upInbox') : upInbox'[n].kind \notin {"added", "removed"}
               /\ up' => Restarted'
    BY DEF Unwatched
  <2>2. /\ \A n \in 1 .. Len(upInbox) : upInbox[n].kind \notin {"added", "removed"}
        /\ up => Restarted
    BY <2>1 DEF UPowerInv, Unwatched
  <2>3. m.kind \notin {"added", "removed"}
    BY <2>1
  <2>4. \A n \in 1 .. Len(upInbox') : upInbox'[n].kind \notin {"added", "removed"}
    BY <1>2, <2>2, <2>3
  <2>5. up' => Restarted'
    BY <1>1, <2>2, AppendSent
  <2> QED BY <2>4, <2>5
<1>5. \A b : Coming(b) => Coming(b)'
  <2>1. TAKE b
  <2>2. /\ Sent("added", b) => Sent("added", b)'
        /\ Restarted => Restarted'
    BY <1>1, AppendSent
  <2> QED BY <2>2 DEF Coming, UPower!Job, UPower!Newest
<1>6. ASSUME NEW b, OnlyBattery(b) PROVE Known(b)'
  <2>1. SUFFICES ASSUME up', b \in upPresent' PROVE Coming(b)' /\ Ordered(b)'
    BY DEF Known
  <2>2. CASE m.kind = "registered" \/ (m.kind = "added" /\ m.device = b)
    <3>1. Restarted' \/ Sent("added", b)'
      BY <1>1, <2>2, AppendSent
    <3>2. Ordered(b)'
      BY <1>1, <2>2, AppendSent
    <3> QED BY <3>1, <3>2 DEF Coming
  <2>3. CASE up /\ b \in upPresent /\ ~ (m.kind = "removed" /\ m.device = b)
    <3>1. Coming(b) /\ Ordered(b)
      BY <1>6, <2>3 DEF UPowerInv, Known
    <3>2. Ordered(b)'
      BY <1>1, <2>3, <3>1, AppendSent
    <3> QED BY <1>5, <3>1, <3>2
  <2> QED BY <1>6, <2>1, <2>2, <2>3
<1>7. \A b : OnlyBattery(b)' <=> OnlyBattery(b)
  BY DEF OnlyBattery
<1> QED BY <1>3, <1>4, <1>6, <1>7 DEF UPowerInv

\* UPower's change is not sent.
LEMMA SilentInv ==
  ASSUME UPowerInv, UNCHANGED <<interfaces, upClient, requests, upInbox>>,
         up' = up, upPresent' \subseteq UPowerDevice, properties' \in [UPowerDevice -> UPower!Entry],
         \A d \in UPowerDevice : Proper(properties'[d], d),
         up => upPresent' \subseteq upPresent \/ (Restarted /\ upClient.watchers = 0)
  PROVE  UPowerInv'
<1>1. upInbox \in Seq(UPower!Messages) /\ requests \in Seq(1 .. Len(interfaces)) /\ up \in BOOLEAN
  BY DEF UPowerInv, UTypes
<1>2. UTypes'
  <2>1. \A n \in 1 .. Len(upInbox') : Fits(upInbox'[n]) \/ \E k \in 1 .. Len(upInbox) : upInbox'[n] = upInbox[k]
    OBVIOUS
  <2> QED BY <1>1, <2>1, TypesOfUPower DEF UPowerInv
<1>3. Unwatched' /\ Reads(upClient')
  BY DEF UPowerInv, Unwatched, Restarted
<1>4. \A b : (Coming(b) => Coming(b)') /\ (Ordered(b) => Ordered(b)') /\ (Restarted => Coming(b)')
  BY DEF Coming, Ordered, Sent, Restarted, UPower!Job, UPower!Newest
<1>5. ASSUME NEW b, OnlyBattery(b) PROVE Known(b)'
  <2>1. SUFFICES ASSUME up', b \in upPresent' PROVE Coming(b)' /\ Ordered(b)'
    BY DEF Known
  <2>2. CASE b \in upPresent
    <3>1. Coming(b) /\ Ordered(b)
      BY <1>5, <2>1, <2>2 DEF UPowerInv, Known
    <3> QED BY <1>4, <3>1
  <2>3. CASE Restarted /\ upClient.watchers = 0
    <3>1. Ordered(b)
      BY <2>3 DEF UPowerInv, Unwatched, Ordered
    <3> QED BY <1>4, <2>3, <3>1
  <2> QED BY <2>1, <2>2, <2>3
<1>6. \A b : OnlyBattery(b)' <=> OnlyBattery(b)
  BY DEF OnlyBattery
<1> QED BY <1>2, <1>3, <1>5, <1>6 DEF UPowerInv

Kinds == {"registered", "unregistered", "added", "removed", "changed", "answer"}

LEMMA MessageTyped ==
  \A kind \in Kinds, d \in UPowerDevice \cup {"none"} :
    UPower!Message(kind, d) \in UPower!Messages /\ UPower!Message(kind, d).kind = kind
      /\ UPower!Message(kind, d).device = d
<1>1. UPower!Nothing \in UPower!Entry
  BY NothingIs
<1>2. \A kind, d : UPower!Message(kind, d) = [kind |-> kind, device |-> d, interface |-> 0,
                   map |-> UPower!Nothing]
  BY DEF UPower!Message
<1> QED BY <1>1, <1>2 DEF UPower!Messages, Kinds

Reply(i, e) == [kind |-> "answer", device |-> "none", interface |-> i, map |-> e]

LEMMA ReplyTyped ==
  \A i \in Nat, e \in UPower!Entry :
    /\ Reply(i, e) \in UPower!Messages /\ Reply(i, e).kind = "answer"
    /\ Reply(i, e).interface = i /\ Reply(i, e).map = e
  BY DEF Reply, UPower!Messages

LEMMA ReplyIs ==
  /\ \A i, e : [UPower!Message("answer", "none") EXCEPT !.interface = i, !.map = e] = Reply(i, e)
  /\ \A i : [UPower!Message("answer", "none") EXCEPT !.interface = i] = Reply(i, UPower!Nothing)
<1>1. UPower!Message("answer", "none") = Reply(0, UPower!Nothing)
  BY DEF UPower!Message, Reply
<1>2. ASSUME NEW i, NEW e PROVE [Reply(0, UPower!Nothing) EXCEPT !.interface = i,
             !.map = e] = Reply(i, e)
  <2>1. [Reply(0, UPower!Nothing) EXCEPT !.interface = i, !.map = e]
          = [[Reply(0, UPower!Nothing) EXCEPT !.interface = i] EXCEPT !.map = e]
    OBVIOUS
  <2>2. [Reply(0, UPower!Nothing) EXCEPT !.interface = i] = Reply(i, UPower!Nothing)
    BY DEF Reply
  <2>3. [Reply(i, UPower!Nothing) EXCEPT !.map = e] = Reply(i, e)
    BY DEF Reply
  <2> QED BY <2>1, <2>2, <2>3
<1>3. \A i : [Reply(0, UPower!Nothing) EXCEPT !.interface = i] = Reply(i, UPower!Nothing)
  BY DEF Reply
<1> QED BY <1>1, <1>2, <1>3

LEMMA StopInv == UPowerInv /\ UPower!Stop => UPowerInv'
<1> SUFFICES ASSUME UPowerInv, UPower!Stop PROVE UPowerInv'
  OBVIOUS
<1> DEFINE m == UPower!Message("unregistered", "none")
           a(n) == Reply(requests[n], UPower!Nothing)
           s == Append(upInbox, m)
           t == [n \in DOMAIN requests |-> a(n)]
<1>1. /\ up' = FALSE /\ upInbox' = s \o t /\ requests' = <<>>
      /\ UNCHANGED <<upPresent, properties, interfaces, upClient>>
  <2>1. upInbox' = s \o [n \in DOMAIN requests |-> [UPower!Message("answer",
        "none") EXCEPT !.interface = requests[n]]]
    BY DEF UPower!Stop
  <2>2. upInbox' = s \o t
    BY <2>1, ReplyIs
  <2> QED BY <2>2 DEF UPower!Stop
<1>2. /\ upInbox \in Seq(UPower!Messages) /\ requests \in Seq(1 .. Len(interfaces))
      /\ Len(interfaces) \in Nat
      /\ upPresent \subseteq UPowerDevice /\ properties \in [UPowerDevice -> UPower!Entry]
      /\ \A d \in UPowerDevice : Proper(properties[d], d)
  BY DEF UPowerInv, UTypes
<1>3. m \in UPower!Messages /\ m.kind = "unregistered"
  <2>1. "unregistered" \in Kinds
    BY DEF Kinds
  <2> QED BY <2>1, MessageTyped
<1>4. \A n \in 1 .. Len(requests) : requests[n] \in 1 .. Len(interfaces) /\ requests[n] \in Nat
  BY <1>2
<1>5. \A n \in 1 .. Len(requests) :
        a(n) \in UPower!Messages /\ a(n).kind = "answer" /\ a(n).interface = requests[n]
          /\ a(n).map = UPower!Nothing
  <2>1. TAKE n \in 1 .. Len(requests)
  <2>2. UPower!Nothing \in UPower!Entry
    BY NothingIs
  <2> QED BY <1>4, <2>2, ReplyTyped
<1> HIDE DEF m, a
<1>6. /\ s \in Seq(UPower!Messages) /\ Len(s) = Len(upInbox) + 1 /\ Len(upInbox) \in Nat
      /\ \A n \in 1 .. Len(upInbox) : s[n] = upInbox[n]
      /\ s[Len(upInbox) + 1] = m
  BY <1>2, <1>3
<1>7. /\ t \in Seq(UPower!Messages) /\ Len(t) = Len(requests) /\ Len(requests) \in Nat
      /\ \A n \in 1 .. Len(requests) : t[n] = a(n)
  <2>1. DOMAIN requests = 1 .. Len(requests) /\ Len(requests) \in Nat
    BY <1>2
  <2>2. t = [n \in 1 .. Len(requests) |-> a(n)]
    BY <2>1
  <2> HIDE DEF t
  <2>3. \A n \in 1 .. Len(requests) : t[n] = a(n)
    BY <2>2
  <2>4. t \in Seq(UPower!Messages) /\ Len(t) = Len(requests)
    BY <1>5, <2>1, <2>2
  <2> QED BY <2>1, <2>3, <2>4
<1> HIDE DEF s, t
<1>8. /\ s \o t \in Seq(UPower!Messages) /\ Len(s \o t) = Len(s) + Len(t)
      /\ \A n \in 1 .. Len(s) + Len(t) : (s \o t)[n] = IF n <= Len(s) THEN s[n] ELSE t[n - Len(s)]
  BY <1>6, <1>7
<1>9. ASSUME NEW n \in 1 .. Len(upInbox')
      PROVE  \/ \E k \in 1 .. Len(upInbox) : upInbox'[n] = upInbox[k]
             \/ upInbox'[n] = m
             \/ \E k \in 1 .. Len(requests) : upInbox'[n] = a(k)
  <2>1. n \in 1 .. Len(s) + Len(t) /\ upInbox'[n] = IF n <= Len(s) THEN s[n] ELSE t[n - Len(s)]
    BY <1>1, <1>8
  <2>2. CASE n <= Len(upInbox)
    <3>1. n \in 1 .. Len(upInbox) /\ upInbox'[n] = upInbox[n]
      BY <1>6, <2>1, <2>2
    <3> QED BY <3>1
  <2>3. CASE n = Len(upInbox) + 1
    <3>1. upInbox'[n] = m
      BY <1>6, <2>1, <2>3
    <3> QED BY <3>1
  <2>4. CASE n > Len(upInbox) + 1
    <3> DEFINE k == n - Len(s)
    <3>1. k \in 1 .. Len(requests) /\ upInbox'[n] = t[k]
      BY <1>6, <1>7, <2>1, <2>4
    <3> HIDE DEF k
    <3> QED BY <1>7, <3>1
  <2> QED BY <1>6, <2>1, <2>2, <2>3, <2>4
<1>10. UTypes'
  <2>1. \A n \in 1 .. Len(upInbox') : Fits(upInbox'[n]) \/ \E k \in 1 .. Len(upInbox) : upInbox'[n] = upInbox[k]
    <3>1. Fits(m) /\ \A k \in 1 .. Len(requests) : Fits(a(k))
      BY <1>3, <1>4, <1>5, NothingIs DEF Fits
    <3> QED BY <1>9, <3>1
  <2>2. requests' \in Seq(1 .. Len(interfaces)) /\ upInbox' \in Seq(UPower!Messages)
        /\ up' \in BOOLEAN
    <3>1. <<>> \in Seq(1 .. Len(interfaces))
      OBVIOUS
    <3> QED BY <1>1, <1>8, <3>1
  <2> QED BY <1>1, <1>2, <2>1, <2>2, TypesOfUPower DEF UPowerInv
<1>11. Unwatched'
  <2>1. SUFFICES ASSUME upClient.watchers = 0
        PROVE  \A n \in 1 .. Len(upInbox') : upInbox'[n].kind \notin {"added", "removed"}
    BY <1>1 DEF Unwatched
  <2>2. \A n \in 1 .. Len(upInbox) : upInbox[n].kind \notin {"added", "removed"}
    BY <2>1 DEF UPowerInv, Unwatched
  <2> QED BY <1>3, <1>5, <1>9, <2>2
<1>12. Reads(upClient') /\ \A b : Known(b)'
  BY <1>1 DEF UPowerInv, Known
<1> QED BY <1>10, <1>11, <1>12 DEF UPowerInv

LEMMA StartInv == UPowerInv /\ UPower!Start => UPowerInv'
<1> SUFFICES ASSUME UPowerInv, UPower!Start PROVE UPowerInv'
  OBVIOUS
<1> DEFINE m == UPower!Message("registered", "none")
<1>1. /\ up' = TRUE /\ upInbox' = Append(upInbox, m) /\ upPresent' \subseteq UPowerDevice
      /\ properties' = properties
      /\ requests' = requests /\ UNCHANGED <<interfaces, upClient>>
  BY DEF UPower!Start, UPower!Unsettled
<1>2. /\ requests \in Seq(1 .. Len(interfaces)) /\ properties \in [UPowerDevice -> UPower!Entry]
      /\ \A d \in UPowerDevice : Proper(properties[d], d)
  BY DEF UPowerInv, UTypes
<1>3. m \in UPower!Messages /\ m.kind = "registered"
  <2>1. "registered" \in Kinds
    BY DEF Kinds
  <2> QED BY <2>1, MessageTyped
<1> HIDE DEF m
<1>4. Fits(m)
  BY <1>3 DEF Fits
<1> QED BY <1>1, <1>2, <1>3, <1>4, SendInv

LEMMA PlugInv ==
  ASSUME UPowerInv, NEW d \in UPowerDevice, UPower!Plug(d)
  PROVE  UPowerInv'
<1> DEFINE m == UPower!Message("added", d)
<1>1. /\ up /\ up' = up /\ upPresent' = upPresent \cup {d} /\ properties' = properties
      /\ requests' = requests /\ UNCHANGED <<interfaces, upClient>>
      /\ upInbox' = IF upClient.watchers > 0 THEN Append(upInbox, m) ELSE upInbox
  BY DEF UPower!Plug, UPower!Announce, UPower!Unsettled
<1>2. /\ requests \in Seq(1 .. Len(interfaces)) /\ properties \in [UPowerDevice -> UPower!Entry]
      /\ \A x \in UPowerDevice : Proper(properties[x], x)
      /\ upPresent \subseteq UPowerDevice /\ up \in BOOLEAN /\ upClient.watchers \in Nat
  BY ClientParts DEF UPowerInv, UTypes
<1>3. m \in UPower!Messages /\ m.kind = "added" /\ m.device = d
  <2>1. "added" \in Kinds
    BY DEF Kinds
  <2> QED BY <2>1, MessageTyped
<1> HIDE DEF m
<1>4. CASE upClient.watchers > 0
  <2>1. Fits(m)
    BY <1>3 DEF Fits
  <2>2. upInbox' = Append(upInbox, m) /\ upClient.watchers # 0
    BY <1>1, <1>2, <1>4
  <2>3. upPresent' \subseteq UPowerDevice
    BY <1>1, <1>2
  <2>4. \A b : b \in upPresent' => b \in upPresent \/ m.device = b
    BY <1>1, <1>3
  <2> QED BY <1>1, <1>2, <1>3, <2>1, <2>2, <2>3, <2>4, SendInv
<1>5. CASE ~ (upClient.watchers > 0)
  <2>1. upClient.watchers = 0 /\ upInbox' = upInbox
    BY <1>1, <1>2, <1>5
  <2>2. Restarted
    BY <1>1, <2>1 DEF UPowerInv, Unwatched
  <2>3. upPresent' \subseteq UPowerDevice
    BY <1>1, <1>2
  <2> QED BY <1>1, <1>2, <2>1, <2>2, <2>3, SilentInv
<1> QED BY <1>4, <1>5

LEMMA UnplugInv ==
  ASSUME UPowerInv, NEW d \in UPowerDevice, UPower!Unplug(d)
  PROVE  UPowerInv'
<1> DEFINE m == UPower!Message("removed", d)
<1>1. /\ up /\ up' = up /\ upPresent' = upPresent \ {d} /\ properties' = properties
      /\ requests' = requests /\ UNCHANGED <<interfaces, upClient>>
      /\ upInbox' = IF upClient.watchers > 0 THEN Append(upInbox, m) ELSE upInbox
  BY DEF UPower!Unplug, UPower!Announce, UPower!Unsettled
<1>2. /\ requests \in Seq(1 .. Len(interfaces)) /\ properties \in [UPowerDevice -> UPower!Entry]
      /\ \A x \in UPowerDevice : Proper(properties[x], x)
      /\ upPresent \subseteq UPowerDevice /\ up \in BOOLEAN /\ upClient.watchers \in Nat
  BY ClientParts DEF UPowerInv, UTypes
<1>3. m \in UPower!Messages /\ m.kind = "removed" /\ m.device = d
  <2>1. "removed" \in Kinds
    BY DEF Kinds
  <2> QED BY <2>1, MessageTyped
<1> HIDE DEF m
<1>6. upPresent' \subseteq UPowerDevice /\ upPresent' \subseteq upPresent
  BY <1>1, <1>2
<1>4. CASE upClient.watchers > 0
  <2>1. Fits(m)
    BY <1>3 DEF Fits
  <2>2. upInbox' = Append(upInbox, m) /\ upClient.watchers # 0
    BY <1>1, <1>2, <1>4
  <2>3. \A b : b \in upPresent' => b \in upPresent /\ m.device # b
    BY <1>1, <1>3
  <2> QED BY <1>1, <1>2, <1>3, <1>6, <2>1, <2>2, <2>3, SendInv
<1>5. CASE ~ (upClient.watchers > 0)
  <2>1. upInbox' = upInbox
    BY <1>1, <1>5
  <2> QED BY <1>1, <1>2, <1>6, <2>1, SilentInv
<1> QED BY <1>4, <1>5

LEMMA UpdateInv ==
  ASSUME UPowerInv, NEW d \in UPowerDevice, NEW p, Proper(p, d), UPower!Update(d, p)
  PROVE  UPowerInv'
<1> DEFINE m == UPower!Message("changed", d)
<1>1. /\ up /\ up' = up /\ upPresent' = upPresent /\ properties' = [properties EXCEPT ![d] = p]
      /\ requests' = requests /\ UNCHANGED <<interfaces, upClient>>
      /\ upInbox' = Append(upInbox, m) \/ upInbox' = upInbox
  BY DEF UPower!Update, UPower!Announce, UPower!Unsettled
<1>2. /\ requests \in Seq(1 .. Len(interfaces)) /\ properties \in [UPowerDevice -> UPower!Entry]
      /\ \A x \in UPowerDevice : Proper(properties[x], x)
      /\ upPresent \subseteq UPowerDevice /\ up \in BOOLEAN
  BY DEF UPowerInv, UTypes
<1>3. m \in UPower!Messages /\ m.kind = "changed" /\ m.device = d
  <2>1. "changed" \in Kinds
    BY DEF Kinds
  <2> QED BY <2>1, MessageTyped
<1> HIDE DEF m
<1>4. properties' \in [UPowerDevice -> UPower!Entry] /\ \A x \in UPowerDevice : Proper(properties'[x], x)
  <2>1. p \in UPower!Entry
    BY DEF Proper
  <2>2. \A x \in UPowerDevice : properties'[x] = IF x = d THEN p ELSE properties[x]
    BY <1>1, <1>2
  <2> QED BY <1>1, <1>2, <2>1, <2>2
<1>5. CASE upInbox' = Append(upInbox, m)
  <2>1. Fits(m)
    BY <1>3 DEF Fits
  <2>2. up' \in BOOLEAN /\ upPresent' \subseteq UPowerDevice
        /\ requests' \in Seq(1 .. Len(interfaces))
    BY <1>1, <1>2
  <2>3. \A b : b \in upPresent' => b \in upPresent
    BY <1>1
  <2> HIDE DEF m
  <2> QED BY <1>1, <1>3, <1>4, <1>5, <2>1, <2>2, <2>3, SendInv
<1>6. CASE upInbox' = upInbox
  <2>1. upPresent' \subseteq UPowerDevice /\ upPresent' \subseteq upPresent
    BY <1>1, <1>2
  <2> QED BY <1>1, <1>4, <1>6, <2>1, SilentInv
<1> QED BY <1>1, <1>5, <1>6

LEMMA ConsumeInv ==
  ASSUME UPowerInv, NEW d \in UPowerDevice, UPower!Consume(d)
  PROVE  UPowerInv'
<1>1. Proper(properties[d], d)
  BY DEF UPowerInv, UTypes
<1>2. CASE d \in UPowerBattery /\ \E e \in Energy, s \in State :
                                    UPower!Update(d, [properties[d] EXCEPT !.energy = e,
                                      !.state = s])
  <2>1. PICK e \in Energy, s \in State : UPower!Update(d, [properties[d] EXCEPT !.energy = e,
        !.state = s])
    BY <1>2
  <2> DEFINE p == [properties[d] EXCEPT !.energy = e, !.state = s]
  <2>2. Proper(p, d)
    BY <1>1, <1>2 DEF Proper, UPower!Entry
  <2> HIDE DEF p
  <2> QED BY <2>1, <2>2, UpdateInv DEF p
<1>3. CASE d \notin UPowerBattery /\ UPower!Update(d, [properties[d] EXCEPT !.online = ~@])
  <2> DEFINE p == [properties[d] EXCEPT !.online = ~@]
  <2>2. Proper(p, d)
    BY <1>1, <1>3 DEF Proper, UPower!Entry
  <2> HIDE DEF p
  <2> QED BY <1>3, <2>2, UpdateInv DEF p
<1> QED BY <1>2, <1>3 DEF UPower!Consume

LEMMA AnswerInv == UPowerInv /\ UPower!Answer => UPowerInv'
<1> SUFFICES ASSUME UPowerInv, UPower!Answer PROVE UPowerInv'
  OBVIOUS
<1> DEFINE i == Head(requests)
           d == interfaces[i].device
           e == UPower!ReadNow(d)
           m == Reply(i, e)
<1>1. /\ requests # <<>> /\ requests' = Tail(requests) /\ upInbox' = Append(upInbox, m)
      /\ up' = up /\ upPresent' = upPresent /\ properties' = properties
      /\ UNCHANGED <<interfaces, upClient>>
  <2>1. upInbox' = Append(upInbox, [UPower!Message("answer", "none") EXCEPT !.interface = i,
        !.map = e])
    BY DEF UPower!Answer
  <2>2. upInbox' = Append(upInbox, m)
    BY <2>1, ReplyIs
  <2> QED BY <2>2 DEF UPower!Answer, UPower!daemon
<1>2. /\ requests \in Seq(1 .. Len(interfaces)) /\ properties \in [UPowerDevice -> UPower!Entry]
      /\ \A x \in UPowerDevice : Proper(properties[x], x)
      /\ upPresent \subseteq UPowerDevice /\ up \in BOOLEAN /\ interfaces \in Seq(UPower!Interface)
  BY DEF UPowerInv, UTypes
<1>3. i \in 1 .. Len(interfaces) /\ i \in Nat /\ requests' \in Seq(1 .. Len(interfaces))
  <2>1. \A s \in Seq(1 .. Len(interfaces)) : s # <<>> =>
          Head(s) \in 1 .. Len(interfaces) /\ Tail(s) \in Seq(1 .. Len(interfaces))
    OBVIOUS
  <2> QED BY <1>1, <1>2, <2>1
<1> HIDE DEF i
<1>4. d \in UPowerDevice
  <2>1. interfaces[i] \in UPower!Interface
    BY <1>2, <1>3
  <2> QED BY <2>1 DEF UPower!Interface
<1>5. e \in UPower!Entry /\ OfDevice(e, d)
  <2> HIDE DEF d
  <2> QED BY <1>4, ReadNowIs DEF UPowerInv
<1> HIDE DEF e
<1>6. m \in UPower!Messages /\ m.kind = "answer" /\ m.interface = i /\ m.map = e
  BY <1>3, <1>5, ReplyTyped
<1> HIDE DEF m
<1>7. Fits(m)
  BY <1>3, <1>5, <1>6 DEF Fits
<1> QED BY <1>1, <1>2, <1>3, <1>6, <1>7, SendInv
-----------------------------------------------------------------------------
LEMMA UPowerInitInv == UPower!Init => UPowerInv
<1> SUFFICES ASSUME UPower!Init PROVE UPowerInv
  OBVIOUS
<1>1. /\ up \in BOOLEAN /\ upPresent \subseteq UPowerDevice
      /\ upInbox = <<>> /\ requests = <<>> /\ interfaces = <<>>
  BY DEF UPower!Init
<1>2. PICK e0 \in Energy, s0 \in State : properties = [d \in UPowerDevice |-> UPower!NewProperties(d, e0, s0)]
  BY DEF UPower!Init
<1>3. PICK i \in UPowerIndex :
        upClient = [map |-> <<>>, cType |-> "Unknown", cState |-> "Unknown", index |-> i,
                  watchers |-> IF up THEN 1 ELSE 0,
                  job |-> IF up THEN [UPower!Idle EXCEPT !.slot = "enumerate"] ELSE UPower!Idle,
                  told |-> [energy |-> UPower!Untold, valid |-> UPower!Untold]]
  BY DEF UPower!Init
<1>4. properties \in [UPowerDevice -> UPower!Entry] /\ \A d \in UPowerDevice : Proper(properties[d], d)
  <2>1. ASSUME NEW d \in UPowerDevice PROVE Proper(UPower!NewProperties(d, e0, s0), d)
    BY DEF UPower!NewProperties, Proper, UPower!Entry
  <2>2. \A d \in UPowerDevice : UPower!NewProperties(d, e0, s0) \in UPower!Entry
    BY <2>1 DEF Proper
  <2> QED BY <1>2, <2>1, <2>2
<1> DEFINE j == IF up THEN [UPower!Idle EXCEPT !.slot = "enumerate"] ELSE UPower!Idle
           w == IF up THEN 1 ELSE 0
           t == [energy |-> UPower!Untold, valid |-> UPower!Untold]
<1>5. j \in Jobs /\ j.slot \in {"enumerate", "none"} /\ (up => j.slot = "enumerate")
  <2>1. j = [slot |-> IF up THEN "enumerate" ELSE "none", devices |-> <<>>]
    BY DEF UPower!Idle
  <2>2. <<>> \in Seq(UPowerDevice)
    OBVIOUS
  <2> HIDE DEF j
  <2> QED BY <2>1, <2>2 DEF Jobs, UPower!Slots
<1>6. w \in Nat /\ (up => w # 0)
  OBVIOUS
<1>7. t \in [energy : Energies, valid : Valids] /\ t.energy = UPower!Untold
  BY DEF Energies, Valids
<1>8. upClient = ClientIs(<<>>, "Unknown", "Unknown", i, w, j, t)
  BY <1>3 DEF ClientIs
<1> HIDE DEF j, w, t
<1>9. /\ upClient \in Client0 /\ upClient.map = <<>> /\ upClient.watchers = w /\ upClient.job = j
      /\ upClient.told = t
  <2>1. "Unknown" \in {"Unknown", "Wall"} /\ "Unknown" \in ChargingStates
    BY DEF ChargingStates
  <2>2. ClientIs(<<>>, "Unknown", "Unknown", i, w, j, t) \in Client0
    BY <1>5, <1>6, <1>7, <2>1, EmptyMap, ClientTyped
  <2> QED BY <1>8, <2>2, IsFields
<1>10. Reads(upClient)
  BY <1>7, <1>9 DEF Reads
<1>11. Len(upInbox) = 0 /\ Len(interfaces) = 0
  BY <1>1
<1>12. UTypes
  <2>1. /\ upInbox \in Seq(UPower!Messages) /\ requests \in Seq(1 .. Len(interfaces))
        /\ interfaces \in Seq(UPower!Interface)
    BY <1>1
  <2>2. \A n \in 1 .. Len(interfaces) : OfDevice(interfaces[n].map, interfaces[n].device)
    BY <1>11
  <2>3. \A n \in 1 .. Len(upInbox) :
         /\ upInbox[n].kind = "answer" =>
              /\ upInbox[n].interface \in 1 .. Len(interfaces)
              /\ OfDevice(upInbox[n].map, interfaces[upInbox[n].interface].device)
         /\ upInbox[n].kind \in {"added", "removed", "changed"}
            => upInbox[n].device \in UPowerDevice
    BY <1>11
  <2>4. ~ Working(upClient.job.slot) /\ ~ Matching(upClient.job.slot)
    BY <1>5, <1>9 DEF Working, Matching
  <2> QED BY <1>1, <1>4, <1>9, <2>1, <2>2, <2>3, <2>4 DEF UTypes
<1>13. Unwatched
  BY <1>6, <1>9, <1>11 DEF Unwatched
<1>14. ASSUME NEW b PROVE Known(b)
  BY <1>5, <1>9, <1>11 DEF Known, Coming, UPower!Job, Ordered
<1> QED BY <1>10, <1>12, <1>13, <1>14 DEF UPowerInv

LEMMA UPowerKept == UNCHANGED UPower!vars => (UPowerInv <=> UPowerInv')
<1> SUFFICES ASSUME UNCHANGED UPower!vars PROVE UPowerInv <=> UPowerInv'
  OBVIOUS
<1>1. /\ up' = up /\ upPresent' = upPresent /\ properties' = properties /\ upInbox' = upInbox
      /\ requests' = requests /\ interfaces' = interfaces /\ upClient' = upClient
  BY DEF UPower!vars, UPower!daemon
<1>2. UPower!Newest' = UPower!Newest
  BY <1>1 DEF UPower!Newest
<1>3. UTypes' <=> UTypes
  BY <1>1, <1>2 DEF UTypes
<1>4. Unwatched' <=> Unwatched
  BY <1>1 DEF Unwatched, Restarted
<1>5. \A b : Known(b)' <=> Known(b)
  BY <1>1, <1>2 DEF Known, Coming, Ordered, Sent, Restarted, UPower!Job
<1> QED BY <1>1, <1>3, <1>4, <1>5 DEF UPowerInv, OnlyBattery

LEMMA UPowerPreserves == UPowerInv /\ [UPower!Next]_(UPower!vars) => UPowerInv'
<1> SUFFICES ASSUME UPowerInv, [UPower!Next]_(UPower!vars) PROVE UPowerInv'
  OBVIOUS
<1>1. CASE UPower!Client
  <2>1. CASE UPower!ReadDevice
    BY <2>1, ConstructInv DEF UPower!ReadDevice
  <2>2. CASE UPower!ReadAdded
    BY <2>2, ConstructInv DEF UPower!ReadAdded
  <2> QED BY <1>1, <2>1, <2>2, EnumerateInv, MatchDeviceInv, MatchAddedInv, ServiceRegisteredInv,
             ServiceUnregisteredInv, DeviceAddedInv, DeviceRemovedInv, ChangedInv,
             PropRequestFinishedInv DEF UPower!Client
<1>2. CASE UPower!UPower
  <2>1. ASSUME NEW d \in UPowerDevice, UPower!Plug(d) \/ UPower!Unplug(d) \/ UPower!Consume(d) PROVE UPowerInv'
    BY <2>1, PlugInv, UnplugInv, ConsumeInv
  <2> QED BY <1>2, <2>1, StopInv, StartInv, AnswerInv DEF UPower!UPower
<1>3. CASE \E i \in UPowerIndex : UPower!SetBatteryIndex(i)
  BY <1>3, SetBatteryIndexInv
<1>4. CASE UNCHANGED UPower!vars
  BY <1>4, UPowerKept
<1> QED BY <1>1, <1>2, <1>3, <1>4 DEF UPower!Next

LEMMA UPowerInvReads == UPowerInv => UPower!ReadsMatchReports
  BY DEF UPowerInv, Reads, UPower!ReadsMatchReports

LEMMA InvKnown == UPowerInv => UPower!BatteryKnown
<1> SUFFICES ASSUME UPowerInv, UPower!Cardinality(UPowerBattery) = 1, UPower!Settled,
                    NEW b \in UPowerBattery \cap upPresent
    PROVE  UPower!KeysOf(upClient.map, b) # {}
  BY DEF UPower!BatteryKnown
<1>1. OnlyBattery(b)
  <2>1. \E x : UPowerBattery = {x}
    BY UPowerAssumption, FS_Singleton, SameCardinality
  <2> QED BY <2>1 DEF OnlyBattery
<1>2. Coming(b)
  BY <1>1 DEF UPowerInv, Known, UPower!Settled
<1>3. ~ Sent("added", b) /\ ~ Restarted
  <2>1. Len(upInbox) = 0
    BY DEF UPower!Settled
  <2> QED BY <2>1 DEF Sent, Restarted
<1> QED BY <1>2, <1>3 DEF Coming, UPower!Settled, UPower!Idle, Matching

LEMMA UPowerInvTypes == UPowerInv => UPower!TypeOK
<1> SUFFICES ASSUME UPowerInv PROVE UPower!TypeOK
  OBVIOUS
<1>1. /\ upClient.map \in Maps /\ upClient.job \in Jobs /\ upClient.cType \in {"Unknown", "Wall"}
      /\ upClient.index \in UPowerIndex /\ upClient.watchers \in Nat
  BY ClientParts DEF UPowerInv, UTypes
<1>2. /\ DOMAIN upClient.map \subseteq Nat /\ IsFiniteSet(DOMAIN upClient.map)
      /\ \A k \in DOMAIN upClient.map : upClient.map[k] \in UPower!Entry
  BY <1>1, MapsIs
<1>3. UPower!IsFiniteSet(DOMAIN upClient.map)
  BY <1>2 DEF UPower!IsFiniteSet, IsFiniteSet
<1> QED BY <1>1, <1>2, <1>3 DEF UPower!TypeOK, UPowerInv, UTypes, Jobs
-----------------------------------------------------------------------------
(***************************************************************************)
(* The battery information on Windows.                                     *)
(***************************************************************************)
WinBatInv == WinBat!TypeOK /\ WinBat!SignalsFollow

LEMMA NumbersUsedOf ==
  ASSUME NEW answers \in Answers
  PROVE  WinBat!Answering(answers) \subseteq WinBat!NumbersUsed
         /\ WinBatIndex \subseteq WinBat!NumbersUsed
  BY DEF WinBat!Answering, WinBat!NumbersUsed

LEMMA StatusTyped ==
  ASSUME NEW answers \in Answers, ~WinBat!Crashes(answers), NEW n \in WinBat!Answering(answers),
         NEW state \in 1..2
  PROVE  WinBat!StatusOf(answers[n], state) \in [WinBat!Field -> Int]
<1> DEFINE a == answers[n]
<1>1. n \in DOMAIN answers /\ Answers # {}
  BY DEF WinBat!Answering
<1>2. answers \in Seq(WinBatAnswer)
  BY WinBatAssumption
<1>21. a \in WinBatAnswer
  BY <1>1, <1>2
<1>3. a.voltage # 0
  BY DEF WinBat!Crashes
<1> HIDE DEF a
<1>4. a.voltage \in Int /\ a.rate \in Int /\ WinBat!Remaining(a) \in Int
  BY <1>21, <1>3 DEF WinBat!Remaining, WinBatAnswer
<1>5. WinBat!LevelStatus(a) \in Int
  BY DEF WinBat!LevelStatus
<1>6. WinBat!StatusOf(a, state) \in [WinBat!Field -> Int]
  BY <1>4, <1>5, <1>21 DEF WinBat!StatusOf, WinBat!Field, WinBatAnswer
<1> QED BY <1>6 DEF a

LEMMA HeardFollows ==
  ASSUME NEW told \in [told : BOOLEAN, values : [WinBat!Field -> Int]],
         NEW before \in [WinBat!NumbersUsed -> [WinBat!Field -> Int]],
         NEW after \in [WinBat!NumbersUsed -> [WinBat!Field -> Int]], NEW i \in WinBat!NumbersUsed
  PROVE  /\ WinBat!Heard(told, before, after, i) \in [told : BOOLEAN,
            values : [WinBat!Field -> Int]]
         /\ WinBat!Heard(told, before, after, i).told <=> told.told
         /\ told.values = before[i] => WinBat!Heard(told, before, after, i).values = after[i]
<1> DEFINE new == [f \in WinBat!Field |-> IF before[i][f] # after[i][f] THEN after[i][f]
    ELSE told.values[f]]
<1>1. WinBat!Heard(told, before, after, i) = [told EXCEPT !.values = new]
  BY DEF WinBat!Heard
<1>2. before[i] \in [WinBat!Field -> Int] /\ after[i] \in [WinBat!Field -> Int]
  OBVIOUS
<1>3. new \in [WinBat!Field -> Int]
  BY <1>2
<1>4. told.values = before[i] => new = after[i]
  BY <1>2
<1> HIDE DEF new
<1> QED BY <1>1, <1>3, <1>4

LEMMA ValidatedFollows ==
  ASSUME NEW told \in [told : BOOLEAN, values : [WinBat!Field -> Int]],
         NEW before \in BOOLEAN, NEW now \in BOOLEAN, NEW values \in [WinBat!Field -> Int],
         before /\ now /\ told.told => told.values = values
  PROVE  /\ WinBat!Validated(told, before, now, values) \in [told : BOOLEAN,
            values : [WinBat!Field -> Int]]
         /\ WinBat!Validated(told, before, now, values).told
            => WinBat!Validated(told, before, now, values).values = values
<1>1. CASE now /\ ~before
  BY <1>1 DEF WinBat!Validated
<1>2. CASE ~(now /\ ~before)
  <2>1. WinBat!Validated(told, before, now, values) = [told EXCEPT !.told = told.told /\ now]
    BY <1>2 DEF WinBat!Validated
  <2>2. [told EXCEPT !.told = told.told /\ now] \in [told : BOOLEAN, values : [WinBat!Field -> Int]]
    OBVIOUS
  <2>3. [told EXCEPT !.told = told.told /\ now].values = told.values
    OBVIOUS
  <2>4. [told EXCEPT !.told = told.told /\ now].told <=> told.told /\ now
    OBVIOUS
  <2> QED BY <1>2, <2>1, <2>2, <2>3, <2>4
<1> QED BY <1>1, <1>2

LEMMA WinBatInitInv == WinBat!Init => WinBatInv
<1> SUFFICES ASSUME WinBat!Init PROVE WinBatInv
  OBVIOUS
<1>1. PICK states \in [WinBat!NumbersUsed -> 1..2] :
        stored = [n \in WinBat!NumbersUsed |-> IF n \in WinBat!Answering(winBatBatteries)
                                        THEN WinBat!StatusOf(winBatBatteries[n], states[n])
                                             ELSE WinBat!Zeros]
  BY DEF WinBat!Init
<1>2. winBatBatteries \in Answers /\ ~WinBat!Crashes(winBatBatteries) /\ index \in WinBatIndex
  BY DEF WinBat!Init
<1>3. ASSUME NEW n \in WinBat!NumbersUsed PROVE stored[n] \in [WinBat!Field -> Int]
  <2>1. CASE n \in WinBat!Answering(winBatBatteries)
    <3>1. WinBat!StatusOf(winBatBatteries[n], states[n]) \in [WinBat!Field -> Int]
      BY <1>2, <2>1, StatusTyped
    <3> QED BY <1>1, <2>1, <3>1
  <2>2. CASE n \notin WinBat!Answering(winBatBatteries)
    BY <1>1, <2>2 DEF WinBat!Zeros
  <2> QED BY <2>1, <2>2
<1>4. stored \in [WinBat!NumbersUsed -> [WinBat!Field -> Int]]
  BY <1>1, <1>3
<1>5. index \in WinBat!NumbersUsed
  BY <1>2, NumbersUsedOf
<1>6. stored[index] \in [WinBat!Field -> Int]
  BY <1>4, <1>5
<1>7. winBatClient = [told |-> WinBat!IsValid(index, numberOfBatteries), values |-> stored[index]]
  BY DEF WinBat!Init
<1>8. winBatClient \in [told : BOOLEAN, values : [WinBat!Field -> Int]]
      /\ winBatClient.values = stored[index]
  BY <1>6, <1>7 DEF WinBat!IsValid
<1>9. numberOfBatteries \in Nat
  BY <1>2, WinBatAssumption DEF WinBat!Init
<1>10. /\ currentChargerType = "UnknownCharger" /\ crashed = FALSE
       /\ winBatChanges \in 0 .. MaxWinBatChanges
  BY WinBatAssumption DEF WinBat!Init
<1> QED BY <1>2, <1>4, <1>8, <1>9, <1>10 DEF WinBatInv, WinBat!TypeOK, WinBat!SignalsFollow

LEMMA WinBatTimeoutPreserves ==
  ASSUME WinBatInv, WinBat!Timeout
  PROVE  WinBatInv'
<1> USE DEF WinBatInv
<1>0. /\ winBatBatteries \in Answers /\ index \in WinBatIndex /\ index \in WinBat!NumbersUsed
      /\ numberOfBatteries \in Nat /\ Len(winBatBatteries) \in Nat
      /\ stored \in [WinBat!NumbersUsed -> [WinBat!Field -> Int]]
      /\ winBatClient \in [told : BOOLEAN, values : [WinBat!Field -> Int]]
  BY NumbersUsedOf, WinBatAssumption DEF WinBat!TypeOK
<1>1. CASE crashed'
  BY <1>1 DEF WinBat!Timeout, WinBat!TypeOK, WinBat!SignalsFollow
<1>2. CASE ~crashed'
  <2>1. PICK states \in [WinBat!NumbersUsed -> 1..2] : WinBat!GetBatteryStatus(winBatBatteries,
        index, states)
    BY <1>2 DEF WinBat!Timeout
  <2>2. ~WinBat!Crashes(winBatBatteries)
    BY <1>2 DEF WinBat!Timeout
  <2>3. stored' = [n \in WinBat!NumbersUsed |-> IF n \in WinBat!Answering(winBatBatteries)
                                         THEN WinBat!StatusOf(winBatBatteries[n], states[n])
                                              ELSE stored[n]]
    BY <2>1 DEF WinBat!GetBatteryStatus
  <2>4. ASSUME NEW n \in WinBat!NumbersUsed PROVE stored'[n] \in [WinBat!Field -> Int]
    <3>1. CASE n \in WinBat!Answering(winBatBatteries)
      <4>1. WinBat!StatusOf(winBatBatteries[n], states[n]) \in [WinBat!Field -> Int]
        BY <1>0, <2>2, <3>1, StatusTyped
      <4> QED BY <2>3, <3>1, <4>1
    <3>2. CASE n \notin WinBat!Answering(winBatBatteries)
      BY <1>0, <2>3, <3>2
    <3> QED BY <3>1, <3>2
  <2>5. stored' \in [WinBat!NumbersUsed -> [WinBat!Field -> Int]]
    BY <2>3, <2>4
  <2> DEFINE h == WinBat!Heard(winBatClient, stored, stored', index)
  <2> DEFINE before == WinBat!IsValid(index, numberOfBatteries)
  <2> DEFINE now == WinBat!IsValid(index, Len(winBatBatteries))
  <2>6. winBatClient' = WinBat!Validated(h, before, now, stored'[index])
    BY <2>1, <2>3 DEF WinBat!GetBatteryStatus
  <2>7. /\ h \in [told : BOOLEAN, values : [WinBat!Field -> Int]]
        /\ h.told <=> winBatClient.told
        /\ winBatClient.values = stored[index] => h.values = stored'[index]
    <3> HIDE DEF h
    <3>1. /\ winBatClient \in [told : BOOLEAN, values : [WinBat!Field -> Int]]
             /\ index \in WinBat!NumbersUsed
          /\ stored \in [WinBat!NumbersUsed -> [WinBat!Field -> Int]]
          /\ stored' \in [WinBat!NumbersUsed -> [WinBat!Field -> Int]]
      BY <1>0, <2>5
    <3>2. WinBat!Heard(winBatClient, stored, stored', index) \in [told : BOOLEAN,
          values : [WinBat!Field -> Int]]
      BY ONLY <3>1, HeardFollows
    <3>3. WinBat!Heard(winBatClient, stored, stored', index).told <=> winBatClient.told
      BY ONLY <3>1, HeardFollows
    <3>4. winBatClient.values = stored[index]
          => WinBat!Heard(winBatClient, stored, stored', index).values = stored'[index]
      BY ONLY <3>1, HeardFollows
    <3> QED BY <3>2, <3>3, <3>4 DEF h
  <2>8. before \in BOOLEAN /\ now \in BOOLEAN /\ stored'[index] \in [WinBat!Field -> Int]
    BY <1>0, <2>5 DEF WinBat!IsValid
  <2>9. before /\ now /\ h.told => h.values = stored'[index]
    BY <2>7 DEF WinBat!SignalsFollow
  <2>10. /\ winBatClient' \in [told : BOOLEAN, values : [WinBat!Field -> Int]]
         /\ winBatClient'.told => winBatClient'.values = stored'[index]
    <3> HIDE DEF h, before, now
    <3> QED BY <2>6, <2>7, <2>8, <2>9, ValidatedFollows
  <2>11. numberOfBatteries' = Len(winBatBatteries) /\ currentChargerType' \in {"WallCharger",
         "UnknownCharger"}
    BY <2>1 DEF WinBat!GetBatteryStatus, WinBat!TypeOK
  <2>12. UNCHANGED <<winBatBatteries, index, winBatChanges>> /\ crashed' \in BOOLEAN
    BY DEF WinBat!Timeout, WinBat!Crashes
  <2> QED BY <1>0, <2>5, <2>10, <2>11, <2>12 DEF WinBat!TypeOK, WinBat!SignalsFollow
<1> QED BY <1>1, <1>2

LEMMA SetBatteryIndexPreserves ==
  ASSUME WinBatInv, NEW i \in WinBatIndex, WinBat!SetBatteryIndex(i)
  PROVE  WinBatInv'
<1> USE DEF WinBatInv
<1>0. /\ index \in WinBatIndex /\ index \in WinBat!NumbersUsed /\ i \in WinBat!NumbersUsed
      /\ stored \in [WinBat!NumbersUsed -> [WinBat!Field -> Int]]
      /\ winBatClient \in [told : BOOLEAN, values : [WinBat!Field -> Int]]
  BY NumbersUsedOf DEF WinBat!TypeOK
<1> DEFINE before == WinBat!IsValid(index, numberOfBatteries)
<1> DEFINE now == WinBat!IsValid(i, numberOfBatteries)
<1> DEFINE new == [f \in WinBat!Field |-> IF stored[i][f] # stored[index][f]
                                   THEN stored[i][f] ELSE winBatClient.values[f]]
<1> DEFINE differing == [winBatClient EXCEPT !.values = new]
<1> DEFINE told == IF before /\ now THEN differing ELSE winBatClient
<1>1. winBatClient' = WinBat!Validated(told, before, now, stored[i])
  BY DEF WinBat!SetBatteryIndex
<1>2. stored[i] \in [WinBat!Field -> Int] /\ stored[index] \in [WinBat!Field -> Int]
  BY <1>0
<1>3. new \in [WinBat!Field -> Int] /\ (winBatClient.values = stored[index] => new = stored[i])
  BY <1>0, <1>2
<1>4. /\ differing \in [told : BOOLEAN, values : [WinBat!Field -> Int]]
      /\ differing.told <=> winBatClient.told
      /\ winBatClient.values = stored[index] => differing.values = stored[i]
  <2> HIDE DEF new
  <2> QED BY <1>0, <1>3
<1>5. before \in BOOLEAN /\ now \in BOOLEAN
  BY DEF WinBat!IsValid
<1> HIDE DEF differing, before, now
<1>6. /\ told \in [told : BOOLEAN, values : [WinBat!Field -> Int]]
      /\ before /\ now /\ told.told => told.values = stored[i]
  BY <1>0, <1>4 DEF WinBat!SignalsFollow
<1> HIDE DEF told
<1>7. /\ winBatClient' \in [told : BOOLEAN, values : [WinBat!Field -> Int]]
      /\ winBatClient'.told => winBatClient'.values = stored[i]
  BY <1>1, <1>2, <1>5, <1>6, ValidatedFollows
<1>8. /\ index' = i /\ winBatChanges' \in 0 .. MaxWinBatChanges
      /\ UNCHANGED <<winBatBatteries, numberOfBatteries, currentChargerType, stored, crashed>>
  BY WinBatAssumption DEF WinBat!SetBatteryIndex, WinBat!TypeOK
<1> QED BY <1>7, <1>8 DEF WinBat!TypeOK, WinBat!SignalsFollow

LEMMA BatteriesChangePreserves ==
  ASSUME WinBatInv, NEW answers \in Answers, WinBat!BatteriesChange(answers)
  PROVE  WinBatInv'
  BY WinBatAssumption DEF WinBatInv, WinBat!BatteriesChange, WinBat!TypeOK, WinBat!SignalsFollow

LEMMA WinBatPreserves == WinBatInv /\ [WinBat!Next]_(WinBat!vars) => WinBatInv'
<1> SUFFICES ASSUME WinBatInv, [WinBat!Next]_(WinBat!vars) PROVE WinBatInv'
  OBVIOUS
<1>1. CASE UNCHANGED WinBat!vars
  BY <1>1 DEF WinBat!vars, WinBatInv, WinBat!TypeOK, WinBat!SignalsFollow
<1>2. CASE WinBat!Next
  BY <1>2, WinBatTimeoutPreserves, SetBatteryIndexPreserves,
    BatteriesChangePreserves DEF WinBat!Next
<1> QED BY <1>1, <1>2
-----------------------------------------------------------------------------
(***************************************************************************)
(* The battery of the simulator.                                           *)
(***************************************************************************)
Unread == \A i \in User : \A s \in SimSignal \ simConnected[i] : simTold[i][s] = None
SimInv == Sim!TypeOK /\ Unread /\ Sim!ReadsMatchReports

LEMMA QuotientInt == \A a, b \in Int : b # 0 => Sim!Quotient(a, b) \in Int
<1> DEFINE Size(n) == IF n < 0 THEN -n ELSE n
<1>1. SUFFICES ASSUME NEW a \in Int, NEW b \in Int, b # 0 PROVE Sim!Quotient(a, b) \in Int
  OBVIOUS
<1>2. Size(a) \in Nat /\ Size(b) \in Nat /\ Size(b) # 0
  BY <1>1
<1>3. Size(a) \div Size(b) \in Int
  <2> HIDE DEF Size
  <2> QED BY <1>2
<1>4. Sim!Quotient(a, b) = IF (a < 0) = (b < 0) THEN Size(a) \div Size(b)
      ELSE -(Size(a) \div Size(b))
  BY DEF Sim!Quotient
<1> HIDE DEF Size
<1> QED BY <1>3, <1>4

LEMMA LevelInt == \A d \in [Sim!Field -> Int] : Sim!LevelOf(d) \in Int
<1>1. SUFFICES ASSUME NEW d \in [Sim!Field -> Int] PROVE Sim!LevelOf(d) \in Int
  OBVIOUS
<1>2. d["maximumCapacity"] \in Int /\ d["remainingCapacity"] \in Int
  BY DEF Sim!Field
<1>3. d["remainingCapacity"] * 100 \in Int
  BY <1>2
<1> QED BY <1>2, <1>3, QuotientInt DEF Sim!LevelOf

LEMMA LevelOfTwo ==
  \A d, e : d["maximumCapacity"] = e["maximumCapacity"] /\ d["remainingCapacity"] = e["remainingCapacity"]
    => Sim!LevelOf(d) = Sim!LevelOf(e)
  BY DEF Sim!LevelOf

LEMMA LevelsToldLast ==
  \A before, d \in [Sim!Field -> Int] :
    /\ Sim!LevelsTold(before, d) \in Seq(Int)
    /\ Sim!LevelsTold(before, d) = <<>> => Sim!LevelOf(before) = Sim!LevelOf(d)
    /\ Sim!LevelsTold(before, d) # <<>> => Sim!LevelsTold(before, d)[Len(Sim!LevelsTold(before,
       d))] = Sim!LevelOf(d)
<1>1. SUFFICES ASSUME NEW before \in [Sim!Field -> Int], NEW d \in [Sim!Field -> Int]
      PROVE /\ Sim!LevelsTold(before, d) \in Seq(Int)
            /\ Sim!LevelsTold(before, d) = <<>> => Sim!LevelOf(before) = Sim!LevelOf(d)
            /\ Sim!LevelsTold(before, d) # <<>>
                 => Sim!LevelsTold(before, d)[Len(Sim!LevelsTold(before, d))] = Sim!LevelOf(d)
  OBVIOUS
<1> DEFINE between == [before EXCEPT !["maximumCapacity"] = d["maximumCapacity"]]
           after == [between EXCEPT !["remainingCapacity"] = d["remainingCapacity"]]
           If(old, new) == IF Sim!LevelOf(old) = Sim!LevelOf(new) THEN <<>>
             ELSE <<Sim!LevelOf(new)>>
<1>2. Sim!LevelsTold(before, d) = If(before, between) \o If(between, after)
  BY DEF Sim!LevelsTold
<1>3. between \in [Sim!Field -> Int] /\ after \in [Sim!Field -> Int]
  BY DEF Sim!Field
<1>4. Sim!LevelOf(after) = Sim!LevelOf(d)
  <2>1. after["maximumCapacity"] = d["maximumCapacity"] /\ after["remainingCapacity"] = d["remainingCapacity"]
    BY DEF Sim!Field
  <2> HIDE DEF after
  <2> QED BY <2>1, LevelOfTwo
<1>5. Sim!LevelOf(between) \in Int /\ Sim!LevelOf(after) \in Int
  BY <1>3, LevelInt
<1> HIDE DEF between, after
<1>6. If(before, between) \in Seq(Int) /\ If(between, after) \in Seq(Int)
  BY <1>5
<1>7. CASE Sim!LevelOf(between) = Sim!LevelOf(after)
  BY <1>2, <1>4, <1>5, <1>7
<1>8. CASE Sim!LevelOf(between) # Sim!LevelOf(after)
  BY <1>2, <1>4, <1>5, <1>8
<1> QED BY <1>7, <1>8

LEMMA SimInitInv == Sim!Init => SimInv
<1> SUFFICES ASSUME Sim!Init PROVE SimInv
  OBVIOUS
<1>1. simData \in [Sim!Field -> Int]
  <2>1. PICK t \in Garbage : simData = [f \in Sim!Field |-> IF f = "temperature" THEN t
        ELSE Sim!Unknown(f)]
    BY DEF Sim!Init
  <2>2. t \in Int /\ \A f : Sim!Unknown(f) \in Int
    BY SimAssumption DEF Sim!Unknown
  <2> QED BY <2>1, <2>2
<1>2. Sim!TypeOK
  <2>1. simConnected \in [User -> SUBSET SimSignal]
    BY DEF Sim!Init
  <2>2. simTold \in [User -> [SimSignal -> Int \cup {None}]]
    BY DEF Sim!Init
  <2>3. simReported \in Seq(Int) /\ simInbox \in Seq(Packets) /\ simChanges \in 0..MaxSimChanges
    BY SimAssumption DEF Sim!Init
  <2>4. simIndex \in SimIndex /\ connection = "none" /\ infos = {} /\ making = None /\ stuck = FALSE
    BY SimAssumption DEF Sim!Init
  <2> QED BY <1>1, <2>1, <2>2, <2>3, <2>4 DEF Sim!TypeOK
<1>3. \A i \in User : \A s \in SimSignal : simTold[i][s] = None
  BY DEF Sim!Init
<1>4. simReported = <<>>
  BY DEF Sim!Init
<1> QED BY <1>2, <1>3, <1>4 DEF SimInv, Unread, Sim!ReadsMatchReports

LEMMA Loop ==
  ASSUME SimInv, Sim!LoopEnds
  PROVE /\ simIndex' \in SimIndex /\ connection' \in {"none", "made", "refused"} /\ making' = None
        /\ infos' \subseteq User
  BY SimAssumption DEF SimInv, Sim!TypeOK, Sim!LoopEnds, Sim!SetIndex

LEMMA StoreInv ==
  ASSUME SimInv, Sim!Receive
  PROVE SimInv'
<1>1. PICK garbage \in Garbage : Sim!SetBatteryInfoData(Head(simInbox), garbage)
  BY DEF Sim!Receive
<1> DEFINE d == [f \in Sim!Field |-> IF f = "cycleCount" THEN garbage ELSE Head(simInbox)[f]]
<1>2. Head(simInbox) \in Packets /\ simInbox' \in Seq(Packets)
  BY DEF Sim!Receive, SimInv, Sim!TypeOK
<1>3. d \in [Sim!Field -> Int]
  BY <1>2, SimAssumption
<1>4. /\ simData' = d
      /\ simReported' = IF Sim!LevelsTold(simData, d) = <<>> THEN simReported
         ELSE Sim!LevelsTold(simData, d)
      /\ simTold' = [i \in User |-> Sim!Hear(i, d)]
  BY <1>1 DEF Sim!SetBatteryInfoData
<1> HIDE DEF d
<1>5. simData \in [Sim!Field -> Int]
  BY DEF SimInv, Sim!TypeOK
<1>6. simReported' \in Seq(Int) /\ (simReported' # <<>> => simReported'[Len(simReported')] = Sim!LevelOf(simData'))
  BY <1>3, <1>4, <1>5, LevelsToldLast DEF SimInv, Sim!TypeOK, Sim!ReadsMatchReports
<1>7. simTold' \in [User -> [SimSignal -> Int \cup {None}]]
  BY <1>3, <1>4 DEF SimInv, Sim!TypeOK, Sim!Hear, Sim!Forwarded, Sim!Field
<1>8. UNCHANGED simConnected
  BY DEF Sim!Receive
<1>9. Sim!TypeOK'
  BY <1>2, <1>3, <1>4, <1>6, <1>7, Loop DEF Sim!Receive, SimInv, Sim!TypeOK
<1>10. Unread'
  BY <1>4, <1>8 DEF SimInv, Unread, Sim!Hear
<1>11. \A i \in User : \A s \in SimSignal \cap Sim!Forwarded : simTold'[i][s] \in {None,
                                                               simData'[s]}
  <2>1. SUFFICES ASSUME NEW i \in User, NEW s \in SimSignal \cap Sim!Forwarded
        PROVE simTold'[i][s] \in {None, simData'[s]}
    OBVIOUS
  <2>2. simTold'[i][s] = IF s \in simConnected[i] \cap Sim!Forwarded
        /\ d[s] # simData[s] THEN d[s] ELSE simTold[i][s]
    BY <1>4 DEF Sim!Hear
  <2>3. simTold[i][s] \in {None, simData[s]} /\ (s \notin simConnected[i] => simTold[i][s] = None)
    BY DEF SimInv, Unread, Sim!ReadsMatchReports
  <2> QED BY <1>4, <2>2, <2>3
<1> QED BY <1>6, <1>9, <1>10, <1>11 DEF SimInv, Sim!ReadsMatchReports

LEMMA SimPreserves == SimInv /\ [Sim!Next]_(Sim!vars) => SimInv'
<1> SUFFICES ASSUME SimInv, [Sim!Next]_(Sim!vars) PROVE SimInv'
  OBVIOUS
<1>1. ASSUME NEW i \in User, NEW n \in SimIndex \cup {None}, Sim!Create(i, n) PROVE SimInv'
  <2>1. Sim!TypeOK'
    <3>1. CASE connection = "none"
      BY <1>1, <3>1, SimAssumption DEF SimInv, Sim!TypeOK, Sim!Create, Sim!SetIndex
    <3>2. CASE connection = "waiting"
      BY <1>1, <3>2, SimAssumption DEF SimInv, Sim!TypeOK, Sim!Create, Sim!SetIndex
    <3>3. CASE connection \in {"made", "refused"}
      BY <1>1, <3>3, SimAssumption DEF SimInv, Sim!TypeOK, Sim!Create, Sim!SetIndex
    <3> QED BY <3>1, <3>2, <3>3 DEF SimInv, Sim!TypeOK
  <2> QED BY <1>1, <2>1 DEF SimInv, Unread, Sim!ReadsMatchReports, Sim!Create, Sim!LevelOf
<1>2. CASE Sim!Receive
  BY <1>2, StoreInv
<1>3. CASE Sim!Timeout
  <2>1. Sim!TypeOK'
    BY <1>3, Loop DEF Sim!Timeout, SimInv, Sim!TypeOK
  <2> QED BY <1>3, <2>1 DEF SimInv, Unread, Sim!ReadsMatchReports, Sim!Timeout, Sim!LevelOf
<1>4. ASSUME NEW i \in User, NEW n \in SimIndex, Sim!SetBatteryIndex(i, n) PROVE SimInv'
  <2>1. Sim!TypeOK'
    BY <1>4, SimAssumption DEF Sim!SetBatteryIndex, SimInv, Sim!TypeOK, Sim!Change
  <2> QED BY <1>4, <2>1 DEF SimInv, Unread, Sim!ReadsMatchReports, Sim!SetBatteryIndex, Sim!LevelOf
<1>5. ASSUME NEW i \in User, NEW s \in SimSignal, Sim!Connect(i, s) PROVE SimInv'
  <2> DEFINE new == IF Sim!IsValid THEN Sim!Answer(s) ELSE None
  <2>1. /\ simConnected' = [simConnected EXCEPT ![i] = simConnected[i] \cup {s}]
        /\ simTold' = [simTold EXCEPT ![i][s] = new]
        /\ simChanges' \in 0..MaxSimChanges
        /\ UNCHANGED <<simData, simIndex, simReported, connection, infos, making, stuck, simInbox>>
    BY <1>5, SimAssumption DEF Sim!Connect, Sim!Change, SimInv, Sim!TypeOK
  <2>2. new \in Int \cup {None} /\ (s \in Sim!Forwarded => new \in {None, simData[s]})
    <3>1. CASE Sim!IsValid
      <4>1. simIndex = 0
        BY <3>1, SimAssumption DEF Sim!IsValid, Sim!BatteryCount, SimInv, Sim!TypeOK
      <4>2. CASE s = "level"
        BY <3>1, <4>1, <4>2, LevelInt DEF Sim!Answer, Sim!Get, Sim!Forwarded, Sim!Plain, SimInv,
          Sim!TypeOK
      <4>3. CASE s # "level"
        BY <3>1, <4>1, <4>3, SimAssumption DEF Sim!Answer, Sim!Get, SimInv, Sim!TypeOK
      <4> QED BY <4>2, <4>3
    <3>2. CASE ~Sim!IsValid
      BY <3>2
    <3> QED BY <3>1, <3>2
  <2> HIDE DEF new
  <2>3. Sim!TypeOK'
    BY <2>1, <2>2 DEF SimInv, Sim!TypeOK
  <2>4. Unread'
    BY <2>1 DEF SimInv, Sim!TypeOK, Unread
  <2>5. Sim!ReadsMatchReports'
    BY <2>1, <2>2 DEF SimInv, Sim!TypeOK, Sim!ReadsMatchReports, Sim!LevelOf
  <2> QED BY <2>3, <2>4, <2>5 DEF SimInv
<1>6. ASSUME NEW i \in User, NEW s \in SimSignal, Sim!Disconnect(i, s) PROVE SimInv'
  <2>1. /\ simConnected' = [simConnected EXCEPT ![i] = simConnected[i] \ {s}]
        /\ simTold' = [simTold EXCEPT ![i][s] = None]
        /\ simChanges' \in 0..MaxSimChanges
        /\ UNCHANGED <<simData, simIndex, simReported, connection, infos, making, stuck, simInbox>>
    BY <1>6, SimAssumption DEF Sim!Disconnect, Sim!Change, SimInv, Sim!TypeOK
  <2>3. Sim!TypeOK'
    BY <2>1 DEF SimInv, Sim!TypeOK
  <2>4. Unread'
    BY <2>1 DEF SimInv, Sim!TypeOK, Unread
  <2>5. Sim!ReadsMatchReports'
    BY <2>1 DEF SimInv, Sim!TypeOK, Sim!ReadsMatchReports, Sim!LevelOf
  <2> QED BY <2>3, <2>4, <2>5 DEF SimInv
<1>7. ASSUME NEW packet \in Packets, Sim!Send(packet) PROVE SimInv'
  <2>1. Sim!TypeOK'
    BY <1>7, SimAssumption DEF Sim!Send, SimInv, Sim!TypeOK, Sim!Change
  <2> QED BY <1>7, <2>1 DEF SimInv, Unread, Sim!ReadsMatchReports, Sim!Send, Sim!LevelOf
<1>8. CASE UNCHANGED Sim!vars
  BY <1>8 DEF Sim!vars, SimInv, Sim!TypeOK, Unread, Sim!ReadsMatchReports, Sim!LevelOf
<1> QED BY <1>1, <1>2, <1>3, <1>4, <1>5, <1>6, <1>7, <1>8 DEF Sim!Next
=============================================================================
