-------------------------- MODULE DeclarativeNetworkInfo --------------------------
(***************************************************************************)
(* The QML element NetworkInfo (qdeclarativenetworkinfo.cpp): each signal  *)
(* of QNetworkInfo is connected to a signal of the element while the       *)
(* property monitor<Signal> is set.  Six of the signals are connected by   *)
(* the constructor as well, so that the element used before the property   *)
(* was there keeps working.                                                *)
(***************************************************************************)
EXTENDS Naturals, FiniteSets

CONSTANTS Signal, Obsolete,  \* the signals; those the constructor connects
          MaxChanges         \* bound on what happens

VARIABLES
  monitor,      \* the properties
  connections,  \* per signal, how many connections lead to the element's signal
  emitted,      \* per signal, how often the source emitted while monitored
  heard,        \* per signal, how often the application's handler was called
  changes

vars == <<monitor, connections, emitted, heard, changes>>

TypeOK ==
  /\ monitor \in [Signal -> BOOLEAN]
  /\ connections \in [Signal -> 0..2]
  /\ emitted \in [Signal -> 0..MaxChanges]
  /\ heard \in [Signal -> 0..2 * MaxChanges]
  /\ changes \in 0..MaxChanges

Init ==
  /\ monitor = [s \in Signal |-> FALSE]
  /\ connections = [s \in Signal |-> IF s \in Obsolete THEN 1 ELSE 0]
  /\ emitted = [s \in Signal |-> 0] /\ heard = [s \in Signal |-> 0]
  /\ changes = 0

Change == changes < MaxChanges /\ changes' = changes + 1

\* Mutant: disconnect names another slot than connect.
ConnectedBeside(s, on) == connections[s] + (IF on THEN 1 ELSE 0)

\* connect adds a connection, disconnect takes away every one.
Connected(s, on) == IF on THEN connections[s] + 1 ELSE 0

\* setMonitor<Signal>
SetMonitor(s, on) ==
  /\ Change
  /\ on # monitor[s]
  /\ monitor' = [monitor EXCEPT ![s] = on]
  /\ connections' = [connections EXCEPT ![s] = Connected(s, on)]
  /\ UNCHANGED <<emitted, heard>>

\* QNetworkInfo emits: cellIdChanged and the like arrive as they are, those with
\* an enumeration through a slot that emits.
Emitted(s) ==
  /\ Change
  /\ emitted' = [emitted EXCEPT ![s] = @ + (IF monitor[s] THEN 1 ELSE 0)]
  /\ heard' = [heard EXCEPT ![s] = @ + connections[s]]
  /\ UNCHANGED <<monitor, connections>>

Next == \E s \in Signal : Emitted(s) \/ \E on \in BOOLEAN : SetMonitor(s, on)

Spec == Init /\ [][Next]_vars
-----------------------------------------------------------------------------
\* A signal the constructor leaves alone is heard once each time it is emitted
\* while it is monitored, and never else.
HeardWhileMonitored == \A s \in Signal \ Obsolete : heard[s] = emitted[s]

\* "Note that it won't be called unless monitorCellId is set true" is said of
\* every signal.
\* (The code does not keep it; no run checks it.)
SilentUnlessMonitored == \A s \in Signal : heard[s] = emitted[s]
=============================================================================
