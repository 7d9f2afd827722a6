------------------------------- MODULE ServiceLists -------------------------------
(***************************************************************************)
(* The QML elements that list services: ServiceFilter                      *)
(* (qdeclarativeservice.cpp) and the older ServiceList                     *)
(* (qdeclarativeserviceold.cpp).  Both query again when a criterion        *)
(* changes, and while monitorServiceRegistrations is set also when the     *)
(* service manager tells of a registration.  ServiceFilter keeps a manager *)
(* only while it monitors; ServiceList always has one.                     *)
(***************************************************************************)
EXTENDS Naturals

CONSTANTS Element,     \* a subset of {"ServiceFilter", "ServiceList"}
          Descriptor,
          Criteria,    \* sets of descriptors, what a filter may let through
          Reentrant,   \* a handler of monitorServiceRegistrationsChanged may set a criterion
          MaxChanges

VARIABLES
  element,     \* which of the two it is
  registered,  \* the services the databases hold
  criterion, componentComplete,
  monitor,     \* monitorServiceRegistrations
  manager,     \* m_serviceManager # 0
  connections, \* from its serviceAdded and serviceRemoved to servicesAddedRemoved
  signals,     \* a serviceAdded or serviceRemoved is under way to the manager
  queued,      \* updateServiceList is queued
  list,
  owed,        \* registered changed while monitoring, and the list did not yet
  changes

vars == <<element, registered, criterion, componentComplete, monitor, manager,
          connections, signals, queued, list, owed, changes>>

TypeOK ==
  /\ element \in Element
  /\ registered \subseteq Descriptor /\ list \subseteq Descriptor
  /\ criterion \in Criteria
  /\ componentComplete \in BOOLEAN /\ monitor \in BOOLEAN /\ manager \in BOOLEAN
  /\ connections \in 0..MaxChanges
  /\ signals \in BOOLEAN /\ queued \in BOOLEAN /\ owed \in BOOLEAN
  /\ changes \in 0..MaxChanges

\* ServiceList leaves m_dynamicUpdates uninitialised.
Init ==
  /\ element \in Element
  /\ registered \in SUBSET Descriptor
  /\ criterion \in Criteria
  /\ componentComplete = FALSE
  /\ monitor \in {FALSE, element = "ServiceList"}
  /\ manager = (element = "ServiceList")
  /\ connections = 0
  /\ signals = FALSE /\ queued = FALSE
  /\ list = {}
  /\ owed = FALSE
  /\ changes = 0

Matching(c) == registered \cap c
Change == changes < MaxChanges /\ changes' = changes + 1

\* The manager a query leaves behind.
ManagerKept(monitoring) == element = "ServiceList" \/ monitoring

\* updateServiceList, updateFilterResults: nothing before the component is
\* complete.
Update(c, monitoring, hasManager, connected) ==
  IF componentComplete
  THEN /\ list' = Matching(c)
       /\ manager' = ManagerKept(monitoring)
       /\ connections' = IF ManagerKept(monitoring) THEN connected ELSE 0
  ELSE manager' = hasManager /\ connections' = connected /\ UNCHANGED list

SetCriterion(c) ==
  /\ Change /\ c # criterion
  /\ criterion' = c
  /\ Update(c, monitor, manager, connections)
  /\ owed' = (owed /\ ~componentComplete)
  /\ UNCHANGED <<element, registered, componentComplete, monitor, signals, queued>>

\* monitorServiceRegistrationsChanged is emitted before the property has its new
\* value.  ServiceList's disconnect names the wrong sender, and does nothing.
SetMonitor(updates) ==
  LET isFilter == element = "ServiceFilter"
      has == ~isFilter \/ updates
      connected == IF updates THEN connections + 1
                   ELSE IF isFilter THEN 0 ELSE connections
  IN
  /\ Change
  /\ isFilter => updates # monitor
  /\ monitor' = updates
  /\ \/ manager' = has /\ connections' = connected /\ UNCHANGED <<criterion, list>>
     \/ /\ Reentrant /\ updates # monitor
        /\ \E c \in Criteria \ {criterion} :
             criterion' = c /\ Update(c, monitor, has, connected)
  /\ owed' = (owed /\ updates)
  /\ UNCHANGED <<element, registered, componentComplete, signals, queued>>

ComponentComplete ==
  /\ ~componentComplete
  /\ componentComplete' = TRUE
  /\ list' = Matching(criterion)
  /\ manager' = ManagerKept(monitor)
  /\ connections' = IF ManagerKept(monitor) THEN connections ELSE 0
  /\ owed' = FALSE
  /\ UNCHANGED <<element, registered, criterion, monitor, signals, queued, changes>>

\* A service is registered or removed.
Registration(d) ==
  /\ Change
  /\ registered' = IF d \in registered THEN registered \ {d} ELSE registered \cup {d}
  /\ signals' = (signals \/ connections > 0)
  /\ owed' = (owed \/ (monitor /\ componentComplete /\ (element = "ServiceFilter" \/ connections > 0)))
  /\ UNCHANGED <<element, criterion, componentComplete, monitor, manager, connections,
                 queued, list>>

\* serviceAdded or serviceRemoved arrives: servicesAddedRemoved, when connected,
\* queues the query.
ServicesAddedRemoved ==
  /\ signals
  /\ signals' = FALSE
  /\ queued' = (queued \/ connections > 0)
  /\ UNCHANGED <<element, registered, criterion, componentComplete, monitor, manager,
                 connections, list, owed, changes>>

UpdateServiceList ==
  /\ queued
  /\ queued' = FALSE
  /\ Update(criterion, monitor, manager, connections)
  /\ owed' = (owed /\ ~componentComplete)
  /\ UNCHANGED <<element, registered, criterion, componentComplete, monitor, signals, changes>>

Next ==
  \/ \E c \in Criteria : SetCriterion(c)
  \/ \E b \in BOOLEAN : SetMonitor(b)
  \/ ComponentComplete
  \/ \E d \in Descriptor : Registration(d)
  \/ ServicesAddedRemoved \/ UpdateServiceList

Spec == Init /\ [][Next]_vars
-----------------------------------------------------------------------------
\* While an element monitors, a registration reaches its list: what the list
\* does not show yet is under way to it ("the list will be automatically updated
\* when a service is added or removed").
RegistrationsReachList == owed => (signals /\ connections > 0) \/ queued

\* Who does not monitor is not updated.
\* (The code does not keep it; no run checks it.)
UnmonitoredIsLeft == ~monitor => connections = 0
=============================================================================
